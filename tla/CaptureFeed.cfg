SPECIFICATION FeedFairSpec
CONSTANTS
  Size = {small, large}
  Format = {xrgb, tiled}
  Linear = {xrgb}
  None = None
  MaxChanges = 2
INVARIANT FrameProtocol
PROPERTIES FreshlyCopied StillScreenIsSeen CaptureEnds
CHECK_DEADLOCK FALSE
