SPECIFICATION CanvasFairSpec
CONSTANTS
  c1 = c1
  c2 = c2
  small = small
  Cell <- MCCell
  Size <- MCSize
  NoSize = NoSize
  MaxBatches = 2
  MaxChannels = 2
  MaxFailed = 1
  MaxLag = 1
INVARIANTS UnmixedAckIsHonest DecodedIsNotLost
PROPERTIES CompleteIsAcked DecodedIsDrawn
CHECK_DEADLOCK FALSE
