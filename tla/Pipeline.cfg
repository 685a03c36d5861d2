SPECIFICATION FairSpec
CONSTANTS
  e1 = e1
  e2 = e2
  o1 = o1
  Cell <- MCCell
  Even <- MCEven
  Odd <- MCOdd
  Sizes <- MCSizes
  Moving <- MCMoving
  Backdrop <- MCBackdrop
  NoHash = NoHash
  StaticInterval = 2
  DynamicInterval = 1
  MaxMerge = 3
  MergeGap = 0
  MinScale = 1
  MaxScale = 2
  Backoff = 1
  Recover = 1
  RecoverAfter = 2
INVARIANT BytesAreCurrent BlurIsRearmed
PROPERTY StillGetsSharp FlakyLinkTrendsDown
