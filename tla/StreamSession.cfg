SPECIFICATION FairSpec
CONSTANTS
  c1 = c1
  c2 = c2
  e1 = e1
  o1 = o1
  small = small
  large = large
  Cell <- MCCell
  Size <- MCSize
  Grid <- MCGrid
  NoSize = NoSize
  Even <- MCEven
  Odd <- MCOdd
  NoHash = NoHash
  StaticInterval = 3
  DynamicInterval = 1
  QueueCap = 1
  MaxFrames = 3
INVARIANTS NoCellForgotten EpochNamesGrid
PROPERTIES LostCellIsResent HalvesEndTogether DeliversEveryCell
CHECK_DEADLOCK FALSE
