\* static_tile_fps 16 of 60 (interval 3, the default) and dynamic_tile_fps 30 (interval 2).
SPECIFICATION FairSpec
CONSTANTS
  c1 = c1
  c2 = c2
  e1 = e1
  e2 = e2
  o1 = o1
  Cell <- MCCell
  Grids <- MCGrids
  Even <- MCEven
  Odd <- MCOdd
  NoHash = NoHash
  StaticInterval = 3
  DynamicInterval = 2
INVARIANTS ArmedCellIsForced HeldCellIsRefreshed
PROPERTIES ArmedCellIsSent StillScreenIsShown
