SPECIFICATION PoolFairSpec
CONSTANTS
  t1 = t1
  t2 = t2
  t3 = t3
  t4 = t4
  t5 = t5
  t6 = t6
  w1 = w1
  Tile <- MCTile3
  Worker <- MCWorker
  MaxHeld = 5
  SlowWorkers = TRUE
INVARIANTS NothingLostInPool UnskewedIsFresh
PROPERTY ProcessReturns
