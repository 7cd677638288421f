SPECIFICATION LifeFairSpec
CONSTANTS
  k1 = k1
  k2 = k2
  a1 = a1
  a2 = a2
  Keys = {k1, k2}
  Attrs = {a1, a2}
  Batches <- MCBatches
  Requests = {r1, r2}
  NoRow = NoRow
  Free = Free
  MaxClock = 3
  MaxBurn = 0
  Grace = 1
  MaxWal = 2
  MaxLosses = 1
INVARIANTS
  LifeInv
  GracefulCutsNothing
  StoppedIsDurable
PROPERTIES
  StopEnds
