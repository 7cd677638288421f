SPECIFICATION FairSpec
CONSTANTS
  k1 = k1
  k2 = k2
  a1 = a1
  a2 = a2
  Keys = {k1, k2}
  Attrs = {a1, a2}
  Batches <- MCBatches
  Requests = {r1, r2}
  NoRow = NoRow
  Free = Free
  MaxClock = 3
  MaxBurn = 2
INVARIANTS
  AnsweredStored
  AnswerMatchesBatch
  IInv
PROPERTIES
  RowsSurvive
  WholeBatch
  StampsMonotone
  TablePromise
  EveryRequestEnds
