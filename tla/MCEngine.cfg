\* A thread and a coroutine over failing syncs, crashes and restarts.
SPECIFICATION FairEngineSpec
CONSTANTS
  c1 = c1
  c2 = c2
  k1 = k1
  k2 = k2
  v1 = v1
  v2 = v2
  None = None
  Deleted = Deleted
  Clients = {c1, c2}
  AsyncClients = {c2}
  BlockingClients = {}
  MaxWrites = 2
  TargetSize = 2
  Adaptive = TRUE
  HighTargetSize = 2
  HighThreshold = 2
  Keys = {k1, k2}
  Values = {v1, v2}
  Limit32 = 9
  MaxTransfer = 9
  MaxGroups = 4
  Batch <- MCBatch
  FaultSets = {{"sync"}, {"crash"}}
  MaxOpens = 2
INVARIANTS
  ReturnedReadable
  FailedInvisible
PROPERTIES
  EveryCallReturns
  DestructorReturns
  ImplementsWalStore
