\* Two blocking callers and a coroutine, two writes each, adaptive windows.
SPECIFICATION Spec
CONSTANTS
  c1 = c1
  c2 = c2
  c3 = c3
  None = None
  Clients <- MCClients
  AsyncClients <- MCAsyncClients
  BlockingClients = {}
  MaxWrites = 2
  TargetSize = 2
  Adaptive = TRUE
  HighTargetSize = 3
  HighThreshold = 2
INVARIANTS
  ScratchOwned
  FifoNoLoss
  SuspendedAccounted
  NoLostWakeup
  ShutdownDrains
