\* A coroutine that calls the blocking Put from its continuation.
SPECIFICATION FairSpec
CONSTANTS
  c1 = c1
  c2 = c2
  c3 = c3
  None = None
  Clients <- MCTwoClients
  AsyncClients <- MCAsyncClients
  BlockingClients <- MCBlocking
  MaxWrites = 2
  TargetSize = 2
  Adaptive = TRUE
  HighTargetSize = 2
  HighThreshold = 2
\* The run is about the engine coming to a halt.
CHECK_DEADLOCK FALSE
PROPERTY
  BlockingPutReturns
