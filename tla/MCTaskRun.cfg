\* Results, notifications and progress of run and co_await.
SPECIFICATION FairSpec
CONSTANTS
  t1 = t1
  t2 = t2
  s1 = s1
  s2 = s2
  s3 = s3
  None = None
  Tasks <- MCTasks
  Awaited <- MCAwaited
  Slots <- MCSlots
INVARIANTS
  OwnedOnce
  ResultDelivered
  AwaitRunsToCompletion
PROPERTY
  EveryRunReturns
