\* run against the end of the coroutine on another thread.
SPECIFICATION Spec
CONSTANTS
  t1 = t1
  t2 = t2
  s1 = s1
  s2 = s2
  s3 = s3
  None = None
  Tasks <- MCTasks
  Awaited <- MCAwaited
  Slots <- MCSlots
INVARIANT
  RunRunsToCompletion
