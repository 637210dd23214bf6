\* With and without SQPOLL and faults; with faults closeRing may hang.
SPECIFICATION FairSpec
CONSTANTS
  t1 = t1
  t2 = t2
  t3 = t3
  a1 = a1
  a2 = a2
  a3 = a3
  Closer = Closer
  None = None
  Tasks = {t1, t3}
  Linked = {t1}
  Addrs = {a1, a2}
  Entries = 2
  Wrap = 4
  SqPollModes = {FALSE, TRUE}
  FaultSets = {{}, {"enter"}, {"reorder"}, {"setup", "separate"}}
CHECK_DEADLOCK FALSE
INVARIANTS
  TypeOK
  RingFifo
  MappedWhileUsed
  ReleasedOnce
  BuffersAlive
  SubmittedSuccessIsSynced
  ResumedOnce
PROPERTIES
  EveryOperationReturns
  CloseTerminates
