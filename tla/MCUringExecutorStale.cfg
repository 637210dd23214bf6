\* Failing submissions.
SPECIFICATION Spec
CONSTANTS
  t1 = t1
  t2 = t2
  t3 = t3
  a1 = a1
  a2 = a2
  a3 = a3
  Closer = Closer
  None = None
  Tasks = {t1, t2, t3}
  Linked = {t1, t2}
  Addrs = {a1, a2, a3}
  Entries = 4
  Wrap = 8
  SqPollModes = {FALSE}
  FaultSets = {{"enter"}}
CHECK_DEADLOCK FALSE
INVARIANT
  SuccessIsSynced
