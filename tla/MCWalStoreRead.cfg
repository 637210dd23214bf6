\* The read of recovery may be short.
SPECIFICATION Spec
CONSTANTS
  k1 = k1
  k2 = k2
  v1 = v1
  Deleted = Deleted
  Limit32 = 9
  MaxTransfer = 9
  Keys = {k1, k2}
  Values = {v1}
  Groups <- MCGroups
  FaultSets = {{"read"}}
  MaxGroups = 3
  MaxOpens = 3
INVARIANT
  ReadableAfterRecovery
