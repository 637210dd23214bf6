\* The durable write path and recovery under four kinds of trouble.
SPECIFICATION Spec
CONSTANTS
  k1 = k1
  k2 = k2
  v1 = v1
  Deleted = Deleted
  Limit32 = 3
  MaxTransfer = 3
  Keys = {k1, k2}
  Values = {v1}
  Groups <- MCGroups
  FaultSets <- MCFaultSets
  MaxGroups = 3
  MaxOpens = 3
INVARIANTS
  AckedReadable
  NoPhantom
  MemMatchesLog
  SequencesIncrease
  CrashTailTolerated
  VisibleIsDurable
PROPERTIES
  ImplementsDurableStore
  SequenceAdvance
