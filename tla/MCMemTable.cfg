\* Groups applied shard by shard, with Stats in between.
SPECIFICATION TableSpec
CONSTANTS
  k1 = k1
  k2 = k2
  k3 = k3
  v1 = v1
  Deleted = Deleted
  Limit32 = 9
  Keys <- MCKeys
  Values = {v1}
  ShardCount = 2
  ShardFor <- MCShardFor
  Groups <- MCGroups
  MaxGroups = 3
INVARIANTS
  TableTypeOK
  ApplyIsLastWins
  NoIntermediateValue
  StatsBounded
PROPERTY
  SequencesGrow
