------------------------------- MODULE MemTable ------------------------------
(***************************************************************************)
(* internal::MemTable (src/src/memtable.cc): keys are spread over shards,  *)
(* each with a reader-writer lock of its own.  ApplyBatches first sorts    *)
(* the entries of a group into one scratch list per shard and then applies *)
(* list after list, so other threads see the table between two shards.     *)
(* Stats visits the shards one by one, too.                                *)
(*                                                                         *)
(* ApplyBatches is called by one thread at a time (module GroupCommit);    *)
(* the scratch belongs to the caller and is reused for the next group.     *)
(***************************************************************************)
EXTENDS WalFormat, FiniteSets

CONSTANTS
  ShardCount,  \* kShardCount
  ShardFor,    \* shardFor: key -> shard
  Groups,      \* the entry sequences of the groups that may be applied
  MaxGroups    \* bound: groups applied

Shards == 1..ShardCount

ASSUME MemTableAssumption ==
  /\ IsFiniteSet(Keys)
  /\ ShardCount \in Nat \ {0}
  /\ ShardFor \in [Keys -> Shards]
  /\ Groups \subseteq Seq(Entry)
  /\ MaxGroups \in Nat

VARIABLES
  table,     \* the entries of all shards: key -> [seq, val], seq 0 if absent
  group,     \* the entries of the batches that ApplyBatches was called with
  entry,     \* position of the loop over the entries, 0 outside ApplyBatches
  sequence,  \* sequence of ApplyBatches
  scratch,   \* PendingUpdates: shard -> updates
  shard,     \* shardIndex of the loop over the shards, 0 outside ApplyBatches
  locks,     \* applyShardLocks_
  applies,   \* applyLocks_
  next,      \* nextSequence_ of the caller, the baseSequence of a group
  scan,      \* Stats: the shard it visits next, 0 outside of it
  counted,   \* Stats: stats.entries so far
  before,    \* history: the table before the group in progress
  after,     \* history: what the group in progress makes of it
  atStart    \* history: entries in the table when Stats began

call       == <<group, entry, sequence, scratch, shard>>
history    == <<before, after>>
writerVars == <<table, call, locks, applies, next, history>>
statsVars  == <<scan, counted, atStart>>
tableVars  == <<writerVars, statsVars>>

Empty == [k \in Keys |-> Untouched]

TableInit ==
  /\ table = Empty /\ before = Empty /\ after = Empty
  /\ scratch = [s \in Shards |-> <<>>]
  /\ group = <<>> /\ entry = 0 /\ sequence = 0
  /\ shard = 0 /\ locks = 0 /\ applies = 0 /\ next = FirstSequence
  /\ scan = 0 /\ counted = 0 /\ atStart = 0

Update == [key : Keys, val : Values \cup {Deleted}, seq : Nat]

\* ApplyBatches is called, by writeGroup, for the entries g.
ApplyBatches(g) ==
  /\ entry = 0
  /\ applies < MaxGroups
  /\ applies' = applies + 1
  /\ group' = g /\ entry' = 1 /\ shard' = 1
  /\ sequence' = next
  /\ before' = table
  /\ after' = ApplyRecord(table, [base |-> next, entries |-> g])
  /\ UNCHANGED <<table, scratch, locks, next, statsVars>>

\* One iteration of the loop that fills the scratch.
Distribute ==
  /\ entry \in DOMAIN group
  /\ scratch' = [scratch EXCEPT ![ShardFor[group[entry].key]] =
                  Append(@, [key |-> group[entry].key, val |-> group[entry].val,
                             seq |-> sequence])]
  /\ sequence' = sequence + 1
  /\ entry' = entry + 1
  /\ UNCHANGED <<table, group, shard, locks, applies, next, history, statsVars>>

\* Mutant: the first update of a key wins.
Winner_First(hits) == CHOOSE i \in hits : \A j \in hits : i <= j

\* The update that is left standing when the updates at the positions in hits
\* are made in order.
Winner(hits) == CHOOSE i \in hits : \A j \in hits : j <= i

\* What the updates of one shard make of the table.
Applied(us) ==
  [k \in Keys |->
    LET hits == {i \in DOMAIN us : us[i].key = k} IN
    IF hits = {} THEN table[k]
    ELSE [seq |-> us[Winner(hits)].seq, val |-> us[Winner(hits)].val]]

\* Mutant: the scratch list is not cleared, the next group applies it again.
Cleared_Not(s) == scratch

Cleared(s) == [scratch EXCEPT ![s] = <<>>]

\* A shard without updates is not locked.
LockCount(s) == IF scratch[s] = <<>> THEN 0 ELSE 1

\* One iteration of the loop over the shards.
ApplyShard ==
  /\ entry = Len(group) + 1
  /\ shard \in Shards
  /\ table' = Applied(scratch[shard])
  /\ locks' = locks + LockCount(shard)
  /\ scratch' = Cleared(shard)
  /\ shard' = shard + 1
  /\ UNCHANGED <<group, entry, sequence, applies, next, history, statsVars>>

\* Mutant: the next group starts one number further on.
AfterGroup_One(g) == next + 1

\* writeGroup advances nextSequence_ by the entries of the group.
AfterGroup(g) == next + Len(g)

\* ApplyBatches returns to writeGroup.
Return ==
  /\ shard = ShardCount + 1
  /\ group' = <<>> /\ entry' = 0 /\ shard' = 0
  /\ next' = AfterGroup(group)
  /\ UNCHANGED <<table, sequence, scratch, locks, applies, history, statsVars>>

\* Get, which reads under the lock of the shard: NotFound for a key that was
\* never written and for one that was deleted.
NotFound == "not found"
Get(t, k) == IF t[k].seq = 0 \/ t[k].val = Deleted THEN NotFound ELSE t[k].val

Present(S) == {k \in Keys : ShardFor[k] \in S /\ table[k] /= Untouched}

StatsBegin ==
  /\ scan = 0
  /\ scan' = 1
  /\ counted' = 0
  /\ atStart' = Cardinality(Present(Shards))
  /\ UNCHANGED writerVars

\* Mutant: the first shard is counted again and again.
StatsShards_First == {1}

StatsShards == {scan}

StatsShard ==
  /\ scan \in Shards
  /\ counted' = counted + Cardinality(Present(StatsShards))
  /\ scan' = IF scan = ShardCount THEN 0 ELSE scan + 1
  /\ UNCHANGED <<writerVars, atStart>>

TableNext ==
  \/ \E g \in Groups : ApplyBatches(g)
  \/ Distribute
  \/ ApplyShard
  \/ Return
  \/ StatsBegin
  \/ StatsShard

TableSpec == TableInit /\ [][TableNext]_tableVars
-----------------------------------------------------------------------------
MemEntry == [seq : Nat, val : Values \cup {Deleted}]

\* Every variable has the type of the member or local it stands for.
TableTypeOK ==
  /\ table \in [Keys -> MemEntry]
  /\ group \in Seq(Entry)
  /\ entry \in 0..Len(group) + 1
  /\ sequence \in Nat
  /\ scratch \in [Shards -> Seq(Update)]
  /\ shard \in 0..ShardCount + 1
  /\ locks \in 0..applies * ShardCount
  /\ next \in Nat \ {0}
  /\ scan \in 0..ShardCount
  /\ counted \in 0..Cardinality(Keys)

\* The group is applied in sequence order although it is applied shard by
\* shard: the loops leave what one entry after the other would have left, and
\* nothing in the scratch.
ApplyIsLastWins ==
  shard \in {0, ShardCount + 1} => table = after /\ \A s \in Shards : scratch[s] = <<>>

\* What Get returns of a group in progress is, key by key, what it returned
\* before the group or what it returns after it; an entry that a later one of
\* the same group overwrites is never seen.
NoIntermediateValue ==
  \A k \in Keys : Get(table, k) \in {Get(before, k), Get(after, k)}

\* Get never goes back: the sequence number of a key only grows.
SequencesGrow == [][\A k \in Keys : table[k].seq <= table'[k].seq]_tableVars

\* While groups are applied, Stats counts at least the entries there were when
\* it began and at most those there are when it ends.
StatsBounded ==
  scan = 0 => counted <= Cardinality(Present(Shards)) /\ atStart <= counted
=============================================================================
