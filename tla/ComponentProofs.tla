--------------------------- MODULE ComponentProofs ---------------------------
(***************************************************************************)
(* Proofs about the two components that stand by themselves.  TaskRun, for *)
(* every number of coroutines and Task objects: who owns a frame, that no  *)
(* completion is missed, and that the result arrives.  MemTable, for every *)
(* number of shards and every spreading of the keys: a group applied shard *)
(* by shard is last-wins and shows no intermediate value, and Stats counts *)
(* within bounds.                                                          *)
(***************************************************************************)
EXTENDS TaskRun, MemTable, FiniteSetTheorems, SequenceTheorems, WellFoundedInduction, TLAPS

\* The provers of a leaf that names none.
USE SMTT(30), Zenon

USE DEF AfterThrow, AfterLock, Exchanged, Notified, OwnerTo, BodyTo

(***************************************************************************)
(* TaskRun.                                                                *)
(***************************************************************************)

\* At most one Task object holds a coroutine; one does as long as the frame
\* exists, and its started_ tells whether the coroutine was resumed.
Handles ==
  /\ \A s, r \in Slots : handle[s] /= None /\ handle[s] = handle[r] => s = r
  /\ \A s \in Slots : handle[s] /= None => frame[handle[s]]
  /\ \A t \in Tasks : frame[t] => \E s \in Slots : handle[s] = t
  /\ \A s \in Slots : handle[s] /= None => (started[s] <=> body[handle[s]] /= "created")

Past == {"notify", "transfer", "done", "wild"}

\* Where the owner and the coroutine may be at the same time.
Together(t) ==
  /\ frame[t] <=> owner[t] /= "gone"
  /\ owner[t] = "holding" => body[t] = "created"
  /\ body[t] = "created" => owner[t] \in {"holding", "gone"}
  /\ completed[t] <=> body[t] \in Past
  /\ outcome[t] = "none" <=> body[t] \in {"created", "running"}
  /\ owner[t] = "taking" => completed[t]
  /\ owner[t] = "gone" /\ body[t] /= "created" => completed[t] /\ got[t] = outcome[t]
  /\ owner[t] = "asleep" /\ completed[t] => body[t] = "notify"

\* co_await: the continuation stands in the promise, and only the symmetric
\* transfer lets the awaiting coroutine go on.
Awaiting(t) ==
  /\ cont[t] <=> t \in Awaited /\ body[t] /= "created"
  /\ t \in Awaited => /\ owner[t] \in {"holding", "awaiting", "taking", "gone"}
                      /\ owner[t] = "awaiting" => body[t] \notin {"created", "done", "wild"}
                      /\ owner[t] = "taking" => body[t] = "done"
                      /\ owner[t] = "gone" => body[t] \in {"created", "done"}
  /\ t \notin Awaited => owner[t] /= "awaiting"

\* The inductive invariant.
TaskInv ==
  TypeOK /\ Handles /\ \A t \in Tasks : Together(t) /\ Awaiting(t)

-----------------------------------------------------------------------------
LEMMA TaskInvInit == Init => TaskInv
<1> SUFFICES ASSUME Init PROVE TaskInv
  OBVIOUS
<1>1. TypeOK
  BY DEF Init, TypeOK, BodyPcs, OwnerPcs
<1>2. ASSUME NEW t \in Tasks
      PROVE  \E s \in Slots : Holders(t) = {s}
  <2>1. IsFiniteSet(Holders(t)) /\ Cardinality(Holders(t)) = 1
    BY FS_Subset, TaskAssumption DEF Init, Holders
  <2>2. PICK s : Holders(t) = {s}
    BY <2>1, FS_Singleton, Zenon
  <2>3. QED
    BY <2>2 DEF Holders
<1>3. Handles
  BY <1>2, TaskAssumption DEF Init, Handles, Holders
<1>4. ASSUME NEW t \in Tasks PROVE Together(t) /\ Awaiting(t)
  BY DEF Init, Together, Awaiting, Past
<1>5. QED
  BY <1>1, <1>3, <1>4 DEF TaskInv

LEMMA TypeStep ==
  ASSUME TaskInv, [Next]_vars
  PROVE  TypeOK'
<1> USE DEF TaskInv, TypeOK, BodyPcs, OwnerPcs, slots
<1>1. ASSUME NEW s \in Slots, Drop(s) \/ Run(s) \/ Await(s)
      PROVE  TypeOK'
  BY <1>1, ZenonT(30) DEF Drop, Run, Await, Starts, Destroy
<1>2. ASSUME NEW s \in Slots, NEW r \in Slots, Move(s, r)
      PROVE  TypeOK'
  BY <1>2, Zenon DEF Move, Destroy
<1>3. ASSUME NEW t \in Tasks, SpuriousWakeup(t) \/ OwnerStep(t)
      PROVE  TypeOK'
  <2>1. CASE TakeResult(t)
    <3>1. (started \in [Slots -> BOOLEAN])'
      BY <2>1 DEF TakeResult
    <3>2. QED
      BY <2>1, <3>1 DEF TakeResult, Destroy
  <2>2. QED
    BY <1>3, <2>1 DEF SpuriousWakeup, OwnerStep, Started, Wait, MayReturn
<1>4. ASSUME NEW t \in Tasks, BodyStep(t)
      PROVE  TypeOK'
  BY <1>4, ZenonT(30) DEF BodyStep, ReturnValue, UnhandledException, FinalLock,
     FinalNotify, FinalTransfer, UsePromise
<1>5. CASE UNCHANGED vars
  BY <1>5 DEF vars
<1>6. QED
  BY <1>1, <1>2, <1>3, <1>4, <1>5 DEF Next, Terminated

LEMMA HandlesStep ==
  ASSUME TaskInv, [Next]_vars
  PROVE  Handles'
<1> USE TaskAssumption DEF TaskInv, TypeOK, Handles
<1>1. ASSUME NEW s \in Slots, Drop(s)
      PROVE  Handles'
  BY <1>1 DEF Drop, Destroy
<1>2. ASSUME NEW s \in Slots, Run(s) \/ Await(s)
      PROVE  Handles'
  BY <1>2 DEF Run, Await, Starts
<1>3. ASSUME NEW s \in Slots, NEW r \in Slots, Move(s, r)
      PROVE  Handles'
  BY <1>3 DEF Move, Destroy
<1>4. ASSUME NEW t \in Tasks, SpuriousWakeup(t) \/ Started(t) \/ Wait(t)
      PROVE  Handles'
  BY <1>4 DEF SpuriousWakeup, Started, Wait, slots
<1>5. ASSUME NEW t \in Tasks, TakeResult(t)
      PROVE  Handles'
  BY <1>5 DEF TakeResult, Destroy, Holders
<1>6. ASSUME NEW t \in Tasks, BodyStep(t)
      PROVE  Handles'
  BY <1>6 DEF BodyStep, ReturnValue, UnhandledException, FinalLock,
     FinalNotify, FinalTransfer, UsePromise, slots
<1>7. CASE UNCHANGED vars
  BY <1>7 DEF vars, slots
<1>8. QED
  BY <1>1, <1>2, <1>3, <1>4, <1>5, <1>6, <1>7 DEF Next, Terminated, OwnerStep

LEMMA TogetherStep ==
  ASSUME TaskInv, [Next]_vars, NEW t \in Tasks
  PROVE  Together(t)' /\ Awaiting(t)'
<1> USE TaskAssumption DEF TaskInv, TypeOK, Together, Awaiting, Past
<1>1. ASSUME NEW s \in Slots, Drop(s)
      PROVE  Together(t)' /\ Awaiting(t)'
  BY <1>1 DEF Drop, Destroy
<1>2. ASSUME NEW s \in Slots, Run(s) \/ Await(s)
      PROVE  Together(t)' /\ Awaiting(t)'
  BY <1>2 DEF Run, Await, Starts
<1>3. ASSUME NEW s \in Slots, NEW r \in Slots, Move(s, r)
      PROVE  Together(t)' /\ Awaiting(t)'
  BY <1>3 DEF Move, Destroy
<1>4. ASSUME NEW u \in Tasks, SpuriousWakeup(u) \/ OwnerStep(u)
      PROVE  Together(t)' /\ Awaiting(t)'
  BY <1>4 DEF SpuriousWakeup, OwnerStep, Started, Wait, MayReturn, TakeResult, Destroy
<1>5. ASSUME NEW u \in Tasks, BodyStep(u)
      PROVE  Together(t)' /\ Awaiting(t)'
  BY <1>5 DEF BodyStep, ReturnValue, UnhandledException, FinalLock,
     FinalNotify, FinalTransfer, UsePromise, BodyPcs, OwnerPcs
<1>6. CASE UNCHANGED vars
  BY <1>6 DEF vars
<1>7. QED
  BY <1>1, <1>2, <1>3, <1>4, <1>5, <1>6 DEF Next, Terminated

THEOREM TaskInvAlways == Spec => []TaskInv
<1>1. TaskInv /\ [Next]_vars => TaskInv'
  BY TypeStep, HandlesStep, TogetherStep DEF TaskInv
<1>2. QED
  BY <1>1, TaskInvInit, PTL DEF Spec

\* The promise's members keep their types, and the coroutine its place.
THEOREM TypeAlways == Spec => []TypeOK
  BY TaskInvAlways, PTL DEF TaskInv

\* However Task objects are moved, a frame has one owner until it is destroyed,
\* and none after: it is neither leaked nor destroyed twice.
THEOREM AlwaysOwnedOnce == Spec => []OwnedOnce
<1>1. TaskInv => OwnedOnce
  <2> SUFFICES ASSUME TaskInv, NEW t \in Tasks
               PROVE  /\ Cardinality(Holders(t)) = IF frame[t] THEN 1 ELSE 0
                      /\ \A s \in Holders(t) : started[s] <=> body[t] /= "created"
    BY DEF OwnedOnce
  <2> USE TaskAssumption DEF TaskInv, Handles, Holders
  <2>1. CASE frame[t]
    <3>1. PICK s \in Slots : Holders(t) = {s}
      BY <2>1
    <3>2. Cardinality({s}) = 1
      BY FS_Singleton, Zenon
    <3>3. QED
      BY <2>1, <3>1, <3>2
  <2>2. CASE ~frame[t]
    <3>1. Holders(t) = {}
      BY <2>2
    <3>2. QED
      BY <2>2, <3>1, FS_EmptySet
  <2>3. QED
    BY <2>1, <2>2
<1>2. QED
  BY <1>1, TaskInvAlways, PTL

\* Whoever ran or awaited a Task got what its body came to.
THEOREM ResultAlwaysDelivered == Spec => []ResultDelivered
<1>1. TaskInv => ResultDelivered
  BY DEF TaskInv, Together, Past, ResultDelivered
<1>2. QED
  BY <1>1, TaskInvAlways, PTL

\* FinalAwaiter sets completed_ under the mutex and notifies after: no thread
\* in wait sleeps through it.
THEOREM CompletionNeverMissed == Spec => []NoMissedCompletion
<1>1. TaskInv => NoMissedCompletion
  BY DEF TaskInv, Together, NoMissedCompletion
<1>2. QED
  BY <1>1, TaskInvAlways, PTL

\* The frame of an awaited coroutine is destroyed only when it has executed its
\* last step.
THEOREM AwaitAlwaysCompletes == Spec => []AwaitRunsToCompletion
<1>1. TaskInv => AwaitRunsToCompletion
  BY TaskAssumption DEF TaskInv, Awaiting, AwaitRunsToCompletion, Finished
<1>2. QED
  BY <1>1, TaskInvAlways, PTL
-----------------------------------------------------------------------------
(***************************************************************************)
(* MemTable.                                                               *)
(***************************************************************************)

\* A set of positions in a sequence has a last member.
LEMMA LastPosition ==
  ASSUME NEW n \in Nat, NEW T, T \subseteq 1..n, T /= {}
  PROVE  \E x \in T : \A y \in T : y <= x
<1> DEFINE U == {n - i : i \in T}
           R == OpToRel(<, Nat)
<1>1. \A i \in T : i \in 1..n /\ n - i \in Nat /\ n - i \in U
  OBVIOUS
<1>2. \A u \in U : u \in Nat /\ \E i \in T : u = n - i
  BY <1>1
<1>3. U /= {} /\ U \subseteq Nat
  BY <1>1, <1>2, Zenon
<1>4. IsWellFoundedOn(R, Nat)
  BY NatLessThanWellFounded, Zenon
<1> HIDE DEF U, R
<1>5. PICK u \in U : \A v \in U : ~(<<v, u>> \in R)
  BY <1>3, <1>4, WFMin, Zenon
<1>6. PICK x \in T : u = n - x
  BY <1>2
<1>7. ASSUME NEW y \in T, y > x
      PROVE  FALSE
  <2>1. n - y \in U /\ n - y < u /\ n - y \in Nat /\ u \in Nat
    BY <1>1, <1>6, <1>7
  <2>2. <<n - y, u>> \in R
    BY <2>1, SMT DEF R, OpToRel
  <2>3. QED
    BY <1>5, <2>1, <2>2, Zenon
<1>8. QED
  BY <1>1, <1>7

\* The update that entry i of a group g with base sequence b asks for.
UpdateOf(g, b, i) == [key |-> g[i].key, val |-> g[i].val, seq |-> b + i - 1]

\* The list of shard s after n entries of the group: their updates that belong
\* to the shard, in the order of the group.
Lists(us, g, b, n, s) ==
  /\ \A j \in 1..Len(us) :
       \E i \in 1..n : ShardFor[g[i].key] = s /\ us[j] = UpdateOf(g, b, i)
  /\ \A i \in 1..n :
       ShardFor[g[i].key] = s => \E j \in 1..Len(us) : us[j] = UpdateOf(g, b, i)
  /\ \A i, j \in 1..Len(us) : i < j => us[i].seq < us[j].seq

\* Where the call of ApplyBatches is, and how many locks it has taken.
Calling ==
  /\ before \in [Keys -> MemEntry] /\ after \in [Keys -> MemEntry]
  /\ applies \in Nat /\ locks \in Nat
  /\ entry = 0 <=> shard = 0
  /\ shard > 1 => entry = Len(group) + 1
  /\ shard > 0 => sequence = next + entry - 1
  /\ IF shard = 0 THEN locks <= applies * ShardCount
     ELSE applies > 0 /\ locks <= (applies - 1) * ShardCount + (shard - 1)

\* The lists of the shards to come hold the entries so far, the others nothing.
Scratched ==
  \A s \in Shards :
    IF shard > 0 /\ s >= shard THEN Lists(scratch[s], group, next, entry - 1, s)
    ELSE scratch[s] = <<>>

\* The shards that are done hold what the group leaves, the others what it
\* found; it found nothing as new as its own entries.
Halfway ==
  IF shard = 0 THEN table = after /\ \A k \in Keys : table[k].seq < next
  ELSE /\ after = ApplyRecord(before, [base |-> next, entries |-> group])
       /\ \A k \in Keys : /\ table[k] = IF ShardFor[k] < shard THEN after[k] ELSE before[k]
                          /\ before[k].seq < next

\* Stats has counted no key of the shards behind it that is not there, and no
\* key that was there can have left the shards before it.
Counting ==
  /\ counted \in Nat /\ atStart \in Nat
  /\ scan \in Shards =>
       /\ counted <= Cardinality(Present(1..scan - 1))
       /\ atStart <= counted + Cardinality(Present(scan..ShardCount))
  /\ StatsBounded

\* The inductive invariant.
TableInv == TableTypeOK /\ Calling /\ Scratched /\ Halfway /\ Counting

-----------------------------------------------------------------------------
\* The entries of a group for a key.
Hits(g, k) == {i \in 1..Len(g) : g[i].key = k}

\* What applying a record leaves of a key: the last of its entries, if any.
Leaves(t, b, g, k, v) ==
  \/ Hits(g, k) = {} /\ v = t[k]
  \/ \E i \in Hits(g, k) : /\ \A j \in Hits(g, k) : j <= i
                           /\ v = [seq |-> b + i - 1, val |-> g[i].val]

LEMMA RecordAtKey ==
  ASSUME NEW t, NEW b \in Nat, NEW g \in Seq(Entry), NEW k \in Keys
  PROVE  Leaves(t, b, g, k, ApplyRecord(t, [base |-> b, entries |-> g])[k])
<1> DEFINE H == Hits(g, k)
           last == CHOOSE i \in H : \A j \in H : j <= i
<1>1. Len(g) \in Nat /\ DOMAIN g = 1..Len(g)
  OBVIOUS
<1>2. ApplyRecord(t, [base |-> b, entries |-> g])[k] =
        IF H = {} THEN t[k] ELSE [seq |-> b + last - 1, val |-> g[last].val]
  BY <1>1 DEF ApplyRecord, Hits
<1>3. CASE H = {}
  BY <1>2, <1>3, Zenon DEF Leaves
<1>4. CASE H /= {}
  <2>1. \E i \in H : \A j \in H : j <= i
    <3>1. H \in SUBSET (1..Len(g))
      BY <1>1 DEF Hits
    <3> HIDE DEF H
    <3>2. QED
      BY <1>1, <1>4, <3>1, LastPosition, Zenon
  <2>2. last \in H /\ \A j \in H : j <= last
    BY <2>1, Zenon
  <2> HIDE DEF H, last
  <2>3. QED
    BY <1>2, <1>4, <2>2, Zenon DEF H, Leaves
<1>5. QED
  BY <1>3, <1>4, Zenon

LEMMA RecordType ==
  ASSUME NEW t \in [Keys -> MemEntry], NEW b \in Nat, NEW g \in Seq(Entry)
  PROVE  ApplyRecord(t, [base |-> b, entries |-> g]) \in [Keys -> MemEntry]
<1> DEFINE new == ApplyRecord(t, [base |-> b, entries |-> g])
<1>1. ASSUME NEW k \in Keys
      PROVE  new[k] \in MemEntry
  <2>1. CASE new[k] = t[k]
    BY <2>1
  <2>2. ASSUME NEW i \in Hits(g, k), new[k] = [seq |-> b + i - 1, val |-> g[i].val]
        PROVE  new[k] \in MemEntry
    <3>1. i \in 1..Len(g) /\ g[i] \in Entry
      BY DEF Hits
    <3>2. g[i].val \in Values \cup {Deleted} /\ b + i - 1 \in Nat
      BY <3>1 DEF Entry
    <3> HIDE DEF new
    <3>3. QED
      BY <2>2, <3>2 DEF MemEntry
  <2>3. QED
    BY <2>1, <2>2, RecordAtKey, Zenon DEF Leaves
<1>2. new = [k \in Keys |-> new[k]]
  BY DEF ApplyRecord
<1> HIDE DEF new
<1>3. QED
  BY <1>1, <1>2, Zenon DEF new

\* push_back keeps a list what it is, and so does an entry of another shard.
LEMMA UpdateIsOne ==
  ASSUME NEW g \in Seq(Entry), NEW b \in Nat, NEW i \in 1..Len(g)
  PROVE  /\ UpdateOf(g, b, i) \in Update
         /\ UpdateOf(g, b, i).key = g[i].key /\ UpdateOf(g, b, i).val = g[i].val
         /\ UpdateOf(g, b, i).seq = b + i - 1 /\ b + i - 1 \in Nat
<1>1. g[i] \in Entry /\ b + i - 1 \in Nat
  OBVIOUS
<1>2. QED
  BY <1>1 DEF UpdateOf, Update, Entry

LEMMA ListsAppend ==
  ASSUME NEW g \in Seq(Entry), NEW b \in Nat, NEW n \in 1..Len(g), NEW s,
         NEW us \in Seq(Update), Lists(us, g, b, n - 1, s), ShardFor[g[n].key] = s
  PROVE  LET vs == Append(us, UpdateOf(g, b, n)) IN
         vs \in Seq(Update) /\ Lists(vs, g, b, n, s)
<1> DEFINE u == UpdateOf(g, b, n)
           vs == Append(us, u)
<1>1. u \in Update /\ u.seq = b + n - 1
  BY UpdateIsOne, Zenon
<1>2. /\ n \in Nat /\ Len(us) \in Nat /\ Len(vs) = Len(us) + 1 /\ vs \in Seq(Update)
      /\ vs[Len(us) + 1] = u /\ \A j \in 1..Len(us) : vs[j] = us[j]
  BY <1>1
<1> HIDE DEF u, vs
<1>3. ASSUME NEW j \in 1..Len(vs)
      PROVE  (j \in 1..Len(us) /\ vs[j] = us[j]) \/ (j = Len(us) + 1 /\ vs[j] = u)
  BY <1>2
<1>4. ASSUME NEW i \in 1..n
      PROVE  i \in 1..n - 1 \/ i = n
  BY <1>2
<1>n. n \in 1..n
  BY <1>2
<1>5. ASSUME NEW j \in 1..Len(vs)
      PROVE  \E i \in 1..n : ShardFor[g[i].key] = s /\ vs[j] = UpdateOf(g, b, i)
  <2>1. CASE j \in 1..Len(us) /\ vs[j] = us[j]
    <3>1. PICK i \in 1..n - 1 : ShardFor[g[i].key] = s /\ us[j] = UpdateOf(g, b, i)
      BY <2>1, Zenon DEF Lists
    <3>2. i \in 1..n
      BY <1>2
    <3>3. QED
      BY <2>1, <3>1, <3>2, Zenon
  <2>2. CASE j = Len(us) + 1 /\ vs[j] = u
    BY <1>n, <2>2, Zenon DEF u
  <2>3. QED
    BY <1>3, <2>1, <2>2, Zenon
<1>6. ASSUME NEW i \in 1..n, ShardFor[g[i].key] = s
      PROVE  \E j \in 1..Len(vs) : vs[j] = UpdateOf(g, b, i)
  <2>1. CASE i \in 1..n - 1
    <3>1. PICK j \in 1..Len(us) : us[j] = UpdateOf(g, b, i)
      BY <1>6, <2>1, Zenon DEF Lists
    <3>2. j \in 1..Len(vs)
      BY <1>2
    <3>3. QED
      BY <1>2, <3>1, <3>2, Zenon
  <2>2. CASE i = n
    <3>1. Len(us) + 1 \in 1..Len(vs)
      BY <1>2
    <3>2. QED
      BY <1>2, <2>2, <3>1, Zenon DEF u
  <2>3. QED
    BY <1>4, <2>1, <2>2, Zenon
<1>7. ASSUME NEW i \in 1..Len(vs), NEW j \in 1..Len(vs), i < j
      PROVE  vs[i].seq < vs[j].seq
  <2>1. i \in 1..Len(us) /\ vs[i] = us[i]
    BY <1>2, <1>7
  <2>2. CASE j \in 1..Len(us) /\ vs[j] = us[j]
    BY <1>7, <2>1, <2>2, Zenon DEF Lists
  <2>3. CASE vs[j] = u
    <3>1. PICK m \in 1..n - 1 : us[i] = UpdateOf(g, b, m)
      BY <2>1, Zenon DEF Lists
    <3>2. m \in 1..Len(g)
      OBVIOUS
    <3>3. us[i].seq = b + m - 1
      BY <3>1, <3>2, UpdateIsOne, Zenon
    <3>4. b + m - 1 < b + n - 1
      OBVIOUS
    <3>5. QED
      BY <1>1, <2>1, <2>3, <3>3, <3>4, Zenon
  <2>4. QED
    BY <1>3, <2>2, <2>3, Zenon
<1>8. QED
  BY <1>2, <1>5, <1>6, <1>7, Zenon DEF Lists, vs, u

LEMMA ListsSkip ==
  ASSUME NEW g, NEW b, NEW n \in Nat \ {0}, NEW s, NEW us, Lists(us, g, b, n - 1, s),
         ShardFor[g[n].key] /= s
  PROVE  Lists(us, g, b, n, s)
<1>1. ASSUME NEW i \in 1..n, ShardFor[g[i].key] = s
      PROVE  i \in 1..n - 1
  BY <1>1
<1>2. 1..n - 1 \subseteq 1..n
  OBVIOUS
<1>3. QED
  BY <1>1, <1>2, Zenon DEF Lists

\* Entries of a group are newer than what is older than the group.
LEMMA RecordGrows ==
  ASSUME NEW t, NEW b \in Nat, NEW g \in Seq(Entry), NEW k \in Keys,
         t[k].seq \in Nat, t[k].seq < b
  PROVE  LET new == ApplyRecord(t, [base |-> b, entries |-> g])[k] IN
         new.seq < b + Len(g) /\ (new = t[k] \/ new.seq >= b)
<1> DEFINE new == ApplyRecord(t, [base |-> b, entries |-> g])[k]
<1>1. CASE new = t[k]
  <2>1. Len(g) \in Nat
    OBVIOUS
  <2> HIDE DEF new
  <2>2. QED
    BY <1>1, <2>1 DEF new
<1>2. ASSUME NEW i \in Hits(g, k), new = [seq |-> b + i - 1, val |-> g[i].val]
      PROVE  new.seq < b + Len(g) /\ new.seq >= b
  <2>1. i \in 1..Len(g) /\ Len(g) \in Nat
    BY DEF Hits
  <2> HIDE DEF new
  <2>2. new.seq = b + i - 1
    BY <1>2
  <2>3. QED
    BY <2>1, <2>2
<1>3. QED
  BY <1>1, <1>2, RecordAtKey, Zenon DEF Leaves

\* Applying the list of a shard does for the keys of the shard what applying
\* the whole group does, and nothing for the others.
LEMMA AppliedIs ==
  ASSUME NEW g \in Seq(Entry), NEW b \in Nat, NEW s, NEW us \in Seq(Update),
         Lists(us, g, b, Len(g), s), NEW k \in Keys
  PROVE  Applied(us)[k] = IF ShardFor[k] = s
                          THEN ApplyRecord(table, [base |-> b, entries |-> g])[k]
                          ELSE table[k]
<1> DEFINE hits == {i \in DOMAIN us : us[i].key = k}
           all == ApplyRecord(table, [base |-> b, entries |-> g])
<1>1. DOMAIN us = 1..Len(us) /\ Len(us) \in Nat /\ Len(g) \in Nat
  OBVIOUS
<1>2. Applied(us)[k] = IF hits = {} THEN table[k]
                       ELSE [seq |-> us[Winner(hits)].seq, val |-> us[Winner(hits)].val]
  BY Zenon DEF Applied
<1>3. ASSUME NEW j \in hits
      PROVE  \E i \in Hits(g, k) : ShardFor[k] = s /\ us[j] = UpdateOf(g, b, i)
  <2>1. j \in 1..Len(us) /\ us[j].key = k
    BY <1>1
  <2>2. PICK i \in 1..Len(g) : ShardFor[g[i].key] = s /\ us[j] = UpdateOf(g, b, i)
    BY <2>1, Zenon DEF Lists
  <2>3. g[i].key = k
    BY <2>1, <2>2, UpdateIsOne, Zenon
  <2>4. QED
    BY <2>2, <2>3, Zenon DEF Hits
<1>4. ASSUME NEW i \in Hits(g, k), ShardFor[k] = s
      PROVE  \E j \in hits : us[j] = UpdateOf(g, b, i)
  <2>1. i \in 1..Len(g) /\ g[i].key = k
    BY Zenon DEF Hits
  <2>2. PICK j \in 1..Len(us) : us[j] = UpdateOf(g, b, i)
    BY <1>4, <2>1, Zenon DEF Lists
  <2>3. us[j].key = k
    BY <2>1, <2>2, UpdateIsOne, Zenon
  <2>4. QED
    BY <1>1, <2>2, <2>3, Zenon
<1>5. hits \subseteq 1..Len(us)
  BY <1>1
<1> HIDE DEF hits
<1>6. CASE ShardFor[k] /= s
  <2>1. hits = {}
    BY <1>3, <1>6, Zenon
  <2>2. QED
    BY <1>2, <1>6, <2>1, Zenon
<1>7. CASE ShardFor[k] = s /\ Hits(g, k) = {}
  <2>1. hits = {}
    BY <1>3, <1>7, Zenon
  <2>2. all[k] = table[k]
    BY <1>7, RecordAtKey, Zenon DEF Leaves
  <2>3. QED
    BY <1>2, <1>7, <2>1, <2>2, Zenon
<1>8. CASE ShardFor[k] = s /\ Hits(g, k) /= {}
  <2>1. PICK i \in Hits(g, k) : /\ \A m \in Hits(g, k) : m <= i
                                /\ all[k] = [seq |-> b + i - 1, val |-> g[i].val]
    <3>1. Hits(g, k) /= {}
      BY <1>8, Zenon
    <3>2. Leaves(table, b, g, k, all[k])
      BY RecordAtKey, Zenon
    <3> HIDE DEF all
    <3>3. QED
      BY <3>1, <3>2, Zenon DEF Leaves
  <2>2. PICK j \in hits : us[j] = UpdateOf(g, b, i)
    BY <1>4, <1>8, Zenon
  <2>3. i \in 1..Len(g)
    BY Zenon DEF Hits
  <2>4. us[j].seq = b + i - 1 /\ us[j].val = g[i].val
    <3>1. UpdateOf(g, b, i).seq = b + i - 1 /\ UpdateOf(g, b, i).val = g[i].val
      BY <2>3, UpdateIsOne, Zenon
    <3>2. QED
      BY <2>2, <3>1, Zenon
  <2>5. ASSUME NEW m \in hits, m > j
        PROVE  FALSE
    <3>1. PICK h \in Hits(g, k) : us[m] = UpdateOf(g, b, h)
      BY <1>3, Zenon
    <3>2. h \in 1..Len(g) /\ h <= i
      BY <2>1, Zenon DEF Hits
    <3>3. us[m].seq = b + h - 1
      BY <3>1, <3>2, UpdateIsOne, Zenon
    <3>4. j \in 1..Len(us) /\ m \in 1..Len(us) /\ j < m
      BY <1>5, <2>5
    <3>5. us[j].seq < us[m].seq
      BY <3>4, Zenon DEF Lists
    <3>6. b + i - 1 < b + h - 1
      BY <2>4, <3>3, <3>5, Zenon
    <3>7. QED
      BY <2>3, <3>2, <3>6
  <2>6. \A m \in hits : m <= j
    BY <1>5, <2>5
  <2>7. Winner(hits) \in hits /\ \A m \in hits : m <= Winner(hits)
    BY <2>6, Zenon DEF Winner
  <2>8. Winner(hits) = j
    <3>1. j \in 1..Len(us) /\ Winner(hits) \in 1..Len(us)
      BY <1>5, <2>7, Zenon
    <3>2. j <= Winner(hits) /\ Winner(hits) <= j
      BY <2>6, <2>7, Zenon
    <3>3. QED
      BY <3>1, <3>2
  <2>9. QED
    BY <1>2, <1>8, <2>1, <2>4, <2>8, Zenon
<1>9. QED
  BY <1>6, <1>7, <1>8, Zenon

-----------------------------------------------------------------------------
\* The keys of the shards in S that are in table t.
Held(t, S) == {k \in Keys : ShardFor[k] \in S /\ t[k] /= Untouched}

LEMMA HeldCount ==
  ASSUME NEW t, NEW S
  PROVE  /\ IsFiniteSet(Held(t, S)) /\ Cardinality(Held(t, S)) \in Nat
         /\ Cardinality(Held(t, S)) <= Cardinality(Keys) /\ Cardinality(Keys) \in Nat
<1>1. Held(t, S) \subseteq Keys /\ IsFiniteSet(Keys)
  BY MemTableAssumption DEF Held
<1>2. QED
  BY <1>1, FS_Subset, FS_CardinalityType, Zenon

LEMMA HeldGrows ==
  ASSUME NEW t, NEW u, NEW S, \A k \in Keys : t[k] /= Untouched => u[k] /= Untouched
  PROVE  Cardinality(Held(t, S)) <= Cardinality(Held(u, S))
<1>1. Held(t, S) \subseteq Held(u, S)
  BY Zenon DEF Held
<1>2. QED
  BY <1>1, HeldCount, FS_Subset, Zenon

LEMMA HeldSplit ==
  ASSUME NEW t, NEW S, NEW T, S \cap T = {}
  PROVE  Cardinality(Held(t, S \cup T)) = Cardinality(Held(t, S)) + Cardinality(Held(t, T))
<1>1. Held(t, S \cup T) = Held(t, S) \cup Held(t, T) /\ Held(t, S) \cap Held(t, T) = {}
  BY DEF Held
<1>2. Cardinality(Held(t, S) \cup Held(t, T)) =
        Cardinality(Held(t, S)) + Cardinality(Held(t, T))
          - Cardinality(Held(t, S) \cap Held(t, T))
  BY HeldCount, FS_Union, Zenon
<1>3. Cardinality(Held(t, S) \cap Held(t, T)) = 0
  BY <1>1, FS_EmptySet, Zenon
<1>4. Cardinality(Held(t, S)) \in Nat /\ Cardinality(Held(t, T)) \in Nat
  BY HeldCount, Zenon
<1> DEFINE x == Cardinality(Held(t, S))
           y == Cardinality(Held(t, T))
<1>5. Cardinality(Held(t, S \cup T)) = x + y - 0
  BY <1>1, <1>2, <1>3, Zenon
<1> HIDE DEF x, y
<1>6. x + y - 0 = x + y
  BY <1>4 DEF x, y
<1>7. QED
  BY <1>5, <1>6, Zenon DEF x, y

LEMMA PresentIs ==
  ASSUME NEW S
  PROVE  Present(S) = Held(table, S)
BY Zenon DEF Present, Held

\* Stats: a step of ApplyBatches can only add keys.
LEMMA CountingKept ==
  ASSUME TableInv, UNCHANGED statsVars,
         \A k \in Keys : table[k] /= Untouched => table'[k] /= Untouched
  PROVE  Counting'
<1>1. ASSUME NEW S
      PROVE  /\ Present(S) = Held(table, S) /\ Cardinality(Held(table, S)) \in Nat
             /\ Cardinality(Held(table', S)) \in Nat
             /\ Cardinality(Held(table, S)) <= Cardinality(Held(table', S))
  BY PresentIs, HeldCount, HeldGrows, Zenon
<1>2. scan' = scan /\ counted' = counted /\ atStart' = atStart
  BY DEF statsVars
<1>3. Counting
  BY DEF TableInv
<1>4. counted \in Nat /\ atStart \in Nat
  BY <1>3 DEF Counting
<1>5. ASSUME scan \in Shards
      PROVE  /\ counted <= Cardinality(Held(table', 1..scan - 1))
             /\ atStart <= counted + Cardinality(Held(table', scan..ShardCount))
  <2>1. /\ counted <= Cardinality(Held(table, 1..scan - 1))
        /\ atStart <= counted + Cardinality(Held(table, scan..ShardCount))
    BY <1>1, <1>3, <1>5, Zenon DEF Counting
  <2>2. QED
    BY <1>1, <1>4, <2>1
<1>6. ASSUME scan = 0
      PROVE  counted <= Cardinality(Held(table', Shards)) /\ atStart <= counted
  <2>1. counted <= Cardinality(Held(table, Shards)) /\ atStart <= counted
    BY <1>1, <1>3, <1>6, Zenon DEF Counting, StatsBounded
  <2>2. QED
    BY <1>1, <1>4, <2>1
<1>7. QED
  BY <1>2, <1>4, <1>5, <1>6, Zenon DEF Counting, StatsBounded, Present, Held, Shards

\* stats.entries is never more than there are keys.
LEMMA CountedType ==
  ASSUME NEW t, NEW S, NEW n \in Nat, n <= Cardinality(Held(t, S))
  PROVE  n \in 0..Cardinality(Keys)
<1>1. /\ Cardinality(Held(t, S)) \in Nat /\ Cardinality(Keys) \in Nat
      /\ Cardinality(Held(t, S)) <= Cardinality(Keys)
  BY HeldCount, Zenon
<1>2. QED
  BY <1>1

-----------------------------------------------------------------------------
LEMMA TableInvInit == TableInit => TableInv
<1> SUFFICES ASSUME TableInit PROVE TableInv
  OBVIOUS
<1>0. Empty \in [Keys -> MemEntry] /\ \A k \in Keys : Empty[k].seq = 0
  BY DEF Empty, Untouched, MemEntry
<1>1. Calling /\ Halfway
  BY <1>0, MemTableAssumption DEF TableInit, Calling, Halfway, FirstSequence
<1>2. Scratched
  BY DEF TableInit, Scratched
<1>3. Counting
  <2>1. Cardinality(Present(Shards)) \in Nat
    BY PresentIs, HeldCount, Zenon
  <2>2. 0 \notin Shards
    BY DEF Shards
  <2>3. QED
    BY <2>1, <2>2 DEF TableInit, Counting, StatsBounded
<1>4. counted \in 0..Cardinality(Keys)
  <2>1. counted = 0 /\ Cardinality(Keys) \in Nat
    BY HeldCount, Zenon DEF TableInit
  <2>2. QED
    BY <2>1
<1>5. locks \in 0..applies * ShardCount
  BY MemTableAssumption DEF TableInit
<1>6. TableTypeOK
  BY <1>0, <1>4, <1>5, MemTableAssumption DEF TableInit, TableTypeOK, FirstSequence
<1>7. QED
  BY <1>1, <1>2, <1>3, <1>6 DEF TableInv

\* The locks of whole calls and of the call in progress.
LEMMA LocksOfCalls ==
  ASSUME NEW a \in Nat, NEW n \in Nat \ {0}, NEW l \in Nat, NEW s \in 0..n,
         l <= a * n + s
  PROVE  l \in 0..(a + 1) * n
<1>1. (a + 1) * n = a * n + n /\ a * n \in Nat
  OBVIOUS
<1>2. QED
  BY <1>1

LEMMA CallStep ==
  ASSUME TableInv, NEW g \in Groups, ApplyBatches(g)
  PROVE  TableInv'
<1>1. TableTypeOK /\ Calling /\ Scratched /\ Halfway /\ Counting
  BY DEF TableInv
<1>2. /\ entry = 0 /\ applies' = applies + 1 /\ group' = g /\ entry' = 1 /\ shard' = 1
      /\ sequence' = next /\ before' = table
      /\ after' = ApplyRecord(table, [base |-> next, entries |-> g])
      /\ UNCHANGED <<table, scratch, locks, next, scan, counted, atStart>>
  BY DEF ApplyBatches, statsVars
<1>3. /\ g \in Seq(Entry) /\ Len(g) \in Nat /\ ShardCount \in Nat \ {0} /\ 1 \in Shards
      /\ ShardFor \in [Keys -> Shards]
  BY MemTableAssumption DEF Shards
<1>4. shard = 0 /\ applies \in Nat /\ locks \in Nat /\ next \in Nat \ {0}
  BY <1>1, <1>2 DEF Calling, TableTypeOK
<1>5. after' \in [Keys -> MemEntry]
  BY <1>1, <1>2, <1>3, <1>4, RecordType DEF TableTypeOK
<1>6. locks \in 0..(applies + 1) * ShardCount /\ locks <= applies * ShardCount
  <2>1. locks <= applies * ShardCount + 0 /\ 0 \in 0..ShardCount
    BY <1>1, <1>3, <1>4 DEF Calling
  <2>2. QED
    BY <1>1, <1>3, <1>4, <2>1, LocksOfCalls DEF Calling
<1>7. TableTypeOK'
  <2>1. locks' \in 0..applies' * ShardCount
    BY <1>2, <1>6, Zenon
  <2>2. QED
    BY <1>1, <1>2, <1>3, <1>4, <2>1 DEF TableTypeOK
<1>8. Calling'
  BY <1>1, <1>2, <1>3, <1>4, <1>5, <1>6 DEF Calling, TableTypeOK
<1>9. Scratched'
  <2>1. \A s \in Shards : Lists(<<>>, g, next, 0, s)
    BY DEF Lists
  <2>2. \A s \in Shards : scratch[s] = <<>> /\ s >= 1
    BY <1>1, <1>4 DEF Scratched, Shards
  <2>3. entry' - 1 = 0 /\ shard' > 0
    BY <1>2
  <2>4. QED
    BY <1>2, <2>1, <2>2, <2>3, Zenon DEF Scratched
<1>10. Halfway'
  <2>1. \A k \in Keys : ~(ShardFor[k] < 1) /\ table[k].seq < next
    BY <1>1, <1>3, <1>4 DEF Halfway, Shards
  <2>2. shard' /= 0
    BY <1>2
  <2>3. QED
    BY <1>2, <2>1, <2>2, Zenon DEF Halfway
<1>11. Counting'
  BY <1>2, CountingKept DEF statsVars
<1>12. QED
  BY <1>7, <1>8, <1>9, <1>10, <1>11, Zenon DEF TableInv

LEMMA DistributeStep ==
  ASSUME TableInv, Distribute
  PROVE  TableInv'
<1> DEFINE d == ShardFor[group[entry].key]
           u == UpdateOf(group, next, entry)
<1>1. TableTypeOK /\ Calling /\ Scratched /\ Halfway /\ Counting
  BY DEF TableInv
<1>2. /\ group \in Seq(Entry) /\ entry \in 1..Len(group) /\ Len(group) \in Nat
      /\ next \in Nat /\ scratch \in [Shards -> Seq(Update)] /\ sequence \in Nat
  BY <1>1 DEF TableTypeOK, Distribute
<1>3. group[entry].key \in Keys /\ d \in Shards
  <2>1. group[entry] \in Entry
    BY <1>2
  <2>2. QED
    BY <2>1, MemTableAssumption DEF Entry
<1>4. shard = 1
  BY <1>1, <1>2 DEF Calling, TableTypeOK
<1>5. sequence = next + entry - 1
  BY <1>1, <1>4 DEF Calling
<1>6. /\ scratch' = [scratch EXCEPT ![d] = Append(scratch[d], u)]
      /\ sequence' = sequence + 1 /\ entry' = entry + 1
      /\ UNCHANGED <<table, group, shard, locks, applies, next, before, after,
                     scan, counted, atStart>>
  BY <1>5 DEF Distribute, UpdateOf, history, statsVars
<1>7. \A s \in Shards : Lists(scratch[s], group, next, entry - 1, s)
  BY <1>1, <1>4 DEF Scratched, Shards
<1>8. Append(scratch[d], u) \in Seq(Update) /\ Lists(Append(scratch[d], u), group, next, entry, d)
  <2>1. scratch[d] \in Seq(Update)
    BY <1>2, <1>3
  <2>2. QED
    BY <1>2, <1>3, <1>7, <2>1, ListsAppend, Zenon
<1> HIDE DEF d, u
<1>9. ASSUME NEW s \in Shards
      PROVE  Lists(scratch'[s], group, next, entry, s)
  <2>1. CASE s = d
    BY <1>2, <1>3, <1>6, <1>8, <2>1, Zenon
  <2>2. CASE s /= d
    <3>1. scratch'[s] = scratch[s]
      BY <1>2, <1>6, <2>2, Zenon
    <3>2. entry \in Nat \ {0}
      BY <1>2
    <3>3. QED
      BY <1>7, <2>2, <3>1, <3>2, ListsSkip, Zenon DEF d
  <2>3. QED
    BY <2>1, <2>2
<1>10. Scratched'
  <2>1. entry' - 1 = entry /\ shard' > 0 /\ \A s \in Shards : s >= shard'
    BY <1>2, <1>4, <1>6 DEF Shards
  <2>2. QED
    BY <1>6, <1>9, <2>1, Zenon DEF Scratched
<1>11. scratch' \in [Shards -> Seq(Update)]
  BY <1>2, <1>3, <1>6, <1>8
<1>12. TableTypeOK'
  BY <1>1, <1>2, <1>6, <1>11 DEF TableTypeOK
<1>13. Calling'
  BY <1>1, <1>2, <1>4, <1>5, <1>6 DEF Calling
<1>14. Halfway'
  BY <1>1, <1>6, Zenon DEF Halfway
<1>15. Counting'
  BY <1>6, CountingKept, Zenon DEF statsVars
<1>16. QED
  BY <1>10, <1>12, <1>13, <1>14, <1>15, Zenon DEF TableInv

\* One iteration of the loop over the shards gives the keys of the shard their
\* new entries, which are newer than the old ones.
LEMMA ShardEffect ==
  ASSUME TableInv, ApplyShard
  PROVE  /\ table' \in [Keys -> MemEntry]
         /\ \A k \in Keys :
              /\ table'[k] = IF ShardFor[k] = shard THEN after[k] ELSE table[k]
              /\ table[k].seq <= table'[k].seq
              /\ table[k] /= Untouched => table'[k] /= Untouched
<1> DEFINE us == scratch[shard]
           r == [base |-> next, entries |-> group]
<1>1. TableTypeOK /\ Calling /\ Scratched /\ Halfway
  BY DEF TableInv
<1>2. /\ group \in Seq(Entry) /\ next \in Nat /\ us \in Seq(Update) /\ shard \in Nat
      /\ shard > 0 /\ shard \in Shards /\ table' = Applied(us) /\ Len(group) \in Nat
      /\ entry - 1 = Len(group)
  BY <1>1 DEF TableTypeOK, ApplyShard, Shards
<1>3. Lists(us, group, next, Len(group), shard)
  <2>1. shard >= shard
    BY <1>2
  <2>2. QED
    BY <1>1, <1>2, <2>1, Zenon DEF Scratched
<1> HIDE DEF us
<1>4. after = ApplyRecord(before, r)
  BY <1>1, <1>2 DEF Halfway
<1>5. ASSUME NEW k \in Keys
      PROVE  table'[k] = IF ShardFor[k] = shard THEN after[k] ELSE table[k]
  <2>1. table'[k] = IF ShardFor[k] = shard THEN ApplyRecord(table, r)[k] ELSE table[k]
    <3>1. Applied(us)[k] = IF ShardFor[k] = shard THEN ApplyRecord(table, r)[k] ELSE table[k]
      BY <1>2, <1>3, AppliedIs
    <3>2. QED
      BY <1>2, <3>1, Zenon
  <2>2. ASSUME ShardFor[k] = shard
        PROVE  ApplyRecord(table, r)[k] = ApplyRecord(before, r)[k]
    <3>1. ~(shard < shard) /\ shard /= 0
      BY <1>2
    <3>2. table[k] = before[k]
      BY <1>1, <2>2, <3>1, Zenon DEF Halfway
    <3>3. QED
      BY <3>2, Zenon DEF ApplyRecord
  <2>3. QED
    BY <1>4, <2>1, <2>2, Zenon
<1>6. ASSUME NEW k \in Keys
      PROVE  table'[k] \in MemEntry
  BY <1>1, <1>5 DEF Calling, TableTypeOK
<1>7. table' \in [Keys -> MemEntry]
  <2>1. table' = [k \in Keys |-> table'[k]]
    BY <1>2 DEF Applied
  <2>2. QED
    BY <1>6, <2>1, Zenon
<1>8. ASSUME NEW k \in Keys
      PROVE  /\ table[k].seq <= table'[k].seq
             /\ table[k] /= Untouched => table'[k] /= Untouched
  <2>1. table[k].seq \in Nat
    BY <1>1 DEF TableTypeOK, MemEntry
  <2>2. CASE table'[k] = table[k]
    BY <2>1, <2>2
  <2>3. CASE table'[k] /= table[k]
    <3>1. ShardFor[k] = shard /\ table'[k] = after[k] /\ ~(shard < shard) /\ shard /= 0
      BY <1>2, <1>5, <2>3
    <3>2. table[k] = before[k] /\ before[k].seq < next
      BY <1>1, <3>1, Zenon DEF Halfway
    <3>3. after[k] = before[k] \/ after[k].seq >= next
      BY <1>2, <1>4, <2>1, <3>2, RecordGrows
    <3>4. after[k].seq \in Nat
      BY <1>1 DEF Calling, MemEntry
    <3>5. table'[k].seq >= next
      BY <2>3, <3>1, <3>2, <3>3, Zenon
    <3>6. table[k].seq < next /\ table'[k].seq \in Nat
      BY <3>1, <3>2, <3>4, Zenon
    <3>7. table[k].seq <= table'[k].seq /\ table'[k].seq /= 0
      BY <1>2, <2>1, <3>5, <3>6
    <3>8. QED
      BY <3>7 DEF Untouched
  <2>4. QED
    BY <2>2, <2>3
<1>9. QED
  BY <1>5, <1>7, <1>8, Zenon

LEMMA ApplyShardStep ==
  ASSUME TableInv, ApplyShard
  PROVE  TableInv'
<1>1. TableTypeOK /\ Calling /\ Scratched /\ Halfway /\ Counting
  BY DEF TableInv
<1>2. /\ entry = Len(group) + 1 /\ shard \in Shards /\ shard' = shard + 1
      /\ locks' = locks + LockCount(shard)
      /\ scratch' = [scratch EXCEPT ![shard] = <<>>]
      /\ UNCHANGED <<group, entry, sequence, applies, next, before, after,
                     scan, counted, atStart>>
  BY DEF ApplyShard, Cleared, history, statsVars
<1>3. /\ shard \in 1..ShardCount /\ ShardCount \in Nat \ {0} /\ group \in Seq(Entry)
      /\ Len(group) \in Nat /\ next \in Nat \ {0} /\ ShardFor \in [Keys -> Shards]
      /\ scratch \in [Shards -> Seq(Update)]
  BY <1>1, <1>2, MemTableAssumption DEF Shards, TableTypeOK
<1>4. applies \in Nat \ {0} /\ locks \in Nat /\ locks <= (applies - 1) * ShardCount + (shard - 1)
  BY <1>1, <1>3 DEF Calling
<1>5. locks' \in Nat /\ locks' <= (applies - 1) * ShardCount + shard
  <2>1. LockCount(shard) \in {0, 1}
    BY DEF LockCount
  <2>2. (applies - 1) * ShardCount \in Nat
    BY <1>3, <1>4
  <2>3. QED
    BY <1>2, <1>3, <1>4, <2>1, <2>2
<1>6. locks' \in 0..applies * ShardCount
  <2>1. applies - 1 \in Nat /\ shard \in 0..ShardCount /\ (applies - 1) + 1 = applies
    BY <1>3, <1>4
  <2>2. locks' \in 0..((applies - 1) + 1) * ShardCount
    BY <1>3, <1>5, <2>1, LocksOfCalls, Zenon
  <2>3. QED
    BY <2>1, <2>2, Zenon
<1>7. /\ table' \in [Keys -> MemEntry]
      /\ \A k \in Keys : table'[k] = IF ShardFor[k] = shard THEN after[k] ELSE table[k]
      /\ \A k \in Keys : table[k] /= Untouched => table'[k] /= Untouched
  BY ShardEffect, Zenon
<1>8. TableTypeOK'
  <2>1. scratch' \in [Shards -> Seq(Update)]
    BY <1>2, <1>3
  <2>2. shard' \in 0..ShardCount + 1
    BY <1>2, <1>3
  <2>3. QED
    BY <1>1, <1>2, <1>6, <1>7, <2>1, <2>2, Zenon DEF TableTypeOK
<1>9. Calling'
  <2>1. shard' - 1 = shard /\ shard' > 0 /\ shard' /= 0 /\ entry /= 0 /\ shard > 0 /\ applies > 0
    BY <1>2, <1>3, <1>4
  <2>2. sequence' = next' + entry' - 1
    BY <1>1, <1>2, <2>1, Zenon DEF Calling
  <2>3. locks' <= (applies' - 1) * ShardCount + (shard' - 1)
    BY <1>2, <1>5, <2>1, Zenon
  <2>4. QED
    BY <1>1, <1>2, <1>4, <1>5, <2>1, <2>2, <2>3, Zenon DEF Calling
<1>10. Scratched'
  <2> SUFFICES ASSUME NEW s \in Shards
               PROVE  IF shard' > 0 /\ s >= shard'
                      THEN Lists(scratch'[s], group, next, entry - 1, s)
                      ELSE scratch'[s] = <<>>
    BY <1>2, Zenon DEF Scratched
  <2>1. s \in Nat /\ shard' > 0 /\ (s >= shard' => s /= shard /\ s >= shard /\ shard > 0)
    BY <1>2, <1>3 DEF Shards
  <2>2. CASE s >= shard'
    BY <1>1, <1>2, <1>3, <2>1, <2>2, Zenon DEF Scratched
  <2>3. CASE s = shard
    <3>1. ~(s >= shard')
      BY <1>2, <1>3, <2>3
    <3>2. QED
      BY <1>2, <1>3, <2>3, <3>1, Zenon
  <2>4. CASE s < shard
    <3>1. ~(s >= shard') /\ ~(s >= shard) /\ s /= shard
      BY <1>2, <1>3, <2>1, <2>4
    <3>2. QED
      BY <1>1, <1>2, <1>3, <3>1, Zenon DEF Scratched
  <2>5. s >= shard' \/ s = shard \/ s < shard
    BY <1>2, <1>3, <2>1
  <2>6. QED
    BY <2>2, <2>3, <2>4, <2>5, Zenon
<1>11. Halfway'
  <2>1. shard /= 0 /\ shard' /= 0
    BY <1>2, <1>3
  <2>2. ASSUME NEW k \in Keys
        PROVE  table'[k] = IF ShardFor[k] < shard' THEN after[k] ELSE before[k]
    <3>1. /\ ShardFor[k] = shard => ShardFor[k] < shard'
          /\ ShardFor[k] /= shard => (ShardFor[k] < shard' <=> ShardFor[k] < shard)
      BY <1>2, <1>3 DEF Shards
    <3>2. table[k] = IF ShardFor[k] < shard THEN after[k] ELSE before[k]
      BY <1>1, <2>1, Zenon DEF Halfway
    <3>3. QED
      BY <1>7, <3>1, <3>2, Zenon
  <2>3. QED
    BY <1>1, <1>2, <2>1, <2>2, Zenon DEF Halfway
<1>12. Counting'
  BY <1>2, <1>7, CountingKept, Zenon DEF statsVars
<1>13. QED
  BY <1>8, <1>9, <1>10, <1>11, <1>12, Zenon DEF TableInv

LEMMA ReturnStep ==
  ASSUME TableInv, Return
  PROVE  TableInv'
<1>1. TableTypeOK /\ Calling /\ Scratched /\ Halfway /\ Counting
  BY DEF TableInv
<1>2. /\ shard = ShardCount + 1 /\ group' = <<>> /\ entry' = 0 /\ shard' = 0
      /\ next' = next + Len(group)
      /\ UNCHANGED <<table, sequence, scratch, locks, applies, before, after,
                     scan, counted, atStart>>
  BY DEF Return, AfterGroup, history, statsVars
<1>3. /\ ShardCount \in Nat \ {0} /\ group \in Seq(Entry) /\ Len(group) \in Nat
      /\ next \in Nat \ {0} /\ ShardFor \in [Keys -> Shards] /\ shard /= 0
  BY <1>1, <1>2, MemTableAssumption DEF TableTypeOK
<1>4. TableTypeOK'
  BY <1>1, <1>2, <1>3 DEF TableTypeOK
<1>5. locks <= applies * ShardCount
  BY <1>1, MemTableAssumption DEF TableTypeOK, Calling
<1>6. Calling'
  BY <1>1, <1>2, <1>5 DEF Calling
<1>7. Scratched'
  <2>1. \A s \in Shards : ~(s >= shard) /\ ~(shard' > 0)
    BY <1>2, <1>3 DEF Shards
  <2>2. QED
    BY <1>1, <1>2, <2>1, Zenon DEF Scratched
<1>8. ASSUME NEW k \in Keys
      PROVE  table[k] = after[k] /\ table[k].seq < next + Len(group)
  <2>1. ShardFor[k] < shard
    BY <1>2, <1>3 DEF Shards
  <2>2. table[k] = after[k] /\ before[k].seq < next
    BY <1>1, <1>3, <2>1, Zenon DEF Halfway
  <2>3. before[k].seq \in Nat
    BY <1>1 DEF Calling, MemEntry
  <2>4. after = ApplyRecord(before, [base |-> next, entries |-> group])
    BY <1>1, <1>3, Zenon DEF Halfway
  <2>5. after[k].seq < next + Len(group)
    BY <1>3, <2>2, <2>3, <2>4, RecordGrows
  <2>6. QED
    BY <2>2, <2>5, Zenon
<1>9. table = after
  BY <1>1, <1>8 DEF TableTypeOK, Calling
<1>10. Halfway'
  BY <1>2, <1>8, <1>9, Zenon DEF Halfway
<1>11. Counting'
  BY <1>2, CountingKept, Zenon DEF statsVars
<1>12. QED
  BY <1>4, <1>6, <1>7, <1>10, <1>11, Zenon DEF TableInv

\* What a step of Stats leaves alone.
LEMMA WriterKept ==
  ASSUME TableInv, UNCHANGED writerVars, scan' \in 0..ShardCount, Counting'
  PROVE  TableInv'
<1>1. TableTypeOK /\ Calling /\ Scratched /\ Halfway
  BY DEF TableInv
<1>2. UNCHANGED <<table, group, entry, sequence, scratch, shard, locks, applies, next,
                  before, after>>
  BY DEF writerVars, call, history
<1>3. counted' \in 0..Cardinality(Keys)
  <2>1. counted' \in Nat
    BY DEF Counting
  <2>2. \E S : counted' <= Cardinality(Held(table', S))
    <3>1. scan' = 0 \/ scan' \in Shards
      BY MemTableAssumption DEF Shards
    <3>2. CASE scan' = 0
      BY <3>2, Zenon DEF Counting, StatsBounded, Present, Held
    <3>3. CASE scan' \in Shards
      BY <3>3, Zenon DEF Counting, Present, Held, Shards
    <3>4. QED
      BY <3>1, <3>2, <3>3, Zenon
  <2>3. QED
    BY <2>1, <2>2, CountedType, Zenon
<1>4. TableTypeOK'
  BY <1>1, <1>2, <1>3, Zenon DEF TableTypeOK
<1>5. Calling' /\ Scratched' /\ Halfway'
  BY <1>1, <1>2, Zenon DEF Calling, Scratched, Halfway
<1>6. QED
  BY <1>4, <1>5, Zenon DEF TableInv

LEMMA StatsBeginStep ==
  ASSUME TableInv, StatsBegin
  PROVE  TableInv'
<1>1. /\ scan' = 1 /\ counted' = 0 /\ atStart' = Cardinality(Present(Shards))
      /\ UNCHANGED writerVars /\ table' = table
  BY DEF StatsBegin, writerVars
<1>2. /\ ShardCount \in Nat \ {0} /\ Shards = 1..ShardCount /\ 1 \in 0..ShardCount /\ 1 /= 0
      /\ 1 - 1 = 0
  BY MemTableAssumption DEF Shards
<1>3. /\ Cardinality(Held(table, 1..0)) \in Nat
      /\ Cardinality(Held(table, 1..ShardCount)) \in Nat
      /\ Present(Shards) = Held(table, 1..ShardCount)
  BY <1>2, HeldCount, PresentIs, Zenon
<1>4. /\ 0 <= Cardinality(Held(table, 1..0)) /\ 0 \in Nat
      /\ Cardinality(Held(table, 1..ShardCount)) <=
           0 + Cardinality(Held(table, 1..ShardCount))
  BY <1>3
<1>5. Counting'
  BY <1>1, <1>2, <1>3, <1>4, Zenon DEF Counting, StatsBounded, Present, Held
<1>6. QED
  BY <1>1, <1>2, <1>5, WriterKept, Zenon

LEMMA StatsShardStep ==
  ASSUME TableInv, StatsShard
  PROVE  TableInv'
<1> DEFINE C(S) == Cardinality(Held(table, S))
<1>1. /\ scan \in Shards /\ counted' = counted + Cardinality(Present({scan}))
      /\ scan' = (IF scan = ShardCount THEN 0 ELSE scan + 1) /\ atStart' = atStart
      /\ UNCHANGED writerVars /\ table' = table
  BY DEF StatsShard, StatsShards, writerVars
<1>2. scan \in 1..ShardCount /\ ShardCount \in Nat \ {0}
  BY <1>1, MemTableAssumption DEF Shards
<1>3. \A S : C(S) \in Nat /\ Present(S) = Held(table, S)
  BY HeldCount, PresentIs, Zenon
<1>4. /\ counted \in Nat /\ atStart \in Nat /\ counted <= C(1..scan - 1)
      /\ atStart <= counted + C(scan..ShardCount)
  BY <1>1, <1>3, Zenon DEF TableInv, Counting
<1>5. C(1..scan) = C(1..scan - 1) + C({scan})
  <2>1. 1..scan = (1..scan - 1) \cup {scan} /\ (1..scan - 1) \cap {scan} = {}
    BY <1>2
  <2>2. QED
    BY <2>1, HeldSplit, Zenon
<1>6. C(scan..ShardCount) = C({scan}) + C(scan + 1..ShardCount)
  <2>1. /\ scan..ShardCount = {scan} \cup (scan + 1..ShardCount)
        /\ {scan} \cap (scan + 1..ShardCount) = {}
    BY <1>2
  <2>2. C({scan} \cup (scan + 1..ShardCount)) = C({scan}) + C(scan + 1..ShardCount)
    BY <2>1, HeldSplit, Zenon
  <2>3. QED
    BY <2>1, <2>2, Zenon
<1>7. counted' = counted + C({scan})
  BY <1>1, <1>3, Zenon
<1> HIDE DEF C
<1>8. /\ counted' \in Nat /\ counted' <= C(1..scan)
      /\ atStart <= counted' + C(scan + 1..ShardCount)
  <2>1. /\ C({scan}) \in Nat /\ C(1..scan) \in Nat /\ C(1..scan - 1) \in Nat
        /\ C(scan + 1..ShardCount) \in Nat /\ C(scan..ShardCount) \in Nat
    BY <1>3, Zenon
  <2>2. QED
    BY <1>4, <1>5, <1>6, <1>7, <2>1
<1>9. CASE scan = ShardCount
  <2>1. scan' = 0 /\ 0 \in 0..ShardCount /\ 0 \notin Shards /\ 1..scan = Shards
    BY <1>1, <1>2, <1>9 DEF Shards
  <2>2. C(scan + 1..ShardCount) = 0
    <3>1. Held(table, scan + 1..ShardCount) = {}
      BY <1>2, <1>9 DEF Held
    <3>2. QED
      BY <3>1, FS_EmptySet, Zenon DEF C
  <2>3. counted' <= C(Shards) /\ atStart <= counted'
    BY <1>4, <1>8, <2>1, <2>2
  <2>4. Counting'
    BY <1>1, <1>4, <1>8, <2>1, <2>3, Zenon DEF Counting, StatsBounded, Present, Held, C
  <2>5. QED
    BY <1>1, <2>1, <2>4, WriterKept, Zenon
<1>10. CASE scan /= ShardCount
  <2>1. scan' = scan + 1 /\ scan' \in 0..ShardCount /\ scan' /= 0 /\ scan' - 1 = scan
    BY <1>1, <1>2, <1>10
  <2>2. counted' <= C(1..scan' - 1) /\ atStart <= counted' + C(scan'..ShardCount)
    BY <1>8, <2>1, Zenon
  <2>3. Counting'
    BY <1>1, <1>4, <1>8, <2>1, <2>2, Zenon DEF Counting, StatsBounded, Present, Held, C
  <2>4. QED
    BY <1>1, <2>1, <2>3, WriterKept, Zenon
<1>11. QED
  BY <1>9, <1>10

LEMMA TableInvStep == TableInv /\ [TableNext]_tableVars => TableInv'
<1> SUFFICES ASSUME TableInv, [TableNext]_tableVars PROVE TableInv'
  OBVIOUS
<1>1. CASE \E g \in Groups : ApplyBatches(g)
  BY <1>1, CallStep, Zenon
<1>2. CASE Distribute
  BY <1>2, DistributeStep, Zenon
<1>3. CASE ApplyShard
  BY <1>3, ApplyShardStep, Zenon
<1>4. CASE Return
  BY <1>4, ReturnStep, Zenon
<1>5. CASE StatsBegin
  BY <1>5, StatsBeginStep, Zenon
<1>6. CASE StatsShard
  BY <1>6, StatsShardStep, Zenon
<1>7. CASE UNCHANGED tableVars
  <2>1. UNCHANGED writerVars /\ UNCHANGED statsVars /\ table' = table
    BY <1>7, Zenon DEF tableVars, writerVars
  <2>2. Counting'
    BY <2>1, CountingKept, Zenon
  <2>3. scan' \in 0..ShardCount
    BY <2>1, Zenon DEF statsVars, TableInv, TableTypeOK
  <2>4. QED
    BY <2>1, <2>2, <2>3, WriterKept, Zenon
<1>8. QED
  BY <1>1, <1>2, <1>3, <1>4, <1>5, <1>6, <1>7, Zenon DEF TableNext

\* The table is, at every moment, what the group in progress makes of the shards
\* behind the loop of ApplyBatches and what it found in those before it.
THEOREM TableInvAlways == TableSpec => []TableInv
<1>1. TableInv /\ [TableNext]_tableVars => TableInv'
  BY TableInvStep
<1>2. QED
  BY <1>1, TableInvInit, PTL DEF TableSpec

\* The members of the MemTable and the locals of ApplyBatches and Stats keep
\* their types; in particular applyShardLocks_ counts at most one lock per
\* shard and call.
THEOREM TableTypeAlways == TableSpec => []TableTypeOK
<1>1. TableInv => TableTypeOK
  BY Zenon DEF TableInv
<1>2. QED
  BY <1>1, TableInvAlways, PTL

\* For every number of shards and every way to spread the keys over them,
\* ApplyBatches leaves what one entry after the other would have left, and
\* nothing in the scratch.
THEOREM ApplyAlwaysLastWins == TableSpec => []ApplyIsLastWins
<1>1. TableInv => ApplyIsLastWins
  <2> SUFFICES ASSUME TableInv, shard \in {0, ShardCount + 1}
               PROVE  table = after /\ \A s \in Shards : scratch[s] = <<>>
    BY Zenon DEF ApplyIsLastWins
  <2>1. TableTypeOK /\ Calling /\ Scratched /\ Halfway /\ ShardCount \in Nat \ {0}
    BY MemTableAssumption DEF TableInv
  <2>2. \A s \in Shards : ~(shard > 0 /\ s >= shard)
    BY <2>1 DEF Shards
  <2>3. \A s \in Shards : scratch[s] = <<>>
    BY <2>1, <2>2, Zenon DEF Scratched
  <2>4. CASE shard = 0
    BY <2>1, <2>3, <2>4, Zenon DEF Halfway
  <2>5. CASE shard = ShardCount + 1
    <3>1. shard /= 0 /\ \A k \in Keys : ShardFor[k] < shard
      BY <2>1, <2>5, MemTableAssumption DEF Shards
    <3>2. \A k \in Keys : table[k] = after[k]
      BY <2>1, <3>1, Zenon DEF Halfway
    <3>3. table = after
      BY <2>1, <3>2 DEF TableTypeOK, Calling
    <3>4. QED
      BY <2>3, <3>3
  <2>6. QED
    BY <2>4, <2>5
<1>2. QED
  BY <1>1, TableInvAlways, PTL

\* Between two shards, Get returns of every key what it returned before the group
\* or what it returns after it.
THEOREM NeverIntermediateValue == TableSpec => []NoIntermediateValue
<1>1. TableInv => NoIntermediateValue
  <2> SUFFICES ASSUME TableInv, NEW k \in Keys
               PROVE  Get(table, k) \in {Get(before, k), Get(after, k)}
    BY Zenon DEF NoIntermediateValue
  <2>1. table[k] = after[k] \/ table[k] = before[k]
    BY Zenon DEF TableInv, Halfway
  <2>2. QED
    BY <2>1, Zenon DEF Get
<1>2. QED
  BY <1>1, TableInvAlways, PTL

\* Whatever groups are applied meanwhile, Stats counts at least the entries there
\* were when it began and at most those there are when it ends.
THEOREM StatsAlwaysBounded == TableSpec => []StatsBounded
<1>1. TableInv => StatsBounded
  BY Zenon DEF TableInv, Counting
<1>2. QED
  BY <1>1, TableInvAlways, PTL

\* No step of ApplyBatches replaces the entry of a key by an older one.
THEOREM SequencesAlwaysGrow == TableSpec => SequencesGrow
<1> DEFINE A == \A k \in Keys : table[k].seq <= table'[k].seq
<1>1. TableInv /\ [TableNext]_tableVars => [A]_tableVars
  <2> SUFFICES ASSUME TableInv, TableNext PROVE A
    OBVIOUS
  <2>1. \A k \in Keys : table[k].seq \in Nat
    BY DEF TableInv, TableTypeOK, MemEntry
  <2>2. \A k \in Keys : table[k].seq <= table[k].seq
    BY <2>1
  <2>3. CASE ApplyShard
    BY <2>3, ShardEffect, Zenon
  <2>4. CASE ~ApplyShard
    <3>1. table' = table
      BY <2>4, Zenon DEF TableNext, ApplyBatches, Distribute, Return, StatsBegin, StatsShard,
         writerVars
    <3>2. QED
      BY <2>2, <3>1, Zenon
  <2>5. QED
    BY <2>3, <2>4, Zenon
<1> HIDE DEF A
<1>2. TableSpec => [][A]_tableVars
  BY <1>1, TableInvAlways, PTL DEF TableSpec
<1>3. QED
  BY <1>2 DEF SequencesGrow, A
=============================================================================
