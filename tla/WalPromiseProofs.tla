-------------------------- MODULE WalPromiseProofs ---------------------------
(***************************************************************************)
(* WalStore implements DurableStore, in every environment.                 *)
(***************************************************************************)
EXTENDS WalPromise, WalCrashProofs

\* The provers of a leaf that names none.
USE SMTT(30), Zenon

LEMMA PositiveSize ==
  ASSUME NEW r \in Record
  PROVE  Size(r) \in Nat /\ 1 \in 1..Size(r)
BY SizeType

\* Along a log with growing sequence numbers, entries of a key get newer.
LEMMA EntriesRise ==
  ASSUME NEW S, NEW f \in Seq(Cell), Written(f, S), NEW n \in 0..Len(f), ValidPrefix(f, n),
         Rising(f, n), NEW c \in 1..n, NEW d \in 1..n, c < d, f[c].idx > 1, f[d].idx > 1
  PROVE  EntryAt(f, c).seq < EntryAt(f, d).seq
<1> DEFINE p == StartOf(f, c)
           q == StartOf(f, d)
           b == f[c].rec.base
           e == f[d].rec.base
           l == Len(f[c].rec.entries)
           x == f[c].idx
           z == f[d].idx
<1>1. /\ b \in Nat /\ e \in Nat /\ l \in Nat /\ x \in Nat /\ z \in Nat
      /\ Size(f[c].rec) = l + 1 /\ End(f[c]) = b + l /\ c \in 1..Len(f) /\ d \in 1..Len(f)
      /\ f[c] /= Zero /\ f[d] /= Zero
  BY EndType DEF End
<1>2. x \in 1..l + 1 /\ z \in 1..Size(f[d].rec) /\ x > 1 /\ z > 1
  BY <1>1 DEF Written
<1>3. p = c - x /\ q = d - z
  BY DEF StartOf
<1>4. EntryAt(f, c).seq = b + x - 2 /\ EntryAt(f, d).seq = e + z - 2
  BY DEF EntryAt
<1>5. p < q => b + l <= e
  BY <1>1 DEF Rising
<1>6. q < p => q + Size(f[d].rec) <= p
  BY NoOverlap
<1>7. p = q => f[c].rec = f[d].rec
  <2> SUFFICES ASSUME p = q
               PROVE  f[c].rec = f[d].rec
    OBVIOUS
  <2>1. RecordAt(f, p, f[c].rec) /\ RecordAt(f, p, f[d].rec)
    BY DEF ValidPrefix
  <2>2. Size(f[c].rec) \in Nat /\ Size(f[d].rec) \in Nat /\ 1 \in 1..Size(f[c].rec)
        /\ 1 \in 1..Size(f[d].rec)
    <3>1. f[c].rec \in Record /\ f[d].rec \in Record
      BY EndType
    <3>2. QED
      BY <3>1, PositiveSize
  <2>3. f[p + 1] = [rec |-> f[c].rec, idx |-> 1] /\ f[p + 1] = [rec |-> f[d].rec, idx |-> 1]
    BY <2>1, <2>2, Zenon DEF RecordAt
  <2>4. f[p + 1].rec = f[c].rec /\ f[p + 1].rec = f[d].rec
    <3>1. f[p + 1].rec = f[c].rec
      BY <2>3
    <3>2. f[p + 1].rec = f[d].rec
      BY <2>3
    <3>3. QED
      BY <3>1, <3>2
  <2>5. QED
    BY <2>4
<1>8. p = q => b = e
  BY <1>7
<1>9. Size(f[d].rec) \in Nat
  BY EndType
<1> DEFINE s == Size(f[d].rec)
<1> HIDE DEF p, q, b, e, l, x, z, s
<1>10. b + x - 2 < e + z - 2
  <2>1. CASE p < q
    BY <1>1, <1>2, <1>5, <2>1
  <2>2. CASE p = q
    BY <1>1, <1>3, <1>8, <2>2
  <2>3. CASE q < p
    <3>1. z <= s /\ q + s <= p /\ s \in Nat
      BY <1>1, <1>2, <1>6, <1>9, <2>3 DEF s
    <3>2. c \in Int /\ d \in Int /\ c < d
      OBVIOUS
    <3>3. d - z + s <= c - x
      BY <1>3, <3>1
    <3>4. QED
      BY <1>1, <1>2, <3>1, <3>2, <3>3
  <2>4. QED
    BY <1>1, <1>3, <2>1, <2>2, <2>3
<1>11. QED
  BY <1>4, <1>10

LEMMA UpTo ==
  ASSUME NEW n \in Nat, NEW a \in Nat, NEW l \in 1..n, ~(l > a)
  PROVE  l \in 1..a
OBVIOUS

\* What recovery finds behind the anchor is the table at the anchor together
\* with some of the groups since, which do not get in each other's way.
LEMMA RecoveryMerges ==
  ASSUME NEW S, NEW f \in Seq(Cell), Written(f, S),
         NEW n \in 0..Len(f), NEW a \in 0..n, ValidPrefix(f, a), ValidPrefix(f, n),
         NEW A, Follows(f, a, RecoveredSequence(f, a), A), Rising(f, a)
  PROVE  \E C \in SUBSET A : Store!Apart(C) /\ Replay(f, n) = Store!Merged(Replay(f, a), C)
<1> DEFINE C == {f[i].rec : i \in a + 1..n}
           t == Replay(f, a)
<1>0. n \in Nat /\ a \in Nat /\ a <= n /\ a \in 0..Len(f)
  OBVIOUS
<1>1. Rising(f, n)
  BY TailRises
<1>2. C \in SUBSET A
  <2>1. RecoveredSequence(f, a) \in Nat
    BY <1>0, SequenceBounds
  <2>2. \A i \in a + 1..n : f[i].rec \in A
    BY <2>1, TailEnds
  <2>3. QED
    BY <2>2
<1>3. Store!Apart(C)
  <2> SUFFICES ASSUME NEW i \in a + 1..n, NEW j \in a + 1..n
               PROVE  \/ f[i].rec = f[j].rec
                      \/ f[i].rec.base + Len(f[i].rec.entries) <= f[j].rec.base
                      \/ f[j].rec.base + Len(f[j].rec.entries) <= f[i].rec.base
    BY Zenon DEF Store!Apart
  <2>0. i \in 1..n /\ j \in 1..n
    BY <1>0
  <2>1. StartOf(f, i) \in Int /\ StartOf(f, j) \in Int
    BY TailStarts
  <2>2. CASE StartOf(f, i) < StartOf(f, j) \/ StartOf(f, j) < StartOf(f, i)
    BY <1>1, <2>0, <2>2 DEF Rising, End
  <2>3. CASE StartOf(f, i) = StartOf(f, j)
    <3> DEFINE p == StartOf(f, i)
    <3>1. RecordAt(f, p, f[i].rec) /\ RecordAt(f, p, f[j].rec)
      BY <2>0, <2>3 DEF ValidPrefix
    <3>2. 1 \in 1..Size(f[i].rec) /\ 1 \in 1..Size(f[j].rec)
      <4>1. /\ Size(f[i].rec) = Len(f[i].rec.entries) + 1 /\ Len(f[i].rec.entries) \in Nat
            /\ Size(f[j].rec) = Len(f[j].rec.entries) + 1 /\ Len(f[j].rec.entries) \in Nat
        BY <2>0, EndType
      <4>2. QED
        BY <4>1
    <3>3. f[p + 1] = [rec |-> f[i].rec, idx |-> 1] /\ f[p + 1] = [rec |-> f[j].rec, idx |-> 1]
      BY <3>1, <3>2, Zenon DEF RecordAt
    <3>4. f[p + 1].rec = f[i].rec
      BY <3>3
    <3>5. f[p + 1].rec = f[j].rec
      BY <3>3
    <3>6. QED
      BY <3>4, <3>5
  <2>4. QED
    BY <2>1, <2>2, <2>3
<1>4. ASSUME NEW k \in Keys
      PROVE  Replay(f, n)[k] = Store!Merged(t, C)[k]
  <2> DEFINE All == EntryCells(f, n, k)
             Old == EntryCells(f, a, k)
             all == {t[k]} \cup UNION {Store!EntriesFor(r, k) : r \in C}
             top == Replay(f, n)[k]
  <2>1. Store!Merged(t, C)[k] = CHOOSE e \in all : \A d \in all : d.seq <= e.seq
    BY Zenon DEF Store!Merged
  <2>2. All \subseteq 1..n /\ Old \subseteq 1..a /\ \A i \in All : f[i].idx > 1
    BY DEF EntryCells
  <2>3. \A i \in 1..a : i \in 1..n /\ (i \in All <=> i \in Old)
    BY <1>0 DEF EntryCells
  <2>4. /\ All = {} => top = Untouched
        /\ All /= {} => top = EntryAt(f, LastOf(All))
        /\ Old = {} => t[k] = Untouched
        /\ Old /= {} => t[k] = EntryAt(f, LastOf(Old))
    BY ReplayAt
  <2>5. \A i \in All : EntryAt(f, i).seq \in Nat /\ EntryAt(f, i).seq > 0
    <3> SUFFICES ASSUME NEW i \in All
                 PROVE  EntryAt(f, i).seq \in Nat /\ EntryAt(f, i).seq > 0
      OBVIOUS
    <3>1. i \in 1..n /\ f[i].idx > 1
      BY <2>2
    <3>2. f[i].rec.base \in Nat \ {0} /\ f[i].idx \in Nat
      BY <3>1, EndType
    <3>3. EntryAt(f, i).seq = f[i].rec.base + f[i].idx - 2
      BY DEF EntryAt
    <3>4. QED
      BY <3>1, <3>2, <3>3
  <2>6. \A i, j \in All : i < j => EntryAt(f, i).seq < EntryAt(f, j).seq
    BY <1>1, <2>2, EntriesRise
  \* The entries of the groups in C are those of the cells behind the anchor.
  <2>7. ASSUME NEW r \in C, NEW d \in Store!EntriesFor(r, k)
        PROVE  \E c \in All : c > a /\ d = EntryAt(f, c)
    <3>1. PICK i \in a + 1..n : r = f[i].rec
      OBVIOUS
    <3>2. PICK j \in DOMAIN r.entries : r.entries[j].key = k
                  /\ d = [seq |-> r.base + j - 1, val |-> r.entries[j].val]
      BY Zenon DEF Store!EntriesFor
    <3> DEFINE p == StartOf(f, i)
               c == p + (j + 1)
    <3>3. /\ i \in 1..n /\ p \in Int /\ p >= a /\ p + Size(r) <= n
      BY <3>1, TailStarts
    <3>4. r \in Record /\ RecordAt(f, p, r)
      BY <3>1, <3>3, EndType, Zenon DEF ValidPrefix
    <3>5. j \in 1..Len(r.entries) /\ Size(r) = Len(r.entries) + 1 /\ Len(r.entries) \in Nat
          /\ r.base \in Nat
      BY <3>2, <3>4, SizeType
    <3>6. f[c] = [rec |-> r, idx |-> j + 1]
      <4>1. j + 1 \in 1..Size(r)
        BY <3>5
      <4>2. QED
        BY <3>4, <4>1 DEF RecordAt
    <3>7. f[c].rec = r /\ f[c].idx = j + 1
      BY <3>6
    <3> HIDE DEF p
    <3>8. c \in 1..n /\ c > a /\ j + 1 > 1 /\ j + 1 - 1 = j
      <4> DEFINE e == Len(r.entries)
      <4>1. j \in 1..e /\ e \in Nat /\ p + (e + 1) <= n
        BY <3>3, <3>5
      <4> HIDE DEF e
      <4>2. QED
        BY <1>0, <3>3, <4>1
    <3> HIDE DEF c
    <3>12. f[c].rec.entries[f[c].idx - 1] = r.entries[j]
      <4>3. f[c].idx - 1 = (j + 1) - 1
        BY <3>7, Zenon
      <4>4. j \in Int
        BY <3>5
      <4>5. (j + 1) - 1 = j
        BY <4>4
      <4>1. f[c].idx - 1 = j
        BY <4>3, <4>5, Zenon
      <4>2. QED
        BY <3>7, <4>1, Zenon
    <3>9. c \in All
      <4>1. f[c].idx > 1 /\ f[c].rec.entries[f[c].idx - 1].key = k
        BY <3>2, <3>7, <3>8, <3>12
      <4>2. QED
        BY <3>8, <4>1 DEF EntryCells
    <3>10. EntryAt(f, c) = d
      <4>1. r.base + (j + 1) - 2 = r.base + j - 1
        BY <3>5
      <4>2. EntryAt(f, c) = [seq |-> r.base + (j + 1) - 2, val |-> r.entries[j].val]
        BY <3>7, <3>12 DEF EntryAt
      <4>3. QED
        BY <3>2, <4>1, <4>2
    <3>11. QED
      BY <3>8, <3>9, <3>10
  <2>8. ASSUME NEW c \in All, c > a
        PROVE  EntryAt(f, c) \in all
    <3> DEFINE r == f[c].rec
               j == f[c].idx - 1
    <3>1. c \in 1..n /\ c \in a + 1..n /\ f[c].idx > 1 /\ r.entries[j].key = k
      BY <1>0, <2>2, <2>8 DEF EntryCells
    <3>2. r \in C
      BY <3>1
    <3>3. /\ f[c] /= Zero /\ r \in Record /\ f[c].idx \in Nat /\ c \in 1..Len(f)
          /\ r.base \in Nat
      BY <3>1, EndType
    <3>4. f[c].idx \in 1..Size(r) /\ Size(r) = Len(r.entries) + 1 /\ Len(r.entries) \in Nat
          /\ DOMAIN r.entries = 1..Len(r.entries)
      BY <3>3, SizeType DEF Written
    <3>5. j \in DOMAIN r.entries /\ r.base + f[c].idx - 2 = r.base + j - 1
      BY <3>1, <3>3, <3>4
    <3>6. EntryAt(f, c) = [seq |-> r.base + j - 1, val |-> r.entries[j].val]
      BY <3>5 DEF EntryAt
    <3> HIDE DEF r, j
    <3>7. EntryAt(f, c) \in Store!EntriesFor(r, k)
      BY <3>1, <3>5, <3>6, Zenon DEF Store!EntriesFor
    <3>8. QED
      BY <3>2, <3>7
  <2> HIDE DEF All, Old, C, t
  <2>9. /\ top \in all /\ top.seq \in Nat
        /\ \A d \in all : d = top \/ (d.seq \in Nat /\ d.seq < top.seq)
    <3>1. CASE All = {}
      <4>1. Old = {}
        BY <2>2, <2>3, <3>1
      <4>2. t[k] = Untouched /\ top = Untouched
        BY <2>4, <3>1, <4>1
      <4>3. all = {Untouched}
        BY <2>7, <3>1, <4>2
      <4>4. QED
        BY <4>2, <4>3 DEF Untouched
    <3>2. CASE All /= {}
      <4> DEFINE l == LastOf(All)
      <4>1. l \in All /\ \A j \in All : j <= l
        BY <1>0, <2>2, <3>2, LastOfIsLast
      <4>2. top = EntryAt(f, l) /\ top.seq \in Nat /\ top.seq > 0
        BY <2>4, <2>5, <3>2, <4>1
      <4>3. All \subseteq Nat /\ l \in Nat
        BY <1>0, <2>2, <4>1
      <4> HIDE DEF l
      <4>4. \A c \in All :
              EntryAt(f, c) = top \/ (EntryAt(f, c).seq \in Nat /\ EntryAt(f, c).seq < top.seq)
        <5> SUFFICES ASSUME NEW c \in All
                     PROVE  \/ EntryAt(f, c) = top
                            \/ EntryAt(f, c).seq \in Nat /\ EntryAt(f, c).seq < top.seq
          OBVIOUS
        <5>1. c = l \/ c < l
          BY <4>1, <4>3
        <5>2. QED
          BY <2>5, <2>6, <4>1, <4>2, <5>1
      <4>5. t[k] = Untouched \/ \E c \in All : t[k] = EntryAt(f, c)
        <5>1. CASE Old = {}
          BY <2>4, <5>1
        <5>2. CASE Old /= {}
          <6>1. LastOf(Old) \in Old
            BY <1>0, <2>2, <5>2, LastOfIsLast, ZenonT(30)
          <6>2. QED
            BY <2>2, <2>3, <2>4, <5>2, <6>1, Zenon
        <5>3. QED
          BY <5>1, <5>2
      <4>6. \A d \in all : d = top \/ (d.seq \in Nat /\ d.seq < top.seq)
        <5>1. t[k] = top \/ (t[k].seq \in Nat /\ t[k].seq < top.seq)
          BY <4>2, <4>4, <4>5 DEF Untouched
        <5>2. QED
          BY <2>7, <4>4, <5>1
      <4>7. top \in all
        <5>1. CASE l > a
          BY <2>8, <4>1, <4>2, <5>1
        <5>2. CASE ~(l > a)
          <6>1. l \in 1..a
            <7>1. l \in 1..n
              BY <2>2, <4>1, Zenon
            <7>2. QED
              BY <1>0, <5>2, <7>1, UpTo, Zenon
          <6>2. l \in Old /\ \A j \in Old : j <= l
            BY <2>2, <2>3, <4>1, <6>1, Zenon
          <6>3. LastOf(Old) = l
            BY <1>0, <2>2, <6>2, LastOfIsUnique, Zenon
          <6>4. t[k] = top
            BY <2>4, <4>2, <6>2, <6>3
          <6>5. QED
            BY <6>4
        <5>3. QED
          BY <5>1, <5>2
      <4>8. QED
        BY <4>2, <4>6, <4>7
    <3>3. QED
      BY <3>1, <3>2
  <2> HIDE DEF all, top
  <2>10. \A d \in all : d.seq <= top.seq
    BY <2>9
  <2>11. \A e \in all : (\A d \in all : d.seq <= e.seq) => e = top
    <3> SUFFICES ASSUME NEW e \in all, \A d \in all : d.seq <= e.seq
                 PROVE  e = top
      OBVIOUS
    <3>1. top.seq <= e.seq
      BY <2>9
    <3>2. QED
      BY <2>9, <3>1
  <2>12. (CHOOSE e \in all : \A d \in all : d.seq <= e.seq) = top
    <3> DEFINE ch == CHOOSE e \in all : \A d \in all : d.seq <= e.seq
    <3>1. ch \in all /\ \A d \in all : d.seq <= ch.seq
      BY <2>9, <2>10
    <3> HIDE DEF ch
    <3>2. ch = top
      BY <2>11, <3>1
    <3>3. QED
      BY <3>2 DEF ch
  <2>13. QED
    BY <2>1, <2>12 DEF all, top
<1>5. Replay(f, n) = Store!Merged(t, C)
  <2>1. Replay(f, n) = [k \in Keys |-> Replay(f, n)[k]]
    BY DEF Replay
  <2> HIDE DEF t, C
  <2>2. Store!Merged(t, C) = [k \in Keys |-> Store!Merged(t, C)[k]]
    <3> DEFINE top(k) == LET all == {t[k]} \cup UNION {Store!EntriesFor(q, k) : q \in C}
                         IN  CHOOSE e \in all : \A d \in all : d.seq <= e.seq
    <3>1. Store!Merged(t, C) = [k \in Keys |-> top(k)]
      BY Zenon DEF Store!Merged
    <3> HIDE DEF top
    <3>2. QED
      BY <3>1
  <2>3. QED
    BY <1>4, <2>1, <2>2
<1>6. QED
  BY <1>2, <1>3, <1>5, Zenon
\* A record is in flight in writeGroup and nowhere else.
PendInv ==
  /\ phase \in {"down", "truncated", "idle"} => rec = NoRecord
  /\ phase \in {"encoded", "written", "synced"} => rec /= NoRecord

LEMMA PendInit == Init => PendInv
BY DEF Init, PendInv

LEMMA PendStep ==
  ASSUME PendInv, [Next]_vars
  PROVE  PendInv'
<1>1. CASE Open
  BY <1>1 DEF Open, OpenFails, Down, Recovered, PendInv
<1>2. CASE RecoverSync
  BY <1>2 DEF RecoverSync, Down, PendInv
<1>3. ASSUME NEW g \in Groups, WriteGroup(g)
      PROVE  PendInv'
  <2>1. phase' = "encoded" /\ rec' = [base |-> nextSequence, entries |-> g] /\ g /= <<>>
    BY <1>3, WalStoreAssumption DEF WriteGroup, EncodeGroup
  <2>2. rec' /= NoRecord
    BY <2>1 DEF NoRecord
  <2>3. QED
    BY <2>1, <2>2 DEF PendInv
<1>4. ASSUME NEW n \in Transfers(rec), Writev(n)
      PROVE  PendInv'
  BY <1>4 DEF Writev, GroupEnds, PendInv
<1>5. CASE FDataSync
  BY <1>5 DEF FDataSync, GroupEnds, PendInv
<1>6. CASE Apply
  BY <1>6 DEF Apply, GroupEnds, PendInv
<1>7. CASE Close \/ ProcessCrash \/ PowerLoss
  BY <1>7 DEF Close, CloseFile, ProcessCrash, PowerLoss, Down, PendInv
<1>8. CASE Finished \/ UNCHANGED vars
  BY <1>8 DEF Finished, vars, PendInv
<1>9. QED
  BY <1>1, <1>2, <1>3, <1>4, <1>5, <1>6, <1>7, <1>8 DEF Next

\* The operators of DurableStore are those of WalStore.
LEMMA SameTables ==
  /\ Store!Blank = [k \in Keys |-> Untouched]
  /\ Store!NoGroup = NoRecord
  /\ \A t, r : Store!ApplyRecord(t, r) = ApplyRecord(t, r)
  /\ Store!Futures = Futures
<1>1. Store!Blank = [k \in Keys |-> Untouched]
  BY DEF Store!Blank, Store!Untouched, Untouched
<1>2. Store!NoGroup = NoRecord
  BY DEF Store!NoGroup, NoRecord
<1>3. \A t, r : Store!ApplyRecord(t, r) = ApplyRecord(t, r)
  BY Zenon DEF Store!ApplyRecord, ApplyRecord
<1>4. Store!Futures = Futures
  BY <1>3 DEF Store!Futures, Futures
<1>5. QED
  BY <1>1, <1>2, <1>3, <1>4

LEMMA StoreInit == Init => Store!Init
<1> SUFFICES ASSUME Init
             PROVE  Store!Init
  OBVIOUS
<1>1. ~IsOpen
  BY DEF Init, IsOpen
<1>2. LogKept \in BOOLEAN /\ Orderly \in BOOLEAN
  BY DEF LogKept, Orderly
<1>3. QED
  BY <1>1, <1>2, SameTables DEF Init, Store!Init

\* The environment does not change.
LEMMA SameEnvironment ==
  ASSUME faults' = faults
  PROVE  LogKept' = LogKept /\ Orderly' = Orderly
BY DEF LogKept, Orderly

\* What Open reports as recovered DurableStore allows: where the log is kept
\* the settled table with some of the groups attempted since, and on an
\* ordered file system whose syncs succeed one of the tables that the DB was
\* about to have.
LEMMA RecoveredIsAllowed ==
  ASSUME OrdInv, NEW n \in 0..Len(cache), ValidPrefix(cache, n),
         phase /= "down" => walOffset = n,
         phase = "down" => \A m \in n + 1..Len(cache) : ~ValidPrefix(cache, m)
  PROVE  /\ LogKept => \E C \in SUBSET {x.group : x \in attempts} :
                         Store!Apart(C) /\ Replay(cache, n) = Store!Merged(settled, C)
         /\ Orderly => Replay(cache, n) \in Store!Futures
<1>0. cache \in Seq(Cell) /\ Written(cache, issued) /\ Len(cache) \in Nat
  BY DEF OrdInv, DurInv, LogInv, FileInv
<1>1. ASSUME NEW a \in Nat, a <= Len(cache), ValidPrefix(cache, a),
             phase /= "down" => a <= walOffset
      PROVE  a <= n
  <2>1. CASE phase = "down"
    <3>1. a \in n + 1..Len(cache) \/ a <= n
      BY <1>0, <1>1
    <3>2. QED
      BY <1>1, <2>1, <3>1
  <2>2. QED
    BY <1>1, <2>1
<1>2. ASSUME LogKept
      PROVE  \E C \in SUBSET {x.group : x \in attempts} :
               Store!Apart(C) /\ Replay(cache, n) = Store!Merged(settled, C)
  <2>1. PICK a \in Nat : Rooted(a) /\ Placed(a)
    BY <1>2 DEF OrdInv, DurInv, KeptInv
  <2>2. /\ a <= Len(cache) /\ ValidPrefix(cache, a) /\ Rising(cache, a)
        /\ Replay(cache, a) = settled
        /\ Follows(cache, a, RecoveredSequence(cache, a), Attempted)
        /\ phase /= "down" => a <= walOffset
    BY <2>1 DEF Rooted, Placed
  <2>3. a \in 0..n
    BY <1>1, <2>2
  <2>4. \E C \in SUBSET Attempted :
          Store!Apart(C) /\ Replay(cache, n) = Store!Merged(Replay(cache, a), C)
    BY <1>0, <2>2, <2>3, RecoveryMerges
  <2>5. QED
    BY <2>2, <2>4 DEF Attempted
<1>3. ASSUME Orderly
      PROVE  Replay(cache, n) \in Store!Futures
  <2>1. PICK a \in Nat : Promising(a)
    BY <1>3 DEF OrdInv, OrderInv
  <2>2. a <= n
    BY <1>1, <2>1 DEF Promising
  <2>3. n \in a..Len(cache)
    BY <2>2
  <2>4. QED
    BY <2>1, <2>3, SameTables DEF Promising
<1>4. QED
  BY <1>2, <1>3
\* Steps without a DB object that settle and attempt nothing.
LEMMA NothingToSee ==
  ASSUME ~IsOpen, ~IsOpen', faults' = faults, UNCHANGED <<rec, settled, attempts>>
  PROVE  UNCHANGED Store!vars
<1>1. LogKept' = LogKept /\ Orderly' = Orderly
  BY SameEnvironment
<1>2. (IF IsOpen THEN mem ELSE [k \in Keys |-> Untouched])'
        = IF IsOpen THEN mem ELSE [k \in Keys |-> Untouched]
  BY DEF Untouched
<1>3. IsOpen' = IsOpen
  BY DEF IsOpen
<1>4. QED
  BY <1>1, <1>2, <1>3 DEF Store!vars

\* DB::Open succeeds.
LEMMA RecoverSimulated ==
  ASSUME OrdInv, ~IsOpen, IsOpen', faults' = faults, rec' = rec,
         LogKept => \E n \in 0..Len(cache) :
           /\ mem' = Replay(cache, n) /\ ValidPrefix(cache, n)
           /\ phase /= "down" => walOffset = n
           /\ phase = "down" => \A m \in n + 1..Len(cache) : ~ValidPrefix(cache, m),
         \/ settled' = mem' /\ attempts' = {}
         \/ UNCHANGED <<settled, attempts>>
  PROVE  Store!Next
<1>1. LogKept' = LogKept /\ Orderly' = Orderly
  BY SameEnvironment
<1>2. Orderly => LogKept
  BY OrderlyKept
<1>3. /\ LogKept => \E C \in SUBSET {x.group : x \in attempts} :
                      Store!Apart(C) /\ mem' = Store!Merged(settled, C)
      /\ Orderly => mem' \in Store!Futures
  <2>1. CASE ~LogKept
    BY <1>2, <2>1
  <2>2. CASE LogKept
    <3>1. PICK n \in 0..Len(cache) :
            /\ mem' = Replay(cache, n) /\ ValidPrefix(cache, n)
            /\ phase /= "down" => walOffset = n
            /\ phase = "down" => \A m \in n + 1..Len(cache) : ~ValidPrefix(cache, m)
      BY <2>2
    <3>2. /\ LogKept => \E C \in SUBSET {x.group : x \in attempts} :
                          Store!Apart(C) /\ Replay(cache, n) = Store!Merged(settled, C)
          /\ Orderly => Replay(cache, n) \in Store!Futures
      BY <3>1, RecoveredIsAllowed
    <3>3. QED
      BY <3>1, <3>2
  <2>3. QED
    BY <2>1, <2>2
<1>4. Store!Recover
  BY <1>3 DEF Store!Recover
<1>5. QED
  BY <1>1, <1>4 DEF Store!Next

LEMMA OpenSimulated ==
  ASSUME OrdInv, PendInv, Open, faults' = faults
  PROVE  [Store!Next]_(Store!vars)
<1>0. phase = "down" /\ ~IsOpen /\ rec = NoRecord
  BY DEF Open, IsOpen, PendInv
<1>2. ASSUME NEW why, OpenFails(why)
      PROVE  UNCHANGED Store!vars
  <2>1. ~IsOpen' /\ rec' = rec /\ settled' = settled /\ attempts' = attempts
    BY <1>0, <1>2 DEF OpenFails, Down, IsOpen
  <2>2. QED
    BY <1>0, <2>1, NothingToSee
<1>3. ASSUME NEW m \in ReadLengths, NEW n \in 0..m, IsValidBytes(SubSeq(cache, 1, m), n),
             Recovered(m, n), rec' = rec
      PROVE  [Store!Next]_(Store!vars)
  <2>1. CASE MustTruncate(m, n)
    <3>1. ~IsOpen' /\ settled' = settled /\ attempts' = attempts
      BY <2>1, <1>3 DEF Recovered, IsOpen
    <3>2. QED
      BY <1>0, <1>3, <3>1, NothingToSee
  <2>2. CASE ~MustTruncate(m, n)
    <3>1. /\ IsOpen'
          /\ \/ settled' = mem' /\ attempts' = {}
             \/ UNCHANGED <<settled, attempts>>
      BY <2>2, <1>3 DEF Recovered, IsOpen, Settle
    <3>2. ASSUME LogKept
          PROVE  /\ n \in 0..Len(cache) /\ mem' = Replay(cache, n) /\ ValidPrefix(cache, n)
                 /\ \A k \in n + 1..Len(cache) : ~ValidPrefix(cache, k)
      <4>1. m = Len(cache) /\ cache \in Seq(Cell)
        BY <3>2 DEF LogKept, ReadLengths, OrdInv, DurInv, LogInv, FileInv
      <4>2. SubSeq(cache, 1, m) = cache
        BY <4>1
      <4>3. QED
        BY <1>3, <4>1, <4>2, Zenon DEF IsValidBytes, Recovered
    <3>3. QED
      BY <1>0, <1>3, <3>1, <3>2, RecoverSimulated
  <2>3. QED
    BY <2>1, <2>2
<1>4. QED
  BY <1>2, <1>3 DEF Open

LEMMA RecoverSyncSimulated ==
  ASSUME OrdInv, PendInv, RecoverSync, faults' = faults
  PROVE  [Store!Next]_(Store!vars)
<1>0. phase = "truncated" /\ ~IsOpen /\ rec = NoRecord
  BY DEF RecoverSync, IsOpen, PendInv
<1>2. CASE Down /\ UNCHANGED <<settled, attempts>>
  <2>1. ~IsOpen' /\ rec' = rec
    BY <1>0, <1>2 DEF Down, IsOpen
  <2>2. QED
    BY <1>0, <1>2, <2>1, NothingToSee
<1>3. CASE phase' = "idle" /\ Settle(mem) /\ UNCHANGED <<members, rec>>
  <2>1. IsOpen' /\ mem' = mem /\ rec' = rec /\ settled' = mem' /\ attempts' = {}
    BY <1>3 DEF IsOpen, members, Settle
  <2>2. /\ walOffset \in 0..Len(cache) /\ ValidPrefix(cache, walOffset)
        /\ mem = Replay(cache, walOffset)
    BY <1>0 DEF OrdInv, DurInv, LogInv, LogHead, MemberTypes, FileInv
  <2>3. \E n \in 0..Len(cache) :
           /\ mem' = Replay(cache, n) /\ ValidPrefix(cache, n)
           /\ phase /= "down" => walOffset = n
           /\ phase = "down" => \A m \in n + 1..Len(cache) : ~ValidPrefix(cache, m)
    BY <1>0, <2>1, <2>2
  <2>4. QED
    BY <1>0, <2>1, <2>3, RecoverSimulated
<1>4. QED
  BY <1>2, <1>3 DEF RecoverSync
\* writeGroup hands its group to the log, and acknowledges or fails it.
LEMMA GroupSimulated ==
  ASSUME OrdInv, PendInv, faults' = faults,
         \/ \E g \in Groups : WriteGroup(g)
         \/ \E n \in Transfers(rec) : Writev(n)
         \/ FDataSync \/ Apply
  PROVE  [Store!Next]_(Store!vars)
<1>1. LogKept' = LogKept /\ Orderly' = Orderly
  BY SameEnvironment
<1>2. ASSUME NEW g \in Groups, WriteGroup(g)
      PROVE  Store!Next
  <2>1. IsOpen /\ IsOpen' /\ mem' = mem /\ settled' = settled /\ rec = NoRecord
    BY <1>2 DEF WriteGroup, EncodeGroup, members, IsOpen, PendInv
  <2>2. rec' /= NoRecord
    <3>1. rec' = [base |-> nextSequence, entries |-> g] /\ g /= <<>>
      BY <1>2, WalStoreAssumption DEF WriteGroup, EncodeGroup
    <3>2. QED
      BY <3>1 DEF NoRecord
  <2>3. attempts' = attempts \cup {[on |-> mem, group |-> rec']}
    BY <1>2 DEF WriteGroup, EncodeGroup
  <2>4. Store!Begin
    BY <2>1, <2>2, <2>3, SameTables DEF Store!Begin
  <2>5. QED
    BY <1>1, <2>4 DEF Store!Next
<1>3. ASSUME IsOpen, rec /= NoRecord, GroupEnds, mem' = mem, UNCHANGED <<settled, attempts>>
      PROVE  Store!Next
  <2>1. IsOpen' /\ rec' = NoRecord
    BY <1>3 DEF GroupEnds, IsOpen
  <2>2. Store!Fail
    BY <1>3, <2>1, SameTables DEF Store!Fail
  <2>3. QED
    BY <1>1, <2>2 DEF Store!Next
<1>4. ASSUME IsOpen, IsOpen', rec' = rec, mem' = mem, UNCHANGED <<settled, attempts>>
      PROVE  UNCHANGED Store!vars
  BY <1>1, <1>4 DEF Store!vars
<1>5. ASSUME NEW n \in Transfers(rec), Writev(n)
      PROVE  [Store!Next]_(Store!vars)
  <2>1. IsOpen /\ rec /= NoRecord /\ mem' = mem /\ UNCHANGED <<settled, attempts>>
    BY <1>5 DEF Writev, members, history, IsOpen, PendInv
  <2>2. GroupEnds \/ (IsOpen' /\ rec' = rec)
    BY <1>5 DEF Writev, IsOpen
  <2>3. QED
    BY <1>3, <1>4, <2>1, <2>2
<1>6. CASE FDataSync
  <2>1. IsOpen /\ rec /= NoRecord /\ mem' = mem /\ UNCHANGED <<settled, attempts>>
    BY <1>6 DEF FDataSync, members, history, IsOpen, PendInv
  <2>2. GroupEnds \/ (IsOpen' /\ rec' = rec)
    BY <1>6 DEF FDataSync, IsOpen
  <2>3. QED
    BY <1>3, <1>4, <2>1, <2>2
<1>7. CASE Apply
  <2>1. /\ IsOpen /\ IsOpen' /\ rec /= NoRecord /\ rec' = NoRecord
        /\ mem' = ApplyRecord(mem, rec) /\ settled' = mem' /\ attempts' = {}
    BY <1>7 DEF Apply, MayApply, GroupEnds, Settle, IsOpen, PendInv
  <2>2. Store!Acknowledge
    BY <2>1, SameTables DEF Store!Acknowledge
  <2>3. QED
    BY <1>1, <2>2 DEF Store!Next
<1>8. QED
  BY <1>2, <1>5, <1>6, <1>7

\* ~DB and the crashes.
LEMMA ShutSimulated ==
  ASSUME PendInv, MemberTypes, faults' = faults, Down, UNCHANGED <<settled, attempts>>
  PROVE  [Store!Next]_(Store!vars)
<1>1. LogKept' = LogKept /\ Orderly' = Orderly
  BY SameEnvironment
<1>2. ~IsOpen' /\ rec' = NoRecord
  BY DEF Down, IsOpen
<1>3. CASE IsOpen
  <2>1. Store!Shut
    BY <1>2, <1>3, SameTables DEF Store!Shut
  <2>2. QED
    BY <1>1, <2>1 DEF Store!Next
<1>4. CASE ~IsOpen
  <2>1. rec = NoRecord
    BY <1>4 DEF PendInv, MemberTypes, Phases, IsOpen
  <2>2. QED
    BY <1>2, <1>4, <2>1, NothingToSee
<1>5. QED
  BY <1>3, <1>4

LEMMA StoreStep ==
  ASSUME OrdInv, PendInv, [Next]_vars
  PROVE  [Store!Next]_(Store!vars)
<1>1. CASE Next /\ ~Finished
  <2>1. faults' = faults
    BY <1>1 DEF Next
  <2>2. MemberTypes
    BY DEF OrdInv, DurInv, LogInv
  <2>3. CASE Close \/ ProcessCrash \/ PowerLoss
    <3>1. Down /\ UNCHANGED <<settled, attempts>>
      BY <2>3 DEF Close, CloseFile, ProcessCrash, PowerLoss, history
    <3>2. QED
      BY <2>1, <2>2, <3>1, ShutSimulated
  <2>4. QED
    BY <1>1, <2>1, <2>3, OpenSimulated, RecoverSyncSimulated, GroupSimulated DEF Next
<1>2. CASE Finished \/ UNCHANGED vars
  <2>1. UNCHANGED <<phase, mem, rec, settled, attempts, faults>>
    BY <1>2 DEF Finished, vars, members, history
  <2>2. IsOpen' = IsOpen /\ LogKept' = LogKept /\ Orderly' = Orderly
    BY <2>1 DEF IsOpen, LogKept, Orderly
  <2>3. QED
    BY <2>1, <2>2 DEF Store!vars
<1>3. QED
  BY <1>1, <1>2

\* DB keeps the promise of DurableStore in every environment: a group of writes
\* takes effect as a whole and for good when it is acknowledged.  Where the log
\* is kept, a recovery finds what was settled together with some of the groups
\* attempted since; where moreover syncs succeed and the file system keeps the
\* order of writes, it finds a table that the DB had or was about to have.
THEOREM StoreIsDurable == Spec => ImplementsDurableStore
<1>1. OrdInv /\ PendInv /\ [Next]_vars => [Store!Next]_(Store!vars)
  BY StoreStep
<1>2. PendInv /\ [Next]_vars => PendInv'
  BY PendStep
<1>3. QED
  BY <1>1, <1>2, PendInit, StoreInit, OrdInvAlways, PTL
     DEF Spec, ImplementsDurableStore, Store!Spec
=============================================================================
