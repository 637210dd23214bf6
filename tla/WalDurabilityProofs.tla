------------------------- MODULE WalDurabilityProofs -------------------------
(***************************************************************************)
(* Proof that WalStore keeps what it acknowledged: for every number of     *)
(* groups and restarts, under failed writes and syncs, process crashes and *)
(* power losses on an ordered or an unordered file system, in any order.   *)
(*                                                                         *)
(* The argument is about an anchor: the end of the log at the last         *)
(* acknowledgement.  Up to it the page cache and the disk agree for good.  *)
(* Behind it may stand the remains of many failed groups, of different     *)
(* lives of the process, one over the other.  The records that recovery    *)
(* may put together from them are never older than what was acknowledged:  *)
(* recover leaves a gap of one sequence number, which stands for the       *)
(* header of a record, so the base of a record behind the anchor is        *)
(* determined, up to one, by how many cells lie between.                   *)
(***************************************************************************)
EXTENDS WalStoreProofs

\* The provers of a leaf that names none.
USE SMTT(30), Zenon

End(c) == c.rec.base + Len(c.rec.entries)

\* Table t has for every key the entry of table u or a later one.
NotOlder(t, u) ==
  \A k \in Keys : t[k] = u[k] \/ t[k].seq > u[k].seq

\* The records that start behind cell a of f are in A, and have the bases they
\* must have when y is the sequence with which a recovery of the first a cells
\* goes on.
Follows(f, a, y, A) ==
  \A i \in a + 1..Len(f) :
    f[i] /= Zero /\ StartOf(f, i) >= a =>
      /\ f[i].rec.base - (StartOf(f, i) - a) \in {y - 1, y}
      /\ f[i].rec \in A

\* A record that starts later has higher sequence numbers.
Rising(f, n) ==
  \A i, j \in 1..n :
    StartOf(f, i) < StartOf(f, j) => End(f[i]) <= f[j].rec.base

\* The groups handed to writeGroup since the table was settled.
Attempted == {x.group : x \in attempts}

Rooted(a) ==
  LET y == RecoveredSequence(cache, a) IN
  /\ a <= Len(cache) /\ a <= Len(disk)
  /\ \A i \in 1..a : disk[i] = cache[i]
  /\ ValidPrefix(cache, a)
  /\ Rising(cache, a)
  /\ Replay(cache, a) = settled
  /\ NotOlder(settled, acked)
  /\ \A k \in Keys : acked[k].seq = 0 \/ acked[k].seq < y - 1
  /\ Follows(cache, a, y, Attempted) /\ Follows(disk, a, y, Attempted)

Placed(a) ==
  phase /= "down" =>
    /\ a <= walOffset
    /\ nextSequence - (walOffset - a) \in
         {RecoveredSequence(cache, a) - 1, RecoveredSequence(cache, a)}

\* A step that neither acknowledges nor settles anything.
NothingSettled == acked' = acked /\ settled' = settled /\ attempts' = attempts

\* What is not dirty is on disk.
Clean ==
  \A i \in 1..Len(cache) : i \notin dirty => i <= Len(disk) /\ disk[i] = cache[i]

\* Behind walOffset_ are only the remains of groups that were written there or
\* further in front.
Running ==
  phase /= "down" =>
    /\ NotOlder(mem, acked)
    /\ \A i \in 1..walOffset : End(cache[i]) <= nextSequence
    /\ \A i \in walOffset + 1..Len(cache) :
         cache[i] /= Zero => StartOf(cache, i) <= walOffset
    /\ phase = "truncated" =>
         /\ Len(cache) = walOffset
         /\ nextSequence = RecoveredSequence(cache, walOffset)

InGroup ==
  /\ phase \in {"encoded", "written", "synced"} =>
       /\ rec.base = nextSequence /\ rec.entries /= <<>>
       /\ rec \in Attempted
  /\ phase = "synced" => disk = cache

KeptInv == Clean /\ Running /\ InGroup /\ \E a \in Nat : Rooted(a) /\ Placed(a)

DurInv == LogInv /\ (LogKept => KeptInv)

(***************************************************************************)
(* RecoveredSequence.                                                      *)
(***************************************************************************)
LEMMA EndType ==
  ASSUME NEW f \in Seq(Cell), NEW n \in 0..Len(f), ValidPrefix(f, n), NEW i \in 1..n
  PROVE  /\ i \in 1..Len(f) /\ f[i] /= Zero /\ f[i].rec \in Record
         /\ f[i].idx \in Nat /\ f[i].rec.base \in Nat \ {0}
         /\ Len(f[i].rec.entries) \in Nat /\ End(f[i]) \in Nat
         /\ Size(f[i].rec) = Len(f[i].rec.entries) + 1
<1>1. i \in 1..Len(f) /\ f[i] /= Zero
  BY DEF ValidPrefix
<1>2. f[i].rec \in Record /\ f[i].idx \in Nat
  BY <1>1, CellShape
<1>3. f[i].rec.base \in Nat \ {0}
  BY <1>2 DEF Record
<1>4. Len(f[i].rec.entries) \in Nat /\ Size(f[i].rec) = Len(f[i].rec.entries) + 1
  BY <1>2, SizeType
<1>5. QED
  BY <1>1, <1>2, <1>3, <1>4 DEF End

LEMMA SequenceBounds ==
  ASSUME NEW f \in Seq(Cell), NEW n \in 0..Len(f), ValidPrefix(f, n)
  PROVE  /\ RecoveredSequence(f, n) \in Nat \ {0}
         /\ n = 0 => RecoveredSequence(f, n) = 1
         /\ \A i \in 1..n : End(f[i]) + 1 <= RecoveredSequence(f, n)
         /\ n > 0 => \E i \in 1..n : RecoveredSequence(f, n) = End(f[i]) + 1
<1>0. n \in Nat
  OBVIOUS
<1>1. RecoveredSequence(f, n) \in Nat \ {0}
  BY RecoveredSequenceType
<1>2. CASE n = 0
  <2>1. RecoveredSequence(f, n) = 1
    BY <1>2 DEF RecoveredSequence, FirstSequence
  <2>2. QED
    BY <1>1, <1>2, <2>1
<1>3. CASE n /= 0
  <2> DEFINE ends == {End(f[i]) : i \in 1..n}
             h == [i \in 1..n |-> End(f[i])]
             e == CHOOSE e \in ends : \A d \in ends : d <= e
  <2>1. \A i \in 1..n : h[i] = End(f[i]) /\ h[i] \in Nat
    BY EndType
  <2>2. RecoveredSequence(f, n) = 1 + e
    BY <1>3 DEF RecoveredSequence, End
  <2> HIDE DEF h
  <2>3. n > 0
    BY <1>0, <1>3
  <2>4. PICK i \in 1..n : \A j \in 1..n : h[j] <= h[i]
    BY <1>0, <2>1, <2>3, LargestValue, Zenon
  <2>5. End(f[i]) \in ends /\ \A d \in ends : d <= End(f[i])
    BY <2>1, <2>4
  <2>6. e \in ends /\ \A d \in ends : d <= e
    BY <2>5, Zenon
  <2>7. PICK j \in 1..n : e = End(f[j])
    BY <2>6
  <2>8. \A x \in 1..n : End(f[x]) <= e
    BY <2>6, Zenon
  <2>9. e \in Nat /\ \A x \in 1..n : End(f[x]) \in Nat
    BY <2>1, <2>7, Zenon
  <2> HIDE DEF e
  <2>10. QED
    BY <1>1, <1>3, <2>2, <2>7, <2>8, <2>9
<1>4. QED
  BY <1>2, <1>3

LEMMA SameSequence ==
  ASSUME NEW f, NEW g, NEW n \in Nat, \A i \in 1..n : g[i] = f[i]
  PROVE  RecoveredSequence(g, n) = RecoveredSequence(f, n)
<1> DEFINE ends(q) == {q[i].rec.base + Len(q[i].rec.entries) : i \in 1..n}
           next(E) == IF n = 0 THEN FirstSequence ELSE 1 + CHOOSE e \in E : \A d \in E : d <= e
<1>1. ends(g) = ends(f)
  OBVIOUS
<1>2. RecoveredSequence(g, n) = next(ends(g)) /\ RecoveredSequence(f, n) = next(ends(f))
  BY Zenon DEF RecoveredSequence
<1> HIDE DEF ends, next
<1>3. QED
  BY <1>1, <1>2

(***************************************************************************)
(* What a recovery puts together behind the anchor.                        *)
(***************************************************************************)
LEMMA TailStarts ==
  ASSUME NEW S, NEW f \in Seq(Cell), Written(f, S),
         NEW n \in 0..Len(f), NEW a \in 0..n, ValidPrefix(f, a), ValidPrefix(f, n),
         NEW i \in a + 1..n
  PROVE  /\ i \in 1..n /\ StartOf(f, i) \in Int /\ StartOf(f, i) >= a
         /\ StartOf(f, i) + Size(f[i].rec) <= n
         /\ i <= StartOf(f, i) + Size(f[i].rec)
         /\ StartOf(f, i) = i - f[i].idx
<1> DEFINE p == StartOf(f, i)
           r == f[i].rec
           x == f[i].idx
<1>1. i \in 1..n /\ a \in Nat /\ n \in Nat
  OBVIOUS
<1>2. /\ i \in 1..Len(f) /\ f[i] /= Zero /\ r \in Record /\ x \in Nat
      /\ Size(r) = Len(r.entries) + 1 /\ Len(r.entries) \in Nat
  BY <1>1, EndType
<1>3. p >= 0 /\ p + Size(r) <= n /\ RecordAt(f, p, r)
  BY <1>1 DEF ValidPrefix
<1>4. x \in 1..Size(r)
  BY <1>2 DEF Written
<1>5. p = i - x
  BY DEF StartOf
<1> HIDE DEF p, r, x
<1>6. p \in Int /\ Size(r) \in Nat /\ Size(r) >= 1 /\ i <= p + Size(r)
  BY <1>1, <1>2, <1>4, <1>5
<1>7. ASSUME p < a
      PROVE  FALSE
  <2>1. p + 1 \in 1..a /\ 1 \in 1..Size(r)
    BY <1>1, <1>3, <1>6, <1>7
  <2>2. f[p + 1] = [rec |-> r, idx |-> 1]
    BY <1>3, <2>1, Zenon DEF RecordAt
  <2>3. f[p + 1].rec = r /\ f[p + 1].idx = 1
    BY <2>2
  <2>4. StartOf(f, p + 1) = p
    BY <1>6, <2>3 DEF StartOf
  <2>5. p + Size(r) <= a
    BY <2>1, <2>3, <2>4 DEF ValidPrefix
  <2>6. QED
    BY <1>1, <1>6, <2>5
<1>8. p >= a
  BY <1>1, <1>6, <1>7
<1>9. QED
  BY <1>1, <1>3, <1>5, <1>6, <1>8 DEF p, r, x

LEMMA TailEnds ==
  ASSUME NEW S, NEW f \in Seq(Cell), Written(f, S),
         NEW n \in 0..Len(f), NEW a \in 0..n, ValidPrefix(f, a), ValidPrefix(f, n),
         NEW y \in Nat, NEW A, Follows(f, a, y, A), NEW i \in a + 1..n
  PROVE  /\ End(f[i]) <= y - 1 + (n - a)
         /\ i = n => End(f[i]) >= y - 2 + (n - a)
         /\ f[i].rec.base >= y - 1 + (StartOf(f, i) - a)
         /\ f[i].rec.base <= y + (StartOf(f, i) - a)
         /\ f[i].rec \in A
<1> DEFINE p == StartOf(f, i)
           b == f[i].rec.base
           l == Len(f[i].rec.entries)
<1>1. /\ i \in 1..n /\ p \in Int /\ p >= a /\ p + Size(f[i].rec) <= n
      /\ i <= p + Size(f[i].rec)
  BY TailStarts
<1>2. b \in Nat /\ l \in Nat /\ Size(f[i].rec) = l + 1 /\ f[i] /= Zero /\ i \in 1..Len(f)
  BY <1>1, EndType
<1>3. b - (p - a) \in {y - 1, y} /\ f[i].rec \in A
  <2>1. i \in a + 1..Len(f)
    BY <1>2
  <2>2. QED
    BY <1>1, <1>2, <2>1 DEF Follows
<1>4. End(f[i]) = b + l
  BY DEF End
<1> HIDE DEF p, b, l
<1>5. a \in Nat /\ n \in Nat /\ p + l + 1 <= n /\ i <= p + l + 1
  BY <1>1, <1>2
<1>6. b >= y - 1 + (p - a) /\ b <= y + (p - a)
  BY <1>1, <1>2, <1>3, <1>5
<1>7. /\ b + l <= y - 1 + (n - a)
      /\ i = n => b + l >= y - 2 + (n - a)
  BY <1>1, <1>2, <1>5, <1>6
<1>8. QED
  BY <1>3, <1>4, <1>6, <1>7 DEF p, b, l

LEMMA TailSequence ==
  ASSUME NEW S, NEW f \in Seq(Cell), Written(f, S),
         NEW n \in 0..Len(f), NEW a \in 0..n, ValidPrefix(f, a), ValidPrefix(f, n),
         NEW A, Follows(f, a, RecoveredSequence(f, a), A)
  PROVE  RecoveredSequence(f, n) - (n - a) \in
           {RecoveredSequence(f, a) - 1, RecoveredSequence(f, a)}
<1> DEFINE y == RecoveredSequence(f, a)
           z == RecoveredSequence(f, n)
<1>0. n \in Nat /\ a \in Nat /\ a \in 0..Len(f)
  OBVIOUS
<1>1. y \in Nat \ {0} /\ \A i \in 1..a : End(f[i]) + 1 <= y
  BY <1>0, SequenceBounds
<1>2. z \in Nat \ {0} /\ \A i \in 1..n : End(f[i]) + 1 <= z
  BY SequenceBounds
<1>3. n > 0 => \E i \in 1..n : z = End(f[i]) + 1
  BY SequenceBounds
<1>4. \A i \in a + 1..n : End(f[i]) <= y - 1 + (n - a) /\ (i = n => End(f[i]) >= y - 2 + (n - a))
  BY <1>1, TailEnds
<1>5. \A i \in 1..n : End(f[i]) \in Nat
  BY EndType
<1>6. CASE n = a
  BY <1>0, <1>1, <1>6
<1> HIDE DEF y, z
<1>7. CASE n > a
  <2>1. PICK i \in 1..n : z = End(f[i]) + 1
    BY <1>0, <1>3, <1>7
  <2>2. z <= y + (n - a)
    <3>1. CASE i \in 1..a
      BY <1>0, <1>1, <1>7, <2>1, <3>1
    <3>2. CASE i \in a + 1..n
      <4>1. End(f[i]) <= y - 1 + (n - a) /\ End(f[i]) \in Nat
        BY <1>4, <1>5, <3>2
      <4>2. QED
        BY <1>0, <1>1, <2>1, <4>1
    <3>3. QED
      BY <1>0, <3>1, <3>2
  <2>3. z >= y - 1 + (n - a)
    <3>1. n \in a + 1..n /\ n \in 1..n
      BY <1>0, <1>7
    <3>2. End(f[n]) >= y - 2 + (n - a) /\ End(f[n]) + 1 <= z /\ End(f[n]) \in Nat
      BY <1>2, <1>4, <1>5, <3>1
    <3>3. QED
      BY <1>0, <1>1, <1>2, <3>2
  <2>4. QED
    BY <1>0, <1>1, <1>2, <2>2, <2>3 DEF y, z
<1>8. QED
  BY <1>0, <1>6, <1>7

LEMMA TailNotOlder ==
  ASSUME NEW S, NEW f \in Seq(Cell), Written(f, S),
         NEW n \in 0..Len(f), NEW a \in 0..n, ValidPrefix(f, a), ValidPrefix(f, n),
         NEW y \in Nat, NEW A, Follows(f, a, y, A),
         NEW u \in [Keys -> MemEntry], NotOlder(Replay(f, a), u),
         \A k \in Keys : u[k].seq = 0 \/ u[k].seq < y - 1
  PROVE  NotOlder(Replay(f, n), u)
<1> SUFFICES ASSUME NEW k \in Keys
             PROVE  Replay(f, n)[k] = u[k] \/ Replay(f, n)[k].seq > u[k].seq
  BY Zenon DEF NotOlder
<1> DEFINE All == EntryCells(f, n, k)
           Old == EntryCells(f, a, k)
           l == LastOf(All)
<1>0. n \in Nat /\ a \in Nat /\ a <= n /\ u[k].seq \in Nat
  BY DEF MemEntry
<1>1. Replay(f, a)[k] = u[k] \/ Replay(f, a)[k].seq > u[k].seq
  BY DEF NotOlder
<1>2. All \subseteq 1..n /\ Old \subseteq 1..a
  BY DEF EntryCells
<1>3. \A i \in 1..a : i \in 1..n /\ (i \in All <=> i \in Old)
  BY <1>0 DEF EntryCells
<1>4. \A i \in All : f[i].idx > 1
  BY DEF EntryCells
<1>5. /\ All = {} => Replay(f, n)[k] = Untouched
      /\ All /= {} => Replay(f, n)[k] = EntryAt(f, l)
      /\ Old = {} => Replay(f, a)[k] = Untouched
      /\ Old /= {} => Replay(f, a)[k] = EntryAt(f, LastOf(Old))
  BY ReplayAt
<1> HIDE DEF All, Old
<1>6. CASE All = {}
  <2>1. Old = {}
    BY <1>2, <1>3, <1>6
  <2>2. QED
    BY <1>1, <1>5, <1>6, <2>1
<1>7. CASE All /= {}
  <2>1. l \in All /\ \A j \in All : j <= l
    BY <1>0, <1>2, <1>7, LastOfIsLast, Zenon
  <2>2. l \in 1..n
    BY <1>2, <2>1, Zenon
  <2> HIDE DEF l
  <2>3. CASE l \in 1..a
    <3>1. l \in Old /\ \A j \in Old : j <= l
      BY <1>2, <1>3, <2>1, <2>3
    <3>2. LastOf(Old) = l
      BY <1>0, <1>2, <3>1, LastOfIsUnique, Zenon
    <3>3. QED
      BY <1>1, <1>5, <1>7, <3>1, <3>2
  <2>4. CASE l \in a + 1..n
    <3> DEFINE b == f[l].rec.base
               x == f[l].idx
               p == StartOf(f, l)
    <3>1. b >= y - 1 + (p - a)
      BY <2>4, TailEnds
    <3>2. p \in Int /\ p >= a
      BY <2>4, TailStarts
    <3>3. b \in Nat \ {0} /\ x \in Nat
      BY <2>2, EndType
    <3>4. x > 1
      BY <1>4, <2>1
    <3>5. Replay(f, n)[k].seq = b + x - 2
      BY <1>5, <1>7 DEF EntryAt
    <3> HIDE DEF b, x, p
    <3>6. b + x - 2 >= y - 1 /\ b + x - 2 > 0 /\ b + x - 2 \in Nat
      BY <1>0, <3>1, <3>2, <3>3, <3>4
    <3>7. QED
      BY <1>0, <3>5, <3>6
  <2>5. QED
    BY <1>0, <2>2, <2>3, <2>4
<1>8. QED
  BY <1>6, <1>7

LEMMA SameRising ==
  ASSUME NEW f, NEW g, NEW n \in Nat, \A i \in 1..n : g[i] = f[i], Rising(f, n)
  PROVE  Rising(g, n)
BY DEF Rising, StartOf

\* Records that stand complete in a file do not overlap.
LEMMA NoOverlap ==
  ASSUME NEW S, NEW f \in Seq(Cell), Written(f, S), NEW n \in 0..Len(f), ValidPrefix(f, n),
         NEW i \in 1..n, NEW j \in 1..n, StartOf(f, i) < StartOf(f, j)
  PROVE  StartOf(f, i) + Size(f[i].rec) <= StartOf(f, j)
<1> DEFINE p == StartOf(f, i)
           q == StartOf(f, j)
           r == f[i].rec
           t == f[j].rec
<1>1. /\ p \in Int /\ p >= 0 /\ q \in Int /\ q >= 0
      /\ Size(r) \in Nat /\ Size(t) \in Nat /\ Size(t) >= 1
  <2>1. 0 \in 0..n /\ ValidPrefix(f, 0) /\ i \in 0 + 1..n /\ j \in 0 + 1..n
    BY DEF ValidPrefix
  <2>2. p \in Int /\ p >= 0 /\ q \in Int /\ q >= 0
    BY <2>1, TailStarts
  <2>3. Size(r) = Len(r.entries) + 1 /\ Size(t) = Len(t.entries) + 1
        /\ Len(r.entries) \in Nat /\ Len(t.entries) \in Nat
    BY EndType
  <2> HIDE DEF p, q, r, t
  <2>4. QED
    BY <2>2, <2>3
<1>2. RecordAt(f, p, r) /\ RecordAt(f, q, t)
  BY DEF ValidPrefix
<1>3. p < q
  OBVIOUS
<1> HIDE DEF p, q, r, t
<1>4. ASSUME q < p + Size(r)
      PROVE  FALSE
  <2>1. q + 1 - p \in 1..Size(r) /\ p + (q + 1 - p) = q + 1 /\ 1 \in 1..Size(t)
    BY <1>1, <1>3, <1>4
  <2>2. f[q + 1] = [rec |-> r, idx |-> q + 1 - p]
    BY <1>2, <2>1 DEF RecordAt
  <2>3. f[q + 1] = [rec |-> t, idx |-> 1]
    BY <1>2, <2>1, Zenon DEF RecordAt
  <2>4. f[q + 1].idx = q + 1 - p /\ f[q + 1].idx = 1
    <3>1. f[q + 1].idx = q + 1 - p
      BY <2>2
    <3>2. f[q + 1].idx = 1
      BY <2>3
    <3>3. QED
      BY <3>1, <3>2
  <2>5. QED
    BY <1>1, <1>3, <2>4
<1>5. p + Size(r) <= q
  BY <1>1, <1>4
<1>6. QED
  BY <1>5 DEF p, q, r

\* What a recovery puts together behind the anchor has growing sequence numbers.
LEMMA TailRises ==
  ASSUME NEW S, NEW f \in Seq(Cell), Written(f, S),
         NEW n \in 0..Len(f), NEW a \in 0..n, ValidPrefix(f, a), ValidPrefix(f, n),
         NEW A, Follows(f, a, RecoveredSequence(f, a), A), Rising(f, a)
  PROVE  Rising(f, n)
<1> SUFFICES ASSUME NEW i \in 1..n, NEW j \in 1..n, StartOf(f, i) < StartOf(f, j)
             PROVE  End(f[i]) <= f[j].rec.base
  BY DEF Rising
<1> DEFINE y == RecoveredSequence(f, a)
           p == StartOf(f, i)
           q == StartOf(f, j)
           e == Len(f[i].rec.entries)
<1>0. n \in Nat /\ a \in Nat /\ a <= n /\ a \in 0..Len(f)
  OBVIOUS
<1>1. y \in Nat /\ \A x \in 1..a : End(f[x]) + 1 <= y
  BY <1>0, SequenceBounds
<1>2. /\ End(f[i]) \in Nat /\ f[i].rec.base \in Nat /\ e \in Nat /\ Size(f[i].rec) = e + 1
      /\ f[j].rec.base \in Nat /\ f[j].idx \in Nat /\ f[j] /= Zero /\ j \in 1..Len(f)
  BY EndType
<1>3. End(f[i]) = f[i].rec.base + e
  BY DEF End
<1>4. CASE j \in 1..a
  <2>1. q < a
    <3>1. q = j - f[j].idx
      BY DEF StartOf
    <3>2. f[j].idx > 0
      BY <1>2, CellShape
    <3>3. QED
      BY <1>0, <1>2, <1>4, <3>1, <3>2
  <2>2. CASE i \in 1..a
    BY <1>4, <2>2 DEF Rising
  <2>3. CASE i \in a + 1..n
    <3>1. p \in Int /\ p >= a
      BY <2>3, TailStarts
    <3>2. q \in Int
      BY <1>2, <1>4 DEF StartOf
    <3> HIDE DEF p, q
    <3>3. p < q
      BY DEF p, q
    <3>4. QED
      BY <1>0, <2>1, <3>1, <3>2, <3>3
  <2>4. QED
    BY <1>0, <2>2, <2>3
<1>5. CASE j \in a + 1..n
  <2>1. f[j].rec.base >= y - 1 + (q - a) /\ q \in Int /\ q >= a
    BY <1>1, <1>5, TailEnds, TailStarts
  <2>2. CASE i \in 1..a
    <3>1. End(f[i]) + 1 <= y
      BY <1>1, <2>2
    <3>2. y \in Nat /\ a \in Nat /\ End(f[i]) \in Nat /\ f[j].rec.base \in Nat
      BY <1>0, <1>1, <1>2
    <3> HIDE DEF q, y
    <3>3. QED
      BY <2>1, <3>1, <3>2
  <2>3. CASE i \in a + 1..n
    <3>1. f[i].rec.base <= y + (p - a) /\ p \in Int
      BY <1>1, <2>3, TailEnds, TailStarts
    <3>2. p + (e + 1) <= q
      BY <1>2, NoOverlap
    <3>3. /\ y \in Nat /\ a \in Nat /\ e \in Nat
          /\ f[i].rec.base \in Nat /\ f[j].rec.base \in Nat
      BY <1>0, <1>1, <1>2
    <3> HIDE DEF p, q, y, e
    <3>4. QED
      BY <1>3, <2>1, <3>1, <3>2, <3>3
  <2>4. QED
    BY <1>0, <2>2, <2>3
<1>6. QED
  BY <1>0, <1>4, <1>5

\* Applying the same record keeps one table not older than another.
LEMMA ApplyNotOlder ==
  ASSUME NEW t \in [Keys -> MemEntry], NEW u \in [Keys -> MemEntry], NotOlder(t, u),
         NEW r \in Record
  PROVE  NotOlder(ApplyRecord(t, r), ApplyRecord(u, r))
<1> SUFFICES ASSUME NEW k \in Keys
             PROVE  \/ ApplyRecord(t, r)[k] = ApplyRecord(u, r)[k]
                    \/ ApplyRecord(t, r)[k].seq > ApplyRecord(u, r)[k].seq
  BY Zenon DEF NotOlder
<1>1. CASE Hits(r, k) = {}
  BY <1>1, ApplyAt, ZenonT(30) DEF NotOlder
<1>2. CASE Hits(r, k) /= {}
  BY <1>2, ApplyAt, ZenonT(30)
<1>3. QED
  BY <1>1, <1>2

\* The sequence numbers that a record gives to its entries.
LEMMA ApplySequences ==
  ASSUME NEW u \in [Keys -> MemEntry], NEW r \in Record, NEW k \in Keys
  PROVE  \/ ApplyRecord(u, r)[k] = u[k]
         \/ /\ ApplyRecord(u, r)[k].seq \in Nat
            /\ ApplyRecord(u, r)[k].seq >= r.base
            /\ ApplyRecord(u, r)[k].seq < r.base + Len(r.entries)
<1>1. CASE Hits(r, k) = {}
  BY <1>1, ApplyAt, Zenon
<1>2. CASE Hits(r, k) /= {}
  <2> DEFINE l == LastOf(Hits(r, k))
             e == Len(r.entries)
  <2>1. e \in Nat /\ r.base \in Nat /\ Hits(r, k) \subseteq 1..e
    BY SizeType DEF Hits
  <2>2. l \in 1..e
    BY <1>2, <2>1, LastOfIsLast
  <2>3. ApplyRecord(u, r)[k].seq = r.base + l - 1
    <3>1. ApplyRecord(u, r)[k] = [seq |-> r.base + l - 1, val |-> r.entries[l].val]
      BY <1>2, ApplyAt
    <3> HIDE DEF l
    <3>2. QED
      BY <3>1
  <2> HIDE DEF l, e
  <2>4. /\ r.base + l - 1 \in Nat /\ r.base + l - 1 >= r.base
        /\ r.base + l - 1 < r.base + e
    BY <2>1, <2>2
  <2>5. QED
    BY <2>3, <2>4 DEF e
<1>3. QED
  BY <1>1, <1>2

(***************************************************************************)
(* The anchor holds as long as the cells in front of it do.                *)
(***************************************************************************)
LEMMA RootedKept ==
  ASSUME FileInv, FileInv', NEW a \in Nat, Rooted(a), NothingSettled,
         a <= Len(cache'), a <= Len(disk'),
         \A i \in 1..a : cache'[i] = cache[i] /\ disk'[i] = cache[i],
         Follows(cache', a, RecoveredSequence(cache, a), Attempted),
         Follows(disk', a, RecoveredSequence(cache, a), Attempted)
  PROVE  Rooted(a)' /\ RecoveredSequence(cache', a) = RecoveredSequence(cache, a)
<1>0. acked' = acked /\ settled' = settled /\ Attempted' = Attempted
  BY DEF NothingSettled, Attempted
<1>1. /\ a <= Len(cache) /\ ValidPrefix(cache, a) /\ Replay(cache, a) = settled
      /\ NotOlder(settled, acked) /\ Rising(cache, a)
      /\ \A k \in Keys : acked[k].seq = 0 \/ acked[k].seq < RecoveredSequence(cache, a) - 1
  BY DEF Rooted
<1>2. cache \in Seq(Cell) /\ cache' \in Seq(Cell)
  BY DEF FileInv
<1>3. ValidPrefix(cache', a)
  BY <1>1, <1>2, SamePrefix
<1>4. /\ Replay(cache', a) = Replay(cache, a)
      /\ RecoveredSequence(cache', a) = RecoveredSequence(cache, a)
  BY SameReplay, SameSequence
<1>5. Rising(cache', a)
  BY <1>1, SameRising
<1>6. \A i \in 1..a : disk'[i] = cache'[i]
  OBVIOUS
<1>7. QED
  BY <1>0, <1>1, <1>3, <1>4, <1>5, <1>6 DEF Rooted

(***************************************************************************)
(* A writev.                                                               *)
(***************************************************************************)
LEMMA WriteShape ==
  ASSUME FileInv, rec \in Record, walOffset \in 0..Len(cache),
         NEW n \in 0..Size(rec), WriteCells(n)
  PROVE  \A i \in 1..Len(cache') :
           \/ i \in 1..Len(cache) /\ cache'[i] = cache[i]
           \/ i - walOffset \in 1..n /\ cache'[i] = [rec |-> rec, idx |-> i - walOffset]
<1> DEFINE s == SubSeq(EncodeBatch(rec), 1, n)
<1>1. s \in Seq(Cell) /\ Len(s) = n /\ \A i \in 1..n : s[i] = [rec |-> rec, idx |-> i]
  BY CellsOf
<1>2. cache' = Overwrite(cache, walOffset, s)
  BY DEF WriteCells
<1> HIDE DEF s
<1>3. cache \in Seq(Cell)
  BY DEF FileInv
<1>4. \A i \in 1..Len(cache') :
        \/ i \in 1..Len(cache) /\ cache'[i] = cache[i]
        \/ i - walOffset \in 1..n /\ cache'[i] = s[i - walOffset]
  BY <1>1, <1>2, <1>3, OverwriteIs, ZenonT(30)
<1>5. QED
  BY <1>1, <1>4

LEMMA WriteKeeps ==
  ASSUME FileInv, FileInv', rec \in Record, walOffset \in 0..Len(cache),
         NEW n \in 0..Size(rec), WriteCells(n), NothingSettled, rec \in Attempted,
         walOffset <= Len(cache'), \A i \in 1..walOffset : cache'[i] = cache[i],
         nextSequence \in Nat, phase /= "down", rec.base = nextSequence,
         Clean, Running, NEW a \in Nat, Rooted(a), Placed(a)
  PROVE  /\ Clean' /\ Rooted(a)'
         /\ RecoveredSequence(cache', a) = RecoveredSequence(cache, a)
         /\ \A i \in walOffset + 1..Len(cache') :
              cache'[i] /= Zero => StartOf(cache', i) <= walOffset
<1> DEFINE y == RecoveredSequence(cache, a)
<1>0. /\ cache \in Seq(Cell) /\ disk \in Seq(Cell) /\ dirty \subseteq 1..Len(cache)
      /\ cache' \in Seq(Cell) /\ disk' \in Seq(Cell) /\ Size(rec) \in Nat
      /\ walOffset \in Nat /\ walOffset <= Len(cache)
  BY SizeType DEF FileInv
<1>1. /\ a <= Len(cache) /\ a <= Len(disk) /\ \A i \in 1..a : disk[i] = cache[i]
      /\ ValidPrefix(cache, a) /\ Follows(cache, a, y, Attempted) /\ Follows(disk, a, y, Attempted)
  BY DEF Rooted
<1>2. a <= walOffset /\ nextSequence - (walOffset - a) \in {y - 1, y}
  BY DEF Placed
<1>3. y \in Nat
  BY <1>0, <1>1, SequenceBounds
<1>4. \A i \in 1..Len(cache') :
        \/ i \in 1..Len(cache) /\ cache'[i] = cache[i]
        \/ i - walOffset \in 1..n /\ cache'[i] = [rec |-> rec, idx |-> i - walOffset]
  BY WriteShape, Zenon
<1>5. dirty' = dirty \cup (walOffset + 1..walOffset + n)
  BY DEF WriteCells
<1>6. \/ disk' = disk
      \/ /\ Len(cache) < Len(disk) /\ disk' \in Seq(Cell) /\ Len(disk') = Len(cache)
         /\ \A i \in 1..Len(cache) : disk'[i] = disk[i]
  <2>1. CASE Len(cache) < Len(disk) /\ disk' = SubSeq(disk, 1, Len(cache))
    <3>1. Len(cache) \in 0..Len(disk)
      BY <1>0, <2>1
    <3>2. QED
      BY <1>0, <2>1, <3>1, PrefixIs
  <2>2. QED
    BY <2>1 DEF WriteCells
<1> HIDE DEF y
\* A cell of the record starts at walOffset_.
<1>7. ASSUME NEW i \in 1..Len(cache'), i - walOffset \in 1..n,
             cache'[i] = [rec |-> rec, idx |-> i - walOffset]
      PROVE  /\ StartOf(cache', i) = walOffset /\ cache'[i].rec.base = nextSequence
             /\ cache'[i].rec \in Attempted
  <2>1. cache'[i].idx = i - walOffset /\ cache'[i].rec = rec
    BY <1>7
  <2>2. QED
    BY <1>0, <2>1 DEF StartOf
<1>8. ASSUME NEW i \in 1..Len(cache'), i \in 1..Len(cache), cache'[i] = cache[i]
      PROVE  StartOf(cache', i) = StartOf(cache, i)
  BY <1>8 DEF StartOf
<1>9. Follows(cache', a, y, Attempted)
  <2> SUFFICES ASSUME NEW i \in a + 1..Len(cache'), cache'[i] /= Zero, StartOf(cache', i) >= a
               PROVE  /\ cache'[i].rec.base - (StartOf(cache', i) - a) \in {y - 1, y}
                      /\ cache'[i].rec \in Attempted
    BY DEF Follows
  <2>0. i \in 1..Len(cache')
    BY <1>0
  <2>1. CASE i \in 1..Len(cache) /\ cache'[i] = cache[i]
    <3>1. i \in a + 1..Len(cache)
      BY <1>0, <2>1
    <3>2. StartOf(cache', i) = StartOf(cache, i)
      BY <1>8, <2>0, <2>1
    <3>3. QED
      BY <1>1, <2>1, <3>1, <3>2 DEF Follows
  <2>2. CASE i - walOffset \in 1..n /\ cache'[i] = [rec |-> rec, idx |-> i - walOffset]
    BY <1>2, <1>7, <2>0, <2>2, Zenon
  <2>3. QED
    BY <1>4, <2>0, <2>1, <2>2
<1>10. Follows(disk', a, y, Attempted)
  <2> SUFFICES ASSUME NEW i \in a + 1..Len(disk'), disk'[i] /= Zero, StartOf(disk', i) >= a
               PROVE  /\ disk'[i].rec.base - (StartOf(disk', i) - a) \in {y - 1, y}
                      /\ disk'[i].rec \in Attempted
    BY DEF Follows
  <2>1. i \in a + 1..Len(disk) /\ disk'[i] = disk[i]
    BY <1>0, <1>6
  <2>2. StartOf(disk', i) = StartOf(disk, i)
    BY <2>1 DEF StartOf
  <2>3. QED
    BY <1>1, <2>1, <2>2 DEF Follows
<1>11. /\ a <= Len(cache') /\ a <= Len(disk')
       /\ \A i \in 1..a : cache'[i] = cache[i] /\ disk'[i] = cache[i]
  <2>1. \A i \in 1..a : i \in 1..walOffset /\ i \in 1..Len(cache)
    BY <1>0, <1>2
  <2>2. QED
    BY <1>0, <1>1, <1>2, <1>6, <2>1
<1>12. Rooted(a)' /\ RecoveredSequence(cache', a) = RecoveredSequence(cache, a)
  BY <1>9, <1>10, <1>11, RootedKept, Zenon DEF y
<1>13. Clean'
  <2> SUFFICES ASSUME NEW i \in 1..Len(cache'), i \notin dirty'
               PROVE  i <= Len(disk') /\ disk'[i] = cache'[i]
    BY DEF Clean
  <2>1. ~(i - walOffset \in 1..n)
    BY <1>0, <1>5
  <2>2. i \in 1..Len(cache) /\ cache'[i] = cache[i]
    BY <1>4, <2>1, Zenon
  <2>3. i <= Len(disk) /\ disk[i] = cache[i]
    BY <1>5, <2>2 DEF Clean
  <2>4. CASE disk' = disk
    BY <2>2, <2>3, <2>4
  <2>5. CASE /\ Len(disk') = Len(cache)
             /\ \A j \in 1..Len(cache) : disk'[j] = disk[j]
    <3>1. disk'[i] = disk[i] /\ i <= Len(disk')
      BY <1>0, <2>2, <2>5
    <3>2. QED
      BY <2>2, <2>3, <3>1
  <2>6. QED
    BY <1>6, <2>4, <2>5
<1>14. ASSUME NEW i \in walOffset + 1..Len(cache'), cache'[i] /= Zero
       PROVE  StartOf(cache', i) <= walOffset
  <2>0. i \in 1..Len(cache')
    BY <1>0
  <2>1. CASE i \in 1..Len(cache) /\ cache'[i] = cache[i]
    <3>1. i \in walOffset + 1..Len(cache)
      BY <1>0, <2>1
    <3>2. StartOf(cache, i) <= walOffset
      BY <1>14, <2>1, <3>1 DEF Running
    <3>3. QED
      BY <1>8, <2>0, <2>1, <3>2
  <2>2. CASE i - walOffset \in 1..n /\ cache'[i] = [rec |-> rec, idx |-> i - walOffset]
    <3>1. StartOf(cache', i) = walOffset
      BY <1>7, <2>0, <2>2, Zenon
    <3>2. QED
      BY <1>0, <3>1
  <2>3. QED
    BY <1>4, <2>0, <2>1, <2>2
<1>15. QED
  BY <1>12, <1>13, <1>14

(***************************************************************************)
(* Cells are written back.                                                 *)
(***************************************************************************)
LEMMA WriteBackKeeps ==
  ASSUME FileInv, NEW a \in Nat, Rooted(a), NEW W \in SUBSET dirty, NEW n \in Nat, a <= n
  PROVE  LET g == WrittenBack(W, n) IN
         /\ Len(g) = n
         /\ \A i \in 1..a : g[i] = cache[i]
         /\ \A i \in 1..n : i \in W => g[i] = cache[i]
         /\ \A i \in 1..n : i \notin W /\ i <= Len(disk) => g[i] = disk[i]
         /\ Follows(g, a, RecoveredSequence(cache, a), Attempted)
<1> DEFINE g == WrittenBack(W, n)
           y == RecoveredSequence(cache, a)
<1>0. /\ cache \in Seq(Cell) /\ disk \in Seq(Cell) /\ W \subseteq 1..Len(cache)
      /\ g \in Seq(Cell)
  BY WriteBackStep DEF FileInv
<1>1. /\ a <= Len(cache) /\ a <= Len(disk) /\ \A i \in 1..a : disk[i] = cache[i]
      /\ Follows(cache, a, y, Attempted) /\ Follows(disk, a, y, Attempted)
  BY DEF Rooted
<1>2. g = [i \in 1..n |-> IF i \in W THEN cache[i]
                          ELSE IF i <= Len(disk) THEN disk[i] ELSE Zero]
  BY DEF WrittenBack
<1>3. Len(g) = n
  <2>1. DOMAIN g = 1..n
    BY <1>2
  <2> HIDE DEF g
  <2>2. QED
    BY <1>0, <2>1
<1> HIDE DEF g, y
<1>4. /\ \A i \in 1..n : i \in W => g[i] = cache[i]
      /\ \A i \in 1..n : i \notin W /\ i <= Len(disk) => g[i] = disk[i]
      /\ \A i \in 1..n : i \notin W /\ ~(i <= Len(disk)) => g[i] = Zero
  BY <1>2
<1>5. \A i \in 1..a : g[i] = cache[i]
  <2> SUFFICES ASSUME NEW i \in 1..a
               PROVE  g[i] = cache[i]
    OBVIOUS
  <2>1. i \in 1..n /\ i <= Len(disk) /\ disk[i] = cache[i]
    BY <1>0, <1>1
  <2>2. QED
    BY <1>4, <2>1
<1>6. Follows(g, a, y, Attempted)
  <2> SUFFICES ASSUME NEW i \in a + 1..Len(g), g[i] /= Zero, StartOf(g, i) >= a
               PROVE  /\ g[i].rec.base - (StartOf(g, i) - a) \in {y - 1, y}
                      /\ g[i].rec \in Attempted
    BY DEF Follows
  <2>0. i \in 1..n
    BY <1>3
  <2>1. CASE i \in W
    <3>1. i \in a + 1..Len(cache) /\ g[i] = cache[i]
      BY <1>0, <1>4, <2>0, <2>1
    <3>2. StartOf(g, i) = StartOf(cache, i)
      BY <3>1 DEF StartOf
    <3>3. QED
      BY <1>1, <3>1, <3>2 DEF Follows
  <2>2. CASE i \notin W
    <3>1. i <= Len(disk) /\ g[i] = disk[i]
      BY <1>4, <2>0, <2>2
    <3>2. i \in a + 1..Len(disk)
      BY <1>0, <3>1
    <3>3. StartOf(g, i) = StartOf(disk, i)
      BY <3>1 DEF StartOf
    <3>4. QED
      BY <1>1, <3>1, <3>2, <3>3 DEF Follows
  <2>3. QED
    BY <2>1, <2>2
<1>7. QED
  BY <1>3, <1>4, <1>5, <1>6 DEF g, y

LEMMA LengthsReach ==
  ASSUME FileInv, NEW W, NEW n \in Lengths(W)
  PROVE  n \in Nat /\ (n >= Len(cache) \/ n >= Len(disk))
BY DEF FileInv, Lengths

\* After a sync that succeeded the disk is what read() sees.
LEMMA SyncedDisk ==
  ASSUME FileInv, FileInv', Clean, Sync
  PROVE  disk' = cache
<1>1. cache \in Seq(Cell) /\ disk' \in Seq(Cell) /\ dirty \subseteq 1..Len(cache)
  BY DEF FileInv
<1>2. disk' = [i \in 1..Len(cache) |-> IF i \in dirty THEN cache[i]
                 ELSE IF i <= Len(disk) THEN disk[i] ELSE Zero]
  BY DEF Sync, WrittenBack
<1>3. ASSUME NEW i \in 1..Len(cache)
      PROVE  disk'[i] = cache[i]
  BY <1>2 DEF Clean
<1>4. DOMAIN disk' = 1..Len(cache)
  BY <1>2
<1>5. Len(disk') = Len(cache)
  BY <1>1, <1>4
<1>6. QED
  BY <1>1, <1>3, <1>5

LEMMA SyncKeeps ==
  ASSUME FileInv, FileInv', LogKept, Clean, Sync \/ SyncFailed, NothingSettled,
         NEW a \in Nat, Rooted(a)
  PROVE  /\ Clean' /\ Rooted(a)'
         /\ RecoveredSequence(cache', a) = RecoveredSequence(cache, a)
<1>0. /\ cache' = cache /\ cache \in Seq(Cell) /\ disk \in Seq(Cell)
      /\ dirty \subseteq 1..Len(cache)
  BY Zenon DEF FileInv, Sync, SyncFailed
<1>1. /\ a <= Len(cache) /\ a <= Len(disk) /\ \A i \in 1..a : disk[i] = cache[i]
      /\ Follows(cache, a, RecoveredSequence(cache, a), Attempted)
  BY DEF Rooted
<1>2. CASE Sync
  <2>1. disk' = cache
    BY <1>2, SyncedDisk
  <2>2. Clean'
    BY <1>0, <2>1 DEF Clean
  <2>3. QED
    BY <1>0, <1>1, <2>1, <2>2, RootedKept
<1>3. CASE SyncFailed
  <2>1. PICK W \in SUBSET dirty : \E n \in Lengths(W) :
          /\ disk' = WrittenBack({i \in W : i <= n}, n)
          /\ dirty' = dirty \ (W \cap 1..n)
    BY <1>3 DEF SyncFailed, LogKept
  <2>2. PICK n \in Lengths(W) : /\ disk' = WrittenBack({i \in W : i <= n}, n)
                                /\ dirty' = dirty \ (W \cap 1..n)
    BY <2>1
  <2> DEFINE V == {i \in W : i <= n}
  <2>3. n \in Nat /\ a <= n /\ (n >= Len(cache) \/ n >= Len(disk)) /\ V \in SUBSET dirty
    <3>1. V \in SUBSET dirty
      OBVIOUS
    <3>2. n \in Nat /\ (n >= Len(cache) \/ n >= Len(disk))
      BY LengthsReach
    <3> HIDE DEF V
    <3>3. a <= n
      BY <1>0, <1>1, <3>2
    <3>4. QED
      BY <3>1, <3>2, <3>3
  <2>4. /\ Len(disk') = n
        /\ \A i \in 1..a : disk'[i] = cache[i]
        /\ \A i \in 1..n : i \in V => disk'[i] = cache[i]
        /\ \A i \in 1..n : i \notin V /\ i <= Len(disk) => disk'[i] = disk[i]
        /\ Follows(disk', a, RecoveredSequence(cache, a), Attempted)
    BY <2>2, <2>3, WriteBackKeeps, ZenonT(30)
  <2>5. Rooted(a)' /\ RecoveredSequence(cache', a) = RecoveredSequence(cache, a)
    BY <1>0, <1>1, <2>3, <2>4, RootedKept
  <2>6. Clean'
    <3> SUFFICES ASSUME NEW i \in 1..Len(cache), i \notin dirty'
                 PROVE  i <= Len(disk') /\ disk'[i] = cache[i]
      BY <1>0 DEF Clean
    <3>1. CASE i \in V
      BY <1>0, <2>3, <2>4, <3>1
    <3>2. CASE i \notin V
      <4>1. i \notin dirty
        BY <1>0, <2>2, <2>3, <3>2
      <4>2. i <= Len(disk) /\ disk[i] = cache[i]
        BY <4>1 DEF Clean
      <4>3. i \in 1..n
        BY <1>0, <2>3, <4>2
      <4>4. QED
        BY <2>3, <2>4, <3>2, <4>2, <4>3
    <3>3. QED
      BY <3>1, <3>2
  <2>7. QED
    BY <2>5, <2>6
<1>4. QED
  BY <1>2, <1>3

LEMMA PowerKeeps ==
  ASSUME FileInv, FileInv', LogKept, PowerLoss, NEW a \in Nat, Rooted(a)
  PROVE  Clean' /\ Rooted(a)'
<1>0. /\ cache' = disk' /\ NothingSettled /\ cache \in Seq(Cell) /\ disk \in Seq(Cell)
  BY DEF FileInv, PowerLoss, history, NothingSettled
<1>1. a <= Len(cache) /\ a <= Len(disk)
  BY DEF Rooted
<1>2. PICK W \in SUBSET dirty : \E n \in Lengths(W) : disk' = WrittenBack({i \in W : i <= n}, n)
  BY DEF PowerLoss, LogKept
<1>3. PICK n \in Lengths(W) : disk' = WrittenBack({i \in W : i <= n}, n)
  BY <1>2
<1>4. n \in Nat /\ a <= n /\ {i \in W : i <= n} \in SUBSET dirty
  BY <1>0, <1>1, LengthsReach
<1>5. /\ Len(disk') = n
      /\ \A i \in 1..a : disk'[i] = cache[i]
      /\ Follows(disk', a, RecoveredSequence(cache, a), Attempted)
  BY <1>3, <1>4, WriteBackKeeps, Zenon
<1>6. Rooted(a)'
  BY <1>0, <1>4, <1>5, RootedKept
<1>7. Clean'
  BY <1>0, <1>4, <1>5 DEF Clean
<1>8. QED
  BY <1>6, <1>7

(***************************************************************************)
(* Recovery reads all of the file, and finds at least the anchor.  When    *)
(* what it finds is all there is on disk the anchor moves to its end.      *)
(***************************************************************************)
LEMMA Reroot ==
  ASSUME FileInv, FileInv', NEW a \in Nat, Rooted(a),
         acked \in [Keys -> MemEntry], acked' = acked,
         NEW n \in Nat, a <= n, n <= Len(cache), ValidPrefix(cache, n),
         Len(cache') = n, \A i \in 1..n : cache'[i] = cache[i],
         disk' = cache', settled' = Replay(cache, n)
  PROVE  Rooted(n)' /\ RecoveredSequence(cache', n) = RecoveredSequence(cache, n)
<1> DEFINE y == RecoveredSequence(cache, a)
           z == RecoveredSequence(cache, n)
<1>0. /\ cache \in Seq(Cell) /\ cache' \in Seq(Cell) /\ Written(cache, issued)
      /\ n \in 0..Len(cache) /\ a \in 0..n /\ a \in 0..Len(cache)
  BY DEF FileInv
<1>1. /\ ValidPrefix(cache, a) /\ Rising(cache, a) /\ Follows(cache, a, y, Attempted)
      /\ NotOlder(Replay(cache, a), acked)
      /\ \A k \in Keys : acked[k].seq = 0 \/ acked[k].seq < y - 1
  BY Zenon DEF Rooted
<1>2. y \in Nat /\ z \in Nat
  BY <1>0, <1>1, SequenceBounds
<1>3. ValidPrefix(cache', n) /\ Replay(cache', n) = settled' /\ RecoveredSequence(cache', n) = z
  BY <1>0, SamePrefix, SameReplay, SameSequence
<1>4. Rising(cache', n)
  <2>1. Rising(cache, n)
    BY <1>0, <1>1, TailRises, Zenon
  <2>2. QED
    BY <2>1, SameRising, Zenon
<1>5. NotOlder(settled', acked')
  BY <1>0, <1>1, <1>2, TailNotOlder, Zenon
<1>6. z - (n - a) \in {y - 1, y}
  BY <1>0, <1>1, TailSequence
<1>7. n = a => z = y
  OBVIOUS
<1> HIDE DEF y, z
<1>8. z >= y
  BY <1>2, <1>6, <1>7
<1>9. \A k \in Keys : acked'[k].seq = 0 \/ acked'[k].seq < z - 1
  <2> SUFFICES ASSUME NEW k \in Keys
               PROVE  acked[k].seq = 0 \/ acked[k].seq < z - 1
    OBVIOUS
  <2>1. acked[k].seq \in Nat
    BY DEF MemEntry
  <2>2. QED
    BY <1>1, <1>2, <1>8, <2>1
<1>10. \A A : Follows(cache', n, z, A)
  <2>1. n + 1..Len(cache') = {}
    OBVIOUS
  <2>2. QED
    BY <2>1 DEF Follows
<1>11. QED
  BY <1>3, <1>4, <1>5, <1>9, <1>10 DEF Rooted, z

LEMMA RecoveryKeeps ==
  ASSUME FileInv, FileInv', Clean, NEW a \in Nat, Rooted(a), acked' = acked,
         acked \in [Keys -> MemEntry], NEW n \in 0..Len(cache),
         IsValidBytes(SubSeq(cache, 1, Len(cache)), n), Recovered(Len(cache), n)
  PROVE  KeptInv'
<1>0. cache \in Seq(Cell) /\ Len(cache) \in Nat /\ Written(cache, issued) /\ n \in Nat
  BY DEF FileInv
<1>1. SubSeq(cache, 1, Len(cache)) = cache
  BY <1>0
<1>2. /\ mem' = Replay(cache, n) /\ nextSequence' = RecoveredSequence(cache, n)
      /\ walOffset' = n /\ phase' \in {"truncated", "idle"}
  BY <1>1, Zenon DEF Recovered
<1>3. ValidPrefix(cache, n) /\ \A m \in n + 1..Len(cache) : ~ValidPrefix(cache, m)
  BY <1>1, Zenon DEF IsValidBytes
<1> DEFINE y == RecoveredSequence(cache, a)
<1>4. /\ a <= Len(cache) /\ a <= Len(disk) /\ \A i \in 1..a : disk[i] = cache[i]
      /\ ValidPrefix(cache, a) /\ NotOlder(Replay(cache, a), acked)
      /\ \A k \in Keys : acked[k].seq = 0 \/ acked[k].seq < y - 1
      /\ Follows(cache, a, y, Attempted) /\ Follows(disk, a, y, Attempted)
  BY DEF Rooted
<1>5. a <= n
  BY <1>0, <1>3, <1>4
<1>6. a \in 0..n /\ a \in 0..Len(cache)
  BY <1>0, <1>4, <1>5
<1>7. y \in Nat
  BY <1>0, <1>4, <1>6, SequenceBounds
<1>8. NotOlder(mem', acked')
  BY <1>0, <1>2, <1>3, <1>4, <1>6, <1>7, TailNotOlder, Zenon
<1>9. nextSequence' - (walOffset' - a) \in {y - 1, y}
  BY <1>0, <1>2, <1>3, <1>4, <1>6, TailSequence
<1>10. /\ disk' = disk /\ Len(cache') = n /\ \A i \in 1..n : cache'[i] = cache[i]
       /\ \A i \in 1..n : i \notin dirty' => i \notin dirty
  <2>1. CASE MustTruncate(Len(cache), n)
    <3>1. /\ cache' = SubSeq(cache, 1, n) /\ disk' = disk
          /\ dirty' = {i \in dirty : i <= n}
      BY <2>1 DEF Recovered
    <3>2. Len(cache') = n /\ \A i \in 1..n : cache'[i] = cache[i]
      BY <1>0, <3>1, PrefixIs
    <3>3. \A i \in 1..n : i \notin dirty' => i \notin dirty
      BY <3>1
    <3>4. QED
      BY <3>1, <3>2, <3>3
  <2>2. CASE ~MustTruncate(Len(cache), n)
    BY <2>2 DEF Recovered, MustTruncate, file
  <2>3. QED
    BY <2>1, <2>2
<1> HIDE DEF y
<1>11. Clean'
  <2> SUFFICES ASSUME NEW i \in 1..n, i \notin dirty'
               PROVE  i <= Len(disk) /\ disk[i] = cache[i]
    BY <1>10 DEF Clean
  <2>1. i \in 1..Len(cache) /\ i \notin dirty
    BY <1>0, <1>10
  <2>2. QED
    BY <2>1 DEF Clean
<1>12. Follows(cache', a, y, Attempted)
  <2> SUFFICES ASSUME NEW i \in a + 1..n, cache'[i] /= Zero, StartOf(cache', i) >= a
               PROVE  /\ cache'[i].rec.base - (StartOf(cache', i) - a) \in {y - 1, y}
                      /\ cache'[i].rec \in Attempted
    BY <1>10 DEF Follows
  <2>1. i \in 1..n /\ i \in a + 1..Len(cache)
    BY <1>0
  <2>2. cache'[i] = cache[i]
    BY <1>10, <2>1
  <2>3. StartOf(cache', i) = StartOf(cache, i)
    BY <2>2 DEF StartOf
  <2>4. QED
    BY <1>4, <2>1, <2>2, <2>3, Zenon DEF Follows
<1>13. /\ a <= Len(cache') /\ a <= Len(disk')
       /\ \A i \in 1..a : cache'[i] = cache[i] /\ disk'[i] = cache[i]
  <2>1. \A i \in 1..a : i \in 1..n
    BY <1>0, <1>5
  <2>2. QED
    BY <1>4, <1>5, <1>10, <2>1
<1>14. RecoveredSequence(cache', n) = RecoveredSequence(cache, n)
  BY <1>0, <1>10, SameSequence
<1>15. \E c \in Nat : (Rooted(c) /\ Placed(c))'
  <2>1. CASE NothingSettled
    <3>1. Rooted(a)' /\ RecoveredSequence(cache', a) = y
      BY <1>4, <1>10, <1>12, <1>13, <2>1, RootedKept DEF y
    <3>2. Placed(a)'
      BY <1>2, <1>5, <1>9, <3>1 DEF Placed
    <3>3. QED
      BY <3>1, <3>2
  <2>2. CASE disk = cache /\ UNCHANGED file /\ settled' = mem'
    <3>1. disk' = cache'
      BY <2>2 DEF file
    <3>2. Rooted(n)'
      BY <1>0, <1>2, <1>3, <1>5, <1>10, <2>2, <3>1, Reroot
    <3>3. nextSequence' - (walOffset' - n) = RecoveredSequence(cache', n) /\ n <= walOffset'
      <4>1. RecoveredSequence(cache, n) \in Nat
        BY <1>0, <1>3, SequenceBounds
      <4>2. QED
        BY <1>0, <1>2, <1>14, <4>1
    <3>4. Placed(n)'
      BY <3>3 DEF Placed
    <3>5. QED
      BY <1>0, <3>2, <3>4
  <2>3. QED
    BY <2>1, <2>2 DEF Recovered, Settle, NothingSettled
<1>16. Running'
  <2>1. \A i \in 1..walOffset' : End(cache'[i]) <= nextSequence'
    <3> SUFFICES ASSUME NEW i \in 1..n
                 PROVE  End(cache[i]) <= RecoveredSequence(cache, n)
      BY <1>2, <1>10
    <3>1. End(cache[i]) \in Nat
      BY <1>0, <1>3, EndType
    <3>2. /\ End(cache[i]) + 1 <= RecoveredSequence(cache, n)
          /\ RecoveredSequence(cache, n) \in Nat
      BY <1>0, <1>3, SequenceBounds
    <3>3. QED
      BY <3>1, <3>2
  <2>2. walOffset' + 1..Len(cache') = {}
    BY <1>0, <1>2, <1>10
  <2>3. QED
    BY <1>2, <1>8, <1>10, <1>14, <2>1, <2>2 DEF Running
<1>17. InGroup'
  BY <1>2 DEF InGroup
<1>18. QED
  BY <1>11, <1>15, <1>16, <1>17 DEF KeptInv

(***************************************************************************)
(* An acknowledgement moves the anchor to the end of its record.           *)
(***************************************************************************)
LEMMA ApplyKeeps ==
  ASSUME LogInv, LogInv', KeptInv, Apply
  PROVE  KeptInv'
<1> DEFINE b == walOffset + Size(rec)
           q == nextSequence + Len(rec.entries)
           z == RecoveredSequence(cache, b)
<1>0. /\ phase = "synced" /\ phase' = "idle" /\ UNCHANGED file
      /\ cache' = cache /\ disk' = disk /\ dirty' = dirty
      /\ walOffset' = b /\ nextSequence' = q
      /\ mem' = ApplyRecord(mem, rec) /\ acked' = ApplyRecord(acked, rec)
      /\ settled' = mem'
  BY DEF Apply, MayApply, NextOffset, GroupEnds, Settle, file
<1>1. /\ cache \in Seq(Cell) /\ rec \in Record /\ walOffset \in Nat /\ nextSequence \in Nat
      /\ mem \in [Keys -> MemEntry] /\ acked \in [Keys -> MemEntry]
      /\ RecordAt(cache, walOffset, rec) /\ ValidPrefix(cache, walOffset)
      /\ walOffset <= Len(cache)
  BY <1>0 DEF LogInv, MemberTypes, FileInv, InFlight, LogHead
<1>2. Size(rec) = Len(rec.entries) + 1 /\ Len(rec.entries) \in Nat
  BY <1>1, SizeType, Zenon
<1>3. rec.base = nextSequence /\ disk = cache
  BY <1>0 DEF KeptInv, InGroup
<1>4. /\ b <= Len(cache) /\ ValidPrefix(cache, b) /\ mem' = Replay(cache, b)
  BY <1>0 DEF LogInv, LogHead
<1>5. b \in Nat /\ b \in 0..Len(cache) /\ walOffset < b /\ q \in Nat /\ nextSequence <= q
  BY <1>1, <1>2, <1>4
<1>6. \A i \in 1..walOffset : End(cache[i]) <= nextSequence
  BY <1>0 DEF KeptInv, Running
<1>7. \A i \in walOffset + 1..b : End(cache[i]) = q
  <2> SUFFICES ASSUME NEW i \in walOffset + 1..b
               PROVE  End(cache[i]) = q
    OBVIOUS
  <2>1. i - walOffset \in 1..Size(rec) /\ walOffset + (i - walOffset) = i
    BY <1>1, <1>2
  <2>2. cache[i] = [rec |-> rec, idx |-> i - walOffset]
    BY <1>1, <2>1 DEF RecordAt
  <2>3. cache[i].rec = rec
    BY <2>2
  <2>4. QED
    BY <1>3, <2>3 DEF End
<1>8. z \in Nat /\ (\A i \in 1..b : End(cache[i]) + 1 <= z)
      /\ \E i \in 1..b : z = End(cache[i]) + 1
  BY <1>1, <1>4, <1>5, SequenceBounds
<1>9. \A i \in 1..b : End(cache[i]) \in Nat
  BY <1>1, <1>4, <1>5, EndType
<1> HIDE DEF b, q, z
<1>10. \A i \in 1..b : End(cache[i]) <= q
  <2> SUFFICES ASSUME NEW i \in 1..b
               PROVE  End(cache[i]) <= q
    OBVIOUS
  <2>0. End(cache[i]) \in Nat
    BY <1>9
  <2>1. CASE i \in 1..walOffset
    <3>1. End(cache[i]) <= nextSequence
      BY <1>6, <2>1
    <3>2. QED
      BY <1>1, <1>5, <2>0, <3>1
  <2>2. CASE i \in walOffset + 1..b
    BY <1>5, <1>7, <2>2
  <2>3. QED
    BY <1>1, <1>5, <2>1, <2>2
<1>11. z = q + 1
  <2>1. b \in 1..b /\ b \in walOffset + 1..b
    BY <1>1, <1>5
  <2>2. q + 1 <= z
    BY <1>7, <1>8, <2>1
  <2>3. PICK i \in 1..b : z = End(cache[i]) + 1
    BY <1>8
  <2>4. End(cache[i]) <= q /\ End(cache[i]) \in Nat
    BY <1>9, <1>10
  <2>5. QED
    BY <1>5, <1>8, <2>2, <2>3, <2>4
<1>12. NotOlder(mem', acked')
  BY <1>0, <1>1, ApplyNotOlder, Zenon DEF KeptInv, Running
<1>13. \A k \in Keys : acked'[k].seq = 0 \/ acked'[k].seq < z - 1
  <2>1. PICK a \in Nat : Rooted(a) /\ Placed(a)
    BY DEF KeptInv
  <2> DEFINE y == RecoveredSequence(cache, a)
  <2>2. /\ a <= walOffset /\ nextSequence - (walOffset - a) \in {y - 1, y}
        /\ ValidPrefix(cache, a) /\ a <= Len(cache)
        /\ \A k \in Keys : acked[k].seq = 0 \/ acked[k].seq < y - 1
    BY <1>0, <2>1, Zenon DEF Rooted, Placed
  <2>3. y \in Nat
    BY <1>1, <2>2, SequenceBounds
  <2> HIDE DEF y
  <2>4. y - 1 <= q
    BY <1>1, <1>5, <2>2, <2>3
  <2> SUFFICES ASSUME NEW k \in Keys
               PROVE  acked'[k].seq = 0 \/ acked'[k].seq < z - 1
    OBVIOUS
  <2>5. CASE acked'[k] = acked[k]
    <3>1. acked[k].seq \in Nat /\ (acked[k].seq = 0 \/ acked[k].seq < y - 1)
      BY <1>1, <2>2 DEF MemEntry
    <3>2. QED
      BY <1>5, <1>11, <2>3, <2>4, <2>5, <3>1
  <2>6. CASE acked'[k].seq \in Nat /\ acked'[k].seq < rec.base + Len(rec.entries)
    BY <1>3, <1>5, <1>11, <2>6 DEF q
  <2>7. QED
    BY <1>0, <1>1, <2>5, <2>6, ApplySequences
<1>14. \A i \in walOffset + 1..Len(cache) : cache[i] /= Zero => StartOf(cache, i) <= walOffset
  BY <1>0 DEF KeptInv, Running
<1>15. ASSUME NEW i \in b + 1..Len(cache), cache[i] /= Zero
       PROVE  StartOf(cache, i) \in Int /\ StartOf(cache, i) < b
  <2>1. i \in walOffset + 1..Len(cache) /\ i \in 1..Len(cache)
    BY <1>1, <1>5
  <2>2. cache[i].idx \in Nat
    BY <1>1, <2>1, CellShape
  <2>3. StartOf(cache, i) \in Int
    BY <2>2 DEF StartOf
  <2>4. StartOf(cache, i) <= walOffset
    BY <1>14, <1>15, <2>1
  <2>5. QED
    BY <1>1, <1>5, <2>3, <2>4
<1>16. \A A : Follows(cache, b, z, A)
  <2> SUFFICES ASSUME NEW i \in b + 1..Len(cache), cache[i] /= Zero, StartOf(cache, i) >= b
               PROVE  FALSE
    BY DEF Follows
  <2>1. StartOf(cache, i) \in Int /\ StartOf(cache, i) < b
    BY <1>15, Zenon
  <2>2. QED
    BY <1>5, <2>1
<1>17. Rooted(walOffset)'
  <2>1. NotOlder(settled', acked') /\ Replay(cache, b) = settled'
    BY <1>0, <1>4, <1>12
  <2>2. Rising(cache, b)
    <3>1. PICK a \in Nat : Rooted(a) /\ Placed(a)
      BY DEF KeptInv
    <3>2. /\ a <= walOffset /\ ValidPrefix(cache, a) /\ Rising(cache, a)
          /\ Follows(cache, a, RecoveredSequence(cache, a), Attempted)
      BY <1>0, <3>1 DEF Rooted, Placed
    <3>3. a \in 0..b
      BY <1>1, <1>5, <3>2
    <3>4. Written(cache, issued)
      BY DEF LogInv, FileInv
    <3>5. QED
      BY <1>1, <1>4, <1>5, <3>2, <3>3, <3>4, TailRises, Zenon
  <2>3. QED
    BY <1>0, <1>3, <1>4, <1>13, <1>16, <2>1, <2>2 DEF Rooted, z
<1>18. Placed(walOffset)'
  <2>1. q - (b - b) = z - 1 /\ b <= b
    BY <1>5, <1>11
  <2>2. QED
    BY <1>0, <2>1 DEF Placed, z
<1>19. Running'
  <2>1. \A i \in b + 1..Len(cache) : cache[i] /= Zero => StartOf(cache, i) <= b
    BY <1>5, <1>15
  <2>2. QED
    BY <1>0, <1>10, <1>12, <2>1 DEF Running
<1>20. Clean' /\ InGroup'
  BY <1>0 DEF KeptInv, Clean, InGroup
<1>21. walOffset' \in Nat
  BY <1>0, <1>5
<1>22. QED
  BY <1>17, <1>18, <1>19, <1>20, <1>21 DEF KeptInv

(***************************************************************************)
(* The invariant.                                                          *)
(***************************************************************************)
LEMMA DownKeeps ==
  ASSUME Down, Clean', NEW a \in Nat, Rooted(a)'
  PROVE  KeptInv'
<1>1. phase' = "down"
  BY DEF Down
<1>2. Running' /\ InGroup' /\ Placed(a)'
  BY <1>1 DEF Running, InGroup, Placed
<1>3. QED
  BY <1>2 DEF KeptInv

LEMMA KeptInit ==
  ASSUME Init
  PROVE  KeptInv
<1>1. cache = <<>> /\ disk = <<>> /\ phase = "down" /\ acked = [k \in Keys |-> Untouched]
  BY DEF Init
<1>2. Clean /\ Running /\ InGroup /\ Placed(0)
  BY <1>1 DEF Clean, Running, InGroup, Placed
<1>3. Rooted(0)
  <2>1. \A k \in Keys : EntryCells(cache, 0, k) = {}
    BY DEF EntryCells
  <2>2. Replay(cache, 0) = settled /\ NotOlder(settled, acked) /\ Rising(cache, 0)
    <3>1. \A k \in Keys : Replay(cache, 0)[k] = Untouched
      BY <2>1, ReplayAt, Zenon
    <3>2. Replay(cache, 0) = [k \in Keys |-> Replay(cache, 0)[k]]
      BY DEF Replay
    <3>3. settled = [k \in Keys |-> Untouched]
      BY DEF Init
    <3>4. QED
      BY <1>1, <3>1, <3>2, <3>3 DEF NotOlder, Rising
  <2>3. ValidPrefix(cache, 0)
    BY DEF ValidPrefix
  <2>4. /\ Follows(cache, 0, RecoveredSequence(cache, 0), Attempted)
        /\ Follows(disk, 0, RecoveredSequence(cache, 0), Attempted)
    BY <1>1 DEF Follows
  <2>5. \A k \in Keys : acked[k].seq = 0
    BY <1>1, Zenon DEF Untouched
  <2>6. QED
    BY <1>1, <2>2, <2>3, <2>4, <2>5 DEF Rooted
<1>4. QED
  BY <1>2, <1>3 DEF KeptInv

LEMMA OpenKeeps ==
  ASSUME LogInv, LogInv', LogKept, KeptInv, Open
  PROVE  KeptInv'
<1>1. PICK a \in Nat : Rooted(a)
  BY DEF KeptInv
<1>2. FileInv /\ FileInv' /\ Clean /\ acked \in [Keys -> MemEntry] /\ cache \in Seq(Cell)
  BY DEF LogInv, FileInv, MemberTypes, KeptInv
<1>3. CASE OpenFails("corruption")
  <2>1. Down /\ UNCHANGED file /\ acked' = acked /\ settled' = settled /\ attempts' = attempts
    BY <1>3, Zenon DEF OpenFails
  <2>2. Clean' /\ Rooted(a)'
    BY <1>1, <1>2, <2>1 DEF Clean, Rooted, Attempted, file
  <2>3. QED
    BY <2>1, <2>2, DownKeeps
<1>4. CASE ~OpenFails("corruption")
  <2>1. PICK n \in 0..Len(cache) :
          /\ IsValidBytes(SubSeq(cache, 1, Len(cache)), n)
          /\ Recovered(Len(cache), n) /\ acked' = acked
    BY <1>4 DEF Open, ReadLengths, LogKept
  <2>2. QED
    BY <1>1, <1>2, <2>1, RecoveryKeeps
<1>5. QED
  BY <1>3, <1>4

\* recover has synced what it found, and goes on from there.
LEMMA RecoverSyncKeeps ==
  ASSUME LogInv, LogInv', KeptInv, phase = "truncated", Sync, UNCHANGED <<members, rec>>,
         phase' = "idle", acked' = acked, settled' = mem
  PROVE  KeptInv'
<1>1. PICK a \in Nat : Rooted(a) /\ Placed(a)
  BY DEF KeptInv
<1>2. /\ FileInv /\ FileInv' /\ Clean /\ acked \in [Keys -> MemEntry] /\ cache \in Seq(Cell)
      /\ walOffset \in Nat /\ walOffset <= Len(cache) /\ ValidPrefix(cache, walOffset)
      /\ mem = Replay(cache, walOffset)
  BY DEF LogInv, FileInv, MemberTypes, LogHead, KeptInv
<1>3. /\ Len(cache) = walOffset /\ nextSequence = RecoveredSequence(cache, walOffset)
      /\ a <= walOffset
  BY <1>1 DEF KeptInv, Running, Placed
<1>4. cache' = cache /\ disk' = cache
  BY <1>2, SyncedDisk DEF Sync
<1>5. walOffset' = walOffset /\ nextSequence' = nextSequence /\ mem' = mem
  BY DEF members
<1>6. Rooted(walOffset)' /\ RecoveredSequence(cache', walOffset) = nextSequence
  <2>1. /\ Rooted(a) /\ Len(cache') = walOffset /\ disk' = cache'
        /\ settled' = Replay(cache, walOffset)
        /\ \A i \in 1..walOffset : cache'[i] = cache[i]
    BY <1>1, <1>2, <1>3, <1>4
  <2> DEFINE w == walOffset
  <2>2. w' = w
    BY <1>5
  <2>3. ASSUME NEW n \in Nat, n = walOffset
        PROVE  Rooted(n)'
    BY <1>1, <1>2, <1>3, <2>1, <2>3, Reroot
  <2>4. QED
    BY <1>2, <1>3, <1>4, <1>5, <2>3
<1>7. Placed(walOffset)'
  <2>1. nextSequence' - (walOffset' - walOffset') = RecoveredSequence(cache', walOffset')
    BY <1>2, <1>5, <1>6 DEF LogInv, MemberTypes
  <2>2. QED
    BY <1>2, <1>5, <2>1 DEF Placed
<1>8. Clean' /\ InGroup'
  <2>1. \A i \in 1..Len(cache) : i <= Len(cache) /\ cache[i] = cache[i]
    BY <1>2
  <2>2. Clean'
    BY <1>4, <2>1, Zenon DEF Clean
  <2>3. InGroup'
    BY Zenon DEF InGroup
  <2>4. QED
    BY <2>2, <2>3
<1>9. Running'
  BY <1>4, <1>5 DEF KeptInv, Running
<1>10. walOffset' \in Nat
  BY <1>2, <1>5
<1>11. QED
  BY <1>6, <1>7, <1>8, <1>9, <1>10 DEF KeptInv

LEMMA SyncStepsKeep ==
  ASSUME LogInv, LogInv', LogKept, KeptInv, RecoverSync \/ FDataSync
  PROVE  KeptInv'
<1>1. PICK a \in Nat : Rooted(a) /\ Placed(a)
  BY DEF KeptInv
<1>2. FileInv /\ FileInv' /\ Clean
  BY DEF LogInv, KeptInv
<1>3. CASE /\ phase = "truncated" /\ Sync /\ UNCHANGED <<members, rec>>
           /\ phase' = "idle" /\ acked' = acked /\ settled' = mem
  BY <1>3, RecoverSyncKeeps
<1>4. CASE Down /\ SyncFailed /\ NothingSettled
  BY <1>1, <1>2, <1>4, SyncKeeps, DownKeeps
<1>5. CASE FDataSync
  <2>1. /\ phase = "written" /\ cache' = cache /\ UNCHANGED members /\ NothingSettled
        /\ \/ phase' = "idle" /\ SyncFailed
           \/ phase' = "synced" /\ rec' = rec /\ Sync
    BY <1>5, Zenon DEF FDataSync, GroupEnds, Sync, SyncFailed, NothingSettled, history
  <2>2. /\ phase /= "down" /\ phase' \notin {"down", "truncated"}
        /\ walOffset' = walOffset /\ nextSequence' = nextSequence /\ mem' = mem
        /\ acked' = acked /\ Attempted' = Attempted
    BY <2>1 DEF members, NothingSettled, Attempted
  <2>3. /\ Clean' /\ Rooted(a)' /\ RecoveredSequence(cache', a) = RecoveredSequence(cache, a)
    BY <1>1, <1>2, <2>1, SyncKeeps
  <2>4. Placed(a)'
    BY <1>1, <2>2, <2>3 DEF Placed
  <2>5. Running'
    BY <2>1, <2>2 DEF KeptInv, Running
  <2>6. InGroup'
    <3>1. CASE phase' = "idle"
      BY <3>1 DEF InGroup
    <3>2. CASE phase' = "synced" /\ rec' = rec /\ Sync
      <4>1. disk' = cache
        BY <1>2, <3>2, SyncedDisk
      <4>2. rec.base = nextSequence /\ rec.entries /= <<>> /\ rec \in Attempted
        BY <2>1 DEF KeptInv, InGroup
      <4>3. QED
        BY <2>1, <2>2, <3>2, <4>1, <4>2 DEF InGroup
    <3>3. QED
      BY <2>1, <3>1, <3>2
  <2>7. QED
    BY <2>3, <2>4, <2>5, <2>6 DEF KeptInv
<1>6. QED
  BY <1>3, <1>4, <1>5 DEF RecoverSync, Settle, NothingSettled

LEMMA WriteGroupKeeps ==
  ASSUME KeptInv, NEW g \in Groups, WriteGroup(g)
  PROVE  KeptInv'
<1>1. PICK a \in Nat : Rooted(a) /\ Placed(a)
  BY DEF KeptInv
<1>2. /\ phase = "idle" /\ phase' = "encoded" /\ rec' = [base |-> nextSequence, entries |-> g]
      /\ cache' = cache /\ disk' = disk /\ dirty' = dirty /\ acked' = acked
      /\ walOffset' = walOffset /\ nextSequence' = nextSequence /\ mem' = mem
      /\ settled' = settled /\ attempts' = attempts \cup {[on |-> mem, group |-> rec']}
  BY DEF WriteGroup, EncodeGroup, file, members
<1>3. g /= <<>> /\ Attempted \subseteq Attempted' /\ rec' \in Attempted'
  <2>1. g /= <<>>
    BY WalStoreAssumption
  <2>2. Attempted' = {x.group : x \in attempts'}
    BY DEF Attempted
  <2>3. [on |-> mem, group |-> rec'].group = rec'
    OBVIOUS
  <2>4. QED
    BY <1>2, <2>1, <2>2, <2>3, Zenon DEF Attempted
<1>4. Rooted(a)' /\ Placed(a)'
  <2>1. \A f, y : Follows(f, a, y, Attempted) => Follows(f, a, y, Attempted')
    BY <1>3 DEF Follows
  <2>2. QED
    BY <1>1, <1>2, <2>1, ZenonT(30) DEF Rooted, Placed
<1>5. Clean' /\ Running'
  BY <1>2, Zenon DEF KeptInv, Clean, Running
<1>6. InGroup'
  BY <1>2, <1>3 DEF InGroup
<1>7. QED
  BY <1>4, <1>5, <1>6 DEF KeptInv

LEMMA WritevKeeps ==
  ASSUME LogInv, LogInv', KeptInv, phase = "encoded", NothingSettled,
         NEW n \in 0..Size(rec), WriteCells(n), issued' = issued,
         Down \/ (/\ phase' \in {"idle", "written"} /\ UNCHANGED members
                  /\ phase' = "written" => rec' = rec)
  PROVE  KeptInv'
<1>1. PICK a \in Nat : Rooted(a) /\ Placed(a)
  BY DEF KeptInv
<1>2. /\ FileInv /\ FileInv' /\ rec \in Record /\ IssuedBy(rec) \subseteq issued
      /\ walOffset \in 0..Len(cache) /\ nextSequence \in Nat /\ walOffset \in Nat
  BY DEF LogInv, MemberTypes, FileInv, LogHead, InFlight
<1>3. /\ rec.base = nextSequence /\ rec.entries /= <<>> /\ rec \in Attempted
      /\ Clean /\ Running /\ phase /= "down"
  BY DEF KeptInv, InGroup
<1>4. walOffset <= Len(cache') /\ \A i \in 1..walOffset : cache'[i] = cache[i]
  BY <1>2, WriteStep
<1>5. /\ Clean' /\ Rooted(a)'
      /\ RecoveredSequence(cache', a) = RecoveredSequence(cache, a)
      /\ \A i \in walOffset + 1..Len(cache') :
           cache'[i] /= Zero => StartOf(cache', i) <= walOffset
  BY <1>1, <1>2, <1>3, <1>4, WriteKeeps
<1>6. CASE Down
  BY <1>5, <1>6, DownKeeps
<1>7. CASE /\ phase' \in {"idle", "written"} /\ UNCHANGED members
           /\ phase' = "written" => rec' = rec
  <2>1. /\ walOffset' = walOffset /\ nextSequence' = nextSequence /\ mem' = mem
        /\ acked' = acked /\ Attempted' = Attempted
    BY <1>7 DEF members, NothingSettled, Attempted
  <2>2. Placed(a)'
    BY <1>1, <1>3, <1>5, <2>1, Zenon DEF Placed
  <2>3. Running'
    BY <1>3, <1>4, <1>5, <1>7, <2>1, Zenon DEF Running
  <2>4. InGroup'
    BY <1>3, <1>7, <2>1 DEF InGroup
  <2>5. QED
    BY <1>5, <2>2, <2>3, <2>4 DEF KeptInv
<1>8. QED
  BY <1>6, <1>7

LEMMA QuietKeeps ==
  ASSUME KeptInv, Down, UNCHANGED file, NothingSettled
  PROVE  KeptInv'
<1>1. PICK a \in Nat : Rooted(a)
  BY DEF KeptInv
<1>2. Clean' /\ Rooted(a)'
  BY <1>1, Zenon DEF KeptInv, Clean, Rooted, Attempted, NothingSettled, file
<1>3. QED
  BY <1>2, DownKeeps

LEMMA KeptStep ==
  ASSUME LogInv, LogInv', LogKept, KeptInv, Next
  PROVE  KeptInv'
<1>1. CASE Open
  BY <1>1, OpenKeeps
<1>2. CASE RecoverSync \/ FDataSync
  BY <1>2, SyncStepsKeep
<1>3. CASE \E g \in Groups : WriteGroup(g)
  BY <1>3, WriteGroupKeeps
<1>4. CASE \E n \in Transfers(rec) : Writev(n)
  <2>1. PICK n \in Transfers(rec) : Writev(n)
    BY <1>4
  <2>2. rec \in Record /\ MaxTransfer \in Nat
    BY WalStoreAssumption, WalFormatAssumption DEF LogInv, MemberTypes
  <2>3. Size(rec) \in Nat
    BY <2>2, SizeType
  <2>4. n \in 0..Size(rec)
    BY <2>2, <2>3 DEF Transfers
  <2>5. /\ phase = "encoded" /\ WriteCells(n) /\ NothingSettled /\ issued' = issued
        /\ phase' \in {"idle", "written"} /\ UNCHANGED members
        /\ phase' = "written" => rec' = rec
    BY <2>1 DEF Writev, GroupEnds, history, NothingSettled
  <2>6. QED
    BY <2>4, <2>5, WritevKeeps
<1>5. CASE Apply
  BY <1>5, ApplyKeeps
<1>6. CASE Close
  BY <1>6, QuietKeeps DEF Close, CloseFile, history, NothingSettled
<1>7. CASE ProcessCrash
  <2>1. Down /\ NothingSettled /\ issued' = issued
    BY <1>7 DEF ProcessCrash, history, NothingSettled
  <2>2. CASE phase = "encoded"
    <3>1. PICK n \in 0..Size(rec) : WriteCells(n)
      BY <1>7, <2>2 DEF ProcessCrash
    <3>2. QED
      BY <2>1, <2>2, <3>1, WritevKeeps
  <2>3. CASE phase /= "encoded"
    BY <1>7, <2>1, <2>3, QuietKeeps DEF ProcessCrash
  <2>4. QED
    BY <2>2, <2>3
<1>8. CASE PowerLoss
  <2>1. PICK a \in Nat : Rooted(a)
    BY DEF KeptInv
  <2>2. Clean' /\ Rooted(a)'
    BY <1>8, <2>1, PowerKeeps DEF LogInv
  <2>3. QED
    BY <1>8, <2>2, DownKeeps DEF PowerLoss
<1>9. CASE UNCHANGED vars
  BY <1>9, Zenon DEF vars, file, members, history, KeptInv, Clean, Running, InGroup, Rooted, Placed,
               Attempted
<1>10. QED
  BY <1>1, <1>2, <1>3, <1>4, <1>5, <1>6, <1>7, <1>8, <1>9 DEF Next, Finished

LEMMA DurInit == Init => DurInv
BY LogInvInit, KeptInit DEF DurInv

LEMMA DurStep ==
  ASSUME DurInv, [Next]_vars
  PROVE  DurInv'
<1>1. LogInv'
  BY LogInvStep DEF DurInv
<1>2. CASE UNCHANGED vars
  BY <1>1, <1>2, Zenon DEF DurInv, LogKept, vars, file, members, history, KeptInv, Clean,
                    Running, InGroup, Rooted, Placed, Attempted
<1>3. CASE Next
  <2>1. faults' = faults
    BY <1>3 DEF Next
  <2>2. LogKept => KeptInv'
    BY <1>1, <1>3, KeptStep DEF DurInv
  <2>3. QED
    BY <1>1, <2>1, <2>2 DEF DurInv, LogKept
<1>4. QED
  BY <1>2, <1>3

\* The log is anchored, whatever goes wrong as long as it is kept.
THEOREM DurInvAlways == Spec => []DurInv
  BY DurInit, DurStep, PTL DEF Spec

LEMMA DurReadable == DurInv => AckedReadable
BY Zenon DEF DurInv, KeptInv, Running, NotOlder, AckedReadable, Readable, IsOpen

\* Every write that returned Ok is readable from every DB that Open returns
\* later, in this life of the process or any other, until a newer write of its
\* key: after failed writes and syncs, crashes and power losses, as long as
\* recover can read the log and the kernel and the file system keep it.
THEOREM AckedAlwaysReadable == Spec => []AckedReadable
  BY DurReadable, DurInvAlways, PTL

LEMMA AdvanceStep ==
  ASSUME DurInv, LogKept, Next, NEW k \in Keys
  PROVE  acked'[k] = acked[k] \/ acked'[k].seq > acked[k].seq
<1>1. CASE Apply
  <2>1. PICK a \in Nat : Rooted(a) /\ Placed(a)
    BY DEF DurInv, KeptInv
  <2> DEFINE y == RecoveredSequence(cache, a)
  <2>2. /\ phase = "synced" /\ acked' = ApplyRecord(acked, rec)
    BY <1>1, Zenon DEF Apply, MayApply
  <2>3. /\ acked \in [Keys -> MemEntry] /\ rec \in Record /\ walOffset \in Nat
        /\ nextSequence \in Nat \ {0} /\ rec.base = nextSequence /\ cache \in Seq(Cell)
    BY <2>2, Zenon DEF DurInv, LogInv, MemberTypes, FileInv, KeptInv, InGroup
  <2>4. /\ a <= walOffset /\ nextSequence - (walOffset - a) \in {y - 1, y}
        /\ ValidPrefix(cache, a) /\ a <= Len(cache)
        /\ acked[k].seq = 0 \/ acked[k].seq < y - 1
    BY <2>1, <2>2 DEF Rooted, Placed
  <2>5. y \in Nat
    BY <2>3, <2>4, SequenceBounds
  <2>6. acked[k].seq \in Nat
    BY <2>3 DEF MemEntry
  <2> HIDE DEF y
  <2>7. acked[k].seq < nextSequence
    BY <2>3, <2>4, <2>5, <2>6
  <2>8. CASE acked'[k].seq \in Nat /\ acked'[k].seq >= rec.base
    BY <2>3, <2>6, <2>7, <2>8
  <2>9. QED
    BY <2>2, <2>3, <2>8, ApplySequences
<1>2. CASE ~Apply
  <2>1. acked' = acked
    BY <1>2, Zenon DEF Next, Open, OpenFails, RecoverSync, WriteGroup, EncodeGroup, Writev,
       FDataSync, Close, CloseFile, ProcessCrash, PowerLoss, Finished, vars, history
  <2>2. QED
    BY <2>1
<1>3. QED
  BY <1>1, <1>2

\* As long as the log is kept, the sequence numbers under which writes of a key
\* are acknowledged only grow, through every restart: nextSequence_ never
\* falls back behind an acknowledged write.
THEOREM SequenceAlwaysAdvances == Spec => SequenceAdvance
<1>1. DurInv /\ [Next]_vars => [AckedAdvance]_vars
  BY AdvanceStep, Zenon DEF AckedAdvance
<1>2. QED
  BY <1>1, DurInvAlways, PTL DEF Spec, SequenceAdvance

\* As long as the log is kept, whatever failed and however often recover put the
\* log together from the remains of several lives, the sequence numbers in it
\* grow from record to record and nextSequence_ is beyond them: the last entry
\* of a key in the log is its newest.
THEOREM SequencesAlwaysIncrease == Spec => []SequencesIncrease
<1>1. DurInv => SequencesIncrease
  <2> SUFFICES ASSUME DurInv, LogKept, phase = "idle"
               PROVE  /\ \A x, y \in RecordsIn(cache, walOffset) :
                           x[1] < y[1] => x[2].base + Len(x[2].entries) <= y[2].base
                      /\ \A x \in RecordsIn(cache, walOffset) :
                           x[2].base + Len(x[2].entries) <= nextSequence
    BY DEF SequencesIncrease
  <2>1. PICK a \in Nat : Rooted(a) /\ Placed(a)
    BY DEF DurInv, KeptInv
  <2>2. /\ cache \in Seq(Cell) /\ Written(cache, issued) /\ walOffset \in 0..Len(cache)
        /\ ValidPrefix(cache, walOffset)
    BY DEF DurInv, LogInv, MemberTypes, FileInv, LogHead
  <2>3. /\ a \in 0..walOffset /\ ValidPrefix(cache, a) /\ Rising(cache, a)
        /\ Follows(cache, a, RecoveredSequence(cache, a), Attempted)
    <3>1. /\ ValidPrefix(cache, a) /\ Rising(cache, a)
          /\ Follows(cache, a, RecoveredSequence(cache, a), Attempted)
      BY <2>1, Zenon DEF Rooted
    <3>2. a <= walOffset
      BY <2>1, Zenon DEF Placed
    <3>3. walOffset \in Nat
      BY <2>2
    <3>4. QED
      BY <3>1, <3>2, <3>3
  <2>4. Rising(cache, walOffset)
    BY <2>2, <2>3, TailRises
  <2>5. \A x \in RecordsIn(cache, walOffset) : \E i \in 1..walOffset :
          x[1] = StartOf(cache, i) /\ x[2] = cache[i].rec
    BY DEF RecordsIn
  <2>6. \A i \in 1..walOffset : End(cache[i]) <= nextSequence
    BY DEF DurInv, KeptInv, Running
  <2>7. QED
    BY <2>4, <2>5, <2>6 DEF Rising, End
<1>2. QED
  BY <1>1, DurInvAlways, PTL

(***************************************************************************)
(* The sequence numbers of one life of the process, whatever goes wrong:   *)
(* the memtable is behind nextSequence_.                                   *)
(***************************************************************************)
Ahead ==
  /\ phase /= "down" => \A k \in Keys : mem[k].seq < nextSequence
  /\ phase \in {"encoded", "written", "synced"} => rec.base = nextSequence

LEMMA ReplayBehind ==
  ASSUME NEW S, NEW f \in Seq(Cell), Written(f, S), NEW n \in 0..Len(f), ValidPrefix(f, n),
         NEW k \in Keys
  PROVE  Replay(f, n)[k].seq < RecoveredSequence(f, n)
<1>0. n \in Nat /\ EntryCells(f, n, k) \subseteq 1..n
  BY DEF EntryCells
<1>1. /\ RecoveredSequence(f, n) \in Nat \ {0}
      /\ \A i \in 1..n : End(f[i]) + 1 <= RecoveredSequence(f, n)
  BY SequenceBounds, Zenon
<1>2. CASE EntryCells(f, n, k) = {}
  <2>1. Replay(f, n)[k].seq = 0
    BY <1>2, ReplayAt DEF Untouched
  <2>2. QED
    BY <1>1, <2>1
<1>3. CASE EntryCells(f, n, k) /= {}
  <2> DEFINE l == LastOf(EntryCells(f, n, k))
             b == f[l].rec.base
             x == f[l].idx
             e == Len(f[l].rec.entries)
  <2>1. l \in 1..n
    BY <1>0, <1>3, LastOfIsLast, Zenon
  <2>2. Replay(f, n)[k].seq = b + x - 2
    <3>1. Replay(f, n)[k] = EntryAt(f, l)
      BY <1>3, ReplayAt, Zenon
    <3>2. EntryAt(f, l).seq = b + x - 2
      BY DEF EntryAt
    <3>3. QED
      BY <3>1, <3>2
  <2> HIDE DEF l
  <2>3. /\ l \in 1..Len(f) /\ f[l] /= Zero /\ b \in Nat /\ x \in Nat /\ e \in Nat
        /\ Size(f[l].rec) = e + 1
    BY <2>1, EndType, Zenon
  <2>4. x \in 1..e + 1
    BY <2>3 DEF Written
  <2>5. b + e + 1 <= RecoveredSequence(f, n)
    BY <1>1, <2>1 DEF End
  <2> HIDE DEF b, x, e
  <2>6. QED
    BY <1>1, <2>2, <2>3, <2>4, <2>5
<1>4. QED
  BY <1>2, <1>3

LEMMA AheadInit == Init => Ahead
BY DEF Init, Ahead

LEMMA AheadStep ==
  ASSUME LogInv, Ahead, [Next]_vars
  PROVE  Ahead'
<1>1. CASE Down
  BY <1>1 DEF Down, Ahead
<1>2. ASSUME NEW m \in ReadLengths, NEW n \in 0..m, IsValidBytes(SubSeq(cache, 1, m), n),
             Recovered(m, n)
      PROVE  Ahead'
  <2> DEFINE f == SubSeq(cache, 1, m)
  <2>1. m \in 0..Len(cache) /\ cache \in Seq(Cell) /\ Written(cache, issued)
    BY DEF ReadLengths, LogInv, FileInv
  <2>2. f \in Seq(Cell) /\ Len(f) = m /\ Written(f, issued)
    BY <2>1, PrefixIs, PrefixWritten
  <2>3. mem' = Replay(f, n) /\ nextSequence' = RecoveredSequence(f, n)
        /\ phase' \in {"truncated", "idle"}
    BY <1>2 DEF Recovered
  <2>4. ValidPrefix(f, n)
    BY <1>2 DEF IsValidBytes
  <2> HIDE DEF f
  <2>5. \A k \in Keys : Replay(f, n)[k].seq < RecoveredSequence(f, n)
    BY <2>2, <2>4, ReplayBehind
  <2>6. QED
    BY <2>3, <2>5 DEF Ahead
<1>3. CASE Open
  BY <1>1, <1>2, <1>3 DEF Open, OpenFails
<1>4. CASE UNCHANGED members /\ phase /= "down"
           /\ (phase' \in {"truncated", "idle"}
                \/ (phase \in {"encoded", "written", "synced"} /\ rec' = rec))
  BY <1>4 DEF Ahead, members
<1>5. CASE RecoverSync \/ FDataSync \/ \E n \in Transfers(rec) : Writev(n)
  BY <1>1, <1>4, <1>5, Zenon DEF RecoverSync, FDataSync, Writev, GroupEnds
<1>6. CASE \E g \in Groups : WriteGroup(g)
  BY <1>6 DEF WriteGroup, EncodeGroup, members, Ahead
<1>7. CASE Apply
  <2>1. /\ mem' = ApplyRecord(mem, rec) /\ phase' = "idle" /\ phase = "synced"
        /\ nextSequence' = nextSequence + Len(rec.entries)
    BY <1>7 DEF Apply, MayApply, GroupEnds
  <2>2. mem \in [Keys -> MemEntry] /\ rec \in Record /\ nextSequence \in Nat
    BY DEF LogInv, MemberTypes
  <2>3. Len(rec.entries) \in Nat /\ rec.base = nextSequence
    BY <2>1, <2>2, SizeType DEF Ahead
  <2>4. ASSUME NEW k \in Keys
        PROVE  mem'[k].seq < nextSequence'
    <3>1. mem[k].seq \in Nat /\ mem[k].seq < nextSequence
      BY <2>1, <2>2 DEF MemEntry, Ahead
    <3>2. \/ mem'[k] = mem[k]
          \/ mem'[k].seq < rec.base + Len(rec.entries)
      BY <2>1, <2>2, ApplySequences
    <3>3. QED
      BY <2>1, <2>2, <2>3, <3>1, <3>2
  <2>5. QED
    BY <2>1, <2>4 DEF Ahead
<1>8. CASE Close \/ ProcessCrash \/ PowerLoss
  BY <1>1, <1>8 DEF Close, CloseFile, ProcessCrash, PowerLoss
<1>9. CASE UNCHANGED vars
  BY <1>9 DEF vars, members, Ahead
<1>10. QED
  BY <1>3, <1>5, <1>6, <1>7, <1>8, <1>9 DEF Next, Finished

\* A record that is applied leaves each of its keys with its last entry.
LEMMA ApplyCovers ==
  ASSUME NEW t \in [Keys -> MemEntry], NEW r \in Record, NEW x \in IssuedBy(r)
  PROVE  /\ x[1] \in Keys /\ x[2].seq \in Nat /\ x[2].seq >= r.base
         /\ ApplyRecord(t, r)[x[1]] = x[2] \/ ApplyRecord(t, r)[x[1]].seq > x[2].seq
<1>1. PICK i \in DOMAIN r.entries :
        x = <<r.entries[i].key, [seq |-> r.base + i - 1, val |-> r.entries[i].val]>>
  BY DEF IssuedBy
<1> DEFINE k == r.entries[i].key
           l == LastOf(Hits(r, k))
           e == Len(r.entries)
<1>2. e \in Nat /\ i \in 1..e /\ r.base \in Nat /\ r.entries[i] \in Entry
      /\ Hits(r, k) \subseteq 1..e /\ i \in Hits(r, k)
  BY SizeType DEF Hits
<1>3. x[1] = k /\ x[2] = [seq |-> r.base + i - 1, val |-> r.entries[i].val]
  BY <1>1
<1>4. k \in Keys
  BY <1>2 DEF Entry
<1>5. l \in 1..e /\ i <= l
  BY <1>2, LastOfIsLast, Zenon
<1>6. ApplyRecord(t, r)[k] = [seq |-> r.base + l - 1, val |-> r.entries[l].val]
  <2>1. Hits(r, k) /= {}
    BY <1>2, Zenon
  <2>2. QED
    BY <1>4, <2>1, ApplyAt
<1> HIDE DEF l, e, k
<1>7. /\ r.base + i - 1 \in Nat /\ r.base + i - 1 >= r.base
      /\ l = i \/ r.base + l - 1 > r.base + i - 1
  BY <1>2, <1>5
<1>8. x[2].seq = r.base + i - 1 /\ ApplyRecord(t, r)[k].seq = r.base + l - 1
  BY <1>3, <1>6
<1>9. ApplyRecord(t, r)[k] = x[2] \/ ApplyRecord(t, r)[k].seq > x[2].seq
  BY <1>3, <1>6, <1>7, <1>8, Zenon
<1>10. QED
  BY <1>3, <1>4, <1>7, <1>8, <1>9, Zenon

\* ... and changes a key to nothing but one of its entries.
LEMMA ApplyFrom ==
  ASSUME NEW t, NEW r \in Record, NEW k \in Keys
  PROVE  ApplyRecord(t, r)[k] = t[k] \/ <<k, ApplyRecord(t, r)[k]>> \in IssuedBy(r)
<1>1. CASE Hits(r, k) = {}
  BY <1>1, ApplyAt, Zenon
<1>2. CASE Hits(r, k) /= {}
  <2> DEFINE l == LastOf(Hits(r, k))
  <2>1. Len(r.entries) \in Nat /\ Hits(r, k) \subseteq 1..Len(r.entries)
    BY SizeType DEF Hits
  <2>2. l \in Hits(r, k)
    BY <1>2, <2>1, LastOfIsLast, Zenon
  <2>3. ApplyRecord(t, r)[k] = [seq |-> r.base + l - 1, val |-> r.entries[l].val]
    BY <1>2, ApplyAt
  <2> HIDE DEF l
  <2>4. l \in DOMAIN r.entries /\ r.entries[l].key = k
    BY <2>2 DEF Hits
  <2>5. QED
    BY <2>3, <2>4, Zenon DEF IssuedBy
<1>3. QED
  BY <1>1, <1>2
=============================================================================
