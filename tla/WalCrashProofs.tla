--------------------------- MODULE WalCrashProofs ----------------------------
(***************************************************************************)
(* Proofs about what crashes, power losses and failed writes leave in the  *)
(* log when syncs succeed and the file system keeps the order of writes.   *)
(*                                                                         *)
(* A power loss may leave any mixture of the page cache and the disk.  The *)
(* argument is that whatever the mixture, recovery finds nothing in it     *)
(* that is not, at the same place, in the page cache.                      *)
(***************************************************************************)
EXTENDS WalDurabilityProofs

\* The provers of a leaf that names none.
USE SMTT(30), Zenon

\* File g has each of its cells from the page cache or from the disk.
Mixed(g) ==
  /\ g \in Seq(Cell)
  /\ \A i \in 1..Len(g) : \/ i <= Len(cache) /\ g[i] = cache[i]
                          \/ i <= Len(disk) /\ g[i] = disk[i]

NothingNew ==
  \A g : Mixed(g) =>
    \A n \in 0..Len(g) :
      ValidPrefix(g, n) => n <= Len(cache) /\ \A i \in 1..n : g[i] = cache[i]

\* Where the log ends once the group in flight is applied.
LogEnd ==
  IF phase \in {"written", "synced"} THEN walOffset + Size(rec) ELSE walOffset

\* Behind the first e cells of f are only cells of records that start in front
\* and that are not complete.
Rest(f, e) ==
  \A i \in e + 1..Len(f) :
    /\ f[i].idx < Size(f[i].rec)
    /\ f[i] /= Zero => StartOf(f, i) <= e

Remains ==
  phase /= "down" =>
    /\ Rest(cache, LogEnd)
    /\ phase \in {"truncated", "idle", "encoded"} =>
         Len(cache) = walOffset \/ Rest(disk, walOffset)

\* The tables that the DB had or was about to have since the settled one.
Futures == {settled} \cup {ApplyRecord(x.on, x.group) : x \in attempts}

\* Every recovery finds the first a cells, and then one of these tables.
Promising(a) ==
  /\ a <= Len(cache) /\ a <= Len(disk)
  /\ \A i \in 1..a : disk[i] = cache[i]
  /\ ValidPrefix(cache, a)
  /\ phase /= "down" => a <= walOffset
  /\ \A n \in a..Len(cache) : ValidPrefix(cache, n) => Replay(cache, n) \in Futures

OnTop ==
  phase \in {"encoded", "written", "synced"} => [on |-> mem, group |-> rec] \in attempts

OrderInv == NothingNew /\ Remains /\ OnTop /\ \E a \in Nat : Promising(a)

OrdInv == DurInv /\ (Orderly => OrderInv)

(***************************************************************************)
(* Files.                                                                  *)
(***************************************************************************)
LEMMA OrderlyKept ==
  ASSUME Orderly
  PROVE  LogKept /\ "unordered" \notin faults /\ "sync" \notin faults
BY DEF Orderly, LogKept

LEMMA MixedWritten ==
  ASSUME NEW S, NEW c \in Seq(Cell), NEW d \in Seq(Cell), Written(c, S), Written(d, S),
         NEW g \in Seq(Cell),
         \A i \in 1..Len(g) : \/ i <= Len(c) /\ g[i] = c[i]
                              \/ i <= Len(d) /\ g[i] = d[i]
  PROVE  Written(g, S)
<1> SUFFICES ASSUME NEW i \in 1..Len(g), g[i] /= Zero
             PROVE  g[i].idx \in 1..Size(g[i].rec) /\ IssuedBy(g[i].rec) \subseteq S
  BY DEF Written
<1>1. CASE i <= Len(c) /\ g[i] = c[i]
  BY <1>1 DEF Written
<1>2. CASE i <= Len(d) /\ g[i] = d[i]
  BY <1>2 DEF Written
<1>3. QED
  BY <1>1, <1>2

\* The last cell of a sequence of whole records is the last of its record.
LEMMA LastIsComplete ==
  ASSUME NEW f \in Seq(Cell), NEW n \in 1..Len(f), ValidPrefix(f, n)
  PROVE  ~(f[n].idx < Size(f[n].rec))
<1>1. n \in 1..n /\ n \in Nat
  OBVIOUS
<1>2. /\ f[n].idx \in Nat /\ Size(f[n].rec) = Len(f[n].rec.entries) + 1
      /\ Len(f[n].rec.entries) \in Nat
  BY <1>1, EndType
<1>3. StartOf(f, n) = n - f[n].idx /\ StartOf(f, n) + Size(f[n].rec) <= n
  BY <1>1 DEF ValidPrefix, StartOf
<1>4. QED
  BY <1>1, <1>2, <1>3

\* In front of a record of a sequence of whole records are whole records.
LEMMA CutPrefix ==
  ASSUME NEW S, NEW f \in Seq(Cell), Written(f, S), NEW n \in 0..Len(f), ValidPrefix(f, n),
         NEW i \in 1..n
  PROVE  StartOf(f, i) \in 0..n /\ ValidPrefix(f, StartOf(f, i))
<1> DEFINE p == StartOf(f, i)
<1>1. p \in 0..n
  <2>1. 0 \in 0..n /\ ValidPrefix(f, 0) /\ i \in 0 + 1..n
    BY DEF ValidPrefix
  <2>2. p \in Int /\ p >= 0 /\ p = i - f[i].idx
    BY <2>1, TailStarts
  <2>3. f[i].idx \in Nat
    BY EndType
  <2> HIDE DEF p
  <2>4. QED
    BY <2>2, <2>3
<1>2. ASSUME NEW j \in 1..p
      PROVE  /\ f[j] /= Zero /\ StartOf(f, j) >= 0
             /\ StartOf(f, j) + Size(f[j].rec) <= p
             /\ RecordAt(f, StartOf(f, j), f[j].rec)
  <2>1. j \in 1..n
    BY <1>1
  <2>2. f[j] /= Zero /\ StartOf(f, j) >= 0 /\ RecordAt(f, StartOf(f, j), f[j].rec)
    BY <2>1 DEF ValidPrefix
  <2>3. StartOf(f, j) < p
    <3>1. j \in 1..Len(f) /\ f[j] /= Zero
      BY <2>1, EndType
    <3>2. f[j].idx \in Nat /\ f[j].idx > 0
      BY <3>1, CellShape
    <3>3. StartOf(f, j) = j - f[j].idx
      BY DEF StartOf
    <3> HIDE DEF p
    <3>4. QED
      BY <1>1, <3>2, <3>3
  <2>4. StartOf(f, j) + Size(f[j].rec) <= p
    BY <2>1, <2>3, NoOverlap
  <2>5. QED
    BY <2>2, <2>4
<1>3. QED
  BY <1>1, <1>2 DEF ValidPrefix

\* What an ordered file system leaves after a power loss is a mixture.
LEMMA PowerMixes ==
  ASSUME FileInv, "unordered" \notin faults, NEW W \in SUBSET dirty, NEW n \in Lengths(W)
  PROVE  LET g == WrittenBack({i \in W : i <= n}, n) IN
         Mixed(g) /\ Len(g) = n
<1> DEFINE V == {i \in W : i <= n}
           g == WrittenBack(V, n)
<1>0. /\ cache \in Seq(Cell) /\ disk \in Seq(Cell) /\ W \subseteq 1..Len(cache)
      /\ n \in Nat /\ V \in SUBSET dirty
  BY LengthsAreNat, Zenon DEF FileInv
<1>1. g \in Seq(Cell)
  BY <1>0, WriteBackStep
<1>2. g = [i \in 1..n |-> IF i \in V THEN cache[i]
                          ELSE IF i <= Len(disk) THEN disk[i] ELSE Zero]
  BY DEF WrittenBack
<1>3. Len(g) = n
  <2>1. DOMAIN g = 1..n
    BY <1>2
  <2> HIDE DEF g
  <2>2. QED
    BY <1>0, <1>1, <2>1
<1> HIDE DEF g
<1>4. ASSUME NEW i \in 1..n
      PROVE  \/ i <= Len(cache) /\ g[i] = cache[i]
             \/ i <= Len(disk) /\ g[i] = disk[i]
  <2>1. CASE i \in W
    BY <1>0, <1>2, <2>1
  <2>2. CASE i \notin W
    <3>1. i <= Len(disk)
      BY <1>0, <2>2 DEF Lengths
    <3>2. QED
      BY <1>2, <2>2, <3>1
  <2>3. QED
    BY <2>1, <2>2
<1>5. QED
  BY <1>1, <1>3, <1>4, Zenon DEF Mixed, g

(***************************************************************************)
(* A writev.                                                               *)
(***************************************************************************)
LEMMA OrderedWrite ==
  ASSUME FileInv, "unordered" \notin faults, NEW k, WriteCells(k)
  PROVE  /\ Len(disk') <= Len(cache) /\ Len(disk') <= Len(disk) /\ disk' \in Seq(Cell)
         /\ \A i \in 1..Len(disk') : disk'[i] = disk[i]
<1>0. cache \in Seq(Cell) /\ disk \in Seq(Cell)
  BY DEF FileInv
<1>1. CASE Len(cache) < Len(disk)
  <2>1. Len(cache) \in 0..Len(disk) /\ disk' = SubSeq(disk, 1, Len(cache))
    BY <1>0, <1>1 DEF WriteCells
  <2>2. QED
    BY <1>0, <1>1, <2>1, PrefixIs
<1>2. CASE ~(Len(cache) < Len(disk))
  BY <1>0, <1>2 DEF WriteCells
<1>3. QED
  BY <1>1, <1>2

\* After a writev a cell of a mixture is a cell of its record, or was one of a
\* mixture before.
LEMMA MixedAfter ==
  ASSUME FileInv, "unordered" \notin faults, rec \in Record, walOffset \in 0..Len(cache),
         NEW k \in 0..Size(rec), WriteCells(k), NEW g, Mixed(g)', NEW i \in 1..Len(g)
  PROVE  \/ i - walOffset \in 1..k /\ g[i] = [rec |-> rec, idx |-> i - walOffset]
         \/ i <= Len(cache) /\ g[i] = cache[i]
         \/ i <= Len(disk) /\ i <= Len(cache) /\ g[i] = disk[i]
<1>0. cache \in Seq(Cell) /\ disk \in Seq(Cell) /\ g \in Seq(Cell) /\ i \in Nat
  BY DEF FileInv, Mixed
<1>1. CASE i <= Len(cache') /\ g[i] = cache'[i]
  <2>1. cache' \in Seq(Cell)
    BY CellsOf, OverwriteIs, Zenon DEF FileInv, WriteCells
  <2>2. i \in 1..Len(cache')
    BY <1>0, <1>1, <2>1
  <2>3. QED
    BY <1>0, <1>1, <2>2, WriteShape
<1>2. CASE i <= Len(disk') /\ g[i] = disk'[i]
  <2>1. /\ Len(disk') <= Len(cache) /\ Len(disk') <= Len(disk) /\ disk' \in Seq(Cell)
        /\ \A j \in 1..Len(disk') : disk'[j] = disk[j]
    BY OrderedWrite
  <2>2. QED
    BY <1>0, <1>2, <2>1
<1>3. QED
  BY <1>1, <1>2 DEF Mixed

\* What recovery could find after a writev it could find before, or it is the
\* whole record behind all the others.
LEMMA WriteMix ==
  ASSUME FileInv, FileInv', "unordered" \notin faults, rec \in Record,
         walOffset \in 0..Len(cache), IssuedBy(rec) \subseteq issued, issued' = issued,
         NEW k \in 0..Size(rec), WriteCells(k),
         NothingNew, Rest(cache, walOffset),
         Len(cache) = walOffset \/ Rest(disk, walOffset),
         NEW g, Mixed(g)', NEW n \in 0..Len(g), ValidPrefix(g, n)
  PROVE  /\ n <= Len(cache') /\ \A i \in 1..n : g[i] = cache'[i]
         /\ n <= walOffset \/ (k = Size(rec) /\ n = walOffset + Size(rec))
<1> DEFINE w == walOffset
           Old(i) == \/ i <= Len(cache) /\ g[i] = cache[i]
                     \/ i <= Len(disk) /\ i <= Len(cache) /\ g[i] = disk[i]
<1>0. /\ cache \in Seq(Cell) /\ disk \in Seq(Cell) /\ g \in Seq(Cell) /\ w \in Nat
      /\ Size(rec) \in Nat /\ Size(rec) >= 1 /\ k \in Nat /\ n \in Nat /\ n <= Len(g)
      /\ cache' \in Seq(Cell) /\ Len(cache) \in Nat /\ w <= Len(cache)
  BY SizeType DEF FileInv, Mixed
<1>1. \A i \in 1..Len(g) :
        Old(i) \/ (i - w \in 1..k /\ g[i] = [rec |-> rec, idx |-> i - w])
  BY MixedAfter
<1>2. /\ w + k <= Len(cache') /\ w <= Len(cache')
      /\ \A i \in 1..w : cache'[i] = cache[i]
      /\ \A i \in 1..k : cache'[w + i] = [rec |-> rec, idx |-> i]
  BY WriteStep
<1>3. Written(g, issued)
  BY <1>0, MixedWritten DEF FileInv, Mixed
\* An old part of g is in the page cache.
<1>4. ASSUME NEW m \in 0..n, ValidPrefix(g, m), \A i \in 1..m : Old(i)
      PROVE  m <= w /\ \A i \in 1..m : g[i] = cache[i]
  <2> DEFINE h == SubSeq(g, 1, m)
  <2>0. m \in 0..Len(g) /\ m \in Nat
    BY <1>0
  <2>1. h \in Seq(Cell) /\ Len(h) = m /\ \A i \in 1..m : h[i] = g[i]
    BY <1>0, <2>0, PrefixIs
  <2> HIDE DEF h
  <2>2. Mixed(h)
    BY <1>4, <2>1, Zenon DEF Mixed
  <2>3. ValidPrefix(h, m)
    <3>0. g \in Seq(Cell) /\ m \in Nat /\ m <= Len(g) /\ ValidPrefix(g, m)
      BY <1>0, <1>4, <2>0
    <3>1. ASSUME NEW f \in Seq(Cell), m <= Len(f), \A i \in 1..m : f[i] = g[i]
          PROVE  ValidPrefix(f, m)
      BY <3>0, <3>1, SamePrefix, Zenon
    <3>2. m <= Len(h)
      BY <2>0, <2>1
    <3>3. QED
      BY <2>1, <3>1, <3>2
  <2>4. m <= Len(cache) /\ \A i \in 1..m : g[i] = cache[i]
    BY <2>0, <2>1, <2>2, <2>3 DEF NothingNew
  <2>5. ValidPrefix(cache, m)
    BY <1>0, <1>4, <2>0, <2>4, SamePrefix
  <2>6. ASSUME m > w
        PROVE  FALSE
    <3>1. m \in 1..Len(cache) /\ m \in w + 1..Len(cache)
      BY <1>0, <2>0, <2>4, <2>6
    <3>2. QED
      BY <1>0, <2>5, <3>1, LastIsComplete DEF Rest
  <2>7. QED
    BY <1>0, <2>0, <2>4, <2>6
<1> HIDE DEF Old
<1>5. CASE \A i \in 1..n : Old(i)
  <2>1. n <= w /\ \A i \in 1..n : g[i] = cache[i]
    BY <1>0, <1>4, <1>5
  <2>2. \A i \in 1..n : i \in 1..w
    BY <1>0, <2>1
  <2>3. QED
    BY <1>0, <1>2, <2>1, <2>2
<1>6. CASE \E i \in 1..n : ~Old(i)
  <2>1. PICK x \in 1..n : ~Old(x)
    BY <1>6
  <2>2. x - w \in 1..k /\ g[x] = [rec |-> rec, idx |-> x - w] /\ x \in 1..Len(g)
    BY <1>0, <1>1, <2>1
  <2>3. g[x].rec = rec /\ StartOf(g, x) = w
    <3>1. g[x].rec = rec /\ g[x].idx = x - w
      BY <2>2
    <3>2. QED
      BY <1>0, <3>1 DEF StartOf
  <2>4. RecordAt(g, w, rec) /\ w + Size(rec) <= n
    BY <2>1, <2>3 DEF ValidPrefix
  <2>5. ValidPrefix(g, w)
    BY <1>0, <1>3, <2>1, <2>3, CutPrefix
  <2>6. \A i \in 1..w : g[i] = cache[i]
    <3>1. \A i \in 1..w : Old(i)
      <4> SUFFICES ASSUME NEW i \in 1..w
                   PROVE  Old(i)
        OBVIOUS
      <4>1. i \in 1..Len(g) /\ ~(i - w \in 1..k)
        BY <1>0, <2>4
      <4>2. QED
        BY <1>1, <4>1, Zenon
    <3>2. w \in 0..n
      BY <1>0, <2>4
    <3>3. QED
      BY <1>4, <2>5, <3>1, <3>2
  <2>7. \A j \in 1..Size(rec) : g[w + j] = [rec |-> rec, idx |-> j]
    BY <2>4, Zenon DEF RecordAt
  \* A cell behind walOffset_ that is not of this writev is of the remains.
  <2>8. ASSUME NEW i \in w + 1..n, ~(i - w \in 1..k)
        PROVE  /\ g[i].idx < Size(g[i].rec)
               /\ g[i] /= Zero => StartOf(g, i) <= w
    <3>1. i \in 1..Len(g)
      BY <1>0
    <3>2. Old(i)
      BY <1>1, <2>8, <3>1, Zenon
    <3>3. CASE i <= Len(cache) /\ g[i] = cache[i]
      <4>1. i \in w + 1..Len(cache)
        BY <1>0, <3>3
      <4>2. StartOf(g, i) = StartOf(cache, i)
        BY <3>3 DEF StartOf
      <4>3. QED
        BY <3>3, <4>1, <4>2 DEF Rest
    <3>4. CASE i <= Len(disk) /\ i <= Len(cache) /\ g[i] = disk[i]
      <4>1. i \in w + 1..Len(disk) /\ Len(cache) /= w
        BY <1>0, <3>4
      <4>2. StartOf(g, i) = StartOf(disk, i)
        BY <3>4 DEF StartOf
      <4>3. QED
        BY <3>4, <4>1, <4>2 DEF Rest
    <3>5. QED
      BY <3>2, <3>3, <3>4 DEF Old
  <2>9. k = Size(rec)
    <3>1. ASSUME k < Size(rec)
          PROVE  FALSE
      <4> DEFINE i == w + Size(rec)
      <4>1. i \in w + 1..n /\ ~(i - w \in 1..k) /\ Size(rec) \in 1..Size(rec)
        BY <1>0, <2>4, <3>1
      <4>2. g[i] = [rec |-> rec, idx |-> Size(rec)]
        BY <2>7, <4>1
      <4>3. g[i].idx = Size(rec) /\ g[i].rec = rec
        BY <4>2
      <4>4. g[i].idx < Size(g[i].rec)
        BY <2>8, <4>1
      <4>5. QED
        BY <1>0, <4>3, <4>4
    <3>2. QED
      BY <1>0, <3>1
  <2> HIDE DEF w
  <2>10. n = w + Size(rec)
    <3>1. ASSUME n > w + Size(rec)
          PROVE  FALSE
      <4> DEFINE e == w + Size(rec)
                 i == w + Size(rec) + 1
      <4>1. /\ i \in w + 1..n /\ ~(i - w \in 1..k) /\ i \in e + 1..n /\ i \in 1..n
            /\ e \in 0..n /\ w \in 0..Len(g)
        BY <1>0, <3>1
      <4>2. ValidPrefix(g, e)
        BY <1>0, <2>4, <2>5, <4>1, ExtendPrefix
      <4>3. StartOf(g, i) \in Int /\ StartOf(g, i) >= e
        BY <1>0, <1>3, <4>1, <4>2, TailStarts, Zenon
      <4>4. StartOf(g, i) <= w
        BY <2>8, <4>1, Zenon DEF ValidPrefix
      <4>5. QED
        BY <1>0, <4>3, <4>4
    <3>2. w + Size(rec) <= n /\ w \in Nat /\ n \in Nat /\ Size(rec) \in Nat
      BY <1>0, <2>4
    <3>3. QED
      BY <3>1, <3>2
  <2>11. ASSUME NEW i \in 1..n
         PROVE  g[i] = cache'[i]
    <3>1. CASE i \in 1..w
      BY <1>2, <2>6, <3>1
    <3>2. CASE i \in w + 1..n
      <4>1. i - w \in 1..Size(rec) /\ w + (i - w) = i
        BY <1>0, <2>10, <3>2
      <4>2. g[w + (i - w)] = [rec |-> rec, idx |-> i - w]
        BY <2>7, <4>1
      <4>3. cache'[w + (i - w)] = [rec |-> rec, idx |-> i - w]
        BY <1>2, <2>9, <4>1
      <4>4. QED
        BY <4>1, <4>2, <4>3
    <3>3. QED
      BY <1>0, <3>1, <3>2
  <2>12. QED
    BY <1>0, <1>2, <2>9, <2>10, <2>11 DEF w
<1>7. QED
  BY <1>5, <1>6

(***************************************************************************)
(* The conjuncts of OrderInv, one at a time.                               *)
(***************************************************************************)
LEMMA OneFileNothingNew ==
  ASSUME cache' \in Seq(Cell), disk' = cache'
  PROVE  NothingNew'
<1> SUFFICES ASSUME NEW g, Mixed(g)', NEW n \in 0..Len(g)
             PROVE  n <= Len(cache') /\ \A i \in 1..n : g[i] = cache'[i]
  BY DEF NothingNew
<1>1. g \in Seq(Cell) /\ \A i \in 1..Len(g) : i <= Len(cache') /\ g[i] = cache'[i]
  BY DEF Mixed
<1>2. QED
  BY <1>1

LEMMA PromisingKept ==
  ASSUME FileInv, FileInv', NEW a \in Nat, Promising(a), Futures \subseteq Futures',
         a <= Len(cache'), a <= Len(disk'),
         \A i \in 1..a : cache'[i] = cache[i] /\ disk'[i] = cache[i],
         phase' /= "down" => a <= walOffset',
         \A n \in a..Len(cache') : ValidPrefix(cache', n) =>
           \/ n <= Len(cache) /\ \A i \in 1..n : cache'[i] = cache[i]
           \/ Replay(cache', n) \in Futures'
  PROVE  Promising(a)'
<1>1. cache \in Seq(Cell) /\ cache' \in Seq(Cell) /\ a <= Len(cache) /\ ValidPrefix(cache, a)
  BY DEF FileInv, Promising
<1>2. ValidPrefix(cache', a)
  BY <1>1, SamePrefix
<1>3. ASSUME NEW n \in a..Len(cache'), ValidPrefix(cache', n)
      PROVE  Replay(cache', n) \in Futures'
  <2>0. n \in Nat
    BY <1>1
  <2>1. CASE n <= Len(cache) /\ \A i \in 1..n : cache'[i] = cache[i]
    <3>1. ValidPrefix(cache, n)
      BY <1>1, <1>3, <2>0, <2>1, SamePrefix
    <3>2. n \in a..Len(cache)
      BY <1>1, <2>0, <2>1
    <3>3. Replay(cache, n) \in Futures
      BY <3>1, <3>2 DEF Promising
    <3>4. Replay(cache', n) = Replay(cache, n)
      BY <2>0, <2>1, SameReplay
    <3>5. QED
      BY <3>3, <3>4
  <2>2. QED
    BY <1>3, <2>1
<1>4. QED
  BY <1>2, <1>3 DEF Promising

\* Where the log on disk ends with the table that is settled.
LEMMA PromisingEnd ==
  ASSUME NEW a \in Nat, a <= Len(cache'), disk' = cache', cache' \in Seq(Cell),
         ValidPrefix(cache', a), Replay(cache', a) = settled', a <= walOffset',
         \A n \in a + 1..Len(cache') : ~ValidPrefix(cache', n)
  PROVE  Promising(a)'
<1>1. ASSUME NEW n \in a..Len(cache'), ValidPrefix(cache', n)
      PROVE  Replay(cache', n) \in Futures'
  <2>1. n = a
    <3>1. n = a \/ n \in a + 1..Len(cache')
      OBVIOUS
    <3>2. QED
      BY <1>1, <3>1
  <2>2. QED
    BY <2>1 DEF Futures
<1>2. QED
  BY <1>1 DEF Promising

LEMMA FuturesGrow ==
  ASSUME settled' = settled, attempts \subseteq attempts'
  PROVE  Futures \subseteq Futures'
BY DEF Futures

LEMMA QuietOrders ==
  ASSUME FileInv, OrderInv, Down, UNCHANGED <<file, settled, attempts>>
  PROVE  OrderInv'
<1>0. cache' = cache /\ disk' = disk /\ phase' = "down"
  BY DEF file, Down
<1>1. NothingNew'
  BY <1>0 DEF OrderInv, NothingNew, Mixed
<1>2. PICK a \in Nat : Promising(a)
  BY DEF OrderInv
<1>3. Promising(a)'
  BY <1>0, <1>2 DEF Promising, Futures
<1>4. Remains' /\ OnTop'
  BY <1>0 DEF Remains, OnTop
<1>5. QED
  BY <1>1, <1>3, <1>4 DEF OrderInv

LEMMA RecoveryOrders ==
  ASSUME FileInv, FileInv', OrderInv, NEW n \in 0..Len(cache),
         IsValidBytes(SubSeq(cache, 1, Len(cache)), n), Recovered(Len(cache), n)
  PROVE  OrderInv'
<1>0. /\ cache \in Seq(Cell) /\ disk \in Seq(Cell)
      /\ Len(cache) \in Nat /\ n \in Nat /\ n <= Len(cache) /\ cache' \in Seq(Cell)
  BY DEF FileInv
<1>1. SubSeq(cache, 1, Len(cache)) = cache
  BY <1>0
<1>2. mem' = Replay(cache, n) /\ walOffset' = n /\ phase' \in {"truncated", "idle"}
  BY <1>1, Zenon DEF Recovered
<1>3. ValidPrefix(cache, n) /\ \A m \in n + 1..Len(cache) : ~ValidPrefix(cache, m)
  BY <1>1, Zenon DEF IsValidBytes
<1>4. disk' = disk /\ Len(cache') = n /\ \A i \in 1..n : cache'[i] = cache[i]
  <2>1. CASE MustTruncate(Len(cache), n)
    <3>1. cache' = SubSeq(cache, 1, n) /\ disk' = disk
      BY <2>1 DEF Recovered
    <3>2. QED
      BY <1>0, <3>1, PrefixIs
  <2>2. CASE ~MustTruncate(Len(cache), n)
    BY <2>2 DEF Recovered, MustTruncate, file
  <2>3. QED
    BY <2>1, <2>2
<1>5. NothingNew'
  <2> SUFFICES ASSUME NEW g, Mixed(g)', NEW m \in 0..Len(g), ValidPrefix(g, m)
               PROVE  m <= n /\ \A i \in 1..m : g[i] = cache'[i]
    BY <1>4 DEF NothingNew
  <2>1. Mixed(g)
    BY <1>0, <1>4 DEF Mixed
  <2>2. m <= Len(cache) /\ \A i \in 1..m : g[i] = cache[i]
    BY <2>1 DEF OrderInv, NothingNew
  <2>3. g \in Seq(Cell) /\ m \in Nat /\ m <= Len(g)
    BY <2>1 DEF Mixed
  <2>4. ValidPrefix(cache, m)
    BY <1>0, <2>2, <2>3, SamePrefix
  <2>5. m <= n
    BY <1>0, <1>3, <2>2, <2>3, <2>4
  <2>6. \A i \in 1..m : i \in 1..n
    BY <1>0, <2>3, <2>5
  <2>7. QED
    BY <1>4, <2>2, <2>5, <2>6
<1>6. Remains'
  <2>1. n + 1..Len(cache') = {}
    BY <1>0, <1>4
  <2>2. LogEnd' = n
    BY <1>2 DEF LogEnd
  <2>3. QED
    BY <1>2, <1>4, <2>1, <2>2 DEF Remains, Rest
<1>7. OnTop'
  BY <1>2 DEF OnTop
<1>8. \E a \in Nat : Promising(a)'
  <2>1. CASE UNCHANGED <<settled, attempts>>
    <3>1. PICK a \in Nat : Promising(a)
      BY DEF OrderInv
    <3>2. /\ a <= Len(cache) /\ a <= Len(disk) /\ ValidPrefix(cache, a)
          /\ \A i \in 1..a : disk[i] = cache[i]
      BY <3>1 DEF Promising
    <3>3. a <= n
      BY <1>0, <1>3, <3>2
    <3>4. \A i \in 1..a : i \in 1..n
      BY <1>0, <3>3
    <3>5. \A i \in 1..a : cache'[i] = cache[i] /\ disk'[i] = cache[i]
      BY <1>4, <3>2, <3>4
    <3>6. Futures \subseteq Futures'
      BY <2>1, FuturesGrow
    <3>7. \A m \in a..n : m <= Len(cache) /\ \A i \in 1..m : cache'[i] = cache[i]
      BY <1>0, <1>4
    <3>8. Promising(a)'
      BY <1>2, <1>4, <3>1, <3>2, <3>3, <3>5, <3>6, <3>7, PromisingKept, Zenon
    <3>9. QED
      BY <3>8
  <2>2. CASE disk = cache /\ UNCHANGED file /\ settled' = mem'
    <3>1. disk' = cache' /\ cache' = cache
      BY <2>2 DEF file
    <3>2. Promising(n)'
      BY <1>0, <1>2, <1>3, <1>4, <2>2, <3>1, PromisingEnd, Zenon
    <3>3. QED
      BY <1>0, <3>2
  <2>3. QED
    BY <2>1, <2>2 DEF Recovered, Settle
<1>9. QED
  BY <1>5, <1>6, <1>7, <1>8 DEF OrderInv

LEMMA WritevOrders ==
  ASSUME LogInv, LogInv', Orderly, OrderInv, phase = "encoded",
         NEW k \in 0..Size(rec), WriteCells(k), issued' = issued,
         UNCHANGED <<settled, attempts>>,
         \/ Down
         \/ /\ UNCHANGED members
            /\ \/ phase' = "written" /\ rec' = rec /\ k = Size(rec)
               \/ phase' = "idle" /\ k < Size(rec)
  PROVE  OrderInv'
<1> DEFINE w == walOffset
<1>0. /\ FileInv /\ FileInv' /\ rec \in Record /\ IssuedBy(rec) \subseteq issued
      /\ w \in 0..Len(cache) /\ w \in Nat /\ ValidPrefix(cache, w) /\ mem = Replay(cache, w)
      /\ cache \in Seq(Cell) /\ disk \in Seq(Cell) /\ cache' \in Seq(Cell) /\ k \in Nat
  BY DEF LogInv, MemberTypes, FileInv, LogHead, InFlight
<1>1. Size(rec) \in Nat /\ Size(rec) >= 1
  BY <1>0, SizeType
<1>2. "unordered" \notin faults
  BY OrderlyKept
<1>3. /\ NothingNew /\ Rest(cache, w)
      /\ Len(cache) = w \/ Rest(disk, w)
      /\ [on |-> mem, group |-> rec] \in attempts
  BY DEF OrderInv, Remains, LogEnd, OnTop
<1>4. /\ w + k <= Len(cache') /\ w <= Len(cache')
      /\ \A i \in 1..w : cache'[i] = cache[i]
      /\ \A i \in 1..k : cache'[w + i] = [rec |-> rec, idx |-> i]
  BY <1>0, WriteStep, Zenon
<1>5. ASSUME NEW g, Mixed(g)', NEW n \in 0..Len(g), ValidPrefix(g, n)
      PROVE  /\ n <= Len(cache') /\ \A i \in 1..n : g[i] = cache'[i]
             /\ n <= w \/ (k = Size(rec) /\ n = w + Size(rec))
  BY <1>0, <1>2, <1>3, <1>5, WriteMix, Zenon
<1>6. NothingNew'
  BY <1>5 DEF NothingNew
<1>7. \A i \in w + 1..Len(cache') :
        \/ i \in w + 1..Len(cache) /\ cache'[i] = cache[i]
        \/ i - w \in 1..k /\ cache'[i] = [rec |-> rec, idx |-> i - w]
  <2>1. \A i \in w + 1..Len(cache') : i \in 1..Len(cache')
    BY <1>0
  <2>2. QED
    BY <1>0, <2>1, WriteShape
<1>8. /\ Len(disk') <= Len(cache) /\ Len(disk') <= Len(disk) /\ disk' \in Seq(Cell)
      /\ \A i \in 1..Len(disk') : disk'[i] = disk[i]
  BY <1>0, <1>2, OrderedWrite
<1>9. OnTop'
  BY <1>3 DEF OnTop, Down, members
<1>10. Remains'
  <2>1. CASE phase' = "down"
    BY <2>1 DEF Remains
  <2>2. CASE phase' = "written" /\ rec' = rec /\ k = Size(rec) /\ UNCHANGED members
    <3>1. LogEnd' = w + Size(rec)
      BY <2>2 DEF LogEnd, members
    <3>2. ASSUME NEW i \in w + Size(rec) + 1..Len(cache')
          PROVE  /\ cache'[i].idx < Size(cache'[i].rec)
                 /\ cache'[i] /= Zero => StartOf(cache', i) <= w + Size(rec)
      <4>1. i \in w + 1..Len(cache') /\ ~(i - w \in 1..k)
        BY <1>0, <1>1, <2>2
      <4>2. i \in w + 1..Len(cache) /\ cache'[i] = cache[i]
        BY <1>7, <4>1, Zenon
      <4>3. /\ cache[i].idx < Size(cache[i].rec)
            /\ cache[i] /= Zero => StartOf(cache, i) <= w
        BY <1>3, <4>2 DEF Rest
      <4>4. StartOf(cache', i) = StartOf(cache, i) /\ StartOf(cache, i) \in Int
        <5>1. i \in 1..Len(cache)
          BY <1>0, <4>2
        <5>2. cache[i].idx \in Nat
          BY <1>0, <5>1, CellShape
        <5>3. QED
          BY <4>2, <5>1, <5>2 DEF StartOf
      <4> HIDE DEF w
      <4>5. QED
        BY <1>0, <1>1, <4>2, <4>3, <4>4
    <3>3. QED
      BY <2>2, <3>1, <3>2 DEF Remains, Rest
  <2>3. CASE phase' = "idle" /\ k < Size(rec) /\ UNCHANGED members
    <3>1. LogEnd' = w /\ walOffset' = w
      BY <2>3 DEF LogEnd, members
    <3>2. ASSUME NEW i \in w + 1..Len(cache')
          PROVE  /\ cache'[i].idx < Size(cache'[i].rec)
                 /\ cache'[i] /= Zero => StartOf(cache', i) <= w
      <4>1. CASE i \in w + 1..Len(cache) /\ cache'[i] = cache[i]
        <5>1. StartOf(cache', i) = StartOf(cache, i)
          BY <4>1 DEF StartOf
        <5>2. QED
          BY <1>3, <4>1, <5>1 DEF Rest
      <4>2. CASE i - w \in 1..k /\ cache'[i] = [rec |-> rec, idx |-> i - w]
        <5>1. cache'[i].idx = i - w /\ cache'[i].rec = rec
          BY <4>2
        <5>2. i - w < Size(rec)
          BY <1>0, <1>1, <2>3, <4>2
        <5>3. StartOf(cache', i) = w
          BY <1>0, <5>1 DEF StartOf
        <5>4. QED
          BY <1>0, <5>1, <5>2, <5>3
      <4>3. QED
        BY <1>7, <4>1, <4>2, Zenon
    <3>3. Rest(disk', w)
      <4> SUFFICES ASSUME NEW i \in w + 1..Len(disk')
                   PROVE  /\ disk'[i].idx < Size(disk'[i].rec)
                          /\ disk'[i] /= Zero => StartOf(disk', i) <= w
        BY DEF Rest
      <4>1. i \in w + 1..Len(disk) /\ Len(cache) /= w /\ disk'[i] = disk[i]
        BY <1>0, <1>8
      <4>2. StartOf(disk', i) = StartOf(disk, i)
        BY <4>1 DEF StartOf
      <4>3. QED
        BY <1>3, <4>1, <4>2 DEF Rest
    <3>4. QED
      BY <2>3, <3>1, <3>2, <3>3 DEF Remains, Rest
  <2>4. QED
    BY <2>1, <2>2, <2>3 DEF Down
<1>11. PICK a \in Nat : Promising(a)
  BY DEF OrderInv
<1>12. Promising(a)'
  <2>1. /\ a <= Len(cache) /\ a <= Len(disk) /\ a <= w /\ \A i \in 1..a : disk[i] = cache[i]
    BY <1>11 DEF Promising
  <2>2. Futures \subseteq Futures'
    BY FuturesGrow
  <2>3. \A i \in 1..a : i \in 1..w /\ i \in 1..Len(disk) /\ i \in 1..Len(cache)
    BY <1>0, <2>1
  <2>4. a <= Len(disk')
    <3>1. disk' = disk \/ (Len(cache) < Len(disk) /\ disk' = SubSeq(disk, 1, Len(cache)))
      BY DEF WriteCells
    <3>2. CASE Len(cache) < Len(disk) /\ disk' = SubSeq(disk, 1, Len(cache))
      <4>1. Len(disk') = Len(cache)
        BY <1>0, <3>2, PrefixIs
      <4>2. QED
        BY <2>1, <4>1
    <3>3. QED
      BY <2>1, <3>1, <3>2
  <2>5. \A i \in 1..a : cache'[i] = cache[i] /\ disk'[i] = cache[i]
    <3>1. \A i \in 1..a : i \in 1..Len(disk')
      BY <1>8, <2>4
    <3>2. QED
      BY <1>4, <1>8, <2>1, <2>3, <3>1
  <2>6. ASSUME NEW n \in a..Len(cache'), ValidPrefix(cache', n)
        PROVE  \/ n <= Len(cache) /\ \A i \in 1..n : cache'[i] = cache[i]
               \/ Replay(cache', n) \in Futures'
    <3>0. n \in Nat /\ n \in 0..Len(cache')
      BY <1>0
    <3>1. PICK g : g = cache' /\ g \in Seq(Cell)
      BY <1>0
    <3>2. n <= w \/ (k = Size(rec) /\ n = w + Size(rec))
      <4>1. Mixed(g)'
        BY <1>0, <3>1 DEF Mixed
      <4>2. QED
        BY <1>5, <2>6, <3>0, <3>1, <4>1, Zenon
    <3>3. CASE n <= w
      <4>1. \A i \in 1..n : i \in 1..w
        BY <1>0, <3>0, <3>3
      <4>2. QED
        BY <1>0, <1>4, <3>0, <3>3, <4>1
    <3>4. CASE k = Size(rec) /\ n = w + Size(rec)
      <4>1. w + 1 \in 1..n /\ 1 \in 1..k
        BY <1>0, <1>1, <3>4
      <4>2. cache'[w + 1] = [rec |-> rec, idx |-> 1]
        BY <1>4, <4>1, Zenon
      <4>3. cache'[w + 1].rec = rec /\ cache'[w + 1].idx = 1
        BY <4>2
      <4>4. StartOf(cache', w + 1) = w
        BY <1>0, <4>3 DEF StartOf
      <4>5. RecordAt(cache', w, rec)
        BY <2>6, <4>1, <4>3, <4>4, Zenon DEF ValidPrefix
      <4>6. Replay(cache', n) = ApplyRecord(Replay(cache', w), rec)
        <5>1. w \in 0..Len(cache')
          BY <1>0, <1>4
        <5>2. QED
          BY <1>0, <3>4, <4>5, <5>1, ExtendReplay, Zenon
      <4>7. Replay(cache', w) = mem
        BY <1>0, <1>4, SameReplay
      <4>8. ApplyRecord(mem, rec) \in Futures
        <5>1. /\ [on |-> mem, group |-> rec].on = mem
              /\ [on |-> mem, group |-> rec].group = rec
          OBVIOUS
        <5>2. QED
          BY <1>3, <5>1 DEF Futures
      <4>9. QED
        BY <2>2, <4>6, <4>7, <4>8
    <3>5. QED
      BY <3>2, <3>3, <3>4
  <2>7. phase' /= "down" => a <= walOffset'
    BY <2>1 DEF Down, members
  <2>8. a <= Len(cache')
    BY <1>0, <1>4, <2>1
  <2>9. QED
    BY <1>0, <1>11, <2>2, <2>4, <2>5, <2>6, <2>7, <2>8, PromisingKept, Zenon
<1>13. QED
  BY <1>6, <1>9, <1>10, <1>12, Zenon DEF OrderInv

LEMMA RecoverSyncOrders ==
  ASSUME DurInv, DurInv', Orderly, OrderInv, RecoverSync
  PROVE  OrderInv'
<1>0. /\ FileInv /\ FileInv' /\ Clean /\ cache \in Seq(Cell) /\ cache' \in Seq(Cell)
      /\ walOffset \in Nat /\ phase = "truncated"
  BY OrderlyKept DEF DurInv, LogInv, FileInv, MemberTypes, KeptInv, RecoverSync
<1>1. /\ ValidPrefix(cache, walOffset) /\ mem = Replay(cache, walOffset)
      /\ Len(cache) = walOffset
  BY <1>0, OrderlyKept DEF DurInv, LogInv, LogHead, KeptInv, Running
<1>2. /\ Sync /\ phase' = "idle" /\ settled' = mem /\ UNCHANGED members
  BY OrderlyKept DEF RecoverSync, Settle
<1>3. cache' = cache /\ disk' = cache' /\ walOffset' = walOffset
  BY <1>0, <1>2, SyncedDisk DEF Sync, members
<1>4. NothingNew'
  BY <1>0, <1>3, OneFileNothingNew
<1>5. Remains'
  <2>1. LogEnd' = walOffset /\ Len(cache') = walOffset' /\ walOffset + 1..Len(cache') = {}
    BY <1>0, <1>1, <1>2, <1>3 DEF LogEnd
  <2>2. QED
    BY <2>1 DEF Remains, Rest
<1>6. OnTop'
  BY <1>2 DEF OnTop
<1>7. ASSUME NEW n \in Nat, n = walOffset
      PROVE  Promising(n)'
  <2>1. n + 1..Len(cache') = {}
    BY <1>0, <1>1, <1>3, <1>7
  <2>2. QED
    BY <1>0, <1>1, <1>2, <1>3, <1>7, <2>1, PromisingEnd
<1>8. QED
  BY <1>0, <1>4, <1>5, <1>6, <1>7, Zenon DEF OrderInv

LEMMA WriteGroupOrders ==
  ASSUME OrderInv, NEW g \in Groups, WriteGroup(g)
  PROVE  OrderInv'
<1>0. /\ phase = "idle" /\ phase' = "encoded" /\ cache' = cache /\ disk' = disk
      /\ walOffset' = walOffset /\ mem' = mem /\ settled' = settled
      /\ attempts' = attempts \cup {[on |-> mem, group |-> rec']}
  BY DEF WriteGroup, EncodeGroup, file, members
<1>1. NothingNew'
  BY <1>0 DEF OrderInv, NothingNew, Mixed
<1>2. Remains'
  <2>1. LogEnd = walOffset /\ LogEnd' = walOffset
    BY <1>0 DEF LogEnd
  <2>2. QED
    BY <1>0, <2>1 DEF OrderInv, Remains
<1>3. OnTop'
  BY <1>0 DEF OnTop
<1>4. PICK a \in Nat : Promising(a)
  BY DEF OrderInv
<1>5. Promising(a)'
  <2>1. Futures \subseteq Futures'
    BY <1>0, FuturesGrow
  <2>2. QED
    BY <1>0, <1>4, <2>1 DEF Promising
<1>6. QED
  BY <1>1, <1>2, <1>3, <1>5 DEF OrderInv

LEMMA FDataSyncOrders ==
  ASSUME DurInv, DurInv', Orderly, OrderInv, FDataSync
  PROVE  OrderInv'
<1>0. /\ FileInv /\ FileInv' /\ Clean /\ cache \in Seq(Cell) /\ cache' \in Seq(Cell)
      /\ phase = "written"
  BY OrderlyKept DEF DurInv, LogInv, FileInv, KeptInv, FDataSync
<1>1. /\ Sync /\ phase' = "synced" /\ rec' = rec /\ UNCHANGED <<members, history>>
  BY OrderlyKept DEF FDataSync
<1>2. cache' = cache /\ disk' = cache' /\ walOffset' = walOffset /\ mem' = mem
      /\ settled' = settled /\ attempts' = attempts
  BY <1>0, <1>1, SyncedDisk DEF Sync, members, history
<1>3. NothingNew'
  BY <1>0, <1>2, OneFileNothingNew
<1>4. Remains'
  <2>1. LogEnd' = LogEnd
    BY <1>0, <1>1, <1>2 DEF LogEnd
  <2>2. QED
    BY <1>0, <1>1, <1>2, <2>1 DEF OrderInv, Remains
<1>5. OnTop'
  BY <1>0, <1>1, <1>2 DEF OrderInv, OnTop
<1>6. PICK a \in Nat : Promising(a)
  BY DEF OrderInv
<1>7. Promising(a)'
  BY <1>0, <1>2, <1>6 DEF Promising, Futures
<1>8. QED
  BY <1>3, <1>4, <1>5, <1>7 DEF OrderInv

LEMMA ApplyOrders ==
  ASSUME DurInv, DurInv', Orderly, OrderInv, Apply
  PROVE  OrderInv'
<1> DEFINE b == walOffset + Size(rec)
<1>0. /\ phase = "synced" /\ phase' = "idle" /\ cache' = cache /\ disk' = disk
      /\ walOffset' = b /\ settled' = mem'
  BY DEF Apply, MayApply, NextOffset, GroupEnds, Settle, file
<1>1. /\ cache \in Seq(Cell) /\ disk = cache /\ b \in Nat /\ b <= Len(cache)
      /\ ValidPrefix(cache, b) /\ mem' = Replay(cache, b)
  <2>1. cache \in Seq(Cell) /\ disk = cache
    BY <1>0, OrderlyKept DEF DurInv, LogInv, FileInv, KeptInv, InGroup
  <2>2. walOffset' \in Nat /\ walOffset' <= Len(cache') /\ ValidPrefix(cache', walOffset')
        /\ mem' = Replay(cache', walOffset')
    BY <1>0 DEF DurInv, LogInv, MemberTypes, LogHead
  <2>3. QED
    BY <1>0, <2>1, <2>2, Zenon
<1>2. Rest(cache, b)
  BY <1>0 DEF OrderInv, Remains, LogEnd
<1> HIDE DEF b
<1>3. NothingNew'
  BY <1>0 DEF OrderInv, NothingNew, Mixed
<1>4. Remains'
  <2>1. LogEnd' = b
    BY <1>0 DEF LogEnd
  <2>2. QED
    BY <1>0, <1>1, <1>2, <2>1 DEF Remains
<1>5. OnTop'
  BY <1>0, Zenon DEF OnTop
<1>6. ASSUME NEW n \in b + 1..Len(cache)
      PROVE  ~ValidPrefix(cache, n)
  <2>1. n \in 1..Len(cache)
    BY <1>1
  <2>2. cache[n].idx < Size(cache[n].rec)
    BY <1>2 DEF Rest
  <2>3. QED
    BY <1>1, <2>1, <2>2, LastIsComplete
<1>7. ASSUME NEW n \in Nat, n = b
      PROVE  Promising(n)'
  BY <1>0, <1>1, <1>6, <1>7, PromisingEnd
<1>8. QED
  BY <1>1, <1>3, <1>4, <1>5, <1>7 DEF OrderInv

LEMMA PowerOrders ==
  ASSUME FileInv, FileInv', Orderly, OrderInv, PowerLoss
  PROVE  OrderInv'
<1>0. /\ Down /\ cache' = disk' /\ settled' = settled /\ attempts' = attempts
      /\ cache \in Seq(Cell) /\ disk \in Seq(Cell) /\ cache' \in Seq(Cell) /\ phase' = "down"
  BY DEF PowerLoss, history, FileInv, Down
<1>1. PICK W \in SUBSET dirty : \E n \in Lengths(W) : disk' = WrittenBack({i \in W : i <= n}, n)
  BY OrderlyKept DEF PowerLoss, LogKept
<1>2. PICK n \in Lengths(W) : disk' = WrittenBack({i \in W : i <= n}, n)
  BY <1>1
<1>3. PICK g : g = cache'
  OBVIOUS
<1>4. Mixed(g) /\ Len(g) = n /\ n \in Nat /\ (n >= Len(cache) \/ n >= Len(disk))
  BY <1>0, <1>2, <1>3, OrderlyKept, PowerMixes, LengthsReach, Zenon
<1>5. \A m \in 0..Len(g) : ValidPrefix(g, m) => m <= Len(cache) /\ \A i \in 1..m : g[i] = cache[i]
  BY <1>4 DEF OrderInv, NothingNew
<1>6. NothingNew'
  BY <1>0, OneFileNothingNew
<1>7. PICK a \in Nat : Promising(a)
  BY DEF OrderInv
<1>8. Promising(a)'
  <2>1. /\ a <= Len(cache) /\ a <= Len(disk) /\ \A i \in 1..a : disk[i] = cache[i]
    BY <1>7 DEF Promising
  <2>2. a <= Len(g)
    BY <1>0, <1>4, <2>1
  <2>3. ASSUME NEW i \in 1..a
        PROVE  g[i] = cache[i]
    <3>1. i \in 1..Len(g)
      BY <1>4, <2>2
    <3>2. QED
      BY <1>4, <2>1, <3>1 DEF Mixed
  <2>4. Futures \subseteq Futures'
    BY <1>0, FuturesGrow
  <2>5. \A m \in a..Len(g) : m \in 0..Len(g)
    BY <1>4
  <2>6. QED
    BY <1>0, <1>3, <1>5, <1>7, <2>2, <2>3, <2>4, <2>5, PromisingKept, Zenon
<1>9. Remains' /\ OnTop'
  BY <1>0 DEF Remains, OnTop
<1>10. QED
  BY <1>6, <1>8, <1>9 DEF OrderInv

LEMMA OrderInit ==
  ASSUME Init
  PROVE  OrderInv
<1>1. /\ cache = <<>> /\ disk = <<>> /\ phase = "down" /\ settled = [k \in Keys |-> Untouched]
  BY DEF Init
<1>2. NothingNew
  <2> SUFFICES ASSUME NEW g, Mixed(g), NEW n \in 0..Len(g)
               PROVE  n <= Len(cache) /\ \A i \in 1..n : g[i] = cache[i]
    BY DEF NothingNew
  <2>1. g \in Seq(Cell) /\ \A i \in 1..Len(g) : i <= 0
    BY <1>1 DEF Mixed
  <2>2. QED
    BY <1>1, <2>1
<1>3. Promising(0)
  <2>1. Replay(cache, 0) = settled /\ ValidPrefix(cache, 0)
    BY <1>1 DEF Replay, EntryCells, ValidPrefix
  <2>2. \A n \in 0..Len(cache) : n = 0
    BY <1>1
  <2>3. QED
    BY <1>1, <2>1, <2>2 DEF Promising, Futures
<1>4. Remains /\ OnTop
  BY <1>1 DEF Remains, OnTop
<1>5. QED
  BY <1>2, <1>3, <1>4 DEF OrderInv

LEMMA OrderStep ==
  ASSUME DurInv, DurInv', Orderly, OrderInv, Next
  PROVE  OrderInv'
<1>0. LogInv /\ LogInv' /\ FileInv /\ FileInv' /\ cache \in Seq(Cell)
  BY DEF DurInv, LogInv, FileInv
<1>1. CASE Open
  <2>1. CASE OpenFails("corruption")
    BY <1>0, <2>1, QuietOrders DEF OpenFails
  <2>2. CASE ~OpenFails("corruption")
    <3>1. PICK n \in 0..Len(cache) :
            /\ IsValidBytes(SubSeq(cache, 1, Len(cache)), n)
            /\ Recovered(Len(cache), n)
      BY <1>1, <2>2, OrderlyKept DEF Open, ReadLengths, LogKept
    <3>2. QED
      BY <1>0, <3>1, RecoveryOrders
  <2>3. QED
    BY <2>1, <2>2
<1>2. CASE RecoverSync
  BY <1>2, RecoverSyncOrders
<1>3. CASE \E g \in Groups : WriteGroup(g)
  BY <1>3, WriteGroupOrders
<1>4. CASE \E n \in Transfers(rec) : Writev(n)
  <2>1. PICK n \in Transfers(rec) : Writev(n)
    BY <1>4
  <2>2. rec \in Record /\ MaxTransfer \in Nat
    BY <1>0, WalStoreAssumption, WalFormatAssumption DEF LogInv, MemberTypes
  <2>3. Size(rec) \in Nat
    BY <2>2, SizeType
  <2>4. n \in 0..Size(rec)
    BY <2>2, <2>3 DEF Transfers
  <2>5. /\ phase = "encoded" /\ WriteCells(n) /\ issued' = issued
        /\ UNCHANGED <<settled, attempts>> /\ UNCHANGED members
        /\ \/ phase' = "written" /\ rec' = rec /\ n = Size(rec)
           \/ phase' = "idle" /\ n /= Size(rec)
    BY <2>1 DEF Writev, WrittenInFull, GroupEnds, history
  <2>6. n /= Size(rec) => n < Size(rec)
    BY <2>3, <2>4
  <2>7. QED
    BY <1>0, <2>4, <2>5, <2>6, WritevOrders
<1>5. CASE FDataSync
  BY <1>5, FDataSyncOrders
<1>6. CASE Apply
  BY <1>6, ApplyOrders
<1>7. CASE Close
  BY <1>0, <1>7, QuietOrders DEF Close, CloseFile, history
<1>8. CASE ProcessCrash
  <2>1. Down /\ UNCHANGED <<settled, attempts>> /\ issued' = issued
    BY <1>8 DEF ProcessCrash, history
  <2>2. CASE phase = "encoded"
    <3>1. PICK n \in 0..Size(rec) : WriteCells(n)
      BY <1>8, <2>2 DEF ProcessCrash
    <3>2. QED
      BY <1>0, <2>1, <2>2, <3>1, WritevOrders
  <2>3. CASE phase /= "encoded"
    BY <1>0, <1>8, <2>1, <2>3, QuietOrders DEF ProcessCrash
  <2>4. QED
    BY <2>2, <2>3
<1>9. CASE PowerLoss
  BY <1>0, <1>9, PowerOrders, Zenon
<1>10. CASE UNCHANGED vars
  BY <1>10 DEF vars, file, members, history, OrderInv, NothingNew, Mixed, Remains, Rest, LogEnd,
                OnTop, Promising, Futures
<1>11. QED
  BY <1>1, <1>2, <1>3, <1>4, <1>5, <1>6, <1>7, <1>8, <1>9, <1>10, Zenon DEF Next, Finished

\* Recovery finds nothing that the DB did not have or was about to have, however
\* a power loss mixes page cache and disk, as long as syncs do not fail and the
\* file system keeps the order of writes.
THEOREM OrdInvAlways == Spec => []OrdInv
<1>1. Init => OrdInv
  BY LogInvInit, KeptInit, OrderInit DEF OrdInv, DurInv
<1>2. OrdInv /\ DurInv' /\ [Next]_vars => OrdInv'
  <2> SUFFICES ASSUME OrdInv, DurInv', [Next]_vars
               PROVE  OrdInv'
    BY Zenon
  <2>1. CASE UNCHANGED vars
    BY <2>1 DEF OrdInv, Orderly, vars, file, members, history, OrderInv, NothingNew, Mixed,
                Remains, Rest, LogEnd, OnTop, Promising, Futures
  <2>2. CASE Next
    <3>1. faults' = faults
      BY <2>2 DEF Next
    <3>2. Orderly => OrderInv'
      BY <2>2, OrderStep DEF OrdInv
    <3>3. QED
      BY <3>1, <3>2 DEF OrdInv, Orderly
  <2>3. QED
    BY <2>1, <2>2
<1>3. QED
  BY <1>1, <1>2, DurInvAlways, PTL DEF Spec

(***************************************************************************)
(* What is visible is on disk.                                             *)
(***************************************************************************)
\* No cell of the log, or of what recovery could take for it, is dirty.
Drained ==
  /\ phase = "down" =>
       \A n \in 0..Len(cache) : ValidPrefix(cache, n) => dirty \cap (1..n) = {}
  /\ phase /= "down" => dirty \cap (1..walOffset) = {}
  /\ phase = "synced" => dirty = {}

Synchronous == faults \subseteq {"write", "power"}

LEMMA DrainStep ==
  ASSUME OrdInv, OrdInv', Synchronous, Drained, Next
  PROVE  Drained'
<1>0. /\ Orderly /\ "crash" \notin faults /\ "read" \notin faults /\ "sync" \notin faults
      /\ OrderInv /\ FileInv /\ cache \in Seq(Cell) /\ walOffset \in Nat
      /\ dirty \subseteq 1..Len(cache)
  BY DEF Synchronous, Orderly, OrdInv, DurInv, LogInv, FileInv, MemberTypes
<1>1. CASE Open
  <2>1. CASE OpenFails("corruption")
    BY <1>1, <2>1 DEF OpenFails, Open, Down, file, Drained
  <2>2. CASE ~OpenFails("corruption")
    <3>1. PICK n \in 0..Len(cache) :
            /\ IsValidBytes(SubSeq(cache, 1, Len(cache)), n)
            /\ Recovered(Len(cache), n)
      BY <1>0, <1>1, <2>2 DEF Open, ReadLengths
    <3>2. SubSeq(cache, 1, Len(cache)) = cache
      BY <1>0
    <3>3. dirty \cap (1..n) = {}
      BY <1>1, <3>1, <3>2, Zenon DEF IsValidBytes, Drained, Open
    <3>4. phase' \in {"truncated", "idle"} /\ walOffset' = n /\ dirty' \subseteq dirty
      BY <3>1 DEF Recovered, file
    <3>5. QED
      BY <3>3, <3>4 DEF Drained
  <2>3. QED
    BY <2>1, <2>2
<1>2. CASE RecoverSync \/ FDataSync
  <2>1. dirty' = {}
    BY <1>0, <1>2 DEF RecoverSync, FDataSync, Sync
  <2>2. QED
    BY <2>1 DEF Drained
<1>3. CASE \E g \in Groups : WriteGroup(g)
  BY <1>3 DEF WriteGroup, EncodeGroup, file, members, Drained
<1>4. CASE \E n \in Transfers(rec) : Writev(n)
  <2>1. PICK n \in Transfers(rec) : Writev(n)
    BY <1>4
  <2>2. /\ phase = "encoded" /\ phase' \in {"idle", "written"} /\ walOffset' = walOffset
        /\ dirty' = dirty \cup (walOffset + 1..walOffset + n)
    BY <2>1 DEF Writev, WriteCells, GroupEnds, members
  <2>3. dirty \cap (1..walOffset) = {}
    BY <2>2 DEF Drained
  <2>4. \A i \in walOffset + 1..walOffset + n : i \notin 1..walOffset
    BY <1>0
  <2>5. QED
    BY <2>2, <2>3, <2>4 DEF Drained
<1>5. CASE Apply
  <2>1. phase = "synced" /\ dirty' = dirty
    BY <1>5 DEF Apply, MayApply, file
  <2>2. QED
    BY <2>1 DEF Drained
<1>6. CASE Close
  <2>1. /\ phase = "idle" /\ phase' = "down" /\ cache' = cache /\ dirty' = dirty
    BY <1>6 DEF Close, CloseFile, Down, file
  <2>2. dirty \cap (1..walOffset) = {} /\ Rest(cache, walOffset)
    BY <1>0, <2>1 DEF Drained, OrderInv, Remains, LogEnd
  <2>3. ASSUME NEW n \in 0..Len(cache), ValidPrefix(cache, n)
        PROVE  dirty \cap (1..n) = {}
    <3>1. ASSUME n > walOffset
          PROVE  FALSE
      <4>1. n \in 1..Len(cache) /\ n \in walOffset + 1..Len(cache)
        BY <1>0, <3>1
      <4>2. QED
        BY <1>0, <2>2, <2>3, <4>1, LastIsComplete DEF Rest
    <3>2. \A i \in 1..n : i \in 1..walOffset
      BY <1>0, <3>1
    <3>3. QED
      BY <2>2, <3>2
  <2>4. QED
    BY <2>1, <2>3 DEF Drained
<1>7. CASE PowerLoss
  BY <1>7 DEF PowerLoss, Drained
<1>8. CASE UNCHANGED vars
  BY <1>8 DEF vars, file, members, Drained
<1>9. QED
  BY <1>0, <1>1, <1>2, <1>3, <1>4, <1>5, <1>6, <1>7, <1>8, Zenon DEF Next, Finished, ProcessCrash

\* Unless a sync fails or the process crashes, everything that an open DB shows
\* between two groups is on disk: Apply comes after the sync, the remains of
\* failed writes are never taken for records, and so Close leaves nothing
\* unsynced that the next Open would show.
THEOREM VisibleAlwaysDurable == Spec => []VisibleIsDurable
<1> DEFINE I == Synchronous => Drained
<1>1. Init => I
  BY DEF Init, Drained
<1>2. I /\ OrdInv /\ OrdInv' /\ [Next]_vars => I'
  <2> SUFFICES ASSUME I, OrdInv, OrdInv', [Next]_vars
               PROVE  I'
    OBVIOUS
  <2>1. CASE UNCHANGED vars
    BY <2>1 DEF vars, file, members, Drained, Synchronous
  <2>2. CASE Next
    <3>1. faults' = faults
      BY <2>2 DEF Next
    <3>2. QED
      BY <2>2, <3>1, DrainStep DEF Synchronous
  <2>3. QED
    BY <2>1, <2>2
<1>3. I /\ OrdInv => VisibleIsDurable
  <2> SUFFICES ASSUME I, OrdInv, Synchronous, phase = "idle"
               PROVE  /\ walOffset <= Len(disk)
                      /\ \A i \in 1..walOffset : disk[i] = cache[i]
    BY DEF VisibleIsDurable, Synchronous
  <2>1. /\ Clean /\ walOffset \in Nat /\ walOffset <= Len(cache) /\ dirty \cap (1..walOffset) = {}
        /\ disk \in Seq(Cell) /\ cache \in Seq(Cell)
    BY OrderlyKept DEF Synchronous, Orderly, OrdInv, DurInv, LogInv, LogHead, MemberTypes, FileInv,
                       KeptInv, Drained
  <2>2. \A i \in 1..walOffset : i \in 1..Len(cache) /\ i \notin dirty
    BY <2>1
  <2>3. \A i \in 1..walOffset : i <= Len(disk) /\ disk[i] = cache[i]
    BY <2>1, <2>2 DEF Clean
  <2>4. QED
    BY <2>1, <2>3
<1>4. QED
  BY <1>1, <1>2, <1>3, OrdInvAlways, PTL DEF Spec

(***************************************************************************)
(* The tails that crashes leave.                                           *)
(***************************************************************************)
Oversize(c) == Size(c.rec) > MaxTransfer

\* Every cell of f is a cell of a record that stands there as far as f goes.
Whole(f) ==
  \A i \in 1..Len(f) :
    /\ f[i] /= Zero /\ StartOf(f, i) >= 0
    /\ \A j \in 1..Size(f[i].rec) :
         StartOf(f, i) + j <= Len(f) => f[StartOf(f, i) + j] = [rec |-> f[i].rec, idx |-> j]

\* What was written over, and what is left behind the log, are cells of groups
\* that were too large for a writev.
OversizeOnly ==
  /\ \A i \in 1..Len(cache) : i <= Len(disk) => disk[i] = cache[i] \/ Oversize(disk[i])
  /\ phase /= "down" =>
       /\ \A i \in LogEnd + 1..Len(cache) : Oversize(cache[i])
       /\ phase \in {"truncated", "idle", "encoded"} =>
            Len(cache) = walOffset \/ \A i \in walOffset + 1..Len(disk) : Oversize(disk[i])

MixedWhole ==
  \A g : Mixed(g) /\ (\A i \in 1..Len(g) : ~Oversize(g[i])) => Whole(g)

\* Open has refused the file as it still is.
Refused ==
  opened = "corruption" =>
    /\ phase = "down"
    /\ \E n \in 0..Len(cache) : IsValidBytes(cache, n) /\ "corruption" \in StopReasons(cache, n)

TailInv == OversizeOnly /\ MixedWhole /\ Refused

Crashing == faults \subseteq {"crash", "power"}

LEMMA WriteWhole ==
  ASSUME FileInv, "unordered" \notin faults, rec \in Record,
         walOffset \in 0..Len(cache), ValidPrefix(cache, walOffset),
         NEW k \in 0..Size(rec), WriteCells(k), phase = "encoded", OversizeOnly, MixedWhole
  PROVE  MixedWhole'
<1> SUFFICES ASSUME NEW g, Mixed(g)', \A i \in 1..Len(g) : ~Oversize(g[i])
             PROVE  Whole(g)
  BY DEF MixedWhole
<1> DEFINE w == walOffset
           New(i) == i - w \in 1..k /\ g[i] = [rec |-> rec, idx |-> i - w]
<1>0. /\ cache \in Seq(Cell) /\ disk \in Seq(Cell) /\ g \in Seq(Cell) /\ w \in Nat
      /\ Size(rec) \in Nat /\ k \in Nat /\ w <= Len(cache)
  BY SizeType DEF FileInv, Mixed
<1>1. \A i \in 1..Len(g) : \/ New(i)
                           \/ i <= Len(cache) /\ g[i] = cache[i]
                           \/ i <= Len(disk) /\ i <= Len(cache) /\ g[i] = disk[i]
  BY MixedAfter
<1>2. /\ \A i \in 1..Len(cache) : i <= Len(disk) => disk[i] = cache[i] \/ Oversize(disk[i])
      /\ \A i \in w + 1..Len(cache) : Oversize(cache[i])
      /\ Len(cache) = w \/ \A i \in w + 1..Len(disk) : Oversize(disk[i])
  BY Zenon DEF OversizeOnly, LogEnd
<1> HIDE DEF New
<1>3. CASE \A i \in 1..Len(g) : ~New(i)
  <2>1. Mixed(g)
    BY <1>0, <1>1, <1>3, Zenon DEF Mixed
  <2>2. QED
    BY <2>1, Zenon DEF MixedWhole
<1>4. CASE \E i \in 1..Len(g) : New(i)
  <2>1. \A i \in w + 1..Len(g) : New(i)
    <3> SUFFICES ASSUME NEW i \in w + 1..Len(g), ~New(i)
                 PROVE  FALSE
      OBVIOUS
    <3>1. i \in 1..Len(g) /\ ~Oversize(g[i])
      BY <1>0
    <3>2. CASE i <= Len(cache) /\ g[i] = cache[i]
      <4>1. i \in w + 1..Len(cache)
        BY <1>0, <3>2
      <4>2. QED
        BY <1>2, <3>1, <3>2, <4>1, ZenonT(30)
    <3>3. CASE i <= Len(disk) /\ i <= Len(cache) /\ g[i] = disk[i]
      <4>1. i \in w + 1..Len(disk) /\ Len(cache) /= w
        BY <1>0, <3>3
      <4>2. QED
        BY <1>2, <3>1, <3>3, <4>1, Zenon
    <3>4. QED
      BY <1>1, <3>1, <3>2, <3>3
  <2>2. ASSUME NEW i \in 1..w
        PROVE  i \in 1..Len(g) /\ g[i] = cache[i]
    <3>1. PICK x \in 1..Len(g) : New(x)
      BY <1>4, Zenon
    <3>2. i \in 1..Len(g) /\ ~New(i) /\ i \in 1..Len(cache)
      BY <1>0, <3>1 DEF New
    <3>3. QED
      BY <1>1, <1>2, <3>2
  <2>3. ASSUME NEW i \in w + 1..Len(g)
        PROVE  g[i].rec = rec /\ g[i].idx = i - w /\ g[i] /= Zero /\ StartOf(g, i) = w
    <3>1. g[i] = [rec |-> rec, idx |-> i - w] /\ i - w >= 1
      BY <1>0, <2>1 DEF New
    <3>2. g[i].rec = rec /\ g[i].idx = i - w
      BY <3>1
    <3>3. Zero.idx = 0
      BY DEF Zero
    <3>4. g[i] /= Zero
      BY <1>0, <3>1, <3>2, <3>3
    <3>5. QED
      BY <1>0, <3>2, <3>4 DEF StartOf
  <2>4. ASSUME NEW i \in 1..Len(g)
        PROVE  /\ g[i] /= Zero /\ StartOf(g, i) >= 0
               /\ \A j \in 1..Size(g[i].rec) :
                    StartOf(g, i) + j <= Len(g) =>
                      g[StartOf(g, i) + j] = [rec |-> g[i].rec, idx |-> j]
    <3>1. CASE i \in 1..w
      <4> DEFINE p == StartOf(cache, i)
                 r == cache[i].rec
      <4>1. g[i] = cache[i] /\ StartOf(g, i) = p
        BY <2>2, <3>1 DEF StartOf
      <4>2. cache[i] /= Zero /\ p >= 0 /\ p + Size(r) <= w /\ RecordAt(cache, p, r)
        BY <3>1, Zenon DEF ValidPrefix
      <4>3. p \in Int /\ Size(r) \in Nat
        <5>1. cache[i].idx \in Nat /\ Size(r) = Len(r.entries) + 1 /\ Len(r.entries) \in Nat
          BY <1>0, <3>1, EndType
        <5>2. i \in Int /\ p = i - cache[i].idx
          BY <3>1 DEF StartOf
        <5> HIDE DEF p, r
        <5>3. QED
          BY <5>1, <5>2
      <4> HIDE DEF p, r
      <4>4. ASSUME NEW j \in 1..Size(r)
            PROVE  g[p + j] = [rec |-> r, idx |-> j]
        <5>1. p + j \in 1..w
          BY <1>0, <4>2, <4>3
        <5>2. cache[p + j] = [rec |-> r, idx |-> j]
          BY <4>2, Zenon DEF RecordAt
        <5>3. QED
          BY <2>2, <5>1, <5>2
      <4>5. QED
        BY <4>1, <4>2, <4>4, Zenon DEF r
    <3>2. CASE i \in w + 1..Len(g)
      <4>1. g[i].rec = rec /\ g[i] /= Zero /\ StartOf(g, i) = w
        BY <2>3, <3>2, Zenon
      <4>2. ASSUME NEW j \in 1..Size(rec), w + j <= Len(g)
            PROVE  g[w + j] = [rec |-> rec, idx |-> j]
        <5>1. w + j \in w + 1..Len(g) /\ w + j - w = j
          BY <1>0, <4>2
        <5>2. QED
          BY <2>1, <5>1 DEF New
      <4>3. QED
        BY <1>0, <4>1, <4>2
    <3>3. QED
      BY <1>0, <3>1, <3>2
  <2>5. QED
    BY <2>4 DEF Whole
<1>5. QED
  BY <1>3, <1>4

\* A file that is whole is not refused, if its lengths fit.
LEMMA WholeIsTolerated ==
  ASSUME NEW S, NEW f \in Seq(Cell), Written(f, S), Whole(f),
         \A i \in 1..Len(f) : ~Oversize(f[i]),
         NEW n \in 0..Len(f), IsValidBytes(f, n)
  PROVE  "corruption" \notin StopReasons(f, n)
<1>1. CASE n = Len(f)
  BY <1>1 DEF StopReasons
<1>2. CASE n < Len(f)
  <2> DEFINE c == f[n + 1]
             r == c.rec
             p == StartOf(f, n + 1)
  <2>0. n + 1 \in 1..Len(f) /\ n \in Nat /\ Len(f) \in Nat
    BY <1>2
  <2>1. /\ c /= Zero /\ p >= 0
        /\ \A j \in 1..Size(r) : p + j <= Len(f) => f[p + j] = [rec |-> r, idx |-> j]
    BY <2>0, Zenon DEF Whole
  <2>2. r \in Record /\ c.idx \in Nat /\ c.idx > 0
    BY <2>0, <2>1, CellShape
  <2>3. c.idx \in 1..Size(r)
    BY <2>0, <2>1, ZenonT(30) DEF Written
  <2>4. Size(r) \in Nat /\ MaxTransfer \in Nat /\ Announced(r) = Size(r)
    <3>1. Size(r) \in Nat /\ MaxTransfer \in Nat
      BY <2>2, SizeType, WalStoreAssumption, WalFormatAssumption
    <3>2. ~Oversize(c)
      BY <2>0
    <3>3. Size(r) <= MaxTransfer
      BY <3>1, <3>2 DEF Oversize
    <3>4. QED
      BY <2>2, <3>1, <3>3, LengthFits, Zenon
  <2>5. p = n + 1 - c.idx
    BY <2>0, <2>2 DEF StartOf
  <2>6. ValidPrefix(f, n) /\ \A m \in n + 1..Len(f) : ~ValidPrefix(f, m)
    BY DEF IsValidBytes
  <2> HIDE DEF c, r, p
  <2>7. c.idx = 1
    <3> SUFFICES ASSUME c.idx /= 1
                 PROVE  FALSE
      OBVIOUS
    <3>1. p + 1 \in 1..n /\ p \in Int /\ 1 \in 1..Size(r) /\ p + 1 <= Len(f)
      BY <2>0, <2>1, <2>2, <2>3, <2>4, <2>5
    <3>2. f[p + 1] = [rec |-> r, idx |-> 1]
      BY <2>1, <3>1, Zenon
    <3>3. f[p + 1].rec = r /\ f[p + 1].idx = 1
      BY <3>2
    <3>4. StartOf(f, p + 1) = p
      BY <3>1, <3>3 DEF StartOf
    <3>5. p + Size(r) <= n
      BY <2>6, <3>1, <3>3, <3>4, Zenon DEF ValidPrefix
    <3>6. QED
      BY <2>0, <2>2, <2>3, <2>4, <2>5, <3>1, <3>5
  <2>8. p = n
    BY <2>0, <2>5, <2>7
  <2>9. ~Intruded(f, n, r)
    <3> SUFFICES ASSUME NEW i \in n + 2..Len(f), i <= n + Announced(r)
                 PROVE  f[i] = [rec |-> r, idx |-> i - n]
      BY ZenonT(30) DEF Intruded
    <3>1. i - n \in 1..Size(r) /\ p + (i - n) = i /\ i <= Len(f)
      BY <2>0, <2>4, <2>8
    <3>2. QED
      BY <2>1, <3>1
  <2>10. n + Announced(r) >= Len(f)
    <3> SUFFICES ASSUME n + Size(r) < Len(f)
                 PROVE  FALSE
      BY <2>0, <2>4
    <3>1. \A j \in 1..Size(r) : f[n + j] = [rec |-> r, idx |-> j]
      <4> SUFFICES ASSUME NEW j \in 1..Size(r)
                   PROVE  f[n + j] = [rec |-> r, idx |-> j]
        OBVIOUS
      <4>1. p + j <= Len(f) /\ p + j = n + j
        BY <2>0, <2>4, <2>8
      <4>2. QED
        BY <2>1, <4>1, Zenon
    <3>2. RecordAt(f, n, r)
      BY <2>0, <2>4, <3>1 DEF RecordAt
    <3>3. ValidPrefix(f, n + Size(r))
      BY <2>2, <2>6, <3>2, ExtendPrefix
    <3>4. n + Size(r) \in n + 1..Len(f)
      BY <2>0, <2>2, <2>3, <2>4
    <3>5. QED
      BY <2>6, <3>3, <3>4
  <2>11. StopReasons(f, n) = {"torn"}
    <3>1. n /= Len(f) /\ ~(c.idx > 1 \/ Intruded(f, n, r)) /\ c /= Zero
      BY <2>0, <1>2, <2>1, <2>7, <2>9
    <3>2. QED
      BY <2>10, <3>1, Zenon DEF StopReasons, c, r
  <2>12. QED
    BY <2>11
<1>3. QED
  BY <1>1, <1>2

LEMMA QuietTails ==
  ASSUME TailInv, Down, UNCHANGED file, opened' /= "corruption"
  PROVE  TailInv'
<1>1. cache' = cache /\ disk' = disk /\ phase' = "down"
  BY Zenon DEF file, Down
<1>2. OversizeOnly' /\ Refused'
  BY <1>1 DEF TailInv, OversizeOnly, Refused
<1>3. MixedWhole'
  BY <1>1 DEF TailInv, MixedWhole, Mixed
<1>4. QED
  BY <1>2, <1>3 DEF TailInv

LEMMA RecoveryTails ==
  ASSUME FileInv, FileInv', TailInv, NEW n \in 0..Len(cache), Recovered(Len(cache), n)
  PROVE  TailInv'
<1>0. cache \in Seq(Cell) /\ disk \in Seq(Cell) /\ cache' \in Seq(Cell) /\ n \in Nat
      /\ Len(cache) \in Nat /\ n <= Len(cache)
  BY DEF FileInv
<1>1. walOffset' = n /\ phase' \in {"truncated", "idle"} /\ opened' \in {"none", "ok"}
  BY DEF Recovered
<1>2. disk' = disk /\ Len(cache') = n /\ \A i \in 1..n : cache'[i] = cache[i]
  <2>1. CASE MustTruncate(Len(cache), n)
    <3>1. cache' = SubSeq(cache, 1, n) /\ disk' = disk
      BY <2>1 DEF Recovered
    <3>2. QED
      BY <1>0, <3>1, PrefixIs
  <2>2. CASE ~MustTruncate(Len(cache), n)
    BY <2>2 DEF Recovered, MustTruncate, file
  <2>3. QED
    BY <2>1, <2>2
<1>3. OversizeOnly'
  <2>1. LogEnd' = n /\ n + 1..Len(cache') = {}
    BY <1>0, <1>1, <1>2 DEF LogEnd
  <2>2. \A i \in 1..n : i \in 1..Len(cache)
    BY <1>0
  <2>3. QED
    BY <1>1, <1>2, <2>1, <2>2, Zenon DEF TailInv, OversizeOnly
<1>4. MixedWhole'
  <2> SUFFICES ASSUME NEW g, Mixed(g)', \A i \in 1..Len(g) : ~Oversize(g[i])
               PROVE  Whole(g)
    BY DEF MixedWhole
  <2>1. Mixed(g)
    BY <1>0, <1>2 DEF Mixed
  <2>2. QED
    BY <2>1 DEF TailInv, MixedWhole
<1>5. Refused'
  BY <1>1 DEF Refused
<1>6. QED
  BY <1>3, <1>4, <1>5 DEF TailInv

\* After a sync, or a power loss, every mixture is the page cache.
LEMMA OneFileWhole ==
  ASSUME FileInv, MixedWhole, disk' = cache',
         \E g : Mixed(g) /\ cache' = g
  PROVE  MixedWhole'
<1> SUFFICES ASSUME NEW g, Mixed(g)', \A i \in 1..Len(g) : ~Oversize(g[i])
             PROVE  Whole(g)
  BY DEF MixedWhole
<1>1. PICK h : Mixed(h) /\ cache' = h
  OBVIOUS
<1>2. g \in Seq(Cell) /\ \A i \in 1..Len(g) : i <= Len(h) /\ g[i] = h[i]
  BY <1>1 DEF Mixed
<1>3. h \in Seq(Cell) /\ \A i \in 1..Len(h) : \/ i <= Len(cache) /\ h[i] = cache[i]
                                              \/ i <= Len(disk) /\ h[i] = disk[i]
  BY <1>1 DEF Mixed
<1>4. Mixed(g)
  <2> SUFFICES ASSUME NEW i \in 1..Len(g)
               PROVE  \/ i <= Len(cache) /\ g[i] = cache[i]
                      \/ i <= Len(disk) /\ g[i] = disk[i]
    BY <1>2, Zenon DEF Mixed
  <2>1. i \in 1..Len(h) /\ g[i] = h[i]
    BY <1>2, <1>3
  <2>2. QED
    BY <1>3, <2>1
<1>5. QED
  BY <1>4 DEF MixedWhole

LEMMA SyncTails ==
  ASSUME DurInv, DurInv', Orderly, TailInv, RecoverSync \/ FDataSync
  PROVE  TailInv'
<1>0. FileInv /\ FileInv' /\ Clean /\ cache \in Seq(Cell)
  BY OrderlyKept DEF DurInv, LogInv, FileInv, KeptInv
<1>1. /\ Sync /\ walOffset' = walOffset
      /\ \/ phase = "truncated" /\ phase' = "idle" /\ opened' = "ok"
         \/ phase = "written" /\ phase' = "synced" /\ rec' = rec /\ opened' = opened
  BY OrderlyKept DEF RecoverSync, FDataSync, members
<1>2. cache' = cache /\ disk' = cache
  BY <1>0, <1>1, SyncedDisk, Zenon DEF Sync
<1>3. OversizeOnly'
  <2>1. LogEnd' = LogEnd
    BY <1>1 DEF LogEnd
  <2>2. phase' = "idle" => LogEnd = walOffset
    BY <1>1 DEF LogEnd
  <2>3. QED
    BY <1>1, <1>2, <2>1, <2>2 DEF TailInv, OversizeOnly
<1>4. MixedWhole'
  <2>1. PICK g : g = cache
    OBVIOUS
  <2>2. Mixed(g)
    BY <1>0, <2>1 DEF Mixed
  <2>3. QED
    BY <1>0, <1>2, <2>1, <2>2, OneFileWhole DEF TailInv
<1>5. Refused'
  BY <1>1 DEF TailInv, Refused
<1>6. QED
  BY <1>3, <1>4, <1>5 DEF TailInv

LEMMA WritevTails ==
  ASSUME LogInv, Orderly, TailInv, phase = "encoded",
         NEW k \in 0..Size(rec), WriteCells(k), opened' /= "corruption",
         \/ Down
         \/ /\ UNCHANGED members
            /\ \/ phase' = "written" /\ rec' = rec /\ k = Size(rec)
               \/ phase' = "idle" /\ Size(rec) > MaxTransfer
  PROVE  TailInv'
<1> DEFINE w == walOffset
<1>0. /\ FileInv /\ rec \in Record /\ w \in 0..Len(cache) /\ w \in Nat /\ ValidPrefix(cache, w)
      /\ cache \in Seq(Cell) /\ disk \in Seq(Cell) /\ k \in Nat /\ "unordered" \notin faults
      /\ IssuedBy(rec) \subseteq issued
  BY OrderlyKept DEF LogInv, MemberTypes, FileInv, LogHead, InFlight
<1>1. Size(rec) \in Nat
  BY <1>0, SizeType
<1>2. MixedWhole'
  BY <1>0, WriteWhole DEF TailInv
<1>3. /\ \A i \in 1..Len(cache) : i <= Len(disk) => disk[i] = cache[i] \/ Oversize(disk[i])
      /\ \A i \in w + 1..Len(cache) : Oversize(cache[i])
      /\ Len(cache) = w \/ \A i \in w + 1..Len(disk) : Oversize(disk[i])
  BY DEF TailInv, OversizeOnly, LogEnd
<1>4. /\ Len(disk') <= Len(cache) /\ Len(disk') <= Len(disk) /\ disk' \in Seq(Cell)
      /\ \A i \in 1..Len(disk') : disk'[i] = disk[i]
  BY <1>0, OrderedWrite
<1>5. cache' \in Seq(Cell)
  BY <1>0, CellsOf, OverwriteIs, ZenonT(30) DEF WriteCells
<1>6. \A i \in 1..Len(cache') :
        \/ i \in 1..Len(cache) /\ cache'[i] = cache[i]
        \/ i - w \in 1..k /\ cache'[i] = [rec |-> rec, idx |-> i - w]
  BY <1>0, WriteShape, Zenon
<1>7. ASSUME NEW i \in w + 1..Len(disk')
      PROVE  Oversize(disk'[i])
  <2>1. i \in w + 1..Len(disk) /\ i \in 1..Len(disk') /\ Len(cache) /= w
    BY <1>0, <1>4
  <2>2. QED
    BY <1>3, <1>4, <2>1, Zenon
<1>8. ASSUME NEW i \in 1..Len(cache'), i <= Len(disk')
      PROVE  disk'[i] = cache'[i] \/ Oversize(disk'[i])
  <2>1. i \in 1..Len(disk') /\ i \in 1..Len(cache) /\ i <= Len(disk) /\ disk'[i] = disk[i]
    BY <1>0, <1>4, <1>5, <1>8
  <2>2. CASE cache'[i] = cache[i]
    BY <1>3, <2>1, <2>2, Zenon
  <2>3. CASE i - w \in 1..k
    <3>1. i \in w + 1..Len(disk')
      BY <1>0, <1>4, <2>1, <2>3
    <3>2. QED
      BY <1>7, <3>1
  <2>4. QED
    BY <1>6, <2>2, <2>3, ZenonT(30)
<1>9. ASSUME phase' /= "down"
      PROVE  /\ \A i \in LogEnd' + 1..Len(cache') : Oversize(cache'[i])
             /\ phase' \in {"truncated", "idle", "encoded"} =>
                  \/ Len(cache') = walOffset'
                  \/ \A i \in walOffset' + 1..Len(disk') : Oversize(disk'[i])
  <2>1. walOffset' = w
    BY <1>9 DEF Down, members
  <2>2. ASSUME NEW i \in LogEnd' + 1..Len(cache')
        PROVE  Oversize(cache'[i])
    <3>1. CASE phase' = "written" /\ rec' = rec /\ k = Size(rec)
      <4>1. LogEnd' = w + k
        BY <2>1, <3>1 DEF LogEnd
      <4>2. i \in 1..Len(cache') /\ ~(i - w \in 1..k)
        BY <1>0, <1>5, <4>1
      <4>3. i \in 1..Len(cache) /\ cache'[i] = cache[i]
        BY <1>6, <4>2, ZenonT(30)
      <4>4. i \in w + 1..Len(cache)
        BY <1>0, <4>1, <4>3
      <4>5. QED
        BY <1>3, <4>3, <4>4
    <3>2. CASE phase' = "idle" /\ Size(rec) > MaxTransfer
      <4>1. LogEnd' = w
        BY <2>1, <3>2 DEF LogEnd
      <4>2. i \in 1..Len(cache')
        BY <1>0, <1>5, <4>1
      <4>3. CASE i \in 1..Len(cache) /\ cache'[i] = cache[i]
        <5>1. i \in w + 1..Len(cache)
          BY <1>0, <4>1, <4>3
        <5>2. QED
          BY <1>3, <4>3, <5>1, Zenon
      <4>4. CASE cache'[i] = [rec |-> rec, idx |-> i - w]
        <5>1. cache'[i].rec = rec
          BY <4>4
        <5>2. QED
          BY <3>2, <5>1, Zenon DEF Oversize
      <4>5. QED
        BY <1>6, <4>2, <4>3, <4>4, Zenon
    <3>3. QED
      BY <1>9, <3>1, <3>2, Zenon DEF Down
  <2>3. QED
    BY <1>7, <2>1, <2>2
<1>10. OversizeOnly'
  BY <1>8, <1>9 DEF OversizeOnly
<1>11. Refused'
  BY DEF Refused
<1>12. QED
  BY <1>2, <1>10, <1>11, Zenon DEF TailInv

LEMMA PowerTails ==
  ASSUME FileInv, FileInv', Orderly, TailInv, PowerLoss
  PROVE  TailInv'
<1>0. /\ cache' = disk' /\ cache' \in Seq(Cell) /\ phase' = "down" /\ opened' = "none"
  BY DEF PowerLoss, FileInv, Down
<1>1. PICK W \in SUBSET dirty : \E n \in Lengths(W) : disk' = WrittenBack({i \in W : i <= n}, n)
  BY OrderlyKept DEF PowerLoss, LogKept
<1>2. PICK n \in Lengths(W) : disk' = WrittenBack({i \in W : i <= n}, n)
  BY <1>1
<1>3. PICK g : g = cache'
  OBVIOUS
<1>4. Mixed(g)
  BY <1>0, <1>2, <1>3, OrderlyKept, PowerMixes, Zenon
<1>5. MixedWhole'
  BY <1>0, <1>3, <1>4, OneFileWhole, Zenon DEF TailInv
<1>6. OversizeOnly' /\ Refused'
  BY <1>0 DEF OversizeOnly, Refused
<1>7. QED
  BY <1>5, <1>6 DEF TailInv

LEMMA TailStep ==
  ASSUME DurInv, DurInv', Crashing, TailInv, Next
  PROVE  TailInv'
<1>0. /\ LogInv /\ LogInv' /\ FileInv /\ FileInv' /\ cache \in Seq(Cell) /\ Orderly
      /\ "read" \notin faults /\ "write" \notin faults
  BY DEF DurInv, LogInv, FileInv, Crashing, Orderly
<1>1. phase /= "down" => opened /= "corruption"
  BY DEF TailInv, Refused
<1>2. CASE Open
  <2>0. phase = "down" /\ SubSeq(cache, 1, Len(cache)) = cache
    BY <1>0, <1>2 DEF Open
  <2>1. PICK n \in 0..Len(cache) :
          /\ IsValidBytes(cache, n)
          /\ \E why \in StopReasons(cache, n) :
               IF why = "corruption" THEN OpenFails("corruption") ELSE Recovered(Len(cache), n)
    BY <1>0, <1>2, <2>0, Zenon DEF Open, ReadLengths
  <2>2. CASE "corruption" \in StopReasons(cache, n) /\ OpenFails("corruption")
    <3>1. cache' = cache /\ disk' = disk /\ phase' = "down"
      BY <2>2, Zenon DEF OpenFails, file, Down
    <3>2. OversizeOnly' /\ MixedWhole'
      BY <3>1 DEF TailInv, OversizeOnly, MixedWhole, Mixed
    <3>3. Refused'
      BY <2>1, <2>2, <3>1 DEF Refused
    <3>4. QED
      BY <3>2, <3>3 DEF TailInv
  <2>3. CASE Recovered(Len(cache), n)
    BY <1>0, <2>3, RecoveryTails
  <2>4. QED
    BY <2>1, <2>2, <2>3
<1>3. CASE RecoverSync \/ FDataSync
  BY <1>0, <1>3, SyncTails, Zenon
<1>4. CASE \E g \in Groups : WriteGroup(g)
  <2>1. /\ phase = "idle" /\ phase' = "encoded" /\ cache' = cache /\ disk' = disk
        /\ walOffset' = walOffset /\ opened' = opened
    BY <1>4 DEF WriteGroup, EncodeGroup, file, members
  <2>2. LogEnd' = LogEnd
    BY <2>1 DEF LogEnd
  <2>3. QED
    BY <2>1, <2>2, <1>1, Zenon DEF TailInv, OversizeOnly, MixedWhole, Mixed, Refused
<1>5. CASE \E n \in Transfers(rec) : Writev(n)
  <2>1. PICK n \in Transfers(rec) : Writev(n)
    BY <1>5
  <2>2. rec \in Record /\ MaxTransfer \in Nat
    BY <1>0, WalStoreAssumption, WalFormatAssumption DEF LogInv, MemberTypes
  <2>3. Size(rec) \in Nat
    BY <2>2, SizeType
  <2>4. n \in 0..Size(rec) /\ (n /= Size(rec) => Size(rec) > MaxTransfer)
    BY <1>0, <2>2, <2>3 DEF Transfers
  <2>5. /\ phase = "encoded" /\ WriteCells(n) /\ opened' = opened /\ UNCHANGED members
        /\ \/ phase' = "written" /\ rec' = rec /\ n = Size(rec)
           \/ phase' = "idle" /\ n /= Size(rec)
    BY <2>1 DEF Writev, WrittenInFull, GroupEnds
  <2>6. QED
    BY <1>0, <1>1, <2>4, <2>5, WritevTails, Zenon
<1>6. CASE Apply
  <2>1. /\ phase = "synced" /\ phase' = "idle" /\ cache' = cache /\ disk' = disk
        /\ walOffset' = walOffset + Size(rec) /\ opened' = opened
    BY <1>6 DEF Apply, MayApply, NextOffset, GroupEnds, file
  <2>2. LogEnd' = LogEnd /\ walOffset' = LogEnd
    BY <2>1 DEF LogEnd
  <2>3. disk = cache
    BY <1>0, <2>1, OrderlyKept, Zenon DEF DurInv, KeptInv, InGroup
  <2>4. OversizeOnly'
    BY <2>1, <2>2, <2>3, Zenon DEF TailInv, OversizeOnly
  <2>5. MixedWhole' /\ Refused'
    BY <1>1, <2>1 DEF TailInv, MixedWhole, Mixed, Refused
  <2>6. QED
    BY <2>4, <2>5 DEF TailInv
<1>7. CASE Close
  BY <1>1, <1>7, QuietTails DEF Close, CloseFile
<1>8. CASE ProcessCrash
  <2>1. Down /\ opened' = "none"
    BY <1>8 DEF ProcessCrash
  <2>2. CASE phase = "encoded"
    <3>1. PICK n \in 0..Size(rec) : WriteCells(n)
      BY <1>8, <2>2 DEF ProcessCrash
    <3>2. QED
      BY <1>0, <2>1, <2>2, <3>1, WritevTails, Zenon
  <2>3. CASE phase /= "encoded"
    BY <1>8, <2>1, <2>3, QuietTails DEF ProcessCrash
  <2>4. QED
    BY <2>2, <2>3
<1>9. CASE PowerLoss
  BY <1>0, <1>9, PowerTails, Zenon
<1>10. CASE UNCHANGED vars
  BY <1>10, Zenon DEF vars, file, members, TailInv, OversizeOnly, LogEnd, MixedWhole, Mixed, Refused
<1>11. QED
  BY <1>2, <1>3, <1>4, <1>5, <1>6, <1>7, <1>8, <1>9, <1>10, Zenon DEF Next, Finished

\* When only the process or the power fails, DB::Open never refuses the log
\* that is left, however often that happens: what DecodeLog stops at is always
\* the beginning of one record that reaches the end of the file.
THEOREM CrashTailAlwaysTolerated == Spec => []CrashTailTolerated
<1> DEFINE I == Crashing => TailInv
<1>1. Init => I
  <2> SUFFICES ASSUME Init
               PROVE  TailInv
    OBVIOUS
  <2>1. cache = <<>> /\ disk = <<>> /\ phase = "down" /\ opened = "none"
    BY DEF Init
  <2>2. OversizeOnly /\ Refused
    BY <2>1, Zenon DEF OversizeOnly, Refused
  <2>3. MixedWhole
    <3> SUFFICES ASSUME NEW g, Mixed(g)
                 PROVE  Whole(g)
      BY DEF MixedWhole
    <3>1. g \in Seq(Cell) /\ \A i \in 1..Len(g) : i <= 0
      BY <2>1 DEF Mixed
    <3>2. \A i \in 1..Len(g) : FALSE
      BY <3>1
    <3>3. QED
      BY <3>2 DEF Whole
  <2>4. QED
    BY <2>2, <2>3 DEF TailInv
<1>2. I /\ DurInv /\ DurInv' /\ [Next]_vars => I'
  <2> SUFFICES ASSUME I, DurInv, DurInv', [Next]_vars
               PROVE  I'
    OBVIOUS
  <2>1. CASE UNCHANGED vars
    BY <2>1 DEF vars, file, members, TailInv, OversizeOnly, LogEnd, MixedWhole, Mixed, Refused,
                Crashing
  <2>2. CASE Next
    <3>1. faults' = faults
      BY <2>2 DEF Next
    <3>2. QED
      BY <2>2, <3>1, TailStep, Zenon DEF Crashing
  <2>3. QED
    BY <2>1, <2>2
<1>3. I /\ DurInv => CrashTailTolerated
  <2> SUFFICES ASSUME I, DurInv, Crashing, TransfersFit, opened = "corruption"
               PROVE  FALSE
    BY DEF CrashTailTolerated, TailTolerated, Crashing
  <2>1. cache \in Seq(Cell) /\ Written(cache, issued)
    BY DEF DurInv, LogInv, FileInv
  <2>2. PICK n \in 0..Len(cache) : IsValidBytes(cache, n) /\ "corruption" \in StopReasons(cache, n)
    BY DEF TailInv, Refused
  <2>3. \A i \in 1..Len(cache) : ~Oversize(cache[i])
    <3> SUFFICES ASSUME NEW i \in 1..Len(cache)
                 PROVE  ~(Size(cache[i].rec) > MaxTransfer)
      BY DEF Oversize
    <3>1. Size(cache[i].rec) <= MaxTransfer
      BY DEF TransfersFit
    <3>2. Size(cache[i].rec) \in Nat /\ MaxTransfer \in Nat
      <4>1. CASE cache[i] = Zero
        BY <4>1, WalStoreAssumption, WalFormatAssumption DEF Zero, Size
      <4>2. CASE cache[i] /= Zero
        BY <2>1, <4>2, CellShape, SizeType, WalStoreAssumption, WalFormatAssumption
      <4>3. QED
        BY <4>1, <4>2, Zenon
    <3>3. QED
      BY <3>1, <3>2
  <2>4. Whole(cache)
    <3>1. PICK g : g = cache
      OBVIOUS
    <3>2. Mixed(g)
      BY <2>1, <3>1 DEF Mixed
    <3>3. QED
      BY <2>3, <3>1, <3>2 DEF TailInv, MixedWhole
  <2>5. QED
    BY <2>1, <2>2, <2>3, <2>4, WholeIsTolerated
<1>4. QED
  BY <1>1, <1>2, <1>3, DurInvAlways, PTL DEF Spec
=============================================================================
