---------------------------- MODULE WalStoreProofs ----------------------------
(***************************************************************************)
(* Proofs about WalStore, whatever goes wrong, for every number of groups  *)
(* and restarts: the memtable is what a restart would rebuild from the     *)
(* file, and nothing shows in it that nobody wrote.                        *)
(***************************************************************************)
EXTENDS WalStore, SequenceTheorems, WellFoundedInduction, TLAPS

\* The provers of a leaf that names none.
USE SMTT(30), Zenon

(***************************************************************************)
(* Minima and maxima: induction by the smallest counterexample.            *)
(***************************************************************************)

\* A set of natural numbers has a smallest member.
LEMMA SmallestIn ==
  ASSUME NEW T, T \subseteq Nat, T /= {}
  PROVE  \E x \in T : \A y \in T : x <= y
<1> DEFINE R == OpToRel(<, Nat)
<1>1. IsWellFoundedOn(R, Nat)
  BY NatLessThanWellFounded, Zenon
<1> HIDE DEF R
<1>2. PICK x \in T : \A y \in T : ~(<<y, x>> \in R)
  BY <1>1, WFMin, Zenon
<1>3. ASSUME NEW y \in T, y < x
      PROVE  FALSE
  <2>1. <<y, x>> \in R
    BY <1>3, SMT DEF R, OpToRel
  <2>2. QED
    BY <1>2, <2>1
<1>4. QED
  BY <1>3

\* A set of positions in a sequence has a last member.
LEMMA LargestIn ==
  ASSUME NEW n \in Nat, NEW T, T \subseteq 1..n, T /= {}
  PROVE  \E x \in T : \A y \in T : y <= x
<1> DEFINE U == {n - i : i \in T}
<1>1. \A i \in T : i \in Nat /\ n - i \in Nat /\ n - i \in U
  OBVIOUS
<1>2. \A u \in U : u \in Nat /\ \E i \in T : u = n - i
  BY <1>1
<1>3. U /= {}
  BY <1>1
<1> HIDE DEF U
<1>4. PICK u \in U : \A v \in U : u <= v
  BY <1>2, <1>3, SmallestIn
<1>5. PICK x \in T : u = n - x
  BY <1>2
<1>6. QED
  BY <1>1, <1>4, <1>5

\* Finitely many numbers have a largest one.
LEMMA LargestValue ==
  ASSUME NEW n \in Nat, NEW f, \A i \in 1..n : f[i] \in Nat, n > 0
  PROVE  \E i \in 1..n : \A j \in 1..n : f[j] <= f[i]
<1> DEFINE Has(m) == \E i \in 1..m : \A j \in 1..m : f[j] <= f[i]
           Bad == {m \in 1..n : ~Has(m)}
<1>1. SUFFICES ASSUME Bad /= {}
               PROVE  FALSE
  <2>1. n \in 1..n
    OBVIOUS
  <2> HIDE DEF Has
  <2>2. Has(n)
    BY <1>1, <2>1
  <2>3. QED
    BY <2>2 DEF Has
<1>2. Bad \subseteq Nat
  OBVIOUS
<1>3. PICK m \in Bad : \A l \in Bad : m <= l
  <2> HIDE DEF Bad
  <2>1. QED
    BY <1>1, <1>2, SmallestIn, Zenon
<1>4. m \in 1..n /\ ~Has(m)
  OBVIOUS
<1>5. CASE m = 1
  <2>1. f[1] \in Nat
    BY <1>4, <1>5
  <2>2. \A j \in 1..m : f[j] <= f[1]
    BY <1>5, <2>1
  <2>3. QED
    BY <1>4, <1>5, <2>2
<1>6. CASE m > 1
  <2>1. m - 1 \notin Bad /\ m - 1 \in 1..n
    <3> HIDE DEF Bad
    <3>1. QED
      BY <1>3, <1>4, <1>6
  <2>2. Has(m - 1)
    <3> HIDE DEF Has
    <3>1. QED
      BY <2>1
  <2>3. PICK i \in 1..(m - 1) : \A j \in 1..(m - 1) : f[j] <= f[i]
    BY <2>2
  <2>4. f[i] \in Nat /\ f[m] \in Nat /\ i \in 1..m /\ m \in 1..m
    BY <1>4, <1>6
  <2>5. CASE f[m] <= f[i]
    <3>1. \A j \in 1..m : f[j] <= f[i]
      BY <1>4, <2>3, <2>4, <2>5
    <3>2. QED
      BY <1>4, <2>4, <3>1
  <2>6. CASE f[m] > f[i]
    <3>1. \A j \in 1..m : f[j] <= f[m]
      <4> SUFFICES ASSUME NEW j \in 1..m
                   PROVE  f[j] <= f[m]
        OBVIOUS
      <4>1. f[j] \in Nat
        BY <1>4
      <4>2. CASE j = m
        BY <4>1, <4>2
      <4>3. CASE j \in 1..(m - 1)
        BY <2>3, <2>4, <2>6, <4>1, <4>3
      <4>4. QED
        BY <1>4, <4>2, <4>3
    <3>2. QED
      BY <1>4, <2>4, <3>1
  <2>7. QED
    BY <2>4, <2>5, <2>6
<1>7. QED
  BY <1>4, <1>5, <1>6

(***************************************************************************)
(* Replay and ApplyRecord take the last of a set of positions.             *)
(***************************************************************************)
LastOf(T) == CHOOSE i \in T : \A j \in T : j <= i

Hits(r, k) == {i \in DOMAIN r.entries : r.entries[i].key = k}

LEMMA LastOfIsLast ==
  ASSUME NEW n \in Nat, NEW T, T \subseteq 1..n, T /= {}
  PROVE  LastOf(T) \in T /\ \A j \in T : j <= LastOf(T)
<1>1. \E x \in T : \A y \in T : y <= x
  BY LargestIn, Zenon
<1>2. QED
  BY <1>1, Zenon DEF LastOf

LEMMA LastOfIsUnique ==
  ASSUME NEW n \in Nat, NEW T, T \subseteq 1..n,
         NEW x \in T, \A j \in T : j <= x
  PROVE  LastOf(T) = x
<1>1. LastOf(T) \in T /\ \A j \in T : j <= LastOf(T)
  BY LastOfIsLast, Zenon
<1>2. x \in 1..n /\ LastOf(T) \in 1..n
  BY <1>1, Zenon
<1>3. QED
  BY <1>1, <1>2

LEMMA ReplayAt ==
  ASSUME NEW f, NEW n, NEW k \in Keys
  PROVE  Replay(f, n)[k] = IF EntryCells(f, n, k) = {} THEN Untouched
                           ELSE EntryAt(f, LastOf(EntryCells(f, n, k)))
BY DEF Replay, LastOf

LEMMA ApplyAt ==
  ASSUME NEW t, NEW r, NEW k \in Keys
  PROVE  ApplyRecord(t, r)[k] =
           IF Hits(r, k) = {} THEN t[k]
           ELSE [seq |-> r.base + LastOf(Hits(r, k)) - 1,
                 val |-> r.entries[LastOf(Hits(r, k))].val]
BY DEF ApplyRecord, Hits, LastOf

\* A cell is a zero cell or the cell of a record.
LEMMA CellShape ==
  ASSUME NEW f \in Seq(Cell), NEW i \in 1..Len(f)
  PROVE  /\ f[i] \in Cell /\ f[i].idx \in Nat
         /\ f[i] /= Zero => f[i].rec \in Record /\ f[i].idx > 0
BY DEF Cell, Zero

LEMMA SizeType ==
  ASSUME NEW r \in Record
  PROVE  /\ r.entries \in Seq(Entry) /\ r.base \in Nat /\ Len(r.entries) \in Nat
         /\ Size(r) = Len(r.entries) + 1
         /\ DOMAIN r.entries = 1..Len(r.entries)
         /\ \A i \in DOMAIN r.entries : r.entries[i] \in Entry
BY DEF Record, Size

(***************************************************************************)
(* Two files with the same first n cells are the same log up to there.     *)
(***************************************************************************)
LEMMA SamePrefix ==
  ASSUME NEW f \in Seq(Cell), NEW g \in Seq(Cell), NEW n \in Nat,
         n <= Len(f), n <= Len(g), \A i \in 1..n : g[i] = f[i],
         ValidPrefix(f, n)
  PROVE  ValidPrefix(g, n)
<1> SUFFICES ASSUME NEW i \in 1..n
             PROVE  /\ g[i] /= Zero
                    /\ StartOf(g, i) >= 0
                    /\ StartOf(g, i) + Size(g[i].rec) <= n
                    /\ RecordAt(g, StartOf(g, i), g[i].rec)
  BY DEF ValidPrefix
<1> DEFINE p == i - f[i].idx
           r == f[i].rec
<1>1. f[i] /= Zero /\ p >= 0 /\ p + Size(r) <= n /\ RecordAt(f, p, r)
  BY DEF ValidPrefix, StartOf
<1>2. i \in 1..Len(f) /\ p \in Int /\ r \in Record
  BY <1>1, CellShape
<1>3. Size(r) \in Nat
  BY <1>2, SizeType
<1>4. StartOf(g, i) = p /\ g[i].rec = r /\ g[i] = f[i]
  BY DEF StartOf
<1> HIDE DEF p, r
<1>5. RecordAt(g, p, r)
  <2>1. \A j \in 1..Size(r) : p + j \in 1..n /\ g[p + j] = f[p + j]
    BY <1>1, <1>2, <1>3
  <2>2. QED
    BY <1>1, <1>2, <1>3, <2>1 DEF RecordAt
<1>6. QED
  BY <1>1, <1>4, <1>5

LEMMA SameReplay ==
  ASSUME NEW f, NEW g, NEW n \in Nat, \A i \in 1..n : g[i] = f[i]
  PROVE  Replay(g, n) = Replay(f, n)
<1>1. ASSUME NEW k \in Keys
      PROVE  Replay(g, n)[k] = Replay(f, n)[k]
  <2>1. EntryCells(g, n, k) = EntryCells(f, n, k) /\ EntryCells(f, n, k) \subseteq 1..n
    BY DEF EntryCells
  <2>2. CASE EntryCells(f, n, k) = {}
    BY <2>1, <2>2, ReplayAt
  <2>3. CASE EntryCells(f, n, k) /= {}
    <3>1. LastOf(EntryCells(f, n, k)) \in 1..n
      BY <2>1, <2>3, LastOfIsLast
    <3>2. EntryAt(g, LastOf(EntryCells(f, n, k))) = EntryAt(f, LastOf(EntryCells(f, n, k)))
      BY <3>1 DEF EntryAt
    <3>3. QED
      BY <2>1, <2>3, <3>2, ReplayAt
  <2>4. QED
    BY <2>2, <2>3
<1>2. Replay(g, n) = [k \in Keys |-> Replay(g, n)[k]]
  BY DEF Replay
<1>3. Replay(f, n) = [k \in Keys |-> Replay(f, n)[k]]
  BY DEF Replay
<1>4. QED
  BY <1>1, <1>2, <1>3

(***************************************************************************)
(* A record behind a log makes a longer log, and replaying that one is     *)
(* applying the record: recovery and writeGroup build the same table.      *)
(***************************************************************************)
LEMMA ExtendPrefix ==
  ASSUME NEW f \in Seq(Cell), NEW n \in 0..Len(f), NEW r \in Record,
         ValidPrefix(f, n), RecordAt(f, n, r)
  PROVE  ValidPrefix(f, n + Size(r))
<1>1. Size(r) \in Nat /\ n \in Nat
  BY SizeType
<1> SUFFICES ASSUME NEW i \in 1..n + Size(r)
             PROVE  /\ f[i] /= Zero
                    /\ StartOf(f, i) >= 0
                    /\ StartOf(f, i) + Size(f[i].rec) <= n + Size(r)
                    /\ RecordAt(f, StartOf(f, i), f[i].rec)
  BY DEF ValidPrefix
<1>2. CASE i \in 1..n
  <2>1. /\ f[i] /= Zero /\ StartOf(f, i) >= 0
        /\ StartOf(f, i) + Size(f[i].rec) <= n
        /\ RecordAt(f, StartOf(f, i), f[i].rec)
    BY <1>2 DEF ValidPrefix
  <2>2. i \in 1..Len(f)
    BY <1>1, <1>2
  <2>3. f[i].rec \in Record /\ f[i].idx \in Nat
    BY <2>1, <2>2, CellShape
  <2>4. Size(f[i].rec) \in Nat /\ StartOf(f, i) \in Int
    BY <1>2, <2>3, SizeType DEF StartOf
  <2>5. QED
    BY <1>1, <2>1, <2>4
<1>3. CASE i \in n + 1..n + Size(r)
  <2>1. i - n \in 1..Size(r) /\ n + (i - n) = i
    BY <1>1, <1>3
  <2>2. f[i] = [rec |-> r, idx |-> i - n]
    BY <2>1 DEF RecordAt
  <2>3. f[i].rec = r /\ f[i].idx = i - n /\ f[i] /= Zero
    BY <1>1, <2>1, <2>2 DEF Zero
  <2>4. StartOf(f, i) = n
    BY <1>1, <2>1, <2>3 DEF StartOf
  <2>5. QED
    BY <1>1, <2>3, <2>4
<1>4. QED
  BY <1>1, <1>2, <1>3

LEMMA ExtendReplay ==
  ASSUME NEW f \in Seq(Cell), NEW n \in 0..Len(f), NEW r \in Record, RecordAt(f, n, r)
  PROVE  Replay(f, n + Size(r)) = ApplyRecord(Replay(f, n), r)
<1> DEFINE e == Len(r.entries)
           m == n + Size(r)
<1>0. e \in Nat /\ Size(r) = e + 1 /\ r.base \in Nat /\ DOMAIN r.entries = 1..e
  BY SizeType
<1>2. \A i \in 1..Size(r) : f[n + i] = [rec |-> r, idx |-> i]
  BY DEF RecordAt
<1> HIDE DEF e
<1>1. n \in Nat /\ m \in Nat /\ m = n + 1 + e
  BY <1>0
<1> HIDE DEF m
<1>3. ASSUME NEW k \in Keys
      PROVE  Replay(f, m)[k] = ApplyRecord(Replay(f, n), r)[k]
  <2> DEFINE H == Hits(r, k)
             Old == EntryCells(f, n, k)
             All == EntryCells(f, m, k)
  <2>1. H \subseteq 1..e /\ Old \subseteq 1..n /\ All \subseteq 1..m
    BY <1>0 DEF Hits, EntryCells
  <2>2. \A i \in 1..n : i \in All <=> i \in Old
    <3>1. \A i \in 1..n : i \in 1..m
      BY <1>0, <1>1
    <3>2. QED
      BY <3>1, Zenon DEF EntryCells
  <2>3. n + 1 \notin All
    <3>1. f[n + 1].idx = 1
      <4>1. 1 \in 1..Size(r)
        BY <1>0
      <4>2. f[n + 1] = [rec |-> r, idx |-> 1]
        BY <1>2, <4>1, Zenon
      <4>3. QED
        BY <4>2
    <3>2. QED
      BY <3>1 DEF EntryCells
  <2>4. ASSUME NEW i \in 1..e
        PROVE  n + 1 + i \in All <=> i \in H
    <3>1. i + 1 \in 1..Size(r) /\ n + (i + 1) = n + 1 + i /\ n + 1 + i \in 1..m
      BY <1>0, <1>1
    <3>2. f[n + 1 + i] = [rec |-> r, idx |-> i + 1]
      BY <1>2, <3>1
    <3>3. f[n + 1 + i].idx > 1 /\ f[n + 1 + i].idx - 1 = i /\ f[n + 1 + i].rec = r
      BY <3>2
    <3>4. QED
      BY <1>0, <3>1, <3>3 DEF EntryCells, Hits
  <2> HIDE DEF H, Old, All
  <2>5. \A j \in All : j \in Old \/ (j - n - 1 \in H /\ j = n + 1 + (j - n - 1))
    <3> SUFFICES ASSUME NEW j \in All
                 PROVE  j \in Old \/ (j - n - 1 \in H /\ j = n + 1 + (j - n - 1))
      OBVIOUS
    <3>1. j \in 1..m /\ j /= n + 1
      BY <2>1, <2>3
    <3>2. CASE j \in 1..n
      BY <2>2, <3>2
    <3>3. CASE j > n + 1
      <4>1. j - n - 1 \in 1..e /\ j = n + 1 + (j - n - 1)
        BY <1>0, <1>1, <3>1, <3>3
      <4>2. QED
        BY <2>4, <4>1
    <3>4. QED
      BY <1>1, <3>1, <3>2, <3>3
  <2>6. CASE H = {}
    <3>1. All = Old
      <4>1. \A j \in Old : j \in All
        BY <2>1, <2>2
      <4>2. \A j \in All : j \in Old
        BY <2>5, <2>6
      <4>3. QED
        BY <4>1, <4>2, Zenon
    <3>2. Replay(f, m)[k] = Replay(f, n)[k]
      BY <3>1, ReplayAt DEF All, Old
    <3>3. QED
      BY <2>6, <3>2, ApplyAt, Zenon DEF H
  <2>7. CASE H /= {}
    <3> DEFINE l == LastOf(H)
    <3>1. l \in H /\ \A j \in H : j <= l
      BY <1>0, <2>1, <2>7, LastOfIsLast
    <3>2. l \in 1..e
      BY <2>1, <3>1, Zenon
    <3> HIDE DEF l
    <3>3. n + 1 + l \in All
      BY <2>4, <3>1, <3>2
    <3>4. ASSUME NEW j \in All
          PROVE  j <= n + 1 + l
      <4>1. CASE j \in Old
        BY <1>0, <1>1, <2>1, <3>2, <4>1
      <4>2. CASE j - n - 1 \in H
        <5>1. j - n - 1 <= l /\ j \in 1..m
          BY <2>1, <3>1, <4>2
        <5>2. QED
          BY <1>0, <1>1, <3>2, <5>1
      <4>3. QED
        BY <2>5, <4>1, <4>2
    <3>5. LastOf(All) = n + 1 + l
      BY <1>1, <2>1, <3>3, <3>4, LastOfIsUnique, Zenon
    <3>6. f[n + 1 + l] = [rec |-> r, idx |-> l + 1]
      <4>1. l + 1 \in 1..Size(r) /\ n + (l + 1) = n + 1 + l
        BY <1>0, <1>1, <3>2
      <4>2. QED
        BY <1>2, <4>1
    <3>7. r.base + (l + 1) - 2 = r.base + l - 1 /\ (l + 1) - 1 = l
      BY <1>0, <3>2
    <3>8. EntryAt(f, n + 1 + l) = [seq |-> r.base + l - 1, val |-> r.entries[l].val]
      BY <3>6, <3>7 DEF EntryAt
    <3>9. All /= {}
      BY <3>3
    <3>10. Replay(f, m)[k] = EntryAt(f, n + 1 + l)
      BY <3>5, <3>9, ReplayAt DEF All
    <3>11. QED
      BY <2>7, <3>8, <3>10, ApplyAt DEF H, l
  <2>8. QED
    BY <2>6, <2>7
<1>4. Replay(f, m) = [k \in Keys |-> Replay(f, m)[k]]
  BY DEF Replay
<1>5. ApplyRecord(Replay(f, n), r) = [k \in Keys |-> ApplyRecord(Replay(f, n), r)[k]]
  BY DEF ApplyRecord
<1>6. QED
  BY <1>3, <1>4, <1>5 DEF m

(***************************************************************************)
(* The types of what the operators of WalFormat return, for files whose    *)
(* cells were all written by writeGroup.                                   *)
(***************************************************************************)
\* Every cell of f is a zero cell or a cell of a record whose entries are in S.
Written(f, S) ==
  \A i \in 1..Len(f) :
    f[i] /= Zero => f[i].idx \in 1..Size(f[i].rec) /\ IssuedBy(f[i].rec) \subseteq S

\* Nothing shows in table t but what is in S.
Shows(t, S) ==
  \A k \in Keys : t[k] = Untouched \/ <<k, t[k]>> \in S

LEMMA UntouchedType == Untouched \in MemEntry
BY DEF Untouched, MemEntry

LEMMA ApplyTypes ==
  ASSUME NEW t \in [Keys -> MemEntry], NEW r \in Record
  PROVE  ApplyRecord(t, r) \in [Keys -> MemEntry]
<1>1. ASSUME NEW k \in Keys
      PROVE  ApplyRecord(t, r)[k] \in MemEntry
  <2>0. Len(r.entries) \in Nat /\ Hits(r, k) \subseteq 1..Len(r.entries)
    BY SizeType DEF Hits
  <2>1. CASE Hits(r, k) = {}
    BY <2>1, ApplyAt, Zenon
  <2>2. CASE Hits(r, k) /= {}
    <3> DEFINE l == LastOf(Hits(r, k))
    <3>1. l \in 1..Len(r.entries)
      BY <2>0, <2>2, LastOfIsLast
    <3> HIDE DEF l
    <3>2. r.entries[l] \in Entry /\ r.base + l - 1 \in Nat
      BY <2>0, <3>1, SizeType
    <3>3. ApplyRecord(t, r)[k] = [seq |-> r.base + l - 1, val |-> r.entries[l].val]
      BY <2>2, ApplyAt DEF l
    <3>4. QED
      BY <3>2, <3>3 DEF Entry, MemEntry
  <2>3. QED
    BY <2>1, <2>2
<1>2. ApplyRecord(t, r) = [k \in Keys |-> ApplyRecord(t, r)[k]]
  BY DEF ApplyRecord
<1>3. QED
  BY <1>1, <1>2

\* What a recovery finds was written.
LEMMA ReplayShows ==
  ASSUME NEW S, NEW f \in Seq(Cell), NEW n \in 0..Len(f), Written(f, S),
         ValidPrefix(f, n)
  PROVE  Replay(f, n) \in [Keys -> MemEntry] /\ Shows(Replay(f, n), S)
<1>1. ASSUME NEW k \in Keys
      PROVE  /\ Replay(f, n)[k] \in MemEntry
             /\ Replay(f, n)[k] = Untouched \/ <<k, Replay(f, n)[k]>> \in S
  <2>0. n \in Nat /\ EntryCells(f, n, k) \subseteq 1..n
    BY DEF EntryCells
  <2>1. CASE EntryCells(f, n, k) = {}
    BY <2>1, ReplayAt, UntouchedType
  <2>2. CASE EntryCells(f, n, k) /= {}
    <3> DEFINE l == LastOf(EntryCells(f, n, k))
               r == f[l].rec
               x == f[l].idx
               i == x - 1
               e == Len(r.entries)
    <3>1. l \in EntryCells(f, n, k)
      BY <2>0, <2>2, LastOfIsLast
    <3>2. /\ l \in 1..n /\ l \in 1..Len(f) /\ f[l] /= Zero
      BY <2>0, <3>1 DEF ValidPrefix
    <3>3. x > 1 /\ r.entries[i].key = k
      BY <3>1, Zenon DEF EntryCells
    <3>4. r \in Record /\ x \in Nat /\ x \in 1..Size(r) /\ IssuedBy(r) \subseteq S
      BY <3>2, CellShape DEF Written
    <3>5. Replay(f, n)[k] = EntryAt(f, l)
      BY <2>2, ReplayAt
    <3>6. EntryAt(f, l) = [seq |-> r.base + x - 2, val |-> r.entries[i].val]
      BY DEF EntryAt
    <3> HIDE DEF l, r, x
    <3>7. r.base \in Nat /\ e \in Nat /\ Size(r) = e + 1 /\ DOMAIN r.entries = 1..e
          /\ \A y \in DOMAIN r.entries : r.entries[y] \in Entry
      BY <3>4, SizeType
    <3> HIDE DEF e
    <3>8. i \in 1..e /\ r.base + x - 2 = r.base + i - 1 /\ r.base + i - 1 \in Nat
      BY <3>3, <3>4, <3>7
    <3> HIDE DEF i
    <3>9. i \in DOMAIN r.entries /\ r.entries[i] \in Entry
      BY <3>7, <3>8
    <3>10. Replay(f, n)[k] = [seq |-> r.base + i - 1, val |-> r.entries[i].val]
      BY <3>5, <3>6, <3>8
    <3>11. Replay(f, n)[k] \in MemEntry
      BY <3>8, <3>9, <3>10 DEF Entry, MemEntry
    <3>12. <<k, Replay(f, n)[k]>> \in IssuedBy(r)
      BY <3>3, <3>9, <3>10, Zenon DEF IssuedBy
    <3>13. QED
      BY <3>4, <3>11, <3>12
  <2>3. QED
    BY <2>1, <2>2
<1>2. Replay(f, n) = [k \in Keys |-> Replay(f, n)[k]]
  BY DEF Replay
<1>3. QED
  BY <1>1, <1>2, Zenon DEF Shows

LEMMA RecoveredSequenceType ==
  ASSUME NEW f \in Seq(Cell), NEW n \in 0..Len(f), ValidPrefix(f, n)
  PROVE  RecoveredSequence(f, n) \in Nat \ {0}
<1>0. n \in Nat
  OBVIOUS
<1>1. CASE n = 0
  BY <1>1 DEF RecoveredSequence, FirstSequence
<1>2. CASE n /= 0
  <2> DEFINE end(i) == f[i].rec.base + Len(f[i].rec.entries)
             ends == {end(i) : i \in 1..n}
             h == [i \in 1..n |-> end(i)]
             e == CHOOSE e \in ends : \A d \in ends : d <= e
  <2>1. ASSUME NEW i \in 1..n
        PROVE  end(i) \in Nat
    <3>1. i \in 1..Len(f) /\ f[i] /= Zero
      BY DEF ValidPrefix
    <3>2. f[i].rec \in Record
      BY <3>1, CellShape
    <3>3. QED
      BY <3>2, SizeType
  <2>2. \A i \in 1..n : h[i] = end(i)
    OBVIOUS
  <2>3. RecoveredSequence(f, n) = 1 + e
    BY <1>2 DEF RecoveredSequence
  <2> HIDE DEF end, h
  <2>4. PICK i \in 1..n : \A j \in 1..n : h[j] <= h[i]
    <3>1. n > 0 /\ \A i \in 1..n : h[i] \in Nat
      BY <1>0, <1>2, <2>1, <2>2
    <3>2. QED
      BY <1>0, <3>1, LargestValue, Zenon
  <2>5. end(i) \in ends /\ \A d \in ends : d <= end(i)
    BY <2>2, <2>4
  <2>6. e \in ends
    BY <2>5
  <2>7. e \in Nat
    BY <2>1, <2>6, Zenon
  <2>8. QED
    BY <2>3, <2>7
<1>3. QED
  BY <1>1, <1>2

(***************************************************************************)
(* The file: every write and write-back keeps it a sequence of cells of    *)
(* records that were handed to writeGroup.                                 *)
(***************************************************************************)
FileInv ==
  /\ cache \in Seq(Cell) /\ disk \in Seq(Cell)
  /\ dirty \subseteq 1..Len(cache)
  /\ Written(cache, issued) /\ Written(disk, issued)

LEMMA FcnSeq ==
  ASSUME NEW S, NEW n \in Nat, NEW f \in [1..n -> S]
  PROVE  f \in Seq(S) /\ Len(f) = n
OBVIOUS

LEMMA PrefixIs ==
  ASSUME NEW S, NEW f \in Seq(S), NEW n \in 0..Len(f)
  PROVE  /\ SubSeq(f, 1, n) \in Seq(S) /\ Len(SubSeq(f, 1, n)) = n
         /\ \A i \in 1..n : SubSeq(f, 1, n)[i] = f[i]
OBVIOUS

LEMMA PrefixWritten ==
  ASSUME NEW S, NEW f \in Seq(Cell), NEW n \in 0..Len(f), Written(f, S)
  PROVE  Written(SubSeq(f, 1, n), S)
<1>1. /\ Len(SubSeq(f, 1, n)) = n
      /\ \A i \in 1..n : SubSeq(f, 1, n)[i] = f[i] /\ i \in 1..Len(f)
  BY PrefixIs
<1>2. QED
  BY <1>1 DEF Written

LEMMA WrittenGrows ==
  ASSUME NEW S, NEW T, NEW f, Written(f, S), S \subseteq T
  PROVE  Written(f, T)
BY DEF Written

LEMMA CellsOf ==
  ASSUME NEW r \in Record, NEW n \in 0..Size(r)
  PROVE  LET s == SubSeq(EncodeBatch(r), 1, n) IN
         /\ s \in Seq(Cell) /\ Len(s) = n
         /\ \A i \in 1..n : s[i] = [rec |-> r, idx |-> i]
<1>1. Size(r) \in Nat
  BY SizeType
<1>2. \A i \in 1..Size(r) : [rec |-> r, idx |-> i] \in Cell
  BY <1>1 DEF Cell
<1>3. EncodeBatch(r) \in [1..Size(r) -> Cell]
  BY <1>2 DEF EncodeBatch
<1>4. EncodeBatch(r) \in Seq(Cell) /\ Len(EncodeBatch(r)) = Size(r)
  BY <1>1, <1>3, FcnSeq
<1>5. \A i \in 1..n : EncodeBatch(r)[i] = [rec |-> r, idx |-> i]
  BY <1>1 DEF EncodeBatch
<1>6. QED
  BY <1>4, <1>5, PrefixIs

LEMMA OverwriteIs ==
  ASSUME NEW f \in Seq(Cell), NEW off \in 0..Len(f), NEW s \in Seq(Cell)
  PROVE  LET g == Overwrite(f, off, s) IN
         /\ g \in Seq(Cell)
         /\ Len(g) >= Len(f) /\ Len(g) >= off + Len(s)
         /\ \A i \in 1..off : g[i] = f[i]
         /\ \A i \in 1..Len(s) : g[off + i] = s[i]
         /\ \A i \in 1..Len(g) : \/ i \in 1..Len(f) /\ g[i] = f[i]
                                 \/ i - off \in 1..Len(s) /\ g[i] = s[i - off]
<1> DEFINE n == Larger(Len(f), off + Len(s))
           g == Overwrite(f, off, s)
<1>1. n \in Nat /\ n >= Len(f) /\ n >= off + Len(s) /\ (n = Len(f) \/ n = off + Len(s))
  BY DEF Larger
<1>2. g = [i \in 1..n |-> IF i > off /\ i <= off + Len(s) THEN s[i - off] ELSE f[i]]
  BY DEF Overwrite
<1> HIDE DEF n, g
<1>3. ASSUME NEW i \in 1..n
      PROVE  /\ \/ i \in 1..Len(f) /\ g[i] = f[i]
                \/ i - off \in 1..Len(s) /\ g[i] = s[i - off]
             /\ g[i] \in Cell
  <2>1. CASE i > off /\ i <= off + Len(s)
    BY <1>1, <1>2, <2>1
  <2>2. CASE ~(i > off /\ i <= off + Len(s))
    <3>1. g[i] = f[i]
      BY <1>2, <2>2
    <3>2. i \in 1..Len(f)
      BY <1>1, <2>2
    <3>3. QED
      BY <3>1, <3>2
  <2>3. QED
    BY <2>1, <2>2
<1>4. g \in [1..n -> Cell]
  BY <1>2, <1>3
<1>5. g \in Seq(Cell) /\ Len(g) = n
  BY <1>1, <1>4, FcnSeq
<1>6. \A i \in 1..off : g[i] = f[i]
  BY <1>1, <1>2
<1>7. \A i \in 1..Len(s) :
        off + i \in 1..n /\ off + i - off = i /\ off + i > off /\ off + i <= off + Len(s)
  BY <1>1
<1>8. \A i \in 1..Len(s) : g[off + i] = s[i]
  BY <1>2, <1>7
<1>9. QED
  BY <1>1, <1>3, <1>5, <1>6, <1>8 DEF g

\* A writev behind walOffset_ that moves n cells of the record.
LEMMA WriteStep ==
  ASSUME FileInv, rec \in Record, IssuedBy(rec) \subseteq issued,
         walOffset \in 0..Len(cache), NEW n \in 0..Size(rec), WriteCells(n),
         issued' = issued
  PROVE  /\ FileInv'
         /\ walOffset + n <= Len(cache') /\ walOffset <= Len(cache')
         /\ \A i \in 1..walOffset : cache'[i] = cache[i]
         /\ \A i \in 1..n : cache'[walOffset + i] = [rec |-> rec, idx |-> i]
<1> DEFINE s == SubSeq(EncodeBatch(rec), 1, n)
<1>0. Size(rec) \in Nat
  BY SizeType
<1>1. s \in Seq(Cell) /\ Len(s) = n /\ \A i \in 1..n : s[i] = [rec |-> rec, idx |-> i]
  BY CellsOf
<1>2. cache' = Overwrite(cache, walOffset, s)
  BY DEF WriteCells
<1> HIDE DEF s
<1>3. cache \in Seq(Cell) /\ disk \in Seq(Cell) /\ dirty \subseteq 1..Len(cache)
  BY DEF FileInv
<1>4. /\ cache' \in Seq(Cell)
      /\ Len(cache') >= Len(cache) /\ Len(cache') >= walOffset + n
      /\ \A i \in 1..walOffset : cache'[i] = cache[i]
      /\ \A i \in 1..n : cache'[walOffset + i] = s[i]
      /\ \A i \in 1..Len(cache') :
           \/ i \in 1..Len(cache) /\ cache'[i] = cache[i]
           \/ i - walOffset \in 1..n /\ cache'[i] = s[i - walOffset]
  BY <1>1, <1>2, <1>3, OverwriteIs
<1>5. dirty' \subseteq 1..Len(cache')
  <2>1. dirty' = dirty \cup (walOffset + 1..walOffset + n)
    BY DEF WriteCells
  <2>2. walOffset + 1..walOffset + n \subseteq 1..Len(cache')
    BY <1>0, <1>4
  <2>3. 1..Len(cache) \subseteq 1..Len(cache')
    BY <1>3, <1>4
  <2>4. QED
    BY <1>3, <2>1, <2>2, <2>3
<1>6. Written(cache', issued)
  <2> SUFFICES ASSUME NEW i \in 1..Len(cache'), cache'[i] /= Zero
               PROVE  /\ cache'[i].idx \in 1..Size(cache'[i].rec)
                      /\ IssuedBy(cache'[i].rec) \subseteq issued
    BY DEF Written
  <2>1. CASE i \in 1..Len(cache) /\ cache'[i] = cache[i]
    BY <2>1 DEF FileInv, Written
  <2>2. CASE i - walOffset \in 1..n /\ cache'[i] = s[i - walOffset]
    <3>1. cache'[i] = [rec |-> rec, idx |-> i - walOffset]
      BY <1>1, <2>2
    <3>2. QED
      BY <1>0, <2>2, <3>1
  <2>3. QED
    BY <1>4, <2>1, <2>2
<1>7. disk' \in Seq(Cell) /\ Written(disk', issued)
  <2>1. CASE disk' = disk
    BY <1>3, <2>1 DEF FileInv
  <2>2. CASE Len(cache) < Len(disk) /\ disk' = SubSeq(disk, 1, Len(cache))
    <3>1. Len(cache) \in 0..Len(disk)
      BY <1>3, <2>2
    <3>2. QED
      BY <1>3, <2>2, <3>1, PrefixIs, PrefixWritten DEF FileInv
  <2>3. QED
    BY <2>1, <2>2 DEF WriteCells
<1>8. QED
  BY <1>1, <1>3, <1>4, <1>5, <1>6, <1>7 DEF FileInv

\* What may be on disk after cells were written back.
LEMMA WriteBackStep ==
  ASSUME FileInv, NEW W \in SUBSET dirty, NEW n \in Nat
  PROVE  WrittenBack(W, n) \in Seq(Cell) /\ Written(WrittenBack(W, n), issued)
<1> DEFINE g == WrittenBack(W, n)
           Fine(c) == c /= Zero => c.idx \in 1..Size(c.rec) /\ IssuedBy(c.rec) \subseteq issued
<1>1. g = [i \in 1..n |-> IF i \in W THEN cache[i]
                          ELSE IF i <= Len(disk) THEN disk[i] ELSE Zero]
  BY DEF WrittenBack
<1>2. cache \in Seq(Cell) /\ disk \in Seq(Cell) /\ W \subseteq 1..Len(cache) /\ Zero \in Cell
  BY DEF FileInv, Cell
<1>3. /\ \A i \in 1..Len(cache) : cache[i] \in Cell /\ Fine(cache[i])
      /\ \A i \in 1..Len(disk) : disk[i] \in Cell /\ Fine(disk[i])
  BY <1>2, CellShape DEF FileInv, Written
<1>4. Zero \in Cell /\ Fine(Zero)
  BY <1>2
<1> HIDE DEF g, Fine
<1>5. ASSUME NEW i \in 1..n
      PROVE  g[i] \in Cell /\ Fine(g[i])
  <2>1. CASE i \in W
    BY <1>1, <1>2, <1>3, <2>1
  <2>2. CASE i \notin W /\ i <= Len(disk)
    <3>1. g[i] = disk[i] /\ i \in 1..Len(disk)
      BY <1>1, <1>2, <2>2
    <3>2. QED
      BY <1>3, <3>1
  <2>3. CASE i \notin W /\ ~(i <= Len(disk))
    BY <1>1, <1>4, <2>3
  <2>4. QED
    BY <2>1, <2>2, <2>3
<1>6. g \in [1..n -> Cell]
  BY <1>1, <1>5
<1>7. g \in Seq(Cell) /\ Len(g) = n
  BY <1>6, FcnSeq
<1>8. Written(g, issued)
  BY <1>5, <1>7 DEF Written, Fine
<1>9. QED
  BY <1>7, <1>8 DEF g

LEMMA LengthsAreNat ==
  ASSUME FileInv, NEW W, NEW n \in Lengths(W)
  PROVE  n \in Nat
BY DEF FileInv, Lengths

LEMMA SyncStep ==
  ASSUME FileInv, Sync \/ SyncFailed, issued' = issued
  PROVE  FileInv' /\ cache' = cache
<1>1. cache' = cache /\ dirty' \subseteq 1..Len(cache)
  BY Zenon DEF Sync, SyncFailed, FileInv
<1>2. disk' \in Seq(Cell) /\ Written(disk', issued)
  <2>1. CASE Sync
    <3>1. Len(cache) \in Nat /\ dirty \in SUBSET dirty
      BY DEF FileInv
    <3>2. QED
      BY <2>1, <3>1, WriteBackStep DEF Sync
  <2>2. CASE SyncFailed
    <3>1. PICK W \in SUBSET dirty : \E n \in Lengths(W) : disk' = WrittenBack({i \in W : i <= n}, n)
      BY <2>2, Zenon DEF SyncFailed
    <3>2. PICK n \in Lengths(W) : disk' = WrittenBack({i \in W : i <= n}, n)
      BY <3>1
    <3>3. n \in Nat /\ {i \in W : i <= n} \in SUBSET dirty
      BY LengthsAreNat
    <3>4. QED
      BY <3>2, <3>3, WriteBackStep
  <2>3. QED
    BY <2>1, <2>2
<1>3. QED
  BY <1>1, <1>2 DEF FileInv

LEMMA PowerLossStep ==
  ASSUME FileInv, PowerLoss
  PROVE  FileInv'
<1>1. cache' = disk' /\ dirty' = {} /\ issued' = issued
  BY DEF PowerLoss, history
<1>2. disk' \in Seq(Cell) /\ Written(disk', issued)
  <2>1. CASE disk' = <<>>
    BY <2>1 DEF Written
  <2>2. CASE disk' /= <<>>
    <3>1. PICK W \in SUBSET dirty : \E n \in Lengths(W) : disk' = WrittenBack({i \in W : i <= n}, n)
      BY <2>2 DEF PowerLoss
    <3>2. PICK n \in Lengths(W) : disk' = WrittenBack({i \in W : i <= n}, n)
      BY <3>1
    <3>3. n \in Nat /\ {i \in W : i <= n} \in SUBSET dirty
      BY LengthsAreNat
    <3>4. QED
      BY <3>2, <3>3, WriteBackStep
  <2>3. QED
    BY <2>1, <2>2
<1>3. QED
  BY <1>1, <1>2 DEF FileInv

(***************************************************************************)
(* The inductive invariant.  MemMatchesLog speaks of a store between two   *)
(* groups; that it survives a group needs to be known of every phase in    *)
(* between: the log up to walOffset_ is untouched, and from the complete   *)
(* writev on the record in flight stands right behind it.                  *)
(***************************************************************************)
MemberTypes ==
  /\ faults \in FaultSets
  /\ phase \in Phases
  /\ opened \in {"none", "ok", "ioerror", "corruption"}
  /\ walOffset \in Nat
  /\ nextSequence \in Nat \ {0}
  /\ mem \in [Keys -> MemEntry]
  /\ rec \in Record
  /\ acked \in [Keys -> MemEntry]
  /\ groups \in Nat
  /\ opens \in Nat

LogHead ==
  phase /= "down" =>
    /\ walOffset <= Len(cache)
    /\ ValidPrefix(cache, walOffset)
    /\ mem = Replay(cache, walOffset)

InFlight ==
  /\ phase \in {"encoded", "written", "synced"} => IssuedBy(rec) \subseteq issued
  /\ phase \in {"written", "synced"} => RecordAt(cache, walOffset, rec)

LogInv == MemberTypes /\ FileInv /\ LogHead /\ InFlight

LEMMA NoRecordType == NoRecord \in Record /\ IssuedBy(NoRecord) = {}
BY DEF NoRecord, Record, IssuedBy

LEMMA BlankType == [k \in Keys |-> Untouched] \in [Keys -> MemEntry]
BY UntouchedType

LEMMA LogInvInit == Init => LogInv
<1> SUFFICES ASSUME Init
             PROVE  LogInv
  OBVIOUS
<1>1. MemberTypes
  BY NoRecordType, BlankType DEF Init, MemberTypes, Phases, FirstSequence
<1>2. FileInv
  BY DEF Init, FileInv, Written
<1>3. QED
  BY <1>1, <1>2 DEF LogInv, LogHead, InFlight, Init

\* Without a DB object nothing is promised of the members.
LEMMA DownStep ==
  ASSUME MemberTypes, Down, FileInv', faults' = faults, acked' \in [Keys -> MemEntry],
         opened' \in {"none", "ok", "ioerror", "corruption"},
         groups' \in Nat, opens' \in Nat
  PROVE  LogInv'
<1>1. MemberTypes'
  BY NoRecordType, BlankType DEF Down, MemberTypes, Phases, FirstSequence
<1>2. LogHead' /\ InFlight'
  BY DEF Down, LogHead, InFlight
<1>3. QED
  BY <1>1, <1>2 DEF LogInv

\* The log up to walOffset_ is the same in a file with the same cells there.
LEMMA HeadKept ==
  ASSUME FileInv, FileInv', LogHead, phase /= "down", walOffset \in Nat,
         walOffset' = walOffset, mem' = mem, walOffset <= Len(cache'),
         \A i \in 1..walOffset : cache'[i] = cache[i]
  PROVE  LogHead'
<1>1. /\ walOffset <= Len(cache) /\ ValidPrefix(cache, walOffset)
      /\ mem = Replay(cache, walOffset)
  BY DEF LogHead
<1>2. cache \in Seq(Cell) /\ cache' \in Seq(Cell)
  BY DEF FileInv
<1>3. ValidPrefix(cache', walOffset)
  BY <1>1, <1>2, SamePrefix
<1>4. Replay(cache', walOffset) = Replay(cache, walOffset)
  BY SameReplay
<1>5. QED
  BY <1>1, <1>3, <1>4 DEF LogHead

LEMMA RecoveredStep ==
  ASSUME LogInv, phase = "down", rec' = rec, faults' = faults, acked' = acked,
         issued' = issued, groups' = groups, opens' \in Nat,
         NEW m \in 0..Len(cache), NEW n \in 0..m,
         ValidPrefix(SubSeq(cache, 1, m), n), Recovered(m, n)
  PROVE  LogInv'
<1> DEFINE bytes == SubSeq(cache, 1, m)
<1>0. /\ cache \in Seq(Cell) /\ disk \in Seq(Cell) /\ dirty \subseteq 1..Len(cache)
      /\ Written(cache, issued) /\ Written(disk, issued)
  BY DEF LogInv, FileInv
<1>1. bytes \in Seq(Cell) /\ Len(bytes) = m /\ \A i \in 1..m : bytes[i] = cache[i]
  BY <1>0, PrefixIs
<1>2. Written(bytes, issued)
  BY <1>0, PrefixWritten
<1>3. mem' = Replay(bytes, n) /\ walOffset' = n /\ nextSequence' = RecoveredSequence(bytes, n)
  BY DEF Recovered
<1> HIDE DEF bytes
<1>4. n \in Nat /\ n \in 0..Len(bytes) /\ n \in 0..Len(cache) /\ ValidPrefix(bytes, n)
      /\ n <= Len(cache) /\ n <= Len(bytes)
  BY <1>0, <1>1 DEF bytes
<1>5. mem' \in [Keys -> MemEntry] /\ nextSequence' \in Nat \ {0}
  BY <1>1, <1>2, <1>3, <1>4, ReplayShows, RecoveredSequenceType
<1>6. /\ phase' \in {"truncated", "idle"} /\ opened' \in {"none", "ok"}
  BY DEF Recovered
<1>7. MemberTypes'
  BY <1>3, <1>4, <1>5, <1>6 DEF LogInv, MemberTypes, Phases
<1>8. \/ cache' = cache /\ disk' = disk /\ dirty' = dirty
      \/ cache' = SubSeq(cache, 1, n) /\ disk' = disk /\ dirty' = {i \in dirty : i <= n}
  BY DEF Recovered, file
<1>9. /\ FileInv' /\ n <= Len(cache') /\ \A i \in 1..n : cache'[i] = bytes[i]
  <2>0. \A i \in 1..n : bytes[i] = cache[i]
    BY <1>1, <1>4
  <2>1. CASE cache' = cache /\ disk' = disk /\ dirty' = dirty
    BY <1>0, <1>4, <2>0, <2>1 DEF FileInv
  <2>2. CASE cache' = SubSeq(cache, 1, n) /\ disk' = disk /\ dirty' = {i \in dirty : i <= n}
    <3>1. cache' \in Seq(Cell) /\ Len(cache') = n /\ \A i \in 1..n : cache'[i] = cache[i]
      BY <1>0, <1>4, <2>2, PrefixIs
    <3>2. Written(cache', issued)
      BY <1>0, <1>4, <2>2, PrefixWritten
    <3>3. dirty' \subseteq 1..Len(cache')
      <4>1. \A i \in dirty' : i \in 1..Len(cache) /\ i <= n
        BY <1>0, <2>2
      <4>2. \A i \in dirty' : i \in 1..n
        BY <1>4, <4>1
      <4>3. QED
        BY <3>1, <4>2
    <3>4. QED
      BY <1>0, <1>4, <2>0, <2>2, <3>1, <3>2, <3>3 DEF FileInv
  <2>3. QED
    BY <1>8, <2>1, <2>2
<1>10. cache' \in Seq(Cell)
  BY <1>9 DEF FileInv
<1>11. ValidPrefix(cache', n)
  BY <1>1, <1>4, <1>9, <1>10, SamePrefix
<1>12. Replay(cache', n) = Replay(bytes, n)
  BY <1>4, <1>9, SameReplay
<1>13. LogHead'
  BY <1>3, <1>9, <1>11, <1>12 DEF LogHead
<1>14. InFlight'
  BY <1>6 DEF InFlight
<1>15. QED
  BY <1>7, <1>9, <1>13, <1>14 DEF LogInv

LEMMA OpenStep ==
  ASSUME LogInv, Open, faults' = faults
  PROVE  LogInv'
<1>0. phase = "down" /\ opens' \in Nat
  BY DEF LogInv, MemberTypes, Open
<1>1. CASE \E why \in {"corruption", "ioerror"} : OpenFails(why)
  <2>1. /\ Down /\ opened' \in {"corruption", "ioerror"} /\ UNCHANGED file
        /\ acked' = acked /\ issued' = issued /\ groups' = groups
    BY <1>1 DEF OpenFails
  <2>2. FileInv'
    BY <2>1 DEF LogInv, FileInv, file
  <2>3. MemberTypes /\ acked' \in [Keys -> MemEntry] /\ groups' \in Nat
    BY <2>1 DEF LogInv, MemberTypes
  <2>4. opened' \in {"none", "ok", "ioerror", "corruption"}
    BY <2>1
  <2>5. QED
    BY <1>0, <2>1, <2>2, <2>3, <2>4, DownStep
<1>2. CASE ~\E why \in {"corruption", "ioerror"} : OpenFails(why)
  <2>1. PICK m \in ReadLengths : \E n \in 0..m :
          /\ IsValidBytes(SubSeq(cache, 1, m), n)
          /\ Recovered(m, n) /\ UNCHANGED <<rec, acked, issued, groups>>
    BY <1>2 DEF Open
  <2>2. PICK n \in 0..m :
          /\ IsValidBytes(SubSeq(cache, 1, m), n)
          /\ Recovered(m, n) /\ UNCHANGED <<rec, acked, issued, groups>>
    BY <2>1
  <2>3. m \in 0..Len(cache)
    BY DEF ReadLengths, LogInv, FileInv
  <2>4. ValidPrefix(SubSeq(cache, 1, m), n)
    BY <2>2 DEF IsValidBytes
  <2>5. QED
    BY <1>0, <2>2, <2>3, <2>4, RecoveredStep
<1>3. QED
  BY <1>1, <1>2

LEMMA RecoverSyncStep ==
  ASSUME LogInv, RecoverSync, faults' = faults
  PROVE  LogInv'
<1>0. /\ phase = "truncated" /\ acked' = acked /\ issued' = issued
      /\ groups' = groups /\ opens' = opens
  BY DEF RecoverSync
<1>1. FileInv' /\ cache' = cache
  BY <1>0, SyncStep DEF LogInv, RecoverSync
<1>2. CASE phase' = "idle" /\ opened' = "ok" /\ UNCHANGED <<members, rec>>
  <2>1. MemberTypes'
    BY <1>0, <1>2 DEF LogInv, MemberTypes, Phases, members
  <2>2. LogHead' /\ InFlight'
    BY <1>0, <1>1, <1>2 DEF LogInv, LogHead, InFlight, members
  <2>3. QED
    BY <1>1, <2>1, <2>2 DEF LogInv
<1>3. CASE Down /\ opened' = "ioerror"
  <2>1. MemberTypes /\ acked' \in [Keys -> MemEntry] /\ groups' \in Nat /\ opens' \in Nat
    BY <1>0 DEF LogInv, MemberTypes
  <2>2. QED
    BY <1>1, <1>3, <2>1, DownStep
<1>4. QED
  BY <1>2, <1>3 DEF RecoverSync

LEMMA WriteGroupStep ==
  ASSUME LogInv, NEW g \in Groups, WriteGroup(g), faults' = faults
  PROVE  LogInv'
<1>0. /\ phase = "idle" /\ phase' = "encoded" /\ groups' = groups + 1
      /\ rec' = [base |-> nextSequence, entries |-> g]
      /\ issued' = issued \cup IssuedBy(rec')
      /\ UNCHANGED <<file, opened, members, acked, opens>>
  BY DEF WriteGroup, EncodeGroup
<1>1. rec' \in Record
  BY <1>0, WalStoreAssumption DEF LogInv, MemberTypes, Record
<1>2. MemberTypes'
  BY <1>0, <1>1 DEF LogInv, MemberTypes, Phases, members
<1>3. FileInv'
  <2>1. Written(cache, issued') /\ Written(disk, issued')
    BY <1>0, WrittenGrows DEF LogInv, FileInv
  <2>2. QED
    BY <1>0, <2>1 DEF LogInv, FileInv, file
<1>4. LogHead' /\ InFlight'
  BY <1>0 DEF LogInv, LogHead, InFlight, members, file
<1>5. QED
  BY <1>2, <1>3, <1>4 DEF LogInv

\* A length field that one writev can move does not wrap around.
LEMMA LengthFits ==
  ASSUME NEW r \in Record, Size(r) <= MaxTransfer
  PROVE  Announced(r) = Size(r)
<1> DEFINE e == Len(r.entries)
<1>1. e \in Nat /\ Size(r) = e + 1
  BY SizeType
<1>2. Announced(r) = 1 + (e % Limit32)
  BY DEF Announced
<1> HIDE DEF e
<1>3. Limit32 \in Nat /\ e < Limit32
  BY <1>1, WalStoreAssumption, WalFormatAssumption
<1>4. e % Limit32 = e
  BY <1>1, <1>3
<1>5. QED
  BY <1>1, <1>2, <1>4

LEMMA WritevStep ==
  ASSUME LogInv, NEW n \in Transfers(rec), Writev(n), faults' = faults
  PROVE  LogInv'
<1>0. /\ phase = "encoded" /\ WriteCells(n) /\ UNCHANGED <<opened, members, history>>
      /\ issued' = issued /\ walOffset' = walOffset /\ mem' = mem
  BY DEF Writev, members, history
<1>1. /\ FileInv /\ rec \in Record /\ IssuedBy(rec) \subseteq issued /\ walOffset \in Nat
      /\ walOffset <= Len(cache) /\ cache \in Seq(Cell) /\ LogHead
  BY <1>0 DEF LogInv, MemberTypes, FileInv, LogHead, InFlight
<1>2. Size(rec) \in Nat /\ MaxTransfer \in Nat
  BY <1>1, SizeType, WalStoreAssumption, WalFormatAssumption
<1>3. n \in 0..Size(rec) /\ n <= MaxTransfer
  BY <1>2 DEF Transfers
<1>4. walOffset \in 0..Len(cache)
  BY <1>1
<1>5. /\ FileInv' /\ walOffset + n <= Len(cache') /\ walOffset <= Len(cache')
      /\ \A i \in 1..walOffset : cache'[i] = cache[i]
      /\ \A i \in 1..n : cache'[walOffset + i] = [rec |-> rec, idx |-> i]
  BY <1>0, <1>1, <1>3, <1>4, WriteStep
<1>6. LogHead'
  BY <1>0, <1>1, <1>5, HeadKept
<1>7. CASE n = Size(rec) /\ phase' = "written" /\ rec' = rec
  <2>1. MemberTypes'
    BY <1>0, <1>7 DEF LogInv, MemberTypes, Phases, members, history
  <2>2. RecordAt(cache', walOffset, rec)
    BY <1>1, <1>3, <1>5, <1>7, LengthFits DEF RecordAt
  <2>3. InFlight'
    BY <1>0, <1>1, <1>7, <2>2 DEF InFlight
  <2>4. QED
    BY <1>5, <1>6, <2>1, <2>3 DEF LogInv
<1>8. CASE GroupEnds
  <2>1. MemberTypes'
    BY <1>0, <1>8, NoRecordType DEF LogInv, MemberTypes, Phases, members, history, GroupEnds
  <2>2. InFlight'
    BY <1>8 DEF InFlight, GroupEnds
  <2>3. QED
    BY <1>5, <1>6, <2>1, <2>2 DEF LogInv
<1>9. QED
  BY <1>7, <1>8 DEF Writev, WrittenInFull

LEMMA FDataSyncStep ==
  ASSUME LogInv, FDataSync, faults' = faults
  PROVE  LogInv'
<1>0. phase = "written" /\ UNCHANGED <<opened, members, history>> /\ issued' = issued
  BY DEF FDataSync, history
<1>1. FileInv' /\ cache' = cache
  BY <1>0, SyncStep DEF LogInv, FDataSync
<1>2. (phase' = "synced" /\ rec' = rec) \/ GroupEnds
  BY DEF FDataSync
<1>3. MemberTypes'
  BY <1>0, <1>2, NoRecordType DEF LogInv, MemberTypes, Phases, members, history, GroupEnds
<1>4. LogHead' /\ InFlight'
  BY <1>0, <1>1, <1>2 DEF LogInv, LogHead, InFlight, members, GroupEnds
<1>5. QED
  BY <1>1, <1>3, <1>4 DEF LogInv

LEMMA ApplyStep ==
  ASSUME LogInv, Apply, faults' = faults
  PROVE  LogInv'
<1>0. /\ phase = "synced" /\ phase' = "idle" /\ rec' = NoRecord
      /\ mem' = ApplyRecord(mem, rec) /\ walOffset' = walOffset + Size(rec)
      /\ nextSequence' = nextSequence + Len(rec.entries)
      /\ acked' = ApplyRecord(acked, rec)
      /\ UNCHANGED <<file, opened, issued, groups, opens>>
  BY DEF Apply, MayApply, NextOffset, GroupEnds
<1>1. /\ rec \in Record /\ cache \in Seq(Cell) /\ walOffset \in 0..Len(cache)
      /\ ValidPrefix(cache, walOffset) /\ RecordAt(cache, walOffset, rec)
      /\ mem = Replay(cache, walOffset)
  BY <1>0 DEF LogInv, MemberTypes, FileInv, LogHead, InFlight
<1>2. Size(rec) \in Nat /\ Len(rec.entries) \in Nat
  BY <1>1, SizeType
<1>3. ValidPrefix(cache, walOffset + Size(rec)) /\ mem' = Replay(cache, walOffset + Size(rec))
  BY <1>0, <1>1, ExtendPrefix, ExtendReplay
<1>4. walOffset + Size(rec) <= Len(cache)
  BY <1>1 DEF RecordAt
<1>5. mem' \in [Keys -> MemEntry] /\ acked' \in [Keys -> MemEntry]
  BY <1>0, <1>1, ApplyTypes DEF LogInv, MemberTypes
<1>6. MemberTypes'
  BY <1>0, <1>1, <1>2, <1>5, NoRecordType DEF LogInv, MemberTypes, Phases
<1>7. FileInv'
  BY <1>0 DEF LogInv, FileInv, file
<1>8. LogHead' /\ InFlight'
  BY <1>0, <1>3, <1>4 DEF LogHead, InFlight, file
<1>9. QED
  BY <1>6, <1>7, <1>8 DEF LogInv

LEMMA CloseStep ==
  ASSUME LogInv, Close, faults' = faults
  PROVE  LogInv'
<1>1. Down /\ UNCHANGED <<file, opened, history>>
  BY DEF Close, CloseFile
<1>2. FileInv'
  BY <1>1 DEF LogInv, FileInv, file, history
<1>3. /\ MemberTypes /\ acked' \in [Keys -> MemEntry] /\ groups' \in Nat /\ opens' \in Nat
      /\ opened' \in {"none", "ok", "ioerror", "corruption"}
  BY <1>1 DEF LogInv, MemberTypes, history
<1>4. QED
  BY <1>1, <1>2, <1>3, DownStep

LEMMA ProcessCrashStep ==
  ASSUME LogInv, ProcessCrash, faults' = faults
  PROVE  LogInv'
<1>1. phase /= "down" /\ Down /\ opened' = "none" /\ UNCHANGED history
  BY DEF ProcessCrash
<1>2. FileInv'
  <2>1. CASE UNCHANGED file
    BY <1>1, <2>1 DEF LogInv, FileInv, file, history
  <2>2. CASE phase = "encoded" /\ \E n \in 0..Size(rec) : WriteCells(n)
    <3>1. PICK n \in 0..Size(rec) : WriteCells(n)
      BY <2>2
    <3>2. /\ FileInv /\ rec \in Record /\ IssuedBy(rec) \subseteq issued
          /\ walOffset \in 0..Len(cache) /\ issued' = issued
      BY <1>1, <2>2 DEF LogInv, MemberTypes, FileInv, LogHead, InFlight, history
    <3>3. QED
      BY <3>1, <3>2, WriteStep
  <2>3. QED
    BY <2>1, <2>2 DEF ProcessCrash
<1>3. MemberTypes /\ acked' \in [Keys -> MemEntry] /\ groups' \in Nat /\ opens' \in Nat
  BY <1>1 DEF LogInv, MemberTypes, history
<1>4. QED
  BY <1>1, <1>2, <1>3, DownStep

LEMMA LogInvStep == LogInv /\ [Next]_vars => LogInv'
<1> SUFFICES ASSUME LogInv, [Next]_vars
             PROVE  LogInv'
  OBVIOUS
<1>1. CASE UNCHANGED vars
  BY <1>1 DEF vars, file, members, history, LogInv, MemberTypes, FileInv, LogHead, InFlight
<1>2. CASE Next /\ ~UNCHANGED vars
  <2>1. faults' = faults
    BY <1>2 DEF Next
  <2>2. CASE Open
    BY <2>1, <2>2, OpenStep
  <2>3. CASE RecoverSync
    BY <2>1, <2>3, RecoverSyncStep
  <2>4. CASE \E g \in Groups : WriteGroup(g)
    BY <2>1, <2>4, WriteGroupStep
  <2>5. CASE \E n \in Transfers(rec) : Writev(n)
    BY <2>1, <2>5, WritevStep
  <2>6. CASE FDataSync
    BY <2>1, <2>6, FDataSyncStep
  <2>7. CASE Apply
    BY <2>1, <2>7, ApplyStep
  <2>8. CASE Close
    BY <2>1, <2>8, CloseStep
  <2>9. CASE ProcessCrash
    BY <2>1, <2>9, ProcessCrashStep
  <2>10. CASE PowerLoss
    <3>1. Down /\ opened' = "none" /\ UNCHANGED history /\ FileInv'
      BY <2>10, PowerLossStep DEF LogInv, PowerLoss
    <3>2. MemberTypes /\ acked' \in [Keys -> MemEntry] /\ groups' \in Nat /\ opens' \in Nat
      BY <3>1 DEF LogInv, MemberTypes, history
    <3>3. QED
      BY <2>1, <3>1, <3>2, DownStep
  <2>11. QED
    BY <1>2, <2>2, <2>3, <2>4, <2>5, <2>6, <2>7, <2>8, <2>9, <2>10 DEF Next, Finished
<1>3. QED
  BY <1>1, <1>2

\* The inductive invariant holds whatever goes wrong.
THEOREM LogInvAlways == Spec => []LogInv
<1>1. Init => LogInv
  BY LogInvInit
<1>2. LogInv /\ [Next]_vars => LogInv'
  BY LogInvStep
<1>3. QED
  BY <1>1, <1>2, PTL DEF Spec

\* The members of DB and the file always have their types: offsets and sequence
\* numbers are in range and every cell that is replayed is one.
THEOREM TypeCorrect == Spec => []TypeOK
<1>1. LogInv => TypeOK
  BY DEF LogInv, MemberTypes, FileInv, TypeOK
<1>2. QED
  BY <1>1, LogInvAlways, PTL

\* Whatever fails, between two groups the memtable that writeGroup built entry
\* by entry is the one that recover would build from the file, and walOffset_
\* is the end of a sequence of whole records.
THEOREM MemAlwaysMatchesLog == Spec => []MemMatchesLog
<1>1. LogInv => MemMatchesLog
  BY DEF LogInv, LogHead, MemMatchesLog
<1>2. QED
  BY <1>1, LogInvAlways, PTL

\* Whatever fails, Get returns only what was handed to writeGroup for that key,
\* with the sequence number it was given there: recover never makes an entry
\* out of the remains of several.
THEOREM NeverPhantom == Spec => []NoPhantom
<1>1. LogInv => NoPhantom
  <2> SUFFICES ASSUME LogInv, IsOpen
               PROVE  \A k \in Keys : mem[k] = Untouched \/ <<k, mem[k]>> \in issued
    BY Zenon DEF NoPhantom
  <2>1. /\ cache \in Seq(Cell) /\ walOffset \in 0..Len(cache) /\ Written(cache, issued)
        /\ ValidPrefix(cache, walOffset) /\ mem = Replay(cache, walOffset)
    BY DEF LogInv, MemberTypes, FileInv, LogHead, IsOpen
  <2>2. Shows(mem, issued)
    BY <2>1, ReplayShows
  <2>3. QED
    BY <2>2, Zenon DEF Shows
<1>2. QED
  BY <1>1, LogInvAlways, PTL
=============================================================================
