------------------------------ MODULE WalFormat ------------------------------
(***************************************************************************)
(* The write-ahead log file (src/src/wal.cc) at the granularity at which   *)
(* its decoder can tell things apart.                                      *)
(*                                                                         *)
(* A record is [base, entries]: the baseSequence and the entries of all    *)
(* batches of one group.  Its bytes are a sequence of cells: cell 1 is the *)
(* record header with the batch header (checksum, length, type,            *)
(* baseSequence, entry count), cell i + 1 is entry i.  A cell carries the  *)
(* record it was encoded from, so two records have a cell in common only   *)
(* where they are the same record; the checksum of a record matches iff    *)
(* its length does and all its cells are its own.  Zero is a cell of zero  *)
(* bytes.  WalRecovery shows that this is what the bytes of WalBytes give. *)
(***************************************************************************)
EXTENDS Integers, Sequences

CONSTANTS
  Keys,      \* user keys
  Values,    \* values that Put stores
  Deleted,   \* what Delete stores: a tombstone
  Limit32    \* entry cells that a 32-bit length field cannot count any more

ASSUME WalFormatAssumption == Deleted \notin Values /\ Limit32 \in Nat \ {0}

Entry  == [key : Keys, val : Values \cup {Deleted}]
Record == [base : Nat \ {0}, entries : Seq(Entry)]

\* A cell of zero bytes: no record has a cell 0.
Zero == [rec |-> [base |-> 0, entries |-> <<>>], idx |-> 0]
Cell == [rec : Record, idx : Nat \ {0}] \cup {Zero}

Size(r) == 1 + Len(r.entries)

\* The size that the header announces: payloadLength is a uint32_t.
Announced(r) == 1 + (Len(r.entries) % Limit32)

\* EncodeBatchFragmentsInto and EncodeBatchInto produce the same bytes.
EncodeBatch(r) == [i \in 1..Size(r) |-> [rec |-> r, idx |-> i]]

\* The cells of r stand in file f directly behind the first p cells.
RecordAt(f, p, r) ==
  /\ Announced(r) = Size(r)
  /\ p + Size(r) <= Len(f)
  /\ \A i \in 1..Size(r) : f[p + i] = [rec |-> r, idx |-> i]

\* The position behind which the record of cell i starts.
StartOf(f, i) == i - f[i].idx

\* The first n cells are whole records: each of them is a cell of a record
\* that stands, complete, among the first n.
ValidPrefix(f, n) ==
  \A i \in 1..n :
    /\ f[i] /= Zero
    /\ StartOf(f, i) >= 0
    /\ StartOf(f, i) + Size(f[i].rec) <= n
    /\ RecordAt(f, StartOf(f, i), f[i].rec)

\* What DecodeLog calls validBytes: where the longest such prefix ends.
IsValidBytes(f, n) ==
  /\ n \in 0..Len(f)
  /\ ValidPrefix(f, n)
  /\ \A m \in n + 1..Len(f) : ~ValidPrefix(f, m)

\* A cell that does not belong there stands among the cells of record r.
Intruded(f, n, r) ==
  \E i \in n + 2..Len(f) :
    i <= n + Announced(r) /\ f[i] \notin {Zero, [rec |-> r, idx |-> i - n]}

\* Why the loop of DecodeLog ends behind the first n cells, n = validBytes:
\*   "end"        there is nothing more to read;
\*   "torn"       the rest is taken for an incomplete trailing record;
\*   "corruption" DecodeLog returns Status::Corruption.
\* A zero cell has length 0 and a type that is not kBatchRecord, and the type
\* is looked at before the checksum.  A header whose record reaches beyond
\* the end of the file is torn.  A record with a wrong checksum is torn if it
\* ends the file and corrupt otherwise; where its bytes end is not known when
\* other cells, of other lengths, stand among its own.  Entry bytes read as
\* a header may announce any length and type: they look torn or corrupt.
StopReasons(f, n) ==
  IF n = Len(f) THEN {"end"}
  ELSE LET c == f[n + 1] IN
       IF c = Zero THEN {"corruption"}
       ELSE IF c.idx > 1 \/ Intruded(f, n, c.rec) THEN {"torn", "corruption"}
       ELSE IF n + Announced(c.rec) >= Len(f) THEN {"torn"}
       ELSE {"corruption"}

\* The records among the first n cells of a file, as the set of <<offset,
\* record>> pairs; DecodeLog returns them in the order of the offsets.
RecordsIn(f, n) ==
  {<<StartOf(f, i), f[i].rec>> : i \in {j \in 1..n : f[j].idx = 1}}

\* MemTable::ApplyBatches for every record in turn, into an empty table: the
\* last entry for a key wins.  Absent keys have sequence 0.
Untouched == [seq |-> 0, val |-> Deleted]

EntryCells(f, n, k) ==
  {i \in 1..n : f[i].idx > 1 /\ f[i].rec.entries[f[i].idx - 1].key = k}

\* Mutant: the sequence of an entry is counted from 1.
EntryAt_FromOne(f, i) ==
  [seq |-> f[i].rec.base + f[i].idx - 1, val |-> f[i].rec.entries[f[i].idx - 1].val]

EntryAt(f, i) ==
  [seq |-> f[i].rec.base + f[i].idx - 2, val |-> f[i].rec.entries[f[i].idx - 1].val]

Replay(f, n) ==
  [k \in Keys |->
    IF EntryCells(f, n, k) = {} THEN Untouched
    ELSE EntryAt(f, CHOOSE i \in EntryCells(f, n, k) :
                      \A j \in EntryCells(f, n, k) : j <= i)]

\* Mutant: sequence numbers start at 0.
FirstSequence_Zero == 0

\* The initial value of nextSequence_.
FirstSequence == 1

\* Mutant: recovery goes on behind the base of the last record.
RecoveredSequence_FromBase(f, n) == IF n = 0 THEN 1 ELSE f[n].rec.base + 1

\* nextSequence_ after replaying the first n cells of f.
RecoveredSequence(f, n) ==
  LET ends == {f[i].rec.base + Len(f[i].rec.entries) : i \in 1..n} IN
  IF n = 0 THEN FirstSequence
  ELSE 1 + CHOOSE e \in ends : \A d \in ends : d <= e

\* The same for one more record on top of table mem.
ApplyRecord(mem, r) ==
  LET hits(k) == {i \in DOMAIN r.entries : r.entries[i].key = k} IN
  [k \in Keys |->
    IF hits(k) = {} THEN mem[k]
    ELSE LET i == CHOOSE i \in hits(k) : \A j \in hits(k) : j <= i
         IN  [seq |-> r.base + i - 1, val |-> r.entries[i].val]]
=============================================================================
