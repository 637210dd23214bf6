----------------------------- MODULE WalRecovery -----------------------------
(***************************************************************************)
(* wal::DecodeLog (src/src/wal.cc) and the replay loop of DB::recover      *)
(* (src/src/db.cc), iteration by iteration, on the bytes of a file.  The   *)
(* file is put together from cells of records and of zeros, in any order.  *)
(* WalStore uses what DecodeLog and recover compute (IsValidBytes,         *)
(* StopReasons, Replay and RecoveredSequence of WalFormat) in a single     *)
(* step, on cells: the properties here say that this is what the bytes     *)
(* give.                                                                   *)
(***************************************************************************)
EXTENDS WalBytes

CONSTANTS
  Records,  \* records that were written to the log
  Files,    \* the files that recovery may meet, as sequences of cells
  Cuts      \* how many bytes may be missing from the last cell

VARIABLES
  cells,        \* the file, for reference
  cut,          \* the bytes missing from its last cell
  sse42,        \* hasHardwareCrc32c()
  bytes,        \* what ReadAt returned
  offset,       \* offset at the head of the loop of DecodeLog
  batches,      \* result.batches
  validBytes,   \* result.validBytes
  result,       \* "decoding", then the outcome: "replaying", "corruption", "done"
  mem,          \* the memtable that recover fills
  maxSequence,  \* maxSequence of recover
  replayed,     \* batches already applied
  nextSequence  \* nextSequence_

fileVars == <<cells, cut, sse42, bytes>>
replayVars == <<mem, maxSequence, replayed, nextSequence>>
vars == <<fileVars, offset, batches, validBytes, result, replayVars>>

(***************************************************************************)
(* The bytes of a file of cells.  A zero cell is a hole: behind a header   *)
(* it is as long as the entry that it stands for.                          *)
(***************************************************************************)
RecordBytes == [s \in BOOLEAN |-> [r \in Records |-> GroupBytes(r, s)]]

CellEnd(r, i) ==
  EncodedBatchSize([r EXCEPT !.entries = SubSeq(@, 1, i - 1)])

CellStart(r, i) == IF i = 1 THEN 0 ELSE CellEnd(r, i - 1)

LostSize(f, i) ==
  LET heads == {p \in 1..i - 1 : f[p].idx = 1}
      p == CHOOSE p \in heads : \A q \in heads : q <= p
  IN  IF heads = {} \/ (heads /= {} /\ i - p > Len(f[p].rec.entries)) THEN CellEnd(Zero.rec, 1)
      ELSE EntrySize(f[p].rec.entries[i - p])

CellBytes(f, i, s) ==
  IF f[i] = Zero THEN [j \in 1..LostSize(f, i) |-> 0]
  ELSE SubSeq(RecordBytes[s][f[i].rec],
              CellStart(f[i].rec, f[i].idx) + 1, CellEnd(f[i].rec, f[i].idx))

FileBytes(f, s) == FlattenSeq([i \in DOMAIN f |-> CellBytes(f, i, s)])

Init ==
  /\ cells \in Files /\ sse42 \in BOOLEAN
  /\ cut \in {c \in Cuts : c = 0 \/ (cells /= <<>> /\ c < Len(CellBytes(cells, Len(cells), sse42)))}
  /\ bytes = LET all == FileBytes(cells, sse42) IN SubSeq(all, 1, Len(all) - cut)
  /\ offset = 0 /\ batches = <<>> /\ validBytes = 0
  /\ result = "decoding"
  /\ mem = [k \in Keys |-> Untouched]
  /\ maxSequence = 0 /\ replayed = 0 /\ nextSequence = FirstSequence
-----------------------------------------------------------------------------
Decoded(outcome) ==
  /\ result' = outcome
  /\ UNCHANGED <<fileVars, offset, batches, validBytes, replayVars>>

\* A header is cut off: one of its reads fails, or the type is missing.
HeaderMissing == ~CanRead(kRecordHeaderSize, bytes, offset)

LengthAt == Fixed32At(bytes, offset + 4)
TypeAt == bytes[offset + kRecordHeaderSize]
Payload == SubSeq(bytes, offset + kRecordHeaderSize + 1, offset + kRecordHeaderSize + LengthAt)

\* Mutant: only a record that ends before the end of the file is read.
ReachesBeyond_OffByOne == offset + kRecordHeaderSize + LengthAt >= Len(bytes)

ReachesBeyond == offset + kRecordHeaderSize + LengthAt > Len(bytes)

\* Mutant: a wrong checksum is always the end of the log.
ReachesEnd_Always == TRUE

ReachesEnd == offset + kRecordHeaderSize + LengthAt >= Len(bytes)

ChecksumMatches == Crc32C(Payload, sse42) = SubSeq(bytes, offset + 1, offset + 4)

\* One iteration of the loop over the entries of a payload: the entries so
\* far, the payloadOffset, and whether all could be read.
DecodeEntry(payload, d) ==
  LET body == d.offset + kEntryHeaderSize
      type == payload[d.offset + 1]
      keyEnd == body + Fixed32At(payload, d.offset + 1)
      valueEnd == keyEnd + Fixed32At(payload, d.offset + 5)
      key == SubSeq(payload, body + 1, keyEnd)
      value == SubSeq(payload, keyEnd + 1, valueEnd)
  IN  IF ~d.ok \/ body > Len(payload) \/ valueEnd > Len(payload) \/ type \notin {kPut, kDelete}
      THEN [d EXCEPT !.ok = FALSE]
      ELSE [ok |-> TRUE, offset |-> valueEnd, entries |->
             IF type = kPut THEN Put(d.entries, key, value) ELSE Delete(d.entries, key)]

DecodePayload(payload) ==
  LET decoded[i \in Nat] ==
        IF i = 0 THEN [ok |-> TRUE, offset |-> kBatchHeaderSize, entries |-> <<>>]
        ELSE DecodeEntry(payload, decoded[i - 1])
  IN  IF CanRead(kBatchHeaderSize, payload, 0) THEN decoded[Fixed32At(payload, 8)]
      ELSE [ok |-> FALSE, offset |-> 0, entries |-> <<>>]

\* A record with a right checksum: its batch, or Status::Corruption.
DecodeBatch ==
  LET decoded == DecodePayload(Payload) IN
  IF decoded.ok
  THEN /\ batches' = Append(batches, [base |-> Fixed64At(Payload, 0), entries |-> decoded.entries])
       /\ offset' = offset + kRecordHeaderSize + LengthAt
       /\ validBytes' = offset'
       /\ UNCHANGED <<fileVars, result, replayVars>>
  ELSE Decoded("corruption")

\* One iteration of the loop of DecodeLog.
DecodeRecord ==
  /\ result = "decoding"
  /\ offset < Len(bytes)
  /\ \/ HeaderMissing /\ Decoded("replaying")
     \/ ~HeaderMissing /\ ReachesBeyond /\ Decoded("replaying")
     \/ /\ ~HeaderMissing /\ ~ReachesBeyond
        /\ \/ TypeAt /= kBatchRecord /\ Decoded("corruption")
           \/ /\ TypeAt = kBatchRecord /\ ~ChecksumMatches
              /\ Decoded(IF ReachesEnd THEN "replaying" ELSE "corruption")
           \/ TypeAt = kBatchRecord /\ ChecksumMatches /\ DecodeBatch

DecodeEnd ==
  /\ result = "decoding"
  /\ offset >= Len(bytes)
  /\ Decoded("replaying")

\* Mutant: the last batch replayed sets the sequence.
Newest_Last(a, b) == b

Newest(a, b) == IF a > b THEN a ELSE b

\* One iteration of the replay loop of recover.
ReplayBatch ==
  /\ result = "replaying"
  /\ replayed < Len(batches)
  /\ LET b == batches[replayed + 1] IN
     /\ mem' = ApplyRecord(mem, b)
     /\ maxSequence' = Newest(maxSequence, b.base + Len(b.entries))
  /\ replayed' = replayed + 1
  /\ UNCHANGED <<fileVars, offset, batches, validBytes, result, nextSequence>>

ReplayEnd ==
  /\ result = "replaying"
  /\ replayed = Len(batches)
  /\ nextSequence' = Newest(nextSequence, maxSequence + 1)
  /\ result' = "done"
  /\ UNCHANGED <<fileVars, offset, batches, validBytes, mem, maxSequence, replayed>>

\* recover has returned.
Returned == result \in {"done", "corruption"} /\ UNCHANGED vars

Next == DecodeRecord \/ DecodeEnd \/ ReplayBatch \/ ReplayEnd \/ Returned

Spec == Init /\ [][Next]_vars
-----------------------------------------------------------------------------
\* Every variable has the type of the local or member it stands for.
TypeOK ==
  /\ cells \in Files /\ cut \in Cuts /\ sse42 \in BOOLEAN
  /\ bytes \in Seq(0..255)
  /\ offset \in 0..Len(bytes)
  /\ batches \in Seq(Record)
  /\ validBytes \in 0..Len(bytes)
  /\ result \in {"decoding", "replaying", "corruption", "done"}
  /\ mem \in [Keys -> [seq : Nat, val : Values \cup {Deleted}]]
  /\ maxSequence \in Nat
  /\ replayed \in 0..Len(batches)
  /\ nextSequence \in Nat \ {0}

\* The cells of which all bytes are there.
Whole == IF cut = 0 THEN cells ELSE Front(cells)

\* The cells that DecodeLog should keep.
Kept == CHOOSE n \in 0..Len(Whole) : IsValidBytes(Whole, n)

\* DecodeLog keeps exactly the longest prefix of whole records, for any file
\* and a last cell cut off anywhere: what writeGroup encoded it decodes,
\* whichever encoder ran and whichever checksum routine runs, and no mixture
\* of two records passes for a record.
KeepsLongestPrefix ==
  result /= "decoding" =>
    /\ validBytes = Len(FileBytes(SubSeq(cells, 1, Kept), sse42))
    /\ batches = [i \in DOMAIN batches |->
                    LET starts == {p \in 1..Kept : cells[p].idx = 1} IN
                    cells[CHOOSE p \in starts : Cardinality({q \in starts : q <= p}) = i].rec]
    /\ Len(batches) = Cardinality({p \in 1..Kept : cells[p].idx = 1})

\* DecodeLog tells a torn tail from corruption as StopReasons says; what is
\* left of a cut hole may be too short to be a header.
StopsForTheReason ==
  LET reasons == IF cut > 0 /\ Kept = Len(Whole) /\ cells[Len(cells)] = Zero
                 THEN {"torn", "corruption"}
                 ELSE StopReasons(cells, Kept)
  IN  /\ result = "corruption" => "corruption" \in reasons
      /\ result \in {"replaying", "done"} => reasons \cap {"end", "torn"} /= {}

\* The batches replayed one by one leave the memtable and nextSequence_ that
\* the file determines: the last entry of each key, and a number beyond all.
ReplayIsLastWins ==
  result = "done" =>
    /\ mem = Replay(cells, Kept)
    /\ nextSequence = RecoveredSequence(cells, Kept)
=============================================================================
