------------------------------ MODULE WalStore -------------------------------
(***************************************************************************)
(* The durable write path and the recovery of storage_engine::DB:          *)
(* writeGroup, recover, Open and ~DB of src/src/db.cc, on top of the file  *)
(* as the kernel keeps it.                                                 *)
(*                                                                         *)
(* Exactly one thread at a time is in writeGroup (module GroupCommit), so  *)
(* one group is in flight.  The file has two images: `cache`, what read()  *)
(* returns, and `disk`, what survives a power loss; `dirty` are the cells  *)
(* written since the last fdatasync.  faults says what may go wrong:       *)
(*   "write"   writev fails or completes short, submission fails           *)
(*   "sync"    fdatasync fails, having written back some cells             *)
(*   "forget"  ... and the kernel marks the others clean nevertheless      *)
(*   "crash"   the process dies                                            *)
(*   "power"   the machine loses power                                     *)
(*   "unordered" the file system keeps no order between the length and the *)
(*             contents of a file: after a power loss it may have its new  *)
(*             length without its new contents, or the reverse             *)
(*   "read"    the read of recovery fails or returns fewer bytes           *)
(*   "dir"     a power loss may take the directory entry of wal.log, which *)
(*             is never synced                                             *)
(***************************************************************************)
EXTENDS WalFormat, FiniteSets

CONSTANTS
  Groups,      \* the entry sequences of the groups that may be written
  FaultSets,   \* what may go wrong: the choices for faults
  MaxTransfer, \* cells that one writev moves at most (0x7ffff000 bytes)
  MaxGroups,   \* bound: groups written
  MaxOpens     \* bound: how often the DB is opened

AllFaults == {"write", "sync", "forget", "crash", "power", "unordered", "read",
              "dir"}

ASSUME WalStoreAssumption ==
  /\ Groups \subseteq Seq(Entry) \ {<<>>}
  /\ FaultSets \subseteq SUBSET AllFaults
  /\ MaxTransfer \in 1..Limit32
  /\ MaxGroups \in Nat
  /\ MaxOpens \in Nat

VARIABLES
  faults,        \* what may go wrong, see above
  cache,         \* the file as read() sees it
  disk,          \* the file as it survives a power loss
  dirty,         \* cells of cache not yet written back
  phase,         \* where Open, writeGroup or ~DB is
  opened,        \* what the last DB::Open returned to this process
  walOffset,     \* walOffset_
  nextSequence,  \* nextSequence_
  mem,           \* memtable_: key -> [seq, val]
  rec,           \* walRecord_: the record of the group in flight
  acked,         \* history: key -> its latest entry whose write returned Ok
  issued,        \* history: every <<key, [seq, val]>> handed to writeGroup
  settled,       \* history: the last table that is known to survive
  attempts,      \* history: the groups since then, with the table they were to change
  groups,        \* groups written so far
  opens          \* opens so far

file    == <<cache, disk, dirty>>
members == <<walOffset, nextSequence, mem>>
history == <<acked, issued, settled, attempts, groups, opens>>
vars    == <<faults, file, phase, opened, members, rec, history>>

NoRecord == [base |-> 1, entries |-> <<>>]

(***************************************************************************)
(*   "down"      no DB object      "truncated" recover, before FDataSync   *)
(*   "idle"      open, no group    "encoded"   writeGroup, before writev   *)
(*   "written"   before fdatasync  "synced"    before ApplyBatches         *)
(***************************************************************************)
Phases  == {"down", "truncated", "idle", "encoded", "written", "synced"}
IsOpen  == phase \in {"idle", "encoded", "written", "synced"}

Init ==
  /\ faults \in FaultSets
  /\ cache = <<>> /\ disk = <<>> /\ dirty = {}
  /\ phase = "down" /\ opened = "none"
  /\ walOffset = 0 /\ nextSequence = FirstSequence
  /\ mem = [k \in Keys |-> Untouched]
  /\ rec = NoRecord
  /\ acked = [k \in Keys |-> Untouched]
  /\ issued = {} /\ settled = mem /\ attempts = {}
  /\ groups = 0 /\ opens = 0

\* The DB object is gone, or was never returned.
Down ==
  /\ phase' = "down"
  /\ walOffset' = 0 /\ nextSequence' = FirstSequence
  /\ mem' = [k \in Keys |-> Untouched]
  /\ rec' = NoRecord

\* From now on every recovery finds table t.
Settle(t) == settled' = t /\ attempts' = {}

\* writeGroup returns; its scratch is not looked at again.
GroupEnds ==
  /\ phase' = "idle"
  /\ rec' = NoRecord

-----------------------------------------------------------------------------
(***************************************************************************)
(* The file.                                                               *)
(***************************************************************************)
Larger(a, b) == IF a > b THEN a ELSE b

\* pwritev of the cells s behind the first `off` cells.
Overwrite(f, off, s) ==
  [i \in 1..Larger(Len(f), off + Len(s)) |->
    IF i > off /\ i <= off + Len(s) THEN s[i - off] ELSE f[i]]

\* What is on disk when the cells in W have been written back and the file has
\* length n: a cell that never was has zero bytes.
WrittenBack(W, n) ==
  [i \in 1..n |-> IF i \in W THEN cache[i]
                  ELSE IF i <= Len(disk) THEN disk[i] ELSE Zero]

\* The lengths the file may have then: the old or the new one after a
\* truncation; after an extension also any other, but below it stand cells
\* that were written back ("unordered": or were not).
Lengths(W) ==
  IF Len(cache) < Len(disk) THEN {Len(cache), Len(disk)}
  ELSE {n \in Len(disk)..Len(cache) :
          "unordered" \in faults \/ \A i \in Len(disk) + 1..n : i \in W}

-----------------------------------------------------------------------------
(***************************************************************************)
(* Open and recover.                                                       *)
(***************************************************************************)
OpenFails(why) ==
  /\ Down
  /\ opened' = why
  /\ UNCHANGED <<file, acked, issued, settled, attempts, groups>>

\* Mutant: a torn tail is left in the file.
MustTruncate_Never(m, n) == FALSE

MustTruncate(m, n) == n /= m

\* recover on the m cells that the read returned, n of them valid.  Nothing
\* but the process itself sees its steps before ftruncate.
Recovered(m, n) ==
  LET bytes == SubSeq(cache, 1, m) IN
  /\ mem' = Replay(bytes, n)
  /\ nextSequence' = RecoveredSequence(bytes, n)
  /\ walOffset' = n
  /\ IF MustTruncate(m, n)
     THEN /\ phase' = "truncated" /\ opened' = "none"
          /\ cache' = SubSeq(cache, 1, n)
          /\ dirty' = {i \in dirty : i <= n}
          /\ UNCHANGED <<disk, settled, attempts>>
     ELSE /\ phase' = "idle" /\ opened' = "ok"
          /\ IF disk = cache THEN Settle(mem') ELSE UNCHANGED <<settled, attempts>>
          /\ UNCHANGED file

\* The read of the whole file returns all of it, or less, but not nothing.
ReadLengths == {Len(cache)} \cup (IF "read" \in faults THEN 1..Len(cache) ELSE {})

Open ==
  /\ phase = "down"
  /\ opens < MaxOpens
  /\ opens' = opens + 1
  /\ \/ \E m \in ReadLengths : \E n \in 0..m :
          LET bytes == SubSeq(cache, 1, m) IN
          /\ IsValidBytes(bytes, n)
          /\ \E why \in StopReasons(bytes, n) :
               IF why = "corruption"
               THEN OpenFails("corruption")
               ELSE /\ Recovered(m, n)
                    /\ UNCHANGED <<rec, acked, issued, groups>>
     \/ /\ "read" \in faults
        /\ OpenFails("ioerror")

-----------------------------------------------------------------------------
(***************************************************************************)
(* fdatasync.                                                              *)
(***************************************************************************)
Sync ==
  /\ disk' = WrittenBack(dirty, Len(cache))
  /\ dirty' = {}
  /\ UNCHANGED cache

\* A cell beyond the length that reached the disk still has to be written back.
SyncFailed ==
  \E W \in SUBSET dirty : \E n \in Lengths(W) :
    /\ disk' = WrittenBack({i \in W : i <= n}, n)
    /\ dirty' \in {dirty \ (W \cap 1..n)}
                  \cup (IF "forget" \in faults THEN {{}} ELSE {})
    /\ UNCHANGED cache

RecoverSync ==
  /\ phase = "truncated"
  /\ \/ /\ Sync
        /\ phase' = "idle" /\ opened' = "ok"
        /\ Settle(mem)
        /\ UNCHANGED <<members, rec>>
     \/ /\ "sync" \in faults
        /\ SyncFailed
        /\ Down /\ opened' = "ioerror"
        /\ UNCHANGED <<settled, attempts>>
  /\ UNCHANGED <<acked, issued, groups, opens>>

-----------------------------------------------------------------------------
(***************************************************************************)
(* writeGroup.                                                             *)
(***************************************************************************)
IssuedBy(r) ==
  {<<r.entries[i].key, [seq |-> r.base + i - 1, val |-> r.entries[i].val]>> :
     i \in DOMAIN r.entries}

\* The encoding of the group in walRecord_.
EncodeGroup(g) ==
  /\ rec' = [base |-> nextSequence, entries |-> g]
  /\ issued' = issued \cup IssuedBy(rec')
  /\ attempts' = attempts \cup {[on |-> mem, group |-> rec']}
  /\ phase' = "encoded"
  /\ groups' = groups + 1
  /\ UNCHANGED <<file, opened, members, acked, settled, opens>>

WriteGroup(g) ==
  /\ phase = "idle"
  /\ groups < MaxGroups
  /\ EncodeGroup(g)

\* An ordered file system commits a pending truncation before cells behind it.
WriteCells(n) ==
  /\ disk' = IF Len(cache) < Len(disk) /\ "unordered" \notin faults
             THEN SubSeq(disk, 1, Len(cache)) ELSE disk
  /\ cache' = Overwrite(cache, walOffset, SubSeq(EncodeBatch(rec), 1, n))
  /\ dirty' = dirty \cup (walOffset + 1..walOffset + n)

\* How many cells of r one writev may write: all that it can move, or fewer.
Transfers(r) ==
  LET most == IF Size(r) > MaxTransfer THEN MaxTransfer ELSE Size(r) IN
  IF "write" \in faults THEN 0..most ELSE {most}

WrittenInFull(n) == n = Size(rec)

\* The writev half of the linked pair.  Unless it writes all of the record the
\* linked fdatasync is cancelled and the group fails.
Writev(n) ==
  /\ phase = "encoded"
  /\ WriteCells(n)
  /\ IF WrittenInFull(n) THEN phase' = "written" /\ UNCHANGED rec ELSE GroupEnds
  /\ UNCHANGED <<opened, members, history>>

FDataSync ==
  /\ phase = "written"
  /\ \/ Sync /\ phase' = "synced" /\ UNCHANGED rec
     \/ "sync" \in faults /\ SyncFailed /\ GroupEnds
  /\ UNCHANGED <<opened, members, history>>

\* Mutant: the group is applied and acknowledged before its fdatasync.
MayApply_BeforeSync == phase \in {"written", "synced"}

MayApply == phase = "synced"

\* Mutant: walOffset_ is not advanced.
NextOffset_Same == walOffset

NextOffset == walOffset + Size(rec)

\* ApplyBatches, the advance of walOffset_ and nextSequence_, and the return
\* of Status::Ok to every writer of the group.
Apply ==
  /\ MayApply
  /\ mem' = ApplyRecord(mem, rec)
  /\ walOffset' = NextOffset
  /\ nextSequence' = nextSequence + Len(rec.entries)
  /\ acked' = ApplyRecord(acked, rec)
  /\ Settle(mem')
  /\ GroupEnds
  /\ UNCHANGED <<file, opened, issued, groups, opens>>

\* ~DB closes the file.
CloseFile ==
  /\ Down
  /\ UNCHANGED <<file, opened, history>>

Close == phase = "idle" /\ CloseFile

-----------------------------------------------------------------------------
(***************************************************************************)
(* Crashes.                                                                *)
(***************************************************************************)
\* The kernel may stop a writev in progress anywhere.
ProcessCrash ==
  /\ "crash" \in faults
  /\ phase /= "down"
  /\ Down
  /\ IF phase = "encoded" THEN \E n \in 0..Size(rec) : n <= MaxTransfer /\ WriteCells(n)
                          ELSE UNCHANGED file
  /\ opened' = "none"
  /\ UNCHANGED history

PowerLoss ==
  /\ "power" \in faults
  /\ Down
  /\ \/ \E W \in SUBSET dirty : \E n \in Lengths(W) :
          disk' = WrittenBack({i \in W : i <= n}, n)
     \/ "dir" \in faults /\ disk' = <<>>
  /\ cache' = disk'
  /\ dirty' = {}
  /\ opened' = "none"
  /\ UNCHANGED history

\* Once no group and no open is left nothing need happen any more.
Finished ==
  /\ phase = "down"
  /\ opens = MaxOpens
  /\ UNCHANGED vars

Next ==
  /\ \/ Open \/ RecoverSync
     \/ \E g \in Groups : WriteGroup(g)
     \/ \E n \in Transfers(rec) : Writev(n)
     \/ FDataSync \/ Apply \/ Close
     \/ ProcessCrash \/ PowerLoss
     \/ Finished
  /\ UNCHANGED faults

Spec == Init /\ [][Next]_vars
-----------------------------------------------------------------------------
MemEntry == [seq : Nat, val : Values \cup {Deleted}]

\* Every variable has the type of the member or file it stands for.
TypeOK ==
  /\ faults \in FaultSets
  /\ cache \in Seq(Cell) /\ disk \in Seq(Cell)
  /\ dirty \subseteq 1..Len(cache)
  /\ phase \in Phases
  /\ opened \in {"none", "ok", "ioerror", "corruption"}
  /\ walOffset \in Nat
  /\ nextSequence \in Nat \ {0}
  /\ mem \in [Keys -> MemEntry]
  /\ rec \in Record
  /\ acked \in [Keys -> MemEntry]
  /\ groups \in Nat
  /\ opens \in Nat

\* For every key an open DB returns its latest acknowledged entry or a later one.
Readable ==
  IsOpen => \A k \in Keys : \/ mem[k] = acked[k]
                            \/ mem[k].seq > acked[k].seq

\* Recovery reads the whole log, the kernel keeps pages dirty that a failed sync
\* did not write back, and the directory entry is not lost.
LogKept == faults \cap {"read", "forget", "dir"} = {}

\* Acknowledged writes are readable after failed writes, failed syncs, process
\* crashes and power losses, in any order, as long as the log is kept.
AckedReadable == LogKept => Readable

\* "After recovery completes, all writes that returned success before the
\* crash must be readable", with no exception for what recovery reads.
ReadableAfterRecovery == faults \cap {"forget", "dir"} = {} => Readable

\* What Get can return was at some time written to that key, with the
\* sequence number it is stored under.
NoPhantom ==
  IsOpen => \A k \in Keys : \/ mem[k] = Untouched
                            \/ <<k, mem[k]>> \in issued

\* Between two groups the memtable is what a restart would rebuild from the
\* file, and the next group goes right behind the last valid record.
MemMatchesLog ==
  phase = "idle" =>
    /\ walOffset <= Len(cache)
    /\ ValidPrefix(cache, walOffset)
    /\ mem = Replay(cache, walOffset)

\* As long as the log is kept, sequence numbers grow along it, across restarts,
\* and nextSequence_ is beyond all of them: replaying in file order lets the
\* newest entry win.
SequencesIncrease ==
  LogKept /\ phase = "idle" =>
    /\ \A x, y \in RecordsIn(cache, walOffset) :
         x[1] < y[1] => x[2].base + Len(x[2].entries) <= y[2].base
    /\ \A x \in RecordsIn(cache, walOffset) :
         x[2].base + Len(x[2].entries) <= nextSequence

\* A step acknowledges a key only with a higher sequence number.
AckedAdvance ==
  LogKept => \A k \in Keys : \/ acked'[k] = acked[k]
                             \/ acked'[k].seq > acked[k].seq

\* Acknowledged writes of a key have growing sequence numbers, whatever crashes
\* lie between them, as long as the log is kept.
SequenceAdvance == [][AckedAdvance]_vars

\* "recovery keeps complete records and truncates the tail": whatever tail
\* there is, Open does not refuse the log.
TailTolerated == opened /= "corruption"

\* No cell in the file is of a group that one writev could not move.
TransfersFit ==
  \A i \in 1..Len(cache) : Size(cache[i].rec) <= MaxTransfer

\* On an ordered file system the tails that crashes and power losses leave are
\* all tolerated, unless a group was too large for a writev.
CrashTailTolerated ==
  faults \subseteq {"crash", "power"} /\ TransfersFit => TailTolerated

\* "synced with fdatasync, then applied": unless the process crashed or a sync
\* failed, what Get can return would survive a power loss.
VisibleIsDurable ==
  faults \subseteq {"write", "power"} /\ phase = "idle" =>
    /\ walOffset <= Len(disk)
    /\ \A i \in 1..walOffset : disk[i] = cache[i]

\* Syncs do not fail and the file system keeps the order of writes.
Orderly == faults \subseteq {"write", "crash", "power"}
=============================================================================
