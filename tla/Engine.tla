------------------------------- MODULE Engine --------------------------------
(***************************************************************************)
(* storage_engine::DB as its callers meet it: the group commit (module     *)
(* GroupCommit) on top of the durable write path (module WalStore).        *)
(*                                                                         *)
(* GroupCommit leaves open what writeGroup does between its begin and its  *)
(* end; WalStore takes for granted that one group at a time is handed to   *)
(* it.  Here the callers of writeGroup are those of GroupCommit, the       *)
(* entries are those of the batches in writeScratch_, and the status is    *)
(* what the write path came to.  Nothing but GroupCommit itself keeps two  *)
(* threads from being in writeGroup at the same time.                      *)
(***************************************************************************)
EXTENDS GroupCommit

CONSTANTS
  Keys, Values, Deleted, Limit32,   \* see WalFormat
  Batch,                            \* client -> the entries of its batches
  FaultSets, MaxTransfer, MaxGroups, MaxOpens  \* see WalStore

VARIABLES
  faults, cache, disk, dirty, phase, opened, walOffset, nextSequence, mem, rec,
  acked, handed, settled, attempts, groups, opens,   \* see WalStore
  outcome,   \* what writeGroup is about to return, or "none"
  placed,    \* history: client -> <<key, [seq, val]>> of its latest batch
  returned   \* history: key -> latest entry whose write returned Ok to its caller

\* The entries of the first n writers of s: <<i, j>> is entry j of the i-th.
Slots(s, n) == UNION {{<<i, j>> : j \in DOMAIN Batch[s[i]]} : i \in 1..n}

\* How many entries of the group s are in front of those of its i-th writer.
FirstOf(s, i) == Cardinality(Slots(s, i - 1))

\* The entries of the batches of the writers s, in their order.
EntriesOf(s) ==
  [p \in 1..FirstOf(s, Len(s) + 1) |->
    LET slot == CHOOSE x \in Slots(s, Len(s)) : FirstOf(s, x[1]) + x[2] = p
    IN  Batch[s[slot[1]]][slot[2]]]

\* Every order in which clients may share a group.
Lineups ==
  {s \in UNION {[1..n -> Clients] : n \in 1..Cardinality(Clients)} : IsInjective(s)}

Wal == INSTANCE WalStore WITH
  issued <- handed,
  Groups <- {EntriesOf(s) : s \in Lineups}

\* WriteAwaiter::await_ready lets no empty batch into the queue.
ASSUME EngineAssumption ==
  /\ \A c \in Clients : Batch[c] \in Seq(Wal!Entry) /\ Batch[c] /= <<>>
  /\ Deleted \notin Values
  /\ Limit32 \in Nat \ {0}
  /\ FaultSets \subseteq SUBSET Wal!AllFaults
  /\ MaxTransfer \in 1..Limit32
  /\ MaxGroups \in Nat
  /\ MaxOpens \in Nat

callVars == <<outcome, placed, returned>>
walVars  == <<faults, cache, disk, dirty, phase, opened, walOffset, nextSequence,
              mem, rec, acked, handed, settled, attempts, groups, opens>>
allVars  == <<vars, walVars, callVars>>

EngineInit ==
  /\ Init
  /\ Wal!Init
  /\ outcome = "none"
  /\ placed = [c \in Clients |-> {}]
  /\ returned = mem

-----------------------------------------------------------------------------
(***************************************************************************)
(* writeGroup.                                                             *)
(***************************************************************************)
\* What the i-th writer of the group s asks for, with the sequence numbers that
\* the group's record gives it.
PlacedBy(s, i) ==
  {<<Batch[s[i]][j].key,
     [seq |-> nextSequence + FirstOf(s, i) + j - 1, val |-> Batch[s[i]][j].val]>> :
   j \in DOMAIN Batch[s[i]]}

WriteGroupBegins ==
  /\ groups < MaxGroups
  /\ Wal!EncodeGroup(EntriesOf(scratch'))
  /\ placed' = [c \in Clients |->
                 (UNION {PlacedBy(scratch', i) : i \in {j \in DOMAIN scratch' : scratch'[j] = c}})
                   \cup (IF c \in Range(scratch') THEN {} ELSE placed[c])]
  /\ UNCHANGED <<faults, outcome, returned>>

\* WritevAndFDataSync; when it fails so does the group.
DurableStep ==
  /\ (\E n \in Wal!Transfers(rec) : Wal!Writev(n)) \/ Wal!FDataSync
  /\ outcome' = IF phase' = "idle" THEN "error" ELSE outcome
  /\ UNCHANGED <<faults, vars, placed, returned>>

ApplyStep ==
  /\ Wal!Apply
  /\ outcome' = "ok"
  /\ UNCHANGED <<faults, vars, placed, returned>>

WriteGroupEnds ==
  /\ outcome /= "none"
  /\ outcome' = "none"
  /\ UNCHANGED <<walVars, placed, returned>>

-----------------------------------------------------------------------------
(***************************************************************************)
(* Callers and the writer thread.                                          *)
(***************************************************************************)

Elsewhere == UNCHANGED <<walVars, callVars>>

\* The caller of c's write gets its status.
Returns(c) ==
  /\ returned' = [k \in Keys |->
       LET mine == {x[2] : x \in {y \in placed[c] : y[1] = k}}
           newer == {e \in mine : status[c] = "ok" /\ e.seq > returned[k].seq}
       IN  IF newer = {} THEN returned[k]
           ELSE CHOOSE e \in newer : \A d \in newer : d.seq <= e.seq]
  /\ UNCHANGED <<walVars, outcome, placed>>

ClientWrites(c) ==
  \/ InlineBegin(c) /\ WriteGroupBegins
  \/ InlineFinish(c, outcome) /\ WriteGroupEnds
  \/ InlineNotify(c) /\ Returns(c)
  \/ Yield(c) /\ Elsewhere

WriterWrites ==
  \/ WriterBegin /\ WriteGroupBegins
  \/ WriterFinish(outcome) /\ WriteGroupEnds
  \/ WriterMoves /\ IF wpc = "resuming" /\ conts /= <<>> THEN Returns(Head(conts))
                    ELSE Elsewhere

GroupStep == DurableStep \/ ApplyStep

Call(c) == (EnqueueInline(c) \/ EnqueueQueued(c)) /\ Elsewhere

Destroy ==
  \/ StopNotify /\ Elsewhere
  \/ Join /\ Wal!CloseFile /\ UNCHANGED <<faults, callVars>>

-----------------------------------------------------------------------------
(***************************************************************************)
(* Open, and crashes: whatever the process had in memory is gone, the      *)
(* calls in progress with it.                                              *)
(***************************************************************************)
NewProcess ==
  /\ writing' = FALSE /\ armed' = FALSE /\ stop' = FALSE /\ writers' = <<>>
  /\ wpc' = "eval" /\ target' = 0 /\ group' = <<>> /\ conts' = <<>> /\ busy' = None
  /\ cpc' = [c \in Clients |-> "ready"] /\ status' = [c \in Clients |-> "ok"]
  /\ scratch' = <<>> /\ dpc' = "open"
  /\ stats' = [f \in StatFields |-> 0] /\ issued' = <<>> /\ taken' = <<>>
  /\ outcome' = "none"
  /\ placed' = [c \in Clients |-> {}]
  /\ UNCHANGED <<faults, left, returned>>

Open == (Wal!Open /\ NewProcess) \/ (Wal!RecoverSync /\ UNCHANGED <<faults, vars, callVars>>)

Crash == (Wal!ProcessCrash \/ Wal!PowerLoss) /\ NewProcess

Done == phase = "down" /\ opens = MaxOpens /\ UNCHANGED allVars

Serving(A) == Wal!IsOpen /\ A

EngineNext ==
  \/ \E c \in Clients : Serving(Call(c)) \/ Serving(ClientWrites(c))
  \/ Serving(WriterWrites) \/ Serving(GroupStep) \/ Serving(Destroy)
  \/ Serving((Stop \/ SpuriousWakeup) /\ Elsewhere)
  \/ Open \/ Crash \/ Done

EngineSpec == EngineInit /\ [][EngineNext]_allVars

\* As in GroupCommit; and every operation of the executor completes
\* (EveryOperationReturns of UringExecutor).
EngineFairness ==
  /\ \A c \in Clients : WF_allVars(Serving(ClientWrites(c)))
  /\ WF_allVars(Serving(WriterWrites))
  /\ WF_allVars(Serving(WindowTimeout /\ Elsewhere))
  /\ WF_allVars(Serving(GroupStep))
  /\ WF_allVars(Serving(Destroy))

FairEngineSpec == EngineSpec /\ EngineFairness
-----------------------------------------------------------------------------
\* GroupCommit hands groups to the write path one at a time, each only when the
\* one before has ended, and closes the file only between groups: what
\* WalStore takes for granted holds.
ImplementsWalStore == Wal!Spec

\* Whatever Put, Delete or Write returned Ok for stays readable, with its value,
\* until a later write replaces it, through failures, crashes and restarts: the
\* status that reaches a caller is that of the group its own batch was in.
ReturnedReadable ==
  Wal!LogKept /\ Wal!IsOpen =>
    \A k \in Keys : mem[k] = returned[k] \/ mem[k].seq > returned[k].seq

\* A write that returned an error shows at most after a restart.
FailedInvisible ==
  Wal!IsOpen => \A c \in Clients : cpc[c] = "ready" /\ status[c] = "error" =>
    \A x \in placed[c] : mem[x[1]] /= x[2]

\* Every call returns, whatever becomes of its group, or ends with its process.
EveryCallReturns ==
  \A c \in Clients : cpc[c] /= "ready" ~> cpc[c] = "ready"

\* ~DB, once begun, closes the file.
DestructorReturns == dpc = "stopping" ~> phase = "down"
=============================================================================
