----------------------------- MODULE GroupCommit -----------------------------
(***************************************************************************)
(* The multi-writer group commit of storage_engine::DB (src/src/db.cc):    *)
(* enqueueAsyncWriter, writerLoop, the coroutine suspension of             *)
(* DB::WriteAwaiter and the shutdown performed by DB::~DB.                 *)
(*                                                                         *)
(* Every critical section of writeMutex_ is one action.  What happens      *)
(* between two critical sections (writeGroup, a notification made after    *)
(* the unlock, user code in a resumed continuation) is an interval, so     *)
(* the other threads interleave with it.  writeGroup itself is only its    *)
(* use of the shared scratch and its result; WalStore models its inside.   *)
(***************************************************************************)
EXTENDS Integers, Sequences, FiniteSets, Functions

CONSTANTS
  Clients,          \* callers of Put/Delete/Write, one write at a time each
  AsyncClients,     \* those that co_await WriteAsync: when queued their thread is free
  BlockingClients,  \* coroutines that call the blocking Put from a continuation
  None,             \* no coroutine runs on the writer thread
  MaxWrites,        \* bound: writes issued by one client
  TargetSize,       \* options.groupCommitTargetSize
  Adaptive,         \* options.adaptiveGroupCommit
  HighTargetSize,   \* options.highPressureGroupCommitTargetSize
  HighThreshold     \* options.highPressureGroupCommitQueueThreshold

ASSUME GroupCommitAssumption ==
  /\ IsFiniteSet(Clients)
  /\ AsyncClients \subseteq Clients
  /\ BlockingClients \subseteq AsyncClients
  /\ None \notin Clients
  /\ MaxWrites \in Nat
  /\ TargetSize \in Nat
  /\ Adaptive \in BOOLEAN
  /\ HighTargetSize \in Nat
  /\ HighThreshold \in Nat

VARIABLES
  writing,   \* writing_
  armed,     \* groupCommitArmed_
  stop,      \* stopWriter_
  writers,   \* writers_: the queue of suspended writers
  wpc,       \* where the writer thread is in writerLoop
  target,    \* targetSize of the wait_for in progress
  group,     \* the writer thread's local vector `group`
  conts,     \* continuationsScratch_: continuations still to be resumed
  busy,      \* the coroutine that runs on the writer thread, or None
  cpc,       \* where each client's write is
  status,    \* Writer::status of each client's latest write
  left,      \* writes each client may still issue
  scratch,   \* writeScratch_->batches: the batches writeGroup works on
  dpc,       \* where DB::~DB is
  stats,     \* the group-commit counters of DB::DebugStats
  issued,    \* history: clients in the order of their calls of enqueueAsyncWriter
  taken      \* history: clients in the order in which they reach writeGroup

writerVars == <<wpc, target, group, conts, busy>>
clientVars == <<cpc, status, left>>
history    == <<issued, taken>>
vars == <<writing, armed, stop, writers, writerVars, clientVars, scratch, dpc,
          stats, history>>

(***************************************************************************)
(* Program counters.                                                       *)
(*   "eval"/"windowEval": about to evaluate the predicate of wait/wait_for *)
(*   "asleep"/"window"  : blocked in it, woken by a notification (or, in   *)
(*                        "window", by the timeout)                        *)
(*   "claimed"          : writing_ is set and writeGroup not yet entered   *)
(***************************************************************************)
WriterPcs == {"eval", "asleep", "windowEval", "window", "claimed", "write",
              "resuming", "exited"}
ClientPcs == {"ready", "claimed", "write", "notify", "suspended"}
DtorPcs   == {"open", "stopping", "joining", "closed"}
StatFields == {"suspensions", "inlineDrains", "threadDrains", "groups",
               "maxGroup", "waits", "adaptiveWaits"}

Init ==
  /\ writing = FALSE /\ armed = FALSE /\ stop = FALSE
  /\ writers = <<>>
  /\ wpc = "eval" /\ target = 0 /\ group = <<>> /\ conts = <<>> /\ busy = None
  /\ cpc = [c \in Clients |-> "ready"]
  /\ status = [c \in Clients |-> "ok"]
  /\ left = [c \in Clients |-> MaxWrites]
  /\ scratch = <<>>
  /\ dpc = "open"
  /\ stats = [f \in StatFields |-> 0]
  /\ issued = <<>> /\ taken = <<>>

(***************************************************************************)
(* Writing the counters.                                                   *)
(***************************************************************************)
Bump(s, F) == [f \in StatFields |-> IF f \in F THEN s[f] + 1 ELSE s[f]]

GroupDone(s, n) ==
  [Bump(s, {"groups"}) EXCEPT !["maxGroup"] = IF n > @ THEN n ELSE @]

\* notify_one and notify_all on writerCv_: the writer thread is its only waiter.
Notified(pc) ==
  IF pc = "asleep" THEN "eval" ELSE IF pc = "window" THEN "windowEval" ELSE pc

-----------------------------------------------------------------------------
(***************************************************************************)
(* Callers: WriteAwaiter::await_suspend and enqueueAsyncWriter.            *)
(***************************************************************************)

\* A call is made by the client's own thread while the DB is open, or by the
\* client's continuation while it runs on the writer thread.
MayIssue(c) ==
  /\ cpc[c] = "ready"
  /\ left[c] > 0
  /\ busy = c \/ dpc = "open"

\* Mutant: the fast path looks only at writing_.
CanWriteInline_NoQueueCheck == ~writing
\* Mutant: the fast path forgets writing_.
CanWriteInline_NoWritingCheck == writers = <<>> /\ ~armed

CanWriteInline == ~writing /\ writers = <<>> /\ ~armed

Issue(c) ==
  /\ left' = [left EXCEPT ![c] = @ - 1]
  /\ issued' = Append(issued, c)

EnqueueInline(c) ==
  /\ MayIssue(c)
  /\ CanWriteInline
  /\ Issue(c)
  /\ writing' = TRUE
  /\ taken' = Append(taken, c)
  /\ cpc' = [cpc EXCEPT ![c] = "claimed"]
  /\ stats' = Bump(stats, {"suspensions", "inlineDrains"})
  /\ UNCHANGED <<armed, stop, writers, writerVars, status, scratch, dpc>>

\* The coroutine stays suspended and control returns to its resumer; a
\* blocking Put instead parks the calling thread in promise_type::wait.
EnqueueQueued(c) ==
  /\ MayIssue(c)
  /\ ~CanWriteInline
  /\ Issue(c)
  /\ writers' = Append(writers, c)
  /\ armed' = (armed \/ writing \/ Len(writers') > 1)
  /\ cpc' = [cpc EXCEPT ![c] = "suspended"]
  /\ busy' = IF busy = c /\ c \notin BlockingClients THEN None ELSE busy
  /\ wpc' = Notified(wpc)
  /\ stats' = Bump(stats, {"suspensions"})
  /\ UNCHANGED <<writing, stop, target, group, conts, status, scratch, dpc,
                 taken>>

InlineBegin(c) ==
  /\ cpc[c] = "claimed"
  /\ scratch' = <<c>>
  /\ cpc' = [cpc EXCEPT ![c] = "write"]
  /\ UNCHANGED <<writing, armed, stop, writers, writerVars, status, left, dpc,
                 stats, history>>

\* Mutant: the inline writer forgets the notification after its unlock.
AfterInline_NoNotify == "ready"

AfterInline == "notify"

InlineFinish(c, st) ==
  /\ cpc[c] = "write"
  /\ status' = [status EXCEPT ![c] = st]
  /\ writing' = FALSE
  /\ cpc' = [cpc EXCEPT ![c] = AfterInline]
  /\ stats' = GroupDone(stats, 1)
  /\ UNCHANGED <<armed, stop, writers, writerVars, left, scratch, dpc, history>>

InlineNotify(c) ==
  /\ cpc[c] = "notify"
  /\ cpc' = [cpc EXCEPT ![c] = "ready"]
  /\ wpc' = Notified(wpc)
  /\ UNCHANGED <<writing, armed, stop, writers, target, group, conts, busy,
                 status, left, scratch, dpc, stats, history>>

\* A continuation on the writer thread ends, or goes on elsewhere.
Yield(c) ==
  /\ busy = c
  /\ cpc[c] = "ready"
  /\ busy' = None
  /\ UNCHANGED <<writing, armed, stop, writers, wpc, target, group, conts,
                 clientVars, scratch, dpc, stats, history>>

-----------------------------------------------------------------------------
(***************************************************************************)
(* The writer thread: writerLoop.                                          *)
(***************************************************************************)
\* Mutant: the queue does not wake the thread.
WakeCondition_StopOnly == stop
\* Mutant: the predicate does not look at stopWriter_.
WakeCondition_NoStop == ~writing /\ writers /= <<>>

WakeCondition == stop \/ (~writing /\ writers /= <<>>)

\* Mutant: the thread exits as soon as it is told to stop.
MustExit_IgnoreQueue == stop

MustExit == stop /\ writers = <<>>

HighPressure == Adaptive /\ Len(writers) >= HighThreshold

WindowTarget == IF HighPressure THEN HighTargetSize ELSE TargetSize

WindowOver(n) == stop \/ Len(writers) >= n

Windowed == armed \/ Len(writers) > 1

\* A step that does nothing but move the writer thread.
WriterGoes(pc) ==
  /\ wpc' = pc
  /\ UNCHANGED <<writing, armed, stop, writers, target, group, conts, busy,
                 clientVars, scratch, dpc, stats, history>>

WriterSleep ==
  /\ wpc = "eval"
  /\ ~WakeCondition
  /\ WriterGoes("asleep")

WriterExit ==
  /\ wpc = "eval"
  /\ WakeCondition
  /\ MustExit
  /\ WriterGoes("exited")

\* Mutant: a group takes the head of the queue and drops the rest.
Drained_HeadOnly == <<Head(writers)>>

Drained == writers

\* Moving the whole queue into the local group.
Drain(s) ==
  /\ group' = Drained
  /\ taken' = taken \o Drained
  /\ writers' = <<>>
  /\ wpc' = "claimed"
  /\ stats' = Bump(s, {"threadDrains"})

WindowStats ==
  Bump(stats, IF HighPressure THEN {"waits", "adaptiveWaits"} ELSE {"waits"})

WriterDrain ==
  /\ wpc = "eval"
  /\ WakeCondition
  /\ ~MustExit
  /\ Windowed => WindowOver(WindowTarget)
  /\ writing' = TRUE
  /\ armed' = FALSE
  /\ Drain(IF Windowed THEN WindowStats ELSE stats)
  /\ UNCHANGED <<stop, target, conts, busy, clientVars, scratch, dpc, issued>>

WriterOpenWindow ==
  /\ wpc = "eval"
  /\ WakeCondition
  /\ ~MustExit
  /\ Windowed
  /\ ~WindowOver(WindowTarget)
  /\ writing' = TRUE
  /\ armed' = FALSE
  /\ target' = WindowTarget
  /\ wpc' = "window"
  /\ stats' = WindowStats
  /\ UNCHANGED <<stop, writers, group, conts, busy, clientVars, scratch, dpc,
                 history>>

\* wait_for evaluates its predicate again after a notification ...
WindowAgain ==
  /\ wpc = "windowEval"
  /\ ~WindowOver(target)
  /\ WriterGoes("window")

\* ... and returns when it holds ...
WindowFull ==
  /\ wpc = "windowEval"
  /\ WindowOver(target)
  /\ Drain(stats)
  /\ UNCHANGED <<writing, armed, stop, target, conts, busy, clientVars,
                 scratch, dpc, issued>>

\* ... or when the window has elapsed; its deadline is fixed when it opens, so
\* notifications do not postpone it.
WindowTimeout ==
  /\ wpc \in {"window", "windowEval"}
  /\ Drain(stats)
  /\ UNCHANGED <<writing, armed, stop, target, conts, busy, clientVars,
                 scratch, dpc, issued>>

SpuriousWakeup ==
  /\ wpc \in {"asleep", "window"}
  /\ WriterGoes(Notified(wpc))

WriterBegin ==
  /\ wpc = "claimed"
  /\ scratch' = group
  /\ wpc' = "write"
  /\ UNCHANGED <<writing, armed, stop, writers, target, group, conts, busy,
                 clientVars, dpc, stats, history>>

\* Mutant: the writers of the group are told Ok in any case.
Informed_AlwaysOk(st) ==
  [c \in Clients |-> IF c \in Range(group) THEN "ok" ELSE status[c]]
\* Mutant: a writer whose last write failed is told so again.
Informed_KeepsError(st) ==
  [c \in Clients |-> IF c \in Range(group) /\ status[c] = "ok" THEN st ELSE status[c]]

Informed(st) == [c \in Clients |-> IF c \in Range(group) THEN st ELSE status[c]]

\* The notify_one after the unlock finds no waiter: its only one is this thread.
WriterFinish(st) ==
  /\ wpc = "write"
  /\ status' = Informed(st)
  /\ conts' = group
  /\ group' = <<>>
  /\ armed' = (armed \/ Len(group) > 1)
  /\ writing' = FALSE
  /\ wpc' = "resuming"
  /\ stats' = GroupDone(stats, Len(group))
  /\ UNCHANGED <<stop, writers, target, busy, cpc, left, scratch, dpc, history>>

\* continuation.resume(): a coroutine goes on here; for a blocking Put the
\* PutAsync coroutine ends here and its promise releases the caller's thread.
WriterResume ==
  /\ wpc = "resuming"
  /\ busy = None
  /\ conts /= <<>>
  /\ cpc' = [cpc EXCEPT ![Head(conts)] = "ready"]
  /\ busy' = IF Head(conts) \in AsyncClients THEN Head(conts) ELSE None
  /\ conts' = Tail(conts)
  /\ UNCHANGED <<writing, armed, stop, writers, wpc, target, group, status,
                 left, scratch, dpc, stats, history>>

WriterLoop ==
  /\ wpc = "resuming"
  /\ busy = None
  /\ conts = <<>>
  /\ WriterGoes("eval")

-----------------------------------------------------------------------------
(***************************************************************************)
(* Shutdown: DB::~DB.  The DB may be destroyed when no thread is inside a  *)
(* call; suspended coroutines may still be in the queue.                   *)
(***************************************************************************)
NoCallInProgress ==
  \A c \in Clients \ {busy} :
    cpc[c] = "ready" \/ (c \in AsyncClients /\ cpc[c] = "suspended")

Stop ==
  /\ dpc = "open"
  /\ NoCallInProgress
  /\ stop' = TRUE
  /\ dpc' = "stopping"
  /\ UNCHANGED <<writing, armed, writers, writerVars, clientVars, scratch,
                 stats, history>>

StopNotify ==
  /\ dpc = "stopping"
  /\ wpc' = Notified(wpc)
  /\ dpc' = "joining"
  /\ UNCHANGED <<writing, armed, stop, writers, target, group, conts, busy,
                 clientVars, scratch, stats, history>>

Join ==
  /\ dpc = "joining"
  /\ wpc = "exited"
  /\ dpc' = "closed"
  /\ UNCHANGED <<writing, armed, stop, writers, writerVars, clientVars,
                 scratch, stats, history>>

\* After ~DB nothing is left to run.
Terminated == dpc = "closed" /\ UNCHANGED vars

-----------------------------------------------------------------------------
InlineWrite(c) == InlineBegin(c) \/ \E st \in {"ok", "error"} : InlineFinish(c, st)
ClientStep(c)  == InlineWrite(c) \/ InlineNotify(c) \/ Yield(c)

WriterMoves ==
  \/ WriterSleep \/ WriterExit \/ WriterDrain \/ WriterOpenWindow
  \/ WindowAgain \/ WindowFull \/ WindowTimeout
  \/ WriterResume \/ WriterLoop

WriterStep ==
  \/ WriterMoves
  \/ WriterBegin
  \/ \E st \in {"ok", "error"} : WriterFinish(st)

Next ==
  \/ \E c \in Clients : EnqueueInline(c) \/ EnqueueQueued(c) \/ ClientStep(c)
  \/ WriterStep
  \/ SpuriousWakeup
  \/ Stop \/ StopNotify \/ Join
  \/ Terminated

Spec == Init /\ [][Next]_vars

(***************************************************************************)
(* Threads that are inside the engine keep running and wait_for times out; *)
(* nobody has to issue a write, to destroy the DB or to wake up spuriously.*)
(***************************************************************************)
Fairness ==
  /\ \A c \in Clients : WF_vars(ClientStep(c))
  /\ WF_vars(WriterStep)
  /\ WF_vars(WindowTimeout)
  /\ WF_vars(StopNotify)
  /\ WF_vars(Join)

FairSpec == Spec /\ Fairness
-----------------------------------------------------------------------------
\* Every variable has the type of the member of DB it stands for.
TypeOK ==
  /\ writing \in BOOLEAN /\ armed \in BOOLEAN /\ stop \in BOOLEAN
  /\ writers \in Seq(Clients)
  /\ wpc \in WriterPcs
  /\ target \in Nat
  /\ group \in Seq(Clients)
  /\ conts \in Seq(Clients)
  /\ busy \in Clients \cup {None}
  /\ cpc \in [Clients -> ClientPcs]
  /\ status \in [Clients -> {"ok", "error"}]
  /\ left \in [Clients -> Nat]
  /\ scratch \in Seq(Clients)
  /\ dpc \in DtorPcs
  /\ stats \in [StatFields -> Nat]
  /\ issued \in Seq(Clients)
  /\ taken \in Seq(Clients)

\* writeGroup works on walRecord_, writeScratch_, walOffset_ and nextSequence_
\* without a lock; only writing_ keeps its callers apart.  Whoever is inside
\* writeGroup still finds its own group in the shared scratch.
ScratchOwned ==
  /\ wpc = "write" => scratch = group
  /\ \A c \in Clients : cpc[c] = "write" => scratch = <<c>>

\* Writes reach writeGroup exactly once and in the order of their calls of
\* enqueueAsyncWriter, whatever mixture of the inline and the queued path
\* they take: what was issued is what was taken followed by the queue.
FifoNoLoss == issued = taken \o writers

\* A suspended coroutine is known to exactly one place that will resume it
\* (the queue, the group in flight or the continuations), and only suspended
\* coroutines are: none is stranded, none is resumed twice.
SuspendedAccounted ==
  /\ {c \in Clients : cpc[c] = "suspended"}
       = Range(writers) \cup Range(group) \cup Range(conts)
  /\ IsInjective(writers) /\ IsInjective(group) /\ IsInjective(conts)
  /\ Range(writers) \cap Range(group) = {}
  /\ Range(writers) \cap Range(conts) = {}
  /\ Range(group) \cap Range(conts) = {}

\* writerCv_ loses no wake-up: whenever the writer thread sleeps although the
\* condition it sleeps on holds, a notification is still on its way.
NotificationPending ==
  dpc = "stopping" \/ \E c \in Clients : cpc[c] = "notify"
NoLostWakeup ==
  /\ wpc = "asleep" /\ WakeCondition => NotificationPending
  /\ wpc = "window" /\ WindowOver(target) => NotificationPending

\* The writers of one group share its fate: as long as the continuations of a
\* group are being resumed, those still waiting have one and the same status,
\* whatever the ones already resumed have gone on to write.
GroupSharesFate ==
  \A i, j \in DOMAIN conts : status[conts[i]] = status[conts[j]]

\* ~DB returns only when every write that was accepted has been written and
\* every coroutine suspended on one has been resumed.
ShutdownDrains ==
  dpc = "closed" =>
    /\ taken = issued
    /\ \A c \in Clients : cpc[c] = "ready"

\* A snapshot taken by DebugStatsForTest counts each finished group as one
\* inline or one writer-thread drain, and at most one more drain than groups.
StatsAgree ==
  LET drains == stats["inlineDrains"] + stats["threadDrains"] IN
  /\ drains = stats["groups"] + (IF writing /\ wpc \notin {"window", "windowEval"}
                                 THEN 1 ELSE 0)
  /\ stats["suspensions"] = Len(issued)
  /\ stats["maxGroup"] <= Len(taken)

\* "The synchronous methods run the corresponding coroutine to completion on
\* the engine runtime": a blocking Put returns, also when it is called from
\* the continuation of an earlier write.
BlockingPutReturns ==
  \A c \in BlockingClients : cpc[c] = "suspended" ~> cpc[c] = "ready"
=============================================================================
