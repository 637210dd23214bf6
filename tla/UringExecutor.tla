---------------------------- MODULE UringExecutor ----------------------------
(***************************************************************************)
(* The raw io_uring executor (src/src/io/uring_executor.cc): submission of *)
(* single and linked operations under sqMutex, the submission ring with    *)
(* its wrapping indices, the completion thread, and what init acquires and *)
(* closeRing releases.                                                     *)
(*                                                                         *)
(* A task is one coroutine of WritevAndFDataSync (Linked), ReadAt or       *)
(* FDataSync, run by a thread of its own.  Its Operation objects live in   *)
(* its coroutine frame at an address that malloc may give to another frame *)
(* later; user_data is that address.  Operation 2 carries the continuation *)
(* (the fdatasync of a linked pair, the only one of a single), operation 1 *)
(* is the writev of a linked pair.                                         *)
(*                                                                         *)
(* The kernel (external) takes requests from the ring in io_uring_enter or *)
(* in its SQPOLL thread, runs a linked pair in order, cancels the rest of  *)
(* a chain after a failed or short one, and posts completions in order.    *)
(* faults says what may go wrong or be different:                          *)
(*   "setup"    io_uring_setup or an mmap fails                            *)
(*   "separate" the kernel has no IORING_FEAT_SINGLE_MMAP                  *)
(*   "enter"    an io_uring_enter that submits or wakes returns an error   *)
(*   "reorder"  the load of the SQ flags passes the store of the tail      *)
(***************************************************************************)
EXTENDS Integers, Sequences, FiniteSets, Functions

CONSTANTS
  Tasks,        \* coroutines
  Linked,       \* those of WritevAndFDataSync
  Closer,       \* the thread that is in Create and later in closeRing
  Addrs,        \* addresses that frames are allocated at
  None,         \* no frame
  Entries,      \* *ringEntries
  Wrap,         \* the ring indices are counted modulo Wrap, 2^32 in the code
  SqPollModes,  \* values of options.sqPoll
  FaultSets     \* what may go wrong: the choices for faults

Regions   == {"sq", "cq", "sqes"}
Resources == Regions \cup {"fd"}

ASSUME UringAssumption ==
  /\ IsFiniteSet(Tasks) /\ Linked \subseteq Tasks
  /\ Closer \notin Tasks
  /\ None \notin Addrs \cup Resources
  /\ Entries \in Nat \ {0}
  /\ Wrap \in Nat /\ Wrap > Entries /\ Wrap % Entries = 0
  /\ SqPollModes \subseteq BOOLEAN
  /\ FaultSets \subseteq SUBSET {"setup", "separate", "enter", "reorder"}

Threads   == Tasks \cup {Closer}

VARIABLES
  faults,       \* what may go wrong, see above
  sqPoll,       \* sqPollEnabled
  head, tail,   \* *sq.head, *sq.tail
  seen,         \* the tail as the SQPOLL thread sees it
  sqes,         \* sqes[index]
  pc,           \* where each task's thread, and closeRing, is
  addr,         \* where each task's frame is, None when there is none
  result,       \* Operation::result of operations 1 and 2 of each task
  outcome,      \* what each coroutine returned: "none", "ok", "error"
  poll,         \* the SQPOLL thread: "polling", "idle", "asleep"
  kern,         \* chains of requests the kernel works on
  cq,           \* completions posted and not yet consumed
  cpc,          \* where the completion thread is
  ringOpen,     \* ringFd >= 0
  hasState,     \* state_ != nullptr
  ptr,          \* sqRingPtr, cqRingPtr, sqesPtr: the region each points to
  acquired,     \* history: the descriptor, and the regions mapped
  released,     \* history: how often each was closed or unmapped
  queued,       \* history: the requests published and not yet taken, in order
  resumed,      \* history: how often each coroutine was resumed
  done          \* history: the <<task, operation>> that the kernel did

env      == <<faults, sqPoll>>
ring     == <<head, tail, seen, sqes, queued>>
taskVars == <<addr, result, outcome, resumed>>
kernVars == <<kern, cq, done>>
setup    == <<hasState, ptr, acquired>>
vars     == <<env, ring, pc, taskVars, poll, kernVars, cpc, ringOpen, setup, released>>

\* A request; own is the task it was made by, which user_data does not tell.
Request == [own : Tasks, addr : Addrs, op : {1, 2}, link : BOOLEAN]
Nop     == [own |-> Closer, addr |-> None, op |-> 2, link |-> FALSE]

(***************************************************************************)
(* Program counters.                                                       *)
(*   "creating"   in init; "failed" when init has returned an error        *)
(*   "published"  the tail is stored, sqMutex is held                      *)
(*   "unlocking"  submission has succeeded, sqMutex is held                *)
(*   "suspended"  submitted; closeRing waits in join                       *)
(*   "returned"   the coroutine's frame is destroyed; closeRing is over    *)
(***************************************************************************)
ThreadPcs     == {"creating", "failed", "new", "published", "unlocking", "suspended", "returned"}
CompletionPcs == {"none", "entering", "waiting", "reaping", "exited"}

Locked == \E s \in Threads : pc[s] \in {"published", "unlocking"}

\* A writev result of 0 counts as short, an fdatasync or readv result of 0 as Ok.
Init ==
  /\ faults \in FaultSets /\ sqPoll \in SqPollModes
  /\ head = 0 /\ tail = 0 /\ seen = 0
  /\ sqes = [i \in 0..Entries - 1 |-> Nop]
  /\ pc = [s \in Threads |-> IF s = Closer THEN "creating" ELSE "new"]
  /\ addr = [t \in Tasks |-> None]
  /\ result = [t \in Tasks |-> <<"fail", "ok">>]
  /\ outcome = [t \in Tasks |-> "none"]
  /\ poll = "polling" /\ kern = {} /\ cq = <<>>
  /\ cpc = "none" /\ ringOpen = FALSE /\ hasState = TRUE
  /\ ptr = [r \in Regions |-> None]
  /\ acquired = {} /\ released = [r \in Resources |-> 0]
  /\ queued = <<>> /\ resumed = [t \in Tasks |-> 0] /\ done = {}

-----------------------------------------------------------------------------
(***************************************************************************)
(* init and the end of closeRing.                                          *)
(***************************************************************************)
\* Mutant: the completion ring is unmapped wherever it is.
CqUnmapped_Twice == ptr["cq"]

\* The region that closeRing unmaps for cqRingPtr, if any.
CqUnmapped == IF ptr["cq"] = ptr["sq"] THEN None ELSE ptr["cq"]

\* closeRing, when there is no completion thread any more.
Release ==
  LET hit(x, r) == IF x = r THEN 1 ELSE 0 IN
  /\ released' = [r \in Resources |->
       released[r] + hit(ptr["sqes"], r) + hit(CqUnmapped, r) + hit(ptr["sq"], r)
                   + IF r = "fd" /\ ringOpen THEN 1 ELSE 0]
  /\ ringOpen' = FALSE
  /\ hasState' = FALSE
  /\ UNCHANGED <<ptr, acquired>>

\* io_uring_setup; when it fails there is nothing to close.
SetupRing ==
  /\ pc[Closer] = "creating" /\ ~ringOpen
  /\ \/ /\ ringOpen' = TRUE
        /\ acquired' = {"fd"}
        /\ UNCHANGED <<pc, hasState>>
     \/ /\ "setup" \in faults
        /\ hasState' = FALSE
        /\ pc' = [pc EXCEPT ![Closer] = "failed"]
        /\ UNCHANGED <<ringOpen, acquired>>
  /\ UNCHANGED <<env, ring, taskVars, poll, kernVars, cpc, ptr, released>>

\* The regions before r are mapped, r and those after it are not.
IsNext(r) ==
  /\ ptr["sq"] = None <=> r = "sq"
  /\ ptr["cq"] = None <=> r \in {"sq", "cq"}
  /\ ptr["sqes"] = None

\* The mmap of a region, or taking the completion ring from the mapping of the
\* submission ring.
Mmap(r) ==
  /\ pc[Closer] = "creating" /\ ringOpen
  /\ IsNext(r)
  /\ LET shared == r = "cq" /\ "separate" \notin faults IN
     \/ /\ ptr' = [ptr EXCEPT ![r] = IF shared THEN ptr["sq"] ELSE r]
        /\ acquired' = IF shared THEN acquired ELSE acquired \cup {r}
        /\ UNCHANGED <<pc, ringOpen, hasState, released>>
     \/ /\ ~shared /\ "setup" \in faults
        /\ Release
        /\ pc' = [pc EXCEPT ![Closer] = "failed"]
  /\ UNCHANGED <<env, ring, taskVars, poll, kernVars, cpc>>

\* init starts the completion thread and returns.
StartThread ==
  /\ pc[Closer] = "creating" /\ ringOpen
  /\ ptr["sqes"] /= None
  /\ cpc' = "entering"
  /\ pc' = [pc EXCEPT ![Closer] = "new"]
  /\ UNCHANGED <<env, ring, taskVars, poll, kernVars, ringOpen, setup, released>>

\* Create returns an error and destroys its executor: closeRing again.
DestroyFailed ==
  /\ pc[Closer] = "failed"
  /\ pc' = [pc EXCEPT ![Closer] = "returned"]
  /\ IF hasState THEN Release ELSE UNCHANGED <<ringOpen, setup, released>>
  /\ UNCHANGED <<env, ring, taskVars, poll, kernVars, cpc>>

-----------------------------------------------------------------------------
(***************************************************************************)
(* The submission ring.                                                    *)
(***************************************************************************)
\* Mutant: the index does not wrap.
Advance_NoWrap(i, n) == i + n

Advance(i, n) == (i + n) % Wrap

Pending(t) == (t - head) % Wrap

\* Mutant: one entry too many is let in.
IsFull_OffByOne(n) == Pending(tail) + n > Entries + 1

IsFull(n) == Pending(tail) + n > Entries

\* The requests of a submission, for a frame at a.
Requests(s, a) ==
  LET request(op, link) == [own |-> s, addr |-> a, op |-> op, link |-> link] IN
  IF s = Closer THEN <<Nop>>
  ELSE IF s \in Linked THEN <<request(1, TRUE), request(2, FALSE)>>
  ELSE <<request(2, FALSE)>>

Count(s) == IF s \in Linked THEN 2 ELSE 1

\* Writing the requests and storing the tail.  The store may stay in the store
\* buffer of the CPU until the next locked instruction.
Publish(reqs) ==
  /\ sqes' = [i \in 0..Entries - 1 |->
               LET hit == {k \in DOMAIN reqs : (tail + k - 1) % Entries = i}
               IN  IF hit = {} THEN sqes[i] ELSE reqs[CHOOSE k \in hit : TRUE]]
  /\ tail' = Advance(tail, Len(reqs))
  /\ seen' = IF "reorder" \in faults THEN seen ELSE tail'
  /\ queued' = queued \o reqs
  /\ UNCHANGED head

\* A coroutine resumed on its own thread with submitFailed runs to its end.
Fails(t) ==
  /\ outcome' = [outcome EXCEPT ![t] = "error"]
  /\ resumed' = [resumed EXCEPT ![t] = @ + 1]
  /\ addr' = [addr EXCEPT ![t] = None]
  /\ pc' = [pc EXCEPT ![t] = "returned"]
  /\ UNCHANGED result

\* closeRing closes the descriptor when its NOP cannot be submitted.
SubmitError(s) ==
  IF s = Closer
  THEN /\ ringOpen' = FALSE
       /\ released' = [released EXCEPT !["fd"] = @ + 1]
       /\ pc' = [pc EXCEPT ![s] = "suspended"]
       /\ UNCHANGED taskVars
  ELSE Fails(s) /\ UNCHANGED <<ringOpen, released>>

\* The executor is used until its destructor runs, by calls that have returned
\* by then.
MaySubmit(s) ==
  /\ pc[s] = "new"
  /\ IF s = Closer THEN \A t \in Tasks : pc[t] \in {"new", "returned"}
                   ELSE pc[Closer] = "new"

\* submitLinked and submitRaw up to the store of the tail.
Submit(s) ==
  /\ MaySubmit(s)
  /\ ~Locked
  /\ \/ /\ IsFull(Count(s))
        /\ SubmitError(s)
        /\ UNCHANGED ring
     \/ /\ ~IsFull(Count(s))
        /\ pc' = [pc EXCEPT ![s] = "published"]
        /\ IF s = Closer
           THEN Publish(Requests(s, None)) /\ UNCHANGED addr
           ELSE \E a \in Addrs \ Range(addr) :
                  Publish(Requests(s, a)) /\ addr' = [addr EXCEPT ![s] = a]
        /\ UNCHANGED <<result, outcome, resumed, ringOpen, released>>
  /\ UNCHANGED <<env, poll, kernVars, cpc, setup>>

-----------------------------------------------------------------------------
(***************************************************************************)
(* The kernel's side of the submission ring.                               *)
(***************************************************************************)
ChainsOf(q) ==
  {IF q[i].link /\ i < Len(q) THEN <<q[i], q[i + 1]>> ELSE <<q[i]>> :
     i \in {j \in DOMAIN q : j = 1 \/ ~q[j - 1].link}}

\* The kernel takes n requests from the ring.
Take(n) ==
  /\ kern' = kern \cup ChainsOf([k \in 1..n |-> sqes[(head + k - 1) % Entries]])
  /\ head' = Advance(head, n)
  /\ queued' = SubSeq(queued, n + 1, Len(queued))
  /\ UNCHANGED <<tail, sqes, cq, done>>

\* io_uring_enter with to_submit: it takes so many from the front of the ring,
\* whoever published them.
Enter(s) ==
  /\ pc[s] = "published"
  /\ ~sqPoll
  /\ seen' = tail
  /\ \/ /\ Take(IF Count(s) < Pending(tail) THEN Count(s) ELSE Pending(tail))
        /\ pc' = [pc EXCEPT ![s] = "suspended"]
        /\ UNCHANGED <<taskVars, ringOpen, released>>
     \/ /\ "enter" \in faults
        /\ SubmitError(s)
        /\ UNCHANGED <<head, tail, sqes, queued, kernVars>>
  /\ UNCHANGED <<env, poll, cpc, setup>>

\* Mutant: the flag is not looked at.
NeedWakeup_Never == FALSE

\* IORING_SQ_NEED_WAKEUP
NeedWakeup == poll \in {"idle", "asleep"}

\* wakeSqPollIfNeeded
WakeSqPollIfNeeded(s) ==
  /\ pc[s] = "published"
  /\ sqPoll
  /\ \/ /\ ~NeedWakeup
        /\ pc' = [pc EXCEPT ![s] = "unlocking"]
        /\ UNCHANGED <<seen, poll, taskVars, ringOpen, released>>
     \/ /\ NeedWakeup
        /\ seen' = tail
        /\ poll' = "polling"
        /\ pc' = [pc EXCEPT ![s] = "unlocking"]
        /\ UNCHANGED <<taskVars, ringOpen, released>>
     \/ /\ NeedWakeup
        /\ "enter" \in faults
        /\ seen' = tail
        /\ SubmitError(s)
        /\ UNCHANGED poll
  /\ UNCHANGED <<env, head, tail, sqes, queued, kernVars, cpc, setup>>

Unlock(s) ==
  /\ pc[s] = "unlocking"
  /\ seen' = tail
  /\ pc' = [pc EXCEPT ![s] = "suspended"]
  /\ UNCHANGED <<env, head, tail, sqes, queued, taskVars, poll, kernVars,
                 cpc, ringOpen, setup, released>>

PollTake ==
  /\ sqPoll /\ poll = "polling"
  /\ Pending(seen) > 0
  /\ Take(Pending(seen))
  /\ UNCHANGED <<env, seen, pc, taskVars, poll, cpc, ringOpen, setup, released>>

\* After sq_thread_idle ms without work it sets NEED_WAKEUP, looks at the tail
\* once more and sleeps.
PollSleep ==
  /\ sqPoll
  /\ \/ poll = "polling" /\ Pending(seen) = 0 /\ poll' = "idle"
     \/ poll = "idle" /\ Pending(seen) = 0 /\ poll' = "asleep"
     \/ poll = "idle" /\ Pending(seen) > 0 /\ poll' = "polling"
  /\ UNCHANGED <<env, ring, pc, taskVars, kernVars, cpc, ringOpen, setup, released>>

\* A request of a chain completes; after a failure or a short write the rest of
\* the chain is cancelled.
KernelComplete(ch) ==
  LET cqe(r, res) == [own |-> r.own, addr |-> r.addr, op |-> r.op, res |-> res]
  IN
  /\ \/ /\ cq' = Append(cq, cqe(Head(ch), "ok"))
        /\ kern' = (kern \ {ch}) \cup (IF Len(ch) = 1 THEN {} ELSE {Tail(ch)})
        /\ done' = done \cup {<<Head(ch).own, Head(ch).op>>}
     \/ /\ Head(ch) /= Nop
        /\ cq' = cq \o [k \in DOMAIN ch |-> cqe(ch[k], "fail")]
        /\ kern' = kern \ {ch}
        /\ UNCHANGED done
  /\ UNCHANGED <<env, ring, pc, taskVars, poll, cpc, ringOpen, setup, released>>

-----------------------------------------------------------------------------
(***************************************************************************)
(* completionLoop.                                                         *)
(***************************************************************************)
CompletionEnter ==
  /\ cpc = "entering"
  /\ cpc' = IF ringOpen THEN "waiting" ELSE "exited"
  /\ UNCHANGED <<env, ring, pc, taskVars, poll, kernVars, ringOpen, setup, released>>

CompletionWoken ==
  /\ cpc = "waiting"
  /\ cq /= <<>>
  /\ cpc' = "reaping"
  /\ UNCHANGED <<env, ring, pc, taskVars, poll, kernVars, ringOpen, setup, released>>

\* Mutant: every operation carries the continuation.
HasContinuation_All(op) == TRUE

HasContinuation(op) == op = 2

\* Mutant: the result of the fdatasync is not looked at.
Outcome_IgnoreSync(t, res) == IF t \in Linked THEN res[1] ELSE res[2]

\* await_resume
Outcome(t, res) ==
  IF (t \in Linked => res[1] = "ok") /\ res[2] = "ok" THEN "ok" ELSE "error"

\* Writing the result into the Operation that user_data points to, which is
\* one of the task whose frame is there now, and resuming its coroutine.
Complete(t, c) ==
  /\ result' = [result EXCEPT ![t][c.op] = c.res]
  /\ IF HasContinuation(c.op)
     THEN /\ outcome' = [outcome EXCEPT ![t] = Outcome(t, result'[t])]
          /\ resumed' = [resumed EXCEPT ![t] = @ + 1]
     ELSE UNCHANGED <<outcome, resumed>>
  /\ UNCHANGED addr

\* Mutant: the NOP of closeRing does not end the loop.
AfterNop_Continue == "reaping"

\* stopping is set before the NOP is submitted.
AfterNop == "exited"

CompletionReap ==
  /\ cpc = "reaping"
  /\ cq /= <<>>
  /\ cq' = Tail(cq)
  /\ LET c == Head(cq) IN
     \/ /\ c.own = Closer
        /\ cpc' = AfterNop
        /\ UNCHANGED taskVars
     \/ /\ c.own /= Closer
        /\ \E t \in Tasks : addr[t] = c.addr /\ Complete(t, c)
        /\ UNCHANGED cpc
     \/ /\ c.own /= Closer
        /\ c.addr \notin Range(addr)   \* a write into freed memory
        /\ UNCHANGED <<taskVars, cpc>>
  /\ UNCHANGED <<env, ring, pc, poll, kern, done, ringOpen, setup, released>>

CompletionDrained ==
  /\ cpc = "reaping"
  /\ cq = <<>>
  /\ cpc' = "entering"
  /\ UNCHANGED <<env, ring, pc, taskVars, poll, kernVars, ringOpen, setup, released>>

\* Task::run returns and destroys the frame.
Return(t) ==
  /\ pc[t] = "suspended"
  /\ outcome[t] /= "none"
  /\ pc' = [pc EXCEPT ![t] = "returned"]
  /\ addr' = [addr EXCEPT ![t] = None]
  /\ UNCHANGED <<env, ring, result, outcome, resumed, poll, kernVars, cpc,
                 ringOpen, setup, released>>

\* Mutant: the thread is not joined.
Joinable_Always == TRUE

\* completionThread.join() returns.
Joinable == cpc = "exited"

\* closeRing joins the completion thread, unmaps the rings and closes the
\* descriptor.
Join ==
  /\ pc[Closer] = "suspended"
  /\ Joinable
  /\ pc' = [pc EXCEPT ![Closer] = "returned"]
  /\ Release
  /\ UNCHANGED <<env, ring, taskVars, poll, kernVars, cpc>>

Terminated == pc[Closer] = "returned" /\ UNCHANGED vars

-----------------------------------------------------------------------------
ThreadStep(s) == Enter(s) \/ WakeSqPollIfNeeded(s) \/ Unlock(s)

CompletionStep ==
  CompletionEnter \/ CompletionWoken \/ CompletionReap \/ CompletionDrained

Next ==
  \/ SetupRing \/ (\E r \in Regions : Mmap(r)) \/ StartThread \/ DestroyFailed
  \/ \E s \in Threads : Submit(s) \/ ThreadStep(s)
  \/ \E t \in Tasks : Return(t)
  \/ PollTake \/ PollSleep
  \/ \E ch \in kern : KernelComplete(ch)
  \/ CompletionStep
  \/ Join
  \/ Terminated

Spec == Init /\ [][Next]_vars

(***************************************************************************)
(* Threads inside the executor keep running, the SQPOLL thread polls while *)
(* it is awake, and the kernel completes what it has taken.  Nobody has to *)
(* submit, and the SQPOLL thread need not fall asleep.                     *)
(***************************************************************************)
Fairness ==
  /\ \A s \in Threads : WF_vars(ThreadStep(s))
  /\ \A t \in Tasks : WF_vars(Return(t))
  /\ WF_vars(PollTake)
  /\ WF_vars(poll = "idle" /\ PollSleep)
  /\ WF_vars(\E ch \in kern : KernelComplete(ch))
  /\ WF_vars(CompletionStep)
  /\ WF_vars(Join)

FairSpec == Spec /\ Fairness
-----------------------------------------------------------------------------
\* Every variable has the type of the member or kernel object it stands for.
TypeOK ==
  /\ faults \in FaultSets
  /\ sqPoll \in BOOLEAN /\ ringOpen \in BOOLEAN /\ hasState \in BOOLEAN
  /\ ptr \in [Regions -> Regions \cup {None}]
  /\ acquired \subseteq Resources
  /\ released \in [Resources -> Nat]
  /\ head \in 0..Wrap - 1 /\ tail \in 0..Wrap - 1 /\ seen \in 0..Wrap - 1
  /\ sqes \in [0..Entries - 1 -> Request \cup {Nop}]
  /\ pc \in [Threads -> ThreadPcs]
  /\ addr \in [Tasks -> Addrs \cup {None}]
  /\ result \in [Tasks -> [1..2 -> {"ok", "fail"}]]
  /\ outcome \in [Tasks -> {"none", "ok", "error"}]
  /\ poll \in {"polling", "idle", "asleep"}
  /\ cpc \in CompletionPcs
  /\ queued \in Seq(Request \cup {Nop})
  /\ resumed \in [Tasks -> Nat]
  /\ done \subseteq Threads \X {1, 2}

\* The ring holds exactly the published requests, in order: no slot is
\* overwritten before the kernel has taken it, also when the indices wrap.
RingFifo ==
  /\ Len(queued) = Pending(tail)
  /\ \A k \in DOMAIN queued : queued[k] = sqes[(head + k - 1) % Entries]

\* The rings stay mapped while the completion thread or a submission uses them.
MappedWhileUsed ==
  cpc \in {"entering", "waiting", "reaping"} \/ Locked =>
    \A r \in Regions : ptr[r] \in acquired /\ released[ptr[r]] = 0

\* What init acquires is released once, wherever init or closeRing fails: no
\* region is unmapped twice, the descriptor is closed once, and nothing is
\* left when the executor is gone.
ReleasedOnce ==
  \A r \in Resources :
    /\ released[r] <= IF r \in acquired THEN 1 ELSE 0
    /\ pc[Closer] = "returned" /\ r \in acquired => released[r] = 1

\* No io_uring_enter that submits or wakes fails.
EnterSucceeds == "enter" \notin faults

\* "Buffers referenced by SQEs must remain alive until their CQEs are
\* consumed": whatever the ring, the kernel or the completion queue refers to
\* is in the frame of the task that submitted it, if no submission fails.
Outstanding ==
  Range(queued) \cup Range(cq) \cup UNION {Range(ch) : ch \in kern}
BuffersAlive ==
  EnterSucceeds => \A r \in Outstanding : r.own \in Tasks => addr[r.own] = r.addr

\* "A write API can return success only after the WAL fdatasync CQE succeeds":
\* WritevAndFDataSync returns Ok only if its own writev and its own fdatasync
\* were done.
SuccessIsSynced ==
  \A t \in Linked : outcome[t] = "ok" => {<<t, 1>>, <<t, 2>>} \subseteq done

\* SuccessIsSynced holds as long as no submission fails.
SubmittedSuccessIsSynced == EnterSucceeds => SuccessIsSynced

\* If no submission fails a coroutine is resumed once, by its completion or
\* because the ring is full.
ResumedOnce == EnterSucceeds => \A t \in Tasks : resumed[t] <= 1

\* Without faults every operation that was submitted returns to its caller.
EveryOperationReturns ==
  \A t \in Tasks : faults = {} /\ pc[t] = "published" ~> pc[t] = "returned"

\* Without faults closeRing comes to an end: the completion thread can be
\* joined.
CloseTerminates ==
  faults = {} /\ pc[Closer] = "published" ~> pc[Closer] = "returned"
=============================================================================
