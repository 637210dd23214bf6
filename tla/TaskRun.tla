------------------------------- MODULE TaskRun -------------------------------
(***************************************************************************)
(* storage_engine::Task (src/include/storage_engine/task.h): a lazily      *)
(* started coroutine, driven to its end either by run(), which blocks the  *)
(* calling thread on the promise's condition variable, or by co_await,     *)
(* which leaves a continuation in the promise.                             *)
(*                                                                         *)
(* The body of the coroutine may go on on another thread (the writer       *)
(* thread, the completion thread), so the owner of the Task and the        *)
(* coroutine are two actors.  Every critical section of promise.mutex_ and *)
(* every access to the promise outside of one is a step of its own.  Task  *)
(* objects that are not started may be moved.                              *)
(***************************************************************************)
EXTENDS Integers, FiniteSets

CONSTANTS
  Tasks,     \* coroutines
  Awaited,   \* those driven by co_await; the others by run()
  Slots,     \* places for Task objects
  None       \* no coroutine

ASSUME TaskAssumption ==
  IsFiniteSet(Slots) /\ Awaited \subseteq Tasks /\ None \notin Tasks

VARIABLES
  body,       \* where the coroutine is
  owner,      \* where the owner of the Task is
  completed,  \* promise.completed_
  outcome,    \* promise.value_ or promise.exception_
  cont,       \* promise.continuation_ is set
  frame,      \* the coroutine frame, which holds the promise, exists
  handle,     \* handle_ of each Task object
  started,    \* started_ of each Task object
  got         \* history: what takeResult gave the owner

slots == <<handle, started>>
vars  == <<body, owner, completed, outcome, cont, frame, slots, got>>

(***************************************************************************)
(* body:  "created"   suspended at initial_suspend                         *)
(*        "running"   in the body, on whatever thread, or suspended in it  *)
(*        "final"     FinalAwaiter::await_suspend, before its lock         *)
(*        "notify"    completed_ is set, before cv_.notify_all             *)
(*        "transfer"  before it reads continuation_                        *)
(*        "done"      suspended at final_suspend, not executing            *)
(*        "wild"      it has used the promise of a destroyed frame         *)
(* owner: "holding"   has the Task and has not started it                  *)
(*        "starting"  the body runs on the owner's thread                  *)
(*        "checking"  about to evaluate the predicate of wait              *)
(*        "asleep"    blocked in cv_.wait                                  *)
(*        "awaiting"  suspended in co_await                                *)
(*        "taking"    about to take the result                             *)
(*        "gone"      the Task is destroyed                                *)
(***************************************************************************)
BodyPcs  == {"created", "running", "final", "notify", "transfer", "done", "wild"}
OwnerPcs == {"holding", "starting", "checking", "asleep", "awaiting", "taking",
             "gone"}

Holders(t) == {s \in Slots : handle[s] = t}

\* Every coroutine was just called, its Task is somewhere.
Init ==
  /\ handle \in [Slots -> Tasks \cup {None}]
  /\ \A t \in Tasks : Cardinality(Holders(t)) = 1
  /\ started = [s \in Slots |-> FALSE]
  /\ body = [t \in Tasks |-> "created"]
  /\ owner = [t \in Tasks |-> "holding"]
  /\ completed = [t \in Tasks |-> FALSE]
  /\ outcome = [t \in Tasks |-> "none"]
  /\ cont = [t \in Tasks |-> FALSE]
  /\ frame = [t \in Tasks |-> TRUE]
  /\ got = [t \in Tasks |-> "none"]

-----------------------------------------------------------------------------
(***************************************************************************)
(* The owner: run, co_await, ~Task.                                        *)
(***************************************************************************)
OwnerTo(t, where) == owner' = [owner EXCEPT ![t] = where]
BodyTo(t, where)  == body' = [body EXCEPT ![t] = where]

\* ~Task for the objects that hold t.
Destroy(t) ==
  /\ frame' = [frame EXCEPT ![t] = FALSE]
  /\ OwnerTo(t, "gone")

\* A Task that is never started.
Drop(s) ==
  /\ handle[s] /= None
  /\ owner[handle[s]] = "holding"
  /\ Destroy(handle[s])
  /\ handle' = [handle EXCEPT ![s] = None]
  /\ UNCHANGED <<body, completed, outcome, cont, started, got>>

\* Mutant: the other object keeps its handle.
Exchanged_Kept(s, r) == [handle EXCEPT ![s] = handle[r]]

\* std::exchange(other.handle_, {})
Exchanged(s, r) == [handle EXCEPT ![s] = handle[r], ![r] = None]

\* Moving the Task in r to s, by assignment or into a new object; a Task that s
\* holds is destroyed.
Move(s, r) ==
  /\ s /= r
  /\ handle[r] /= None => owner[handle[r]] = "holding"
  /\ \/ /\ handle[s] = None
        /\ UNCHANGED <<owner, frame>>
     \/ /\ handle[s] /= None
        /\ owner[handle[s]] = "holding"
        /\ Destroy(handle[s])
  /\ handle' = Exchanged(s, r)
  /\ started' = [started EXCEPT ![s] = started[r], ![r] = FALSE]
  /\ UNCHANGED <<body, completed, outcome, cont, got>>

\* start and Awaiter::await_suspend.
Starts(s, drivers, where) ==
  /\ handle[s] \in drivers
  /\ owner[handle[s]] = "holding"
  /\ ~started[s]
  /\ started' = [started EXCEPT ![s] = TRUE]
  /\ BodyTo(handle[s], "running")
  /\ OwnerTo(handle[s], where)
  /\ UNCHANGED <<completed, outcome, frame, handle, got>>

Run(s) == Starts(s, Tasks \ Awaited, "starting") /\ UNCHANGED cont

\* handle_.resume() returns when the body suspends, to go on elsewhere, or when
\* it has come to its end.
Started(t) ==
  /\ owner[t] = "starting"
  /\ body[t] \in {"running", "done"}
  /\ OwnerTo(t, "checking")
  /\ UNCHANGED <<body, completed, outcome, cont, frame, slots, got>>

\* Mutant: a wake-up is taken for the completion.
MayReturn_AnyWakeup(t) == TRUE

MayReturn(t) == completed[t]

\* promise_type::wait
Wait(t) ==
  /\ owner[t] = "checking"
  /\ OwnerTo(t, IF MayReturn(t) THEN "taking" ELSE "asleep")
  /\ UNCHANGED <<body, completed, outcome, cont, frame, slots, got>>

SpuriousWakeup(t) ==
  /\ owner[t] = "asleep"
  /\ OwnerTo(t, "checking")
  /\ UNCHANGED <<body, completed, outcome, cont, frame, slots, got>>

\* Awaiter: await_ready finds completed_ unset on a Task that was not started.
Await(s) ==
  /\ Starts(s, Awaited, "awaiting")
  /\ cont' = [cont EXCEPT ![handle[s]] = TRUE]

\* takeResult, and the end of the full expression that the Task lives in.
TakeResult(t) ==
  /\ owner[t] = "taking"
  /\ got' = [got EXCEPT ![t] = outcome[t]]
  /\ Destroy(t)
  /\ handle' = [s \in Slots |-> IF s \in Holders(t) THEN None ELSE handle[s]]
  /\ started' = [s \in Slots |-> s \notin Holders(t) /\ started[s]]
  /\ UNCHANGED <<body, completed, outcome, cont>>

-----------------------------------------------------------------------------
(***************************************************************************)
(* The coroutine.                                                          *)
(***************************************************************************)
ReturnValue(t) ==
  /\ body[t] = "running"
  /\ outcome' = [outcome EXCEPT ![t] = "value"]
  /\ BodyTo(t, "final")
  /\ UNCHANGED <<owner, completed, cont, frame, slots, got>>

AfterThrow == "final"

UnhandledException(t) ==
  /\ body[t] = "running"
  /\ outcome' = [outcome EXCEPT ![t] = "exception"]
  /\ BodyTo(t, AfterThrow)
  /\ UNCHANGED <<owner, completed, cont, frame, slots, got>>

\* Mutant: no notification follows.
AfterLock_NoNotify == "transfer"

AfterLock == "notify"

FinalLock(t) ==
  /\ body[t] = "final"
  /\ completed' = [completed EXCEPT ![t] = TRUE]
  /\ BodyTo(t, AfterLock)
  /\ UNCHANGED <<owner, outcome, cont, frame, slots, got>>

\* Using the promise is a step to `where` while the frame exists.
UsePromise(t, where) == BodyTo(t, IF frame[t] THEN where ELSE "wild")

\* Mutant: the continuation is resumed along with the notification.
Notified_Resumes(where) ==
  IF where = "awaiting" THEN "taking" ELSE IF where = "asleep" THEN "checking" ELSE where

Notified(where) == IF where = "asleep" THEN "checking" ELSE where

\* promise.cv_.notify_all() after the unlock
FinalNotify(t) ==
  /\ body[t] = "notify"
  /\ UsePromise(t, "transfer")
  /\ OwnerTo(t, Notified(owner[t]))
  /\ UNCHANGED <<completed, outcome, cont, frame, slots, got>>

\* The symmetric transfer to continuation_, if there is one.
FinalTransfer(t) ==
  /\ body[t] = "transfer"
  /\ UsePromise(t, "done")
  /\ owner' = [owner EXCEPT ![t] = IF cont[t] THEN "taking" ELSE @]
  /\ UNCHANGED <<completed, outcome, cont, frame, slots, got>>

-----------------------------------------------------------------------------
OwnerStep(t) == Started(t) \/ Wait(t) \/ TakeResult(t)
BodyStep(t) ==
  ReturnValue(t) \/ UnhandledException(t) \/ FinalLock(t) \/ FinalNotify(t)
    \/ FinalTransfer(t)

Terminated == (\A t \in Tasks : owner[t] = "gone") /\ UNCHANGED vars

Next ==
  \/ \E s \in Slots : Drop(s) \/ Run(s) \/ Await(s) \/ \E r \in Slots : Move(s, r)
  \/ \E t \in Tasks : SpuriousWakeup(t) \/ OwnerStep(t) \/ BodyStep(t)
  \/ Terminated

Spec == Init /\ [][Next]_vars

\* What the body waits for happens (EveryCallReturns of Engine,
\* EveryOperationReturns of UringExecutor), and both threads keep running.
Fairness == \A t \in Tasks : WF_vars(OwnerStep(t)) /\ WF_vars(BodyStep(t))

FairSpec == Spec /\ Fairness
-----------------------------------------------------------------------------
\* Every variable has the type of the member of the promise it stands for.
TypeOK ==
  /\ body \in [Tasks -> BodyPcs]
  /\ owner \in [Tasks -> OwnerPcs]
  /\ completed \in [Tasks -> BOOLEAN]
  /\ outcome \in [Tasks -> {"none", "value", "exception"}]
  /\ cont \in [Tasks -> BOOLEAN]
  /\ frame \in [Tasks -> BOOLEAN]
  /\ handle \in [Slots -> Tasks \cup {None}]
  /\ started \in [Slots -> BOOLEAN]
  /\ got \in [Tasks -> {"none", "value", "exception"}]

\* A frame belongs to one Task object as long as it exists and to none after:
\* moving neither leaks a coroutine nor destroys one twice, and started_ goes
\* along, so that no coroutine is resumed that was started before.
OwnedOnce ==
  \A t \in Tasks :
    /\ Cardinality(Holders(t)) = IF frame[t] THEN 1 ELSE 0
    /\ \A s \in Holders(t) : started[s] <=> body[t] /= "created"

\* Whoever is done with a Task that was started got its value or its exception,
\* whichever thread produced it.
ResultDelivered ==
  \A t \in Tasks : owner[t] = "gone" /\ body[t] /= "created" =>
    got[t] = outcome[t] /\ got[t] /= "none"

\* wait does not miss the completion: whoever sleeps although completed_ is set
\* is about to be notified.
NoMissedCompletion ==
  \A t \in Tasks : owner[t] = "asleep" /\ completed[t] => body[t] = "notify"

\* A frame that is destroyed by its owner after run or co_await belongs to a
\* coroutine that executes no more.
Finished(t) == owner[t] = "gone" => body[t] \in {"created", "done"}

\* co_await: the awaiting coroutine goes on only after the symmetric transfer.
AwaitRunsToCompletion == \A t \in Awaited : Finished(t)

\* "The synchronous methods run the corresponding coroutine to completion":
\* run returns, and the frame is destroyed, only after FinalAwaiter is through
\* with the promise.
RunRunsToCompletion == \A t \in Tasks \ Awaited : Finished(t)

\* Every Task that is run or awaited gives its owner the result.
EveryRunReturns ==
  \A t \in Tasks : owner[t] \in {"starting", "awaiting"} ~> owner[t] = "gone"
=============================================================================
