-------------------------- MODULE GroupCommitProofs --------------------------
(***************************************************************************)
(* Proofs about GroupCommit for every set of clients, every group-commit   *)
(* setting and every number of writes.                                     *)
(***************************************************************************)
EXTENDS GroupCommit, SequenceTheorems, TLAPS

\* The provers of a leaf that names none.
USE SMTT(30), Zenon

USE DEF WriterGoes, AfterInline, Drained, Informed, InlineWrite,
        WriterMoves

\* The writer thread owns writing_ from the moment it is let out of wait until
\* its group is finished; an inline writer while it runs writeGroup.
WriterHolds == wpc \in {"windowEval", "window", "claimed", "write"}
Holds(c)    == cpc[c] \in {"claimed", "write"}

\* writing_ is held exactly when somebody owns it, and by one owner.
Ownership ==
  /\ WriterHolds => writing
  /\ \A c \in Clients : Holds(c) => writing
  /\ writing => (WriterHolds \/ \E c \in Clients : Holds(c))
  /\ \A c \in Clients : WriterHolds => ~Holds(c)
  /\ \A c, d \in Clients : Holds(c) /\ Holds(d) => c = d

\* The locals of writerLoop are empty outside their part of the loop.
WriterLocals ==
  /\ wpc \notin {"claimed", "write"} => group = <<>>
  /\ wpc /= "resuming" => conts = <<>> /\ busy = None
  /\ wpc = "exited" => stop /\ writers = <<>>

\* After stopWriter_ is set only the continuation running on the writer thread
\* is still inside the engine.
Stopping ==
  /\ stop <=> dpc /= "open"
  /\ stop => \A c \in Clients : c /= busy => cpc[c] \in {"ready", "suspended"}
  /\ dpc = "closed" => wpc = "exited"

\* The inductive invariant of the coordination protocol.
IndInv == TypeOK /\ Ownership /\ WriterLocals /\ Stopping

-----------------------------------------------------------------------------
(***************************************************************************)
(* Facts about the helpers.                                                *)
(***************************************************************************)

\* Counting keeps the counters natural numbers.
LEMMA BumpType ==
  ASSUME NEW s \in [StatFields -> Nat], NEW F
  PROVE  Bump(s, F) \in [StatFields -> Nat]
  BY DEF Bump

\* Finishing a group keeps the counters natural numbers.
LEMMA GroupDoneType ==
  ASSUME NEW s \in [StatFields -> Nat], NEW n \in Nat
  PROVE  GroupDone(s, n) \in [StatFields -> Nat]
  BY BumpType DEF GroupDone, StatFields

\* A notification leaves the writer thread at one of its program counters,
\* awake, and moves it only if it was asleep.
LEMMA NotifiedType ==
  ASSUME NEW pc \in WriterPcs
  PROVE  /\ Notified(pc) \in WriterPcs
         /\ Notified(pc) \notin {"asleep", "window"}
         /\ pc \notin {"asleep", "window"} => Notified(pc) = pc
         /\ pc = "asleep" => Notified(pc) = "eval"
         /\ pc = "window" => Notified(pc) = "windowEval"
  BY DEF Notified, WriterPcs

\* Queueing a writer at the back of the queue is queueing it behind everything
\* issued before it.
LEMMA AppendConcat ==
  ASSUME NEW s \in Seq(Clients), NEW t \in Seq(Clients), NEW e \in Clients
  PROVE  Append(s \o t, e) = s \o Append(t, e)
<1>1. <<e>> \in Seq(Clients) /\ s \o t \in Seq(Clients)
  BY ConcatProperties
<1>2. Append(s \o t, e) = (s \o t) \o <<e>> /\ Append(t, e) = t \o <<e>>
  BY <1>1, AppendIsConcat
<1>3. (s \o t) \o <<e>> = s \o (t \o <<e>>)
  BY <1>1, ConcatAssociative
<1>4. QED
  BY <1>2, <1>3

\* What Append, Head, Tail and Range have to do with each other.
LEMMA AppendRange ==
  ASSUME NEW S, NEW s \in Seq(S), NEW e \in S
  PROVE  /\ Range(Append(s, e)) = Range(s) \cup {e}
         /\ IsInjective(s) /\ e \notin Range(s) => IsInjective(Append(s, e))
  BY AppendProperties DEF Range, IsInjective

\* The front of the queue is one of its members.
LEMMA HeadInRange ==
  ASSUME NEW S, NEW s \in Seq(S), s /= <<>>
  PROVE  Head(s) \in Range(s)
  BY HeadTailProperties DEF Range

\* pop_front shifts the members by one place.
LEMMA TailElements ==
  ASSUME NEW S, NEW s \in Seq(S), s /= <<>>
  PROVE  /\ Len(s) \in Nat \ {0} /\ DOMAIN s = 1..Len(s) /\ Head(s) = s[1]
         /\ DOMAIN Tail(s) = 1..(Len(s) - 1)
         /\ \A i \in 1..(Len(s) - 1) : Tail(s)[i] = s[i + 1]
  BY HeadTailProperties, LenProperties, EmptySeq

\* Without repetitions, pop_front removes exactly the front from the members.
LEMMA TailRange ==
  ASSUME NEW S, NEW s \in Seq(S), s /= <<>>, IsInjective(s)
  PROVE  /\ Range(Tail(s)) = Range(s) \ {Head(s)}
         /\ IsInjective(Tail(s))
<1>1. /\ Len(s) \in Nat \ {0} /\ DOMAIN s = 1..Len(s) /\ Head(s) = s[1]
      /\ DOMAIN Tail(s) = 1..(Len(s) - 1)
      /\ \A i \in 1..(Len(s) - 1) : Tail(s)[i] = s[i + 1]
  BY TailElements
<1>2. ASSUME NEW x \in Range(s), x /= Head(s) PROVE x \in Range(Tail(s))
  <2>1. PICK i \in 1..Len(s) : x = s[i]
    BY <1>1, <1>2 DEF Range
  <2>2. i - 1 \in 1..(Len(s) - 1) /\ Tail(s)[i - 1] = x
    BY <1>1, <1>2, <2>1
  <2>3. QED
    BY <1>1, <2>2, Zenon DEF Range
<1>3. ASSUME NEW x \in Range(Tail(s)) PROVE x \in Range(s) /\ x /= Head(s)
  BY <1>1, <1>3 DEF Range, IsInjective
<1>4. IsInjective(Tail(s))
  BY <1>1 DEF IsInjective
<1>5. QED
  BY <1>2, <1>3, <1>4

\* A cleared queue has no members.
LEMMA EmptyRange == Range(<<>>) = {} /\ IsInjective(<<>>)
  BY DEF Range, IsInjective

-----------------------------------------------------------------------------
(***************************************************************************)
(* Each lemma below has one step per action.                               *)
(***************************************************************************)

\* Every step keeps the types.
LEMMA TypeStep ==
  ASSUME TypeOK, [Next]_vars
  PROVE  TypeOK'
<1>1. ASSUME NEW c \in Clients, EnqueueInline(c)
      PROVE  TypeOK'
  <2>1. stats' \in [StatFields -> Nat]
    BY <1>1, BumpType, Zenon DEF EnqueueInline, TypeOK
  <2>2. left' \in [Clients -> Nat]
    BY <1>1 DEF EnqueueInline, MayIssue, Issue, TypeOK
  <2>3. QED
    BY <1>1, <2>1, <2>2 DEF EnqueueInline, Issue, writerVars, TypeOK, ClientPcs
<1>2. ASSUME NEW c \in Clients, EnqueueQueued(c)
      PROVE  TypeOK'
  <2>1. stats' \in [StatFields -> Nat]
    BY <1>2, BumpType, Zenon DEF EnqueueQueued, TypeOK
  <2>2. left' \in [Clients -> Nat]
    BY <1>2 DEF EnqueueQueued, MayIssue, Issue, TypeOK
  <2>3. armed' \in BOOLEAN
    BY <1>2, Zenon DEF EnqueueQueued
  <2>4. wpc' \in WriterPcs
    BY <1>2, NotifiedType DEF EnqueueQueued, TypeOK
  <2>5. QED
    BY <1>2, <2>1, <2>2, <2>3, <2>4 DEF EnqueueQueued, Issue, TypeOK, ClientPcs
<1>3. ASSUME NEW c \in Clients, InlineBegin(c)
      PROVE  TypeOK'
  BY <1>3, GroupCommitAssumption DEF InlineBegin, writerVars, history, TypeOK,
     ClientPcs
<1>4. ASSUME NEW c \in Clients, NEW st \in {"ok", "error"}, InlineFinish(c, st)
      PROVE  TypeOK'
  BY <1>4, GroupCommitAssumption, GroupDoneType, Zenon DEF InlineFinish, writerVars,
     history, TypeOK, ClientPcs
<1>5. ASSUME NEW c \in Clients, InlineNotify(c)
      PROVE  TypeOK'
  BY <1>5, GroupCommitAssumption, NotifiedType DEF InlineNotify, history,
     TypeOK, ClientPcs
<1>6. ASSUME NEW c \in Clients, Yield(c)
      PROVE  TypeOK'
  BY <1>6, GroupCommitAssumption DEF Yield, clientVars, history, TypeOK
<1>7. CASE WriterSleep
  BY <1>7, GroupCommitAssumption DEF WriterSleep, clientVars, history, TypeOK,
     WriterPcs
<1>8. CASE WriterExit
  BY <1>8, GroupCommitAssumption DEF WriterExit, clientVars, history, TypeOK,
     WriterPcs
<1>9. CASE WriterDrain
  <2>1. stats' \in [StatFields -> Nat]
    BY <1>9, BumpType, Zenon DEF WriterDrain, Drain, WindowStats, TypeOK
  <2>2. UNCHANGED <<stop, target, conts, busy, clientVars, scratch, dpc, issued>>
        /\ writing' = TRUE /\ armed' = FALSE /\ wpc' = "claimed"
        /\ writers' = <<>> /\ group' = writers /\ taken' = taken \o writers
    BY <1>9, Zenon DEF WriterDrain, Drain
  <2>3. writers' \in Seq(Clients) /\ group' \in Seq(Clients)
        /\ taken' \in Seq(Clients)
    BY <2>2, ConcatProperties, EmptySeq DEF TypeOK
  <2>4. QED
    BY <2>1, <2>2, <2>3, Zenon DEF clientVars, TypeOK, WriterPcs
<1>10. CASE WriterOpenWindow
  BY <1>10, GroupCommitAssumption, BumpType, Zenon DEF WriterOpenWindow, clientVars,
     history, TypeOK, WriterPcs, WindowTarget, WindowStats
<1>11. CASE WindowAgain
  BY <1>11, GroupCommitAssumption DEF WindowAgain, clientVars, history,
     TypeOK, WriterPcs
<1>12. CASE WindowFull
  <2>1. stats' \in [StatFields -> Nat]
    BY <1>12, BumpType, Zenon DEF WindowFull, Drain, TypeOK
  <2>2. QED
    BY <1>12, <2>1 DEF WindowFull, Drain, clientVars, TypeOK, WriterPcs
<1>13. CASE WindowTimeout
  <2>1. stats' \in [StatFields -> Nat]
    BY <1>13, BumpType, Zenon DEF WindowTimeout, Drain, TypeOK
  <2>2. QED
    BY <1>13, <2>1 DEF WindowTimeout, Drain, clientVars, TypeOK, WriterPcs
<1>14. CASE WriterBegin
  BY <1>14, GroupCommitAssumption DEF WriterBegin, clientVars, history,
     TypeOK, WriterPcs
<1>15. ASSUME NEW st \in {"ok", "error"}, WriterFinish(st)
      PROVE  TypeOK'
  <2>1. Len(group) \in Nat
    BY LenProperties DEF TypeOK
  <2>2. stats' \in [StatFields -> Nat]
    <3>1. stats' = GroupDone(stats, Len(group))
      BY <1>15 DEF WriterFinish
    <3>2. QED
      BY <2>1, <3>1, GroupDoneType, Zenon DEF TypeOK
  <2>3. armed' \in BOOLEAN
    BY <1>15, Zenon DEF WriterFinish
  <2>4. status' \in [Clients -> {"ok", "error"}]
    BY <1>15 DEF WriterFinish, TypeOK
  <2>5. conts' \in Seq(Clients) /\ group' \in Seq(Clients)
    BY <1>15, EmptySeq DEF WriterFinish, TypeOK
  <2>6. writing' \in BOOLEAN /\ wpc' \in WriterPcs
    BY <1>15, Zenon DEF WriterFinish, WriterPcs
  <2>7. UNCHANGED <<stop, writers, target, busy, cpc, left, scratch, dpc, issued,
                    taken>>
    BY <1>15 DEF WriterFinish, history
  <2>8. QED
    BY <2>2, <2>3, <2>4, <2>5, <2>6, <2>7 DEF TypeOK
<1>16. CASE WriterResume
  BY <1>16, GroupCommitAssumption, HeadTailProperties DEF WriterResume,
     history, TypeOK, ClientPcs
<1>17. CASE WriterLoop
  BY <1>17, GroupCommitAssumption DEF WriterLoop, clientVars, history, TypeOK,
     WriterPcs
<1>18. CASE SpuriousWakeup
  BY <1>18, GroupCommitAssumption, NotifiedType DEF SpuriousWakeup,
     clientVars, history, TypeOK
<1>19. CASE Stop
  BY <1>19, GroupCommitAssumption DEF Stop, writerVars, clientVars, history,
     TypeOK, DtorPcs
<1>20. CASE StopNotify
  BY <1>20, GroupCommitAssumption, NotifiedType DEF StopNotify, clientVars,
     history, TypeOK, DtorPcs
<1>21. CASE Join
  BY <1>21, GroupCommitAssumption DEF Join, writerVars, clientVars, history,
     TypeOK, DtorPcs
<1>22. CASE UNCHANGED vars
  BY <1>22, GroupCommitAssumption DEF vars, writerVars, clientVars, history,
     TypeOK
<1>23. QED
  BY <1>1, <1>2, <1>3, <1>4, <1>5, <1>6, <1>7, <1>8, <1>9, <1>10, <1>11,
     <1>12, <1>13, <1>14, <1>15, <1>16, <1>17, <1>18, <1>19, <1>20, <1>21,
     <1>22 DEF Next, ClientStep, WriterStep, Terminated

\* writing_ keeps exactly one owner.  The predicate of wait lets the writer
\* thread through while writing_ is set only if stopWriter_ is; then nobody
\* else is inside the engine.
LEMMA OwnershipStep ==
  ASSUME TypeOK, Ownership, WriterLocals, Stopping, SuspendedAccounted,
     [Next]_vars
  PROVE  Ownership'
<1>1. ASSUME NEW c \in Clients, EnqueueInline(c)
      PROVE  Ownership'
  BY <1>1, GroupCommitAssumption DEF EnqueueInline, writerVars, Ownership,
     WriterHolds, Holds, TypeOK, CanWriteInline
<1>2. ASSUME NEW c \in Clients, EnqueueQueued(c)
      PROVE  Ownership'
  <2>1. /\ cpc[c] = "ready" /\ cpc' = [cpc EXCEPT ![c] = "suspended"]
        /\ busy = c \/ dpc = "open"
        /\ busy' = IF busy = c /\ c \notin BlockingClients THEN None ELSE busy
        /\ wpc' = Notified(wpc)
        /\ writers' = Append(writers, c)
        /\ UNCHANGED <<writing, stop, dpc, group, conts>>
    BY <1>2, Zenon DEF EnqueueQueued, MayIssue
  <2>2. QED
    BY <2>1, NotifiedType DEF Ownership, WriterHolds, Holds, TypeOK
<1>3. ASSUME NEW c \in Clients, InlineBegin(c)
      PROVE  Ownership'
  BY <1>3, GroupCommitAssumption DEF InlineBegin, writerVars, history,
     Ownership, WriterHolds, Holds, TypeOK
<1>4. ASSUME NEW c \in Clients, NEW st \in {"ok", "error"}, InlineFinish(c, st)
      PROVE  Ownership'
  BY <1>4, GroupCommitAssumption DEF InlineFinish, writerVars, history,
     Ownership, WriterHolds, Holds, TypeOK
<1>5. ASSUME NEW c \in Clients, InlineNotify(c)
      PROVE  Ownership'
  BY <1>5, GroupCommitAssumption, NotifiedType DEF InlineNotify, history,
     Ownership, WriterHolds, Holds, TypeOK
<1>6. ASSUME NEW c \in Clients, Yield(c)
      PROVE  Ownership'
  BY <1>6, GroupCommitAssumption DEF Yield, clientVars, history, Ownership,
     WriterHolds, Holds, TypeOK
<1>7. CASE WriterSleep
  BY <1>7, GroupCommitAssumption DEF WriterSleep, clientVars, history,
     Ownership, WriterHolds, Holds, TypeOK
<1>8. CASE WriterExit
  BY <1>8, GroupCommitAssumption DEF WriterExit, clientVars, history,
     Ownership, WriterHolds, Holds, TypeOK
<1>9. CASE WriterDrain
  BY <1>9, GroupCommitAssumption, Zenon DEF WriterDrain, clientVars, Ownership,
     WriterHolds, Holds, TypeOK, WakeCondition, Drain, Stopping, WriterLocals
<1>10. CASE WriterOpenWindow
  BY <1>10, GroupCommitAssumption, Zenon DEF WriterOpenWindow, clientVars, history,
     Ownership, WriterHolds, Holds, TypeOK, WakeCondition, Stopping,
     WriterLocals
<1>11. CASE WindowAgain
  BY <1>11, GroupCommitAssumption DEF WindowAgain, clientVars, history,
     Ownership, WriterHolds, Holds, TypeOK
<1>12. CASE WindowFull
  BY <1>12, GroupCommitAssumption DEF WindowFull, clientVars, Ownership,
     WriterHolds, Holds, TypeOK, Drain
<1>13. CASE WindowTimeout
  BY <1>13, GroupCommitAssumption DEF WindowTimeout, clientVars, Ownership,
     WriterHolds, Holds, TypeOK, Drain
<1>14. CASE WriterBegin
  BY <1>14, GroupCommitAssumption DEF WriterBegin, clientVars, history,
     Ownership, WriterHolds, Holds, TypeOK
<1>15. ASSUME NEW st \in {"ok", "error"}, WriterFinish(st)
      PROVE  Ownership'
  BY <1>15, GroupCommitAssumption DEF WriterFinish, history, Ownership,
     WriterHolds, Holds, TypeOK
<1>16. CASE WriterResume
  BY <1>16, GroupCommitAssumption, HeadTailProperties, HeadInRange DEF
     WriterResume, history, Ownership, WriterHolds, Holds, TypeOK,
     SuspendedAccounted
<1>17. CASE WriterLoop
  BY <1>17, GroupCommitAssumption DEF WriterLoop, clientVars, history,
     Ownership, WriterHolds, Holds, TypeOK
<1>18. CASE SpuriousWakeup
  BY <1>18, GroupCommitAssumption, NotifiedType DEF SpuriousWakeup,
     clientVars, history, Ownership, WriterHolds, Holds, TypeOK
<1>19. CASE Stop
  BY <1>19, GroupCommitAssumption DEF Stop, writerVars, clientVars, history,
     Ownership, WriterHolds, Holds, TypeOK
<1>20. CASE StopNotify
  BY <1>20, GroupCommitAssumption, NotifiedType DEF StopNotify, clientVars,
     history, Ownership, WriterHolds, Holds, TypeOK
<1>21. CASE Join
  BY <1>21, GroupCommitAssumption DEF Join, writerVars, clientVars, history,
     Ownership, WriterHolds, Holds, TypeOK
<1>22. CASE UNCHANGED vars
  BY <1>22, GroupCommitAssumption DEF vars, writerVars, clientVars, history,
     Ownership, WriterHolds, Holds, TypeOK
<1>23. QED
  BY <1>1, <1>2, <1>3, <1>4, <1>5, <1>6, <1>7, <1>8, <1>9, <1>10, <1>11,
     <1>12, <1>13, <1>14, <1>15, <1>16, <1>17, <1>18, <1>19, <1>20, <1>21,
     <1>22 DEF Next, ClientStep, WriterStep, Terminated

\* group, the continuations and the running continuation are confined to their
\* part of writerLoop.
LEMMA WriterLocalsStep ==
  ASSUME TypeOK, WriterLocals, Stopping, [Next]_vars
  PROVE  WriterLocals'
<1>1. ASSUME NEW c \in Clients, EnqueueInline(c)
      PROVE  WriterLocals'
  BY <1>1, GroupCommitAssumption DEF EnqueueInline, writerVars, WriterLocals,
     TypeOK, MayIssue
<1>2. ASSUME NEW c \in Clients, EnqueueQueued(c)
      PROVE  WriterLocals'
  <2>1. /\ cpc[c] = "ready" /\ cpc' = [cpc EXCEPT ![c] = "suspended"]
        /\ busy = c \/ dpc = "open"
        /\ busy' = IF busy = c /\ c \notin BlockingClients THEN None ELSE busy
        /\ wpc' = Notified(wpc)
        /\ writers' = Append(writers, c)
        /\ UNCHANGED <<writing, stop, dpc, group, conts>>
    BY <1>2, Zenon DEF EnqueueQueued, MayIssue
  <2>2. wpc /= "exited"
    BY <2>1, GroupCommitAssumption DEF WriterLocals, Stopping
  <2>3. wpc' /= "exited" /\ (wpc' = "resuming" <=> wpc = "resuming")
        /\ (wpc' \in {"claimed", "write"} <=> wpc \in {"claimed", "write"})
    BY <2>1, <2>2 DEF Notified
  <2>4. QED
    BY <2>1, <2>3, GroupCommitAssumption DEF WriterLocals
<1>3. ASSUME NEW c \in Clients, InlineBegin(c)
      PROVE  WriterLocals'
  BY <1>3, GroupCommitAssumption DEF InlineBegin, writerVars, history,
     WriterLocals, TypeOK
<1>4. ASSUME NEW c \in Clients, NEW st \in {"ok", "error"}, InlineFinish(c, st)
      PROVE  WriterLocals'
  BY <1>4, GroupCommitAssumption DEF InlineFinish, writerVars, history,
     WriterLocals, TypeOK
<1>5. ASSUME NEW c \in Clients, InlineNotify(c)
      PROVE  WriterLocals'
  BY <1>5, GroupCommitAssumption, NotifiedType, Zenon DEF InlineNotify, history,
     WriterLocals, TypeOK
<1>6. ASSUME NEW c \in Clients, Yield(c)
      PROVE  WriterLocals'
  BY <1>6, GroupCommitAssumption DEF Yield, clientVars, history, WriterLocals,
     TypeOK
<1>7. CASE WriterSleep
  BY <1>7, GroupCommitAssumption DEF WriterSleep, clientVars, history,
     WriterLocals, TypeOK
<1>8. CASE WriterExit
  BY <1>8, GroupCommitAssumption DEF WriterExit, clientVars, history,
     WriterLocals, TypeOK, MustExit
<1>9. CASE WriterDrain
  BY <1>9, GroupCommitAssumption DEF WriterDrain, clientVars, WriterLocals,
     TypeOK, Drain
<1>10. CASE WriterOpenWindow
  BY <1>10, GroupCommitAssumption DEF WriterOpenWindow, clientVars, history,
     WriterLocals, TypeOK
<1>11. CASE WindowAgain
  BY <1>11, GroupCommitAssumption DEF WindowAgain, clientVars, history,
     WriterLocals, TypeOK
<1>12. CASE WindowFull
  BY <1>12, GroupCommitAssumption DEF WindowFull, clientVars, WriterLocals,
     TypeOK, Drain
<1>13. CASE WindowTimeout
  BY <1>13, GroupCommitAssumption DEF WindowTimeout, clientVars, WriterLocals,
     TypeOK, Drain
<1>14. CASE WriterBegin
  BY <1>14, GroupCommitAssumption DEF WriterBegin, clientVars, history,
     WriterLocals, TypeOK
<1>15. ASSUME NEW st \in {"ok", "error"}, WriterFinish(st)
      PROVE  WriterLocals'
  BY <1>15, GroupCommitAssumption DEF WriterFinish, history, WriterLocals,
     TypeOK
<1>16. CASE WriterResume
  BY <1>16, GroupCommitAssumption DEF WriterResume, history, WriterLocals,
     TypeOK
<1>17. CASE WriterLoop
  BY <1>17, GroupCommitAssumption DEF WriterLoop, clientVars, history,
     WriterLocals, TypeOK
<1>18. CASE SpuriousWakeup
  BY <1>18, GroupCommitAssumption, NotifiedType DEF SpuriousWakeup,
     clientVars, history, WriterLocals, TypeOK
<1>19. CASE Stop
  BY <1>19, GroupCommitAssumption DEF Stop, writerVars, clientVars, history,
     WriterLocals, TypeOK
<1>20. CASE StopNotify
  BY <1>20, GroupCommitAssumption, NotifiedType, Zenon DEF StopNotify, clientVars,
     history, WriterLocals, TypeOK
<1>21. CASE Join
  BY <1>21, GroupCommitAssumption DEF Join, writerVars, clientVars, history,
     WriterLocals, TypeOK
<1>22. CASE UNCHANGED vars
  BY <1>22, GroupCommitAssumption DEF vars, writerVars, clientVars, history,
     WriterLocals, TypeOK
<1>23. QED
  BY <1>1, <1>2, <1>3, <1>4, <1>5, <1>6, <1>7, <1>8, <1>9, <1>10, <1>11,
     <1>12, <1>13, <1>14, <1>15, <1>16, <1>17, <1>18, <1>19, <1>20, <1>21,
     <1>22 DEF Next, ClientStep, WriterStep, Terminated

\* After stopWriter_ is set no caller enters from its own thread.
LEMMA StoppingStep ==
  ASSUME TypeOK, WriterLocals, Stopping, [Next]_vars
  PROVE  Stopping'
<1>1. ASSUME NEW c \in Clients, EnqueueInline(c)
      PROVE  Stopping'
  BY <1>1, GroupCommitAssumption DEF EnqueueInline, writerVars, Stopping,
     TypeOK, MayIssue
<1>2. ASSUME NEW c \in Clients, EnqueueQueued(c)
      PROVE  Stopping'
  <2>1. /\ cpc[c] = "ready" /\ cpc' = [cpc EXCEPT ![c] = "suspended"]
        /\ busy = c \/ dpc = "open"
        /\ busy' = IF busy = c /\ c \notin BlockingClients THEN None ELSE busy
        /\ wpc' = Notified(wpc)
        /\ writers' = Append(writers, c)
        /\ UNCHANGED <<writing, stop, dpc, group, conts>>
    BY <1>2, Zenon DEF EnqueueQueued, MayIssue
  <2>2. QED
    BY <2>1, NotifiedType, GroupCommitAssumption
       DEF WriterLocals, Stopping, TypeOK
<1>3. ASSUME NEW c \in Clients, InlineBegin(c)
      PROVE  Stopping'
  BY <1>3, GroupCommitAssumption DEF InlineBegin, writerVars, history,
     Stopping, TypeOK
<1>4. ASSUME NEW c \in Clients, NEW st \in {"ok", "error"}, InlineFinish(c, st)
      PROVE  Stopping'
  BY <1>4, GroupCommitAssumption DEF InlineFinish, writerVars, history,
     Stopping, TypeOK
<1>5. ASSUME NEW c \in Clients, InlineNotify(c)
      PROVE  Stopping'
  <2>1. cpc' = [cpc EXCEPT ![c] = "ready"] /\ wpc' = Notified(wpc)
        /\ UNCHANGED <<stop, dpc, busy>>
    BY <1>5 DEF InlineNotify
  <2>2. dpc' = "closed" => wpc' = "exited"
    BY <2>1, NotifiedType, Zenon DEF Stopping, TypeOK
  <2>3. QED
    BY <2>1, <2>2 DEF Stopping, TypeOK
<1>6. ASSUME NEW c \in Clients, Yield(c)
      PROVE  Stopping'
  BY <1>6, GroupCommitAssumption DEF Yield, clientVars, history, Stopping,
     TypeOK
<1>7. CASE WriterSleep
  BY <1>7, GroupCommitAssumption DEF WriterSleep, clientVars, history,
     Stopping, TypeOK
<1>8. CASE WriterExit
  BY <1>8, GroupCommitAssumption DEF WriterExit, clientVars, history,
     Stopping, TypeOK
<1>9. CASE WriterDrain
  BY <1>9, GroupCommitAssumption DEF WriterDrain, clientVars, Stopping,
     TypeOK, Drain
<1>10. CASE WriterOpenWindow
  BY <1>10, GroupCommitAssumption DEF WriterOpenWindow, clientVars, history,
     Stopping, TypeOK
<1>11. CASE WindowAgain
  BY <1>11, GroupCommitAssumption DEF WindowAgain, clientVars, history,
     Stopping, TypeOK
<1>12. CASE WindowFull
  BY <1>12, GroupCommitAssumption DEF WindowFull, clientVars, Stopping,
     TypeOK, Drain
<1>13. CASE WindowTimeout
  BY <1>13, GroupCommitAssumption DEF WindowTimeout, clientVars, Stopping,
     TypeOK, Drain
<1>14. CASE WriterBegin
  BY <1>14, GroupCommitAssumption DEF WriterBegin, clientVars, history,
     Stopping, TypeOK
<1>15. ASSUME NEW st \in {"ok", "error"}, WriterFinish(st)
      PROVE  Stopping'
  BY <1>15, GroupCommitAssumption DEF WriterFinish, history, Stopping, TypeOK
<1>16. CASE WriterResume
  BY <1>16, GroupCommitAssumption, HeadTailProperties DEF WriterResume,
     history, Stopping, TypeOK
<1>17. CASE WriterLoop
  BY <1>17, GroupCommitAssumption DEF WriterLoop, clientVars, history,
     Stopping, TypeOK
<1>18. CASE SpuriousWakeup
  BY <1>18, GroupCommitAssumption, NotifiedType DEF SpuriousWakeup,
     clientVars, history, Stopping, TypeOK
<1>19. CASE Stop
  BY <1>19, GroupCommitAssumption DEF Stop, writerVars, clientVars, history,
     Stopping, TypeOK, NoCallInProgress, DtorPcs
<1>20. CASE StopNotify
  BY <1>20, GroupCommitAssumption, NotifiedType DEF StopNotify, clientVars,
     history, Stopping, TypeOK
<1>21. CASE Join
  BY <1>21, GroupCommitAssumption DEF Join, writerVars, clientVars, history,
     Stopping, TypeOK
<1>22. CASE UNCHANGED vars
  BY <1>22, GroupCommitAssumption DEF vars, writerVars, clientVars, history,
     Stopping, TypeOK
<1>23. QED
  BY <1>1, <1>2, <1>3, <1>4, <1>5, <1>6, <1>7, <1>8, <1>9, <1>10, <1>11,
     <1>12, <1>13, <1>14, <1>15, <1>16, <1>17, <1>18, <1>19, <1>20, <1>21,
     <1>22 DEF Next, ClientStep, WriterStep, Terminated

\* The shared scratch is only filled by the owner of writing_.
LEMMA ScratchStep ==
  ASSUME TypeOK, Ownership, ScratchOwned, [Next]_vars
  PROVE  ScratchOwned'
<1>1. ASSUME NEW c \in Clients, EnqueueInline(c)
      PROVE  ScratchOwned'
  BY <1>1, GroupCommitAssumption DEF EnqueueInline, writerVars, ScratchOwned,
     Ownership, WriterHolds, Holds, TypeOK
<1>2. ASSUME NEW c \in Clients, EnqueueQueued(c)
      PROVE  ScratchOwned'
  BY <1>2, GroupCommitAssumption, NotifiedType DEF EnqueueQueued,
     ScratchOwned, Ownership, WriterHolds, Holds, TypeOK
<1>3. ASSUME NEW c \in Clients, InlineBegin(c)
      PROVE  ScratchOwned'
  BY <1>3, GroupCommitAssumption DEF InlineBegin, writerVars, history,
     ScratchOwned, Ownership, WriterHolds, Holds, TypeOK
<1>4. ASSUME NEW c \in Clients, NEW st \in {"ok", "error"}, InlineFinish(c, st)
      PROVE  ScratchOwned'
  BY <1>4, GroupCommitAssumption DEF InlineFinish, writerVars, history,
     ScratchOwned, Ownership, WriterHolds, Holds, TypeOK
<1>5. ASSUME NEW c \in Clients, InlineNotify(c)
      PROVE  ScratchOwned'
  BY <1>5, GroupCommitAssumption, NotifiedType DEF InlineNotify, history,
     ScratchOwned, Ownership, WriterHolds, Holds, TypeOK
<1>6. ASSUME NEW c \in Clients, Yield(c)
      PROVE  ScratchOwned'
  BY <1>6, GroupCommitAssumption DEF Yield, clientVars, history, ScratchOwned,
     Ownership, WriterHolds, Holds, TypeOK
<1>7. CASE WriterSleep
  BY <1>7, GroupCommitAssumption DEF WriterSleep, clientVars, history,
     ScratchOwned, Ownership, WriterHolds, Holds, TypeOK
<1>8. CASE WriterExit
  BY <1>8, GroupCommitAssumption DEF WriterExit, clientVars, history,
     ScratchOwned, Ownership, WriterHolds, Holds, TypeOK
<1>9. CASE WriterDrain
  BY <1>9, GroupCommitAssumption DEF WriterDrain, clientVars, ScratchOwned,
     Ownership, WriterHolds, Holds, TypeOK, Drain
<1>10. CASE WriterOpenWindow
  BY <1>10, GroupCommitAssumption DEF WriterOpenWindow, clientVars, history,
     ScratchOwned, Ownership, WriterHolds, Holds, TypeOK
<1>11. CASE WindowAgain
  BY <1>11, GroupCommitAssumption DEF WindowAgain, clientVars, history,
     ScratchOwned, Ownership, WriterHolds, Holds, TypeOK
<1>12. CASE WindowFull
  BY <1>12, GroupCommitAssumption DEF WindowFull, clientVars, ScratchOwned,
     Ownership, WriterHolds, Holds, TypeOK, Drain
<1>13. CASE WindowTimeout
  BY <1>13, GroupCommitAssumption DEF WindowTimeout, clientVars, ScratchOwned,
     Ownership, WriterHolds, Holds, TypeOK, Drain
<1>14. CASE WriterBegin
  BY <1>14, GroupCommitAssumption DEF WriterBegin, clientVars, history,
     ScratchOwned, Ownership, WriterHolds, Holds, TypeOK
<1>15. ASSUME NEW st \in {"ok", "error"}, WriterFinish(st)
      PROVE  ScratchOwned'
  BY <1>15, GroupCommitAssumption DEF WriterFinish, history, ScratchOwned,
     Ownership, WriterHolds, Holds, TypeOK
<1>16. CASE WriterResume
  BY <1>16, GroupCommitAssumption, HeadTailProperties DEF WriterResume,
     history, ScratchOwned, Ownership, WriterHolds, Holds, TypeOK
<1>17. CASE WriterLoop
  BY <1>17, GroupCommitAssumption DEF WriterLoop, clientVars, history,
     ScratchOwned, Ownership, WriterHolds, Holds, TypeOK
<1>18. CASE SpuriousWakeup
  BY <1>18, GroupCommitAssumption, NotifiedType DEF SpuriousWakeup,
     clientVars, history, ScratchOwned, Ownership, WriterHolds, Holds, TypeOK
<1>19. CASE Stop
  BY <1>19, GroupCommitAssumption DEF Stop, writerVars, clientVars, history,
     ScratchOwned, Ownership, WriterHolds, Holds, TypeOK
<1>20. CASE StopNotify
  BY <1>20, GroupCommitAssumption, NotifiedType DEF StopNotify, clientVars,
     history, ScratchOwned, Ownership, WriterHolds, Holds, TypeOK
<1>21. CASE Join
  BY <1>21, GroupCommitAssumption DEF Join, writerVars, clientVars, history,
     ScratchOwned, Ownership, WriterHolds, Holds, TypeOK
<1>22. CASE UNCHANGED vars
  BY <1>22, GroupCommitAssumption DEF vars, writerVars, clientVars, history,
     ScratchOwned, Ownership, WriterHolds, Holds, TypeOK
<1>23. QED
  BY <1>1, <1>2, <1>3, <1>4, <1>5, <1>6, <1>7, <1>8, <1>9, <1>10, <1>11,
     <1>12, <1>13, <1>14, <1>15, <1>16, <1>17, <1>18, <1>19, <1>20, <1>21,
     <1>22 DEF Next, ClientStep, WriterStep, Terminated

\* Both paths into writeGroup respect the order of the calls.
LEMMA FifoStep ==
  ASSUME TypeOK, FifoNoLoss, [Next]_vars
  PROVE  FifoNoLoss'
<1>1. ASSUME NEW c \in Clients, EnqueueInline(c)
      PROVE  FifoNoLoss'
  BY <1>1 DEF EnqueueInline, writerVars, FifoNoLoss, TypeOK, CanWriteInline,
     Issue
<1>2. ASSUME NEW c \in Clients, EnqueueQueued(c)
      PROVE  FifoNoLoss'
  <2>1. issued' = Append(issued, c) /\ writers' = Append(writers, c)
        /\ taken' = taken
    BY <1>2, Zenon DEF EnqueueQueued, Issue
  <2>2. Append(taken \o writers, c) = taken \o Append(writers, c)
    <3>1. taken \in Seq(Clients) /\ writers \in Seq(Clients)
      BY DEF TypeOK
    <3>2. QED
      BY <1>2, <3>1, AppendConcat, Zenon
  <2>3. QED
    BY <2>1, <2>2, Zenon DEF FifoNoLoss
<1>3. ASSUME NEW c \in Clients, InlineBegin(c)
      PROVE  FifoNoLoss'
  BY <1>3 DEF InlineBegin, writerVars, history, FifoNoLoss, TypeOK
<1>4. ASSUME NEW c \in Clients, NEW st \in {"ok", "error"}, InlineFinish(c, st)
      PROVE  FifoNoLoss'
  BY <1>4 DEF InlineFinish, writerVars, history, FifoNoLoss, TypeOK
<1>5. ASSUME NEW c \in Clients, InlineNotify(c)
      PROVE  FifoNoLoss'
  BY <1>5 DEF InlineNotify, history, FifoNoLoss, TypeOK
<1>6. ASSUME NEW c \in Clients, Yield(c)
      PROVE  FifoNoLoss'
  BY <1>6 DEF Yield, clientVars, history, FifoNoLoss, TypeOK
<1>7. CASE WriterSleep
  BY <1>7 DEF WriterSleep, clientVars, history, FifoNoLoss, TypeOK
<1>8. CASE WriterExit
  BY <1>8 DEF WriterExit, clientVars, history, FifoNoLoss, TypeOK
<1>9. CASE WriterDrain
  BY <1>9 DEF WriterDrain, clientVars, FifoNoLoss, TypeOK, Drain
<1>10. CASE WriterOpenWindow
  BY <1>10 DEF WriterOpenWindow, clientVars, history, FifoNoLoss, TypeOK
<1>11. CASE WindowAgain
  BY <1>11 DEF WindowAgain, clientVars, history, FifoNoLoss, TypeOK
<1>12. CASE WindowFull
  BY <1>12 DEF WindowFull, clientVars, FifoNoLoss, TypeOK, Drain
<1>13. CASE WindowTimeout
  BY <1>13 DEF WindowTimeout, clientVars, FifoNoLoss, TypeOK, Drain
<1>14. CASE WriterBegin
  BY <1>14 DEF WriterBegin, clientVars, history, FifoNoLoss, TypeOK
<1>15. ASSUME NEW st \in {"ok", "error"}, WriterFinish(st)
      PROVE  FifoNoLoss'
  BY <1>15 DEF WriterFinish, history, FifoNoLoss, TypeOK
<1>16. CASE WriterResume
  BY <1>16 DEF WriterResume, history, FifoNoLoss, TypeOK
<1>17. CASE WriterLoop
  BY <1>17 DEF WriterLoop, clientVars, history, FifoNoLoss, TypeOK
<1>18. CASE SpuriousWakeup
  BY <1>18 DEF SpuriousWakeup, clientVars, history, FifoNoLoss, TypeOK
<1>19. CASE Stop
  BY <1>19 DEF Stop, writerVars, clientVars, history, FifoNoLoss, TypeOK
<1>20. CASE StopNotify
  BY <1>20 DEF StopNotify, clientVars, history, FifoNoLoss, TypeOK
<1>21. CASE Join
  BY <1>21 DEF Join, writerVars, clientVars, history, FifoNoLoss, TypeOK
<1>22. CASE UNCHANGED vars
  BY <1>22 DEF vars, writerVars, clientVars, history, FifoNoLoss, TypeOK
<1>23. QED
  BY <1>1, <1>2, <1>3, <1>4, <1>5, <1>6, <1>7, <1>8, <1>9, <1>10, <1>11,
     <1>12, <1>13, <1>14, <1>15, <1>16, <1>17, <1>18, <1>19, <1>20, <1>21,
     <1>22 DEF Next, ClientStep, WriterStep, Terminated

\* Every step that makes a wait condition true either notifies in the same
\* critical section or still has its notification to come.
LEMMA WakeupStep ==
  ASSUME TypeOK, NoLostWakeup, [Next]_vars
  PROVE  NoLostWakeup'
<1>1. ASSUME NEW c \in Clients, EnqueueInline(c)
      PROVE  NoLostWakeup'
  BY <1>1 DEF EnqueueInline, writerVars, NoLostWakeup, WakeCondition,
     WindowOver, NotificationPending, TypeOK, CanWriteInline, MayIssue
<1>2. ASSUME NEW c \in Clients, EnqueueQueued(c)
      PROVE  NoLostWakeup'
  BY <1>2, NotifiedType DEF EnqueueQueued, NoLostWakeup, WakeCondition,
     WindowOver, NotificationPending, TypeOK
<1>3. ASSUME NEW c \in Clients, InlineBegin(c)
      PROVE  NoLostWakeup'
  BY <1>3 DEF InlineBegin, writerVars, history, NoLostWakeup, WakeCondition,
     WindowOver, NotificationPending, TypeOK
<1>4. ASSUME NEW c \in Clients, NEW st \in {"ok", "error"}, InlineFinish(c, st)
      PROVE  NoLostWakeup'
  BY <1>4 DEF InlineFinish, writerVars, history, NoLostWakeup, WakeCondition,
     WindowOver, NotificationPending, TypeOK
<1>5. ASSUME NEW c \in Clients, InlineNotify(c)
      PROVE  NoLostWakeup'
  BY <1>5, NotifiedType DEF InlineNotify, history, NoLostWakeup,
     WakeCondition, WindowOver, NotificationPending, TypeOK
<1>6. ASSUME NEW c \in Clients, Yield(c)
      PROVE  NoLostWakeup'
  BY <1>6 DEF Yield, clientVars, history, NoLostWakeup, WakeCondition,
     WindowOver, NotificationPending, TypeOK
<1>7. CASE WriterSleep
  BY <1>7 DEF WriterSleep, clientVars, history, NoLostWakeup, WakeCondition,
     WindowOver, NotificationPending, TypeOK
<1>8. CASE WriterExit
  BY <1>8 DEF WriterExit, clientVars, history, NoLostWakeup, WakeCondition,
     WindowOver, NotificationPending, TypeOK
<1>9. CASE WriterDrain
  BY <1>9 DEF WriterDrain, clientVars, NoLostWakeup, WakeCondition,
     WindowOver, NotificationPending, TypeOK, Drain
<1>10. CASE WriterOpenWindow
  BY <1>10 DEF WriterOpenWindow, clientVars, history, NoLostWakeup,
     WakeCondition, WindowOver, NotificationPending, TypeOK
<1>11. CASE WindowAgain
  BY <1>11 DEF WindowAgain, clientVars, history, NoLostWakeup, WakeCondition,
     WindowOver, NotificationPending, TypeOK
<1>12. CASE WindowFull
  BY <1>12 DEF WindowFull, clientVars, NoLostWakeup, WakeCondition,
     WindowOver, NotificationPending, TypeOK, Drain
<1>13. CASE WindowTimeout
  BY <1>13 DEF WindowTimeout, clientVars, NoLostWakeup, WakeCondition,
     WindowOver, NotificationPending, TypeOK, Drain
<1>14. CASE WriterBegin
  BY <1>14 DEF WriterBegin, clientVars, history, NoLostWakeup, WakeCondition,
     WindowOver, NotificationPending, TypeOK
<1>15. ASSUME NEW st \in {"ok", "error"}, WriterFinish(st)
      PROVE  NoLostWakeup'
  BY <1>15 DEF WriterFinish, history, NoLostWakeup, WakeCondition, WindowOver,
     NotificationPending, TypeOK
<1>16. CASE WriterResume
  BY <1>16 DEF WriterResume, history, NoLostWakeup, WakeCondition, WindowOver,
     NotificationPending, TypeOK
<1>17. CASE WriterLoop
  BY <1>17 DEF WriterLoop, clientVars, history, NoLostWakeup, WakeCondition,
     WindowOver, NotificationPending, TypeOK
<1>18. CASE SpuriousWakeup
  BY <1>18, NotifiedType DEF SpuriousWakeup, clientVars, history,
     NoLostWakeup, WakeCondition, WindowOver, NotificationPending, TypeOK
<1>19. CASE Stop
  BY <1>19 DEF Stop, writerVars, clientVars, history, NoLostWakeup,
     WakeCondition, WindowOver, NotificationPending, TypeOK
<1>20. CASE StopNotify
  BY <1>20, NotifiedType DEF StopNotify, clientVars, history, NoLostWakeup,
     WakeCondition, WindowOver, NotificationPending, TypeOK
<1>21. CASE Join
  BY <1>21 DEF Join, writerVars, clientVars, history, NoLostWakeup,
     WakeCondition, WindowOver, NotificationPending, TypeOK
<1>22. CASE UNCHANGED vars
  BY <1>22 DEF vars, writerVars, clientVars, history, NoLostWakeup,
     WakeCondition, WindowOver, NotificationPending, TypeOK
<1>23. QED
  BY <1>1, <1>2, <1>3, <1>4, <1>5, <1>6, <1>7, <1>8, <1>9, <1>10, <1>11,
     <1>12, <1>13, <1>14, <1>15, <1>16, <1>17, <1>18, <1>19, <1>20, <1>21,
     <1>22 DEF Next, ClientStep, WriterStep, Terminated

\* A coroutine moves from the queue to the group to the continuations without
\* ever being in none or in two of them.
LEMMA SuspendedStep ==
  ASSUME TypeOK, WriterLocals, SuspendedAccounted, [Next]_vars
  PROVE  SuspendedAccounted'
<1>1. ASSUME NEW c \in Clients, EnqueueInline(c)
      PROVE  SuspendedAccounted'
  BY <1>1 DEF EnqueueInline, writerVars, SuspendedAccounted, TypeOK, MayIssue
<1>2. ASSUME NEW c \in Clients, EnqueueQueued(c)
      PROVE  SuspendedAccounted'
  <2>1. /\ cpc[c] = "ready" /\ cpc' = [cpc EXCEPT ![c] = "suspended"]
        /\ writers' = Append(writers, c)
        /\ UNCHANGED <<group, conts>>
    BY <1>2, Zenon DEF EnqueueQueued, MayIssue
  <2>2. c \notin Range(writers) \cup Range(group) \cup Range(conts)
    BY <2>1 DEF SuspendedAccounted
  <2>3. /\ Range(writers') = Range(writers) \cup {c}
        /\ IsInjective(writers')
    BY <2>1, <2>2, AppendRange DEF SuspendedAccounted, TypeOK
  <2>4. {d \in Clients : cpc'[d] = "suspended"}
          = {d \in Clients : cpc[d] = "suspended"} \cup {c}
    BY <2>1 DEF TypeOK
  <2>5. QED
    BY <2>1, <2>2, <2>3, <2>4 DEF SuspendedAccounted
<1>3. ASSUME NEW c \in Clients, InlineBegin(c)
      PROVE  SuspendedAccounted'
  BY <1>3 DEF InlineBegin, writerVars, history, SuspendedAccounted, TypeOK
<1>4. ASSUME NEW c \in Clients, NEW st \in {"ok", "error"}, InlineFinish(c, st)
      PROVE  SuspendedAccounted'
  BY <1>4 DEF InlineFinish, writerVars, history, SuspendedAccounted, TypeOK
<1>5. ASSUME NEW c \in Clients, InlineNotify(c)
      PROVE  SuspendedAccounted'
  BY <1>5 DEF InlineNotify, history, SuspendedAccounted, TypeOK
<1>6. ASSUME NEW c \in Clients, Yield(c)
      PROVE  SuspendedAccounted'
  BY <1>6 DEF Yield, clientVars, history, SuspendedAccounted, TypeOK
<1>7. CASE WriterSleep
  BY <1>7 DEF WriterSleep, clientVars, history, SuspendedAccounted, TypeOK
<1>8. CASE WriterExit
  BY <1>8 DEF WriterExit, clientVars, history, SuspendedAccounted, TypeOK
<1>9. CASE WriterDrain
  <2>1. /\ group' = writers /\ writers' = <<>> /\ UNCHANGED <<conts, cpc>>
        /\ group = <<>> /\ conts = <<>>
    BY <1>9, Zenon DEF WriterDrain, Drain, clientVars, WriterLocals
  <2>2. QED
    BY <2>1, EmptyRange DEF SuspendedAccounted
<1>10. CASE WriterOpenWindow
  BY <1>10 DEF WriterOpenWindow, clientVars, history, SuspendedAccounted,
     TypeOK
<1>11. CASE WindowAgain
  BY <1>11 DEF WindowAgain, clientVars, history, SuspendedAccounted, TypeOK
<1>12. CASE WindowFull
  <2>1. /\ group' = writers /\ writers' = <<>> /\ UNCHANGED <<conts, cpc>>
        /\ group = <<>> /\ conts = <<>>
    BY <1>12, Zenon DEF WindowFull, Drain, clientVars, WriterLocals
  <2>2. QED
    BY <2>1, EmptyRange DEF SuspendedAccounted
<1>13. CASE WindowTimeout
  <2>1. /\ group' = writers /\ writers' = <<>> /\ UNCHANGED <<conts, cpc>>
        /\ group = <<>> /\ conts = <<>>
    BY <1>13 DEF WindowTimeout, Drain, clientVars, WriterLocals
  <2>2. QED
    BY <2>1, EmptyRange DEF SuspendedAccounted
<1>14. CASE WriterBegin
  BY <1>14 DEF WriterBegin, clientVars, history, SuspendedAccounted, TypeOK
<1>15. ASSUME NEW st \in {"ok", "error"}, WriterFinish(st)
      PROVE  SuspendedAccounted'
  <2>1. /\ conts' = group /\ group' = <<>> /\ UNCHANGED <<writers, cpc>>
        /\ conts = <<>>
    BY <1>15, Zenon DEF WriterFinish, WriterLocals
  <2>2. QED
    BY <2>1, EmptyRange DEF SuspendedAccounted
<1>16. CASE WriterResume
  <2>1. /\ conts /= <<>> /\ conts' = Tail(conts)
        /\ cpc' = [cpc EXCEPT ![Head(conts)] = "ready"]
        /\ UNCHANGED <<writers, group>>
    BY <1>16 DEF WriterResume
  <2>2. /\ Head(conts) \in Range(conts)
        /\ Range(conts') = Range(conts) \ {Head(conts)}
        /\ IsInjective(conts')
    BY <2>1, HeadInRange, TailRange DEF SuspendedAccounted, TypeOK
  <2>3. {d \in Clients : cpc'[d] = "suspended"}
          = {d \in Clients : cpc[d] = "suspended"} \ {Head(conts)}
    BY <2>1 DEF TypeOK
  <2>4. QED
    BY <2>1, <2>2, <2>3 DEF SuspendedAccounted
<1>17. CASE WriterLoop
  BY <1>17 DEF WriterLoop, clientVars, history, SuspendedAccounted, TypeOK
<1>18. CASE SpuriousWakeup
  BY <1>18 DEF SpuriousWakeup, clientVars, history, SuspendedAccounted, TypeOK
<1>19. CASE Stop
  BY <1>19 DEF Stop, writerVars, clientVars, history, SuspendedAccounted,
     TypeOK
<1>20. CASE StopNotify
  BY <1>20 DEF StopNotify, clientVars, history, SuspendedAccounted, TypeOK
<1>21. CASE Join
  BY <1>21 DEF Join, writerVars, clientVars, history, SuspendedAccounted,
     TypeOK
<1>22. CASE UNCHANGED vars
  BY <1>22 DEF vars, writerVars, clientVars, history, SuspendedAccounted,
     TypeOK
<1>23. QED
  BY <1>1, <1>2, <1>3, <1>4, <1>5, <1>6, <1>7, <1>8, <1>9, <1>10, <1>11,
     <1>12, <1>13, <1>14, <1>15, <1>16, <1>17, <1>18, <1>19, <1>20, <1>21,
     <1>22 DEF Next, ClientStep, WriterStep, Terminated

\* Only the group that is finished gets its status, all of it at once.
LEMMA FateStep ==
  ASSUME TypeOK, WriterLocals, SuspendedAccounted, GroupSharesFate,
     [Next]_vars
  PROVE  GroupSharesFate'
<1>1. ASSUME NEW c \in Clients, EnqueueInline(c)
      PROVE  GroupSharesFate'
  BY <1>1 DEF EnqueueInline, writerVars, GroupSharesFate, TypeOK
<1>2. ASSUME NEW c \in Clients, EnqueueQueued(c)
      PROVE  GroupSharesFate'
  BY <1>2 DEF EnqueueQueued, GroupSharesFate, TypeOK
<1>3. ASSUME NEW c \in Clients, InlineBegin(c)
      PROVE  GroupSharesFate'
  BY <1>3 DEF InlineBegin, writerVars, history, GroupSharesFate, TypeOK
<1>4. ASSUME NEW c \in Clients, NEW st \in {"ok", "error"}, InlineFinish(c, st)
      PROVE  GroupSharesFate'
  <2>1. c \notin Range(conts)
    BY <1>4 DEF InlineFinish, SuspendedAccounted
  <2>2. conts' = conts /\ status' = [status EXCEPT ![c] = st]
    BY <1>4 DEF InlineFinish, writerVars
  <2>3. \A i \in DOMAIN conts : status'[conts[i]] = status[conts[i]]
    BY <2>1, <2>2 DEF Range, TypeOK
  <2>4. QED
    BY <2>2, <2>3 DEF GroupSharesFate
<1>5. ASSUME NEW c \in Clients, InlineNotify(c)
      PROVE  GroupSharesFate'
  BY <1>5 DEF InlineNotify, history, GroupSharesFate, TypeOK
<1>6. ASSUME NEW c \in Clients, Yield(c)
      PROVE  GroupSharesFate'
  BY <1>6 DEF Yield, clientVars, history, GroupSharesFate, TypeOK
<1>7. CASE WriterSleep
  BY <1>7 DEF WriterSleep, clientVars, history, GroupSharesFate, TypeOK
<1>8. CASE WriterExit
  BY <1>8 DEF WriterExit, clientVars, history, GroupSharesFate, TypeOK
<1>9. CASE WriterDrain
  BY <1>9 DEF WriterDrain, clientVars, GroupSharesFate, TypeOK, Drain
<1>10. CASE WriterOpenWindow
  BY <1>10 DEF WriterOpenWindow, clientVars, history, GroupSharesFate, TypeOK
<1>11. CASE WindowAgain
  BY <1>11 DEF WindowAgain, clientVars, history, GroupSharesFate, TypeOK
<1>12. CASE WindowFull
  BY <1>12 DEF WindowFull, clientVars, GroupSharesFate, TypeOK, Drain
<1>13. CASE WindowTimeout
  BY <1>13 DEF WindowTimeout, clientVars, GroupSharesFate, TypeOK, Drain
<1>14. CASE WriterBegin
  BY <1>14 DEF WriterBegin, clientVars, history, GroupSharesFate, TypeOK
<1>15. ASSUME NEW st \in {"ok", "error"}, WriterFinish(st)
      PROVE  GroupSharesFate'
  BY <1>15, ElementOfSeq DEF WriterFinish, history, GroupSharesFate, TypeOK,
     Range
<1>16. CASE WriterResume
  <2>1. conts /= <<>> /\ conts' = Tail(conts) /\ status' = status
    BY <1>16 DEF WriterResume
  <2>2. \A i \in DOMAIN conts' : i + 1 \in DOMAIN conts /\ conts'[i] = conts[i + 1]
    BY <2>1, TailElements DEF TypeOK
  <2>3. QED
    BY <2>1, <2>2 DEF GroupSharesFate
<1>17. CASE WriterLoop
  BY <1>17 DEF WriterLoop, clientVars, history, GroupSharesFate, TypeOK
<1>18. CASE SpuriousWakeup
  BY <1>18 DEF SpuriousWakeup, clientVars, history, GroupSharesFate, TypeOK
<1>19. CASE Stop
  BY <1>19 DEF Stop, writerVars, clientVars, history, GroupSharesFate, TypeOK
<1>20. CASE StopNotify
  BY <1>20 DEF StopNotify, clientVars, history, GroupSharesFate, TypeOK
<1>21. CASE Join
  BY <1>21 DEF Join, writerVars, clientVars, history, GroupSharesFate, TypeOK
<1>22. CASE UNCHANGED vars
  BY <1>22 DEF vars, writerVars, clientVars, history, GroupSharesFate, TypeOK
<1>23. QED
  BY <1>1, <1>2, <1>3, <1>4, <1>5, <1>6, <1>7, <1>8, <1>9, <1>10, <1>11,
     <1>12, <1>13, <1>14, <1>15, <1>16, <1>17, <1>18, <1>19, <1>20, <1>21,
     <1>22 DEF Next, ClientStep, WriterStep, Terminated

-----------------------------------------------------------------------------
(***************************************************************************)
(* The counters of DebugStats.                                             *)
(***************************************************************************)

\* What counting does to each counter.
LEMMA BumpFields ==
  ASSUME NEW s \in [StatFields -> Nat], NEW F, NEW f \in StatFields
  PROVE  Bump(s, F)[f] = IF f \in F THEN s[f] + 1 ELSE s[f]
  BY DEF Bump

\* What finishing a group of n does to the counters StatsAgree looks at.
LEMMA GroupDoneFields ==
  ASSUME NEW s \in [StatFields -> Nat], NEW n \in Nat
  PROVE  /\ GroupDone(s, n)["groups"] = s["groups"] + 1
         /\ GroupDone(s, n)["maxGroup"] \in {s["maxGroup"], n}
         /\ GroupDone(s, n)["inlineDrains"] = s["inlineDrains"]
         /\ GroupDone(s, n)["threadDrains"] = s["threadDrains"]
         /\ GroupDone(s, n)["suspensions"] = s["suspensions"]
  BY DEF GroupDone, Bump, StatFields

\* A drain that was counted has no group that was counted yet.
InFlight == writing /\ wpc \notin {"window", "windowEval"}

\* A group in flight has been counted among the writes taken.
StatsInv ==
  /\ stats["inlineDrains"] + stats["threadDrains"]
       = stats["groups"] + (IF InFlight THEN 1 ELSE 0)
  /\ stats["suspensions"] = Len(issued)
  /\ stats["maxGroup"] <= Len(taken)
  /\ Len(group) <= Len(taken)
  /\ (\E c \in Clients : Holds(c)) => Len(taken) >= 1

\* The writer thread evaluates the predicate of wait only between groups: with
\* stopWriter_ set, too, nobody holds writing_ when it goes on from there.
LEMMA WakesFree ==
  ASSUME IndInv, wpc = "eval", WakeCondition
  PROVE  ~writing
  BY GroupCommitAssumption, Zenon
     DEF IndInv, TypeOK, Ownership, WriterLocals, Stopping, WakeCondition, WriterHolds, Holds

\* Draining the queue.
LEMMA DrainStats ==
  ASSUME IndInv, StatsInv, NEW s \in [StatFields -> Nat], Drain(s), ~InFlight, writing',
         s["inlineDrains"] = stats["inlineDrains"], s["threadDrains"] = stats["threadDrains"],
         s["groups"] = stats["groups"], s["suspensions"] = stats["suspensions"],
         s["maxGroup"] = stats["maxGroup"],
         UNCHANGED <<issued, cpc>>
  PROVE  StatsInv'
<1>1. /\ stats'["threadDrains"] = s["threadDrains"] + 1
      /\ stats'["inlineDrains"] = s["inlineDrains"] /\ stats'["groups"] = s["groups"]
      /\ stats'["suspensions"] = s["suspensions"] /\ stats'["maxGroup"] = s["maxGroup"]
  BY DEF Drain, Bump, StatFields
<1>2. /\ Len(taken') = Len(taken) + Len(writers) /\ Len(group') = Len(writers)
      /\ Len(taken) \in Nat /\ Len(writers) \in Nat
  BY ConcatProperties, LenProperties DEF Drain, IndInv, TypeOK
<1>3. InFlight'
  BY DEF Drain, InFlight
<1>4. /\ stats["inlineDrains"] \in Nat /\ stats["threadDrains"] \in Nat
      /\ stats["groups"] \in Nat /\ stats["maxGroup"] \in Nat
  BY DEF IndInv, TypeOK, StatFields
<1>5. (\E c \in Clients : Holds(c))' => Len(taken') >= 1
  BY <1>2 DEF StatsInv, Holds
<1>6. QED
  BY <1>1, <1>2, <1>3, <1>4, <1>5 DEF StatsInv

\* A step that counts nothing, takes nothing and moves nobody into or out of
\* writeGroup.
LEMMA IdleStats ==
  ASSUME StatsInv, UNCHANGED <<stats, issued, taken, group>>,
         InFlight' <=> InFlight,
         \A c \in Clients : Holds(c)' => Holds(c)
  PROVE  StatsInv'
  BY DEF StatsInv

LEMMA StatsStep ==
  ASSUME IndInv, StatsInv, [Next]_vars
  PROVE  StatsInv'
<1> USE DEF IndInv, TypeOK
<1>0. /\ Len(issued) \in Nat /\ Len(taken) \in Nat /\ Len(group) \in Nat
      /\ stats["inlineDrains"] \in Nat /\ stats["threadDrains"] \in Nat
      /\ stats["groups"] \in Nat /\ stats["maxGroup"] \in Nat
  BY LenProperties DEF StatFields
<1>1. ASSUME NEW c \in Clients, EnqueueInline(c)
      PROVE  StatsInv'
  <2>1. /\ Len(issued') = Len(issued) + 1 /\ Len(taken') = Len(taken) + 1
    BY <1>1, AppendProperties DEF EnqueueInline, Issue
  <2>2. ~InFlight
    BY <1>1 DEF EnqueueInline, CanWriteInline, InFlight
  <2>3. InFlight'
    BY <1>1 DEF EnqueueInline, CanWriteInline, InFlight, Ownership, WriterHolds, writerVars
  <2>4. Len(group') = Len(group)
    BY <1>1 DEF EnqueueInline, writerVars
  <2>5. /\ stats'["inlineDrains"] = stats["inlineDrains"] + 1
        /\ stats'["threadDrains"] = stats["threadDrains"]
        /\ stats'["groups"] = stats["groups"] /\ stats'["maxGroup"] = stats["maxGroup"]
        /\ stats'["suspensions"] = stats["suspensions"] + 1
    BY <1>1 DEF EnqueueInline, Bump, StatFields
  <2>6. /\ stats["inlineDrains"] + stats["threadDrains"] = stats["groups"]
        /\ stats["maxGroup"] <= Len(taken) /\ Len(group) <= Len(taken)
    BY <1>0, <2>2 DEF StatsInv
  <2> HIDE DEF IndInv, TypeOK
  <2>7. stats'["inlineDrains"] + stats'["threadDrains"] = stats'["groups"] + 1
    BY <1>0, <2>5, <2>6
  <2>8. Len(group') <= Len(taken') /\ stats'["maxGroup"] <= Len(taken') /\ Len(taken') >= 1
    BY <1>0, <2>1, <2>4, <2>5, <2>6
  <2>9. QED
    BY <2>1, <2>3, <2>5, <2>7, <2>8 DEF StatsInv
<1>2. ASSUME NEW c \in Clients, EnqueueQueued(c)
      PROVE  StatsInv'
  <2>1. Len(issued') = Len(issued) + 1
    BY <1>2, AppendProperties DEF EnqueueQueued, Issue
  <2>2. (InFlight' <=> InFlight) /\ group' = group /\ taken' = taken
    BY <1>2 DEF EnqueueQueued, InFlight, Notified
  <2>3. /\ stats'["inlineDrains"] = stats["inlineDrains"]
        /\ stats'["threadDrains"] = stats["threadDrains"]
        /\ stats'["groups"] = stats["groups"] /\ stats'["maxGroup"] = stats["maxGroup"]
        /\ stats'["suspensions"] = stats["suspensions"] + 1
    BY <1>2 DEF EnqueueQueued, Bump, StatFields
  <2>4. \A d \in Clients : Holds(d)' => Holds(d)
    BY <1>2 DEF EnqueueQueued, Holds
  <2>5. QED
    BY <1>0, <2>1, <2>2, <2>3, <2>4 DEF StatsInv
<1>3. ASSUME NEW c \in Clients, InlineBegin(c)
      PROVE  StatsInv'
  BY <1>3, IdleStats DEF InlineBegin, InFlight, Holds, writerVars, history
<1>4. ASSUME NEW c \in Clients, NEW st \in {"ok", "error"}, InlineFinish(c, st)
      PROVE  StatsInv'
  <2>1. InFlight /\ ~InFlight' /\ UNCHANGED <<issued, taken, group>> /\ Len(taken) >= 1
    BY <1>4 DEF InlineFinish, InFlight, Ownership, WriterHolds, Holds, StatsInv, writerVars, history
  <2>2. \A d \in Clients : ~Holds(d)'
    BY <1>4 DEF InlineFinish, Holds, Ownership
  <2>3. /\ stats'["groups"] = stats["groups"] + 1
        /\ stats'["maxGroup"] \in {stats["maxGroup"], 1}
        /\ stats'["inlineDrains"] = stats["inlineDrains"]
        /\ stats'["threadDrains"] = stats["threadDrains"]
        /\ stats'["suspensions"] = stats["suspensions"]
    BY <1>4, GroupDoneFields, Zenon DEF InlineFinish
  <2>4. QED
    BY <1>0, <2>1, <2>2, <2>3 DEF StatsInv
<1>5. ASSUME NEW c \in Clients, InlineNotify(c) \/ Yield(c)
      PROVE  StatsInv'
  BY <1>5, IdleStats DEF InlineNotify, Yield, InFlight, Holds, Notified, clientVars, history
<1>6. CASE WriterSleep \/ WriterExit \/ WindowAgain \/ WriterLoop \/ SpuriousWakeup \/ WriterBegin
  BY <1>6, IdleStats DEF WriterSleep, WriterExit, WindowAgain, WriterLoop, SpuriousWakeup,
     WriterBegin, InFlight, Holds, Notified, clientVars, history
<1>7. CASE WriterDrain
  <2>1. ~InFlight /\ writing'
    BY <1>7, WakesFree DEF WriterDrain, InFlight
  <2>2. WindowStats \in [StatFields -> Nat]
    BY BumpType, Zenon DEF WindowStats
  <2>3. /\ WindowStats["inlineDrains"] = stats["inlineDrains"]
        /\ WindowStats["threadDrains"] = stats["threadDrains"]
        /\ WindowStats["groups"] = stats["groups"]
        /\ WindowStats["suspensions"] = stats["suspensions"]
        /\ WindowStats["maxGroup"] = stats["maxGroup"]
    BY DEF WindowStats, Bump, StatFields
  <2>4. Drain(WindowStats) \/ Drain(stats)
    BY <1>7 DEF WriterDrain
  <2>5. QED
    BY <1>7, <2>1, <2>2, <2>3, <2>4, DrainStats, Zenon DEF WriterDrain, clientVars
<1>8. CASE WriterOpenWindow
  <2>1. ~InFlight /\ ~InFlight'
    BY <1>8, WakesFree DEF WriterOpenWindow, InFlight
  <2>2. /\ stats'["inlineDrains"] = stats["inlineDrains"]
        /\ stats'["threadDrains"] = stats["threadDrains"]
        /\ stats'["groups"] = stats["groups"]
        /\ stats'["suspensions"] = stats["suspensions"]
        /\ stats'["maxGroup"] = stats["maxGroup"]
    BY <1>8 DEF WriterOpenWindow, WindowStats, Bump, StatFields
  <2>3. UNCHANGED <<issued, taken, group, cpc>>
    BY <1>8 DEF WriterOpenWindow, clientVars, history
  <2>4. QED
    BY <1>0, <2>1, <2>2, <2>3 DEF StatsInv, Holds
<1>9. CASE WindowFull \/ WindowTimeout
  <2>1. ~InFlight /\ writing'
    BY <1>9 DEF WindowFull, WindowTimeout, InFlight, Ownership, WriterHolds
  <2>2. QED
    BY <1>9, <2>1, DrainStats, Zenon DEF WindowFull, WindowTimeout, clientVars
<1>10. ASSUME NEW st \in {"ok", "error"}, WriterFinish(st)
       PROVE  StatsInv'
  <2>1. InFlight /\ ~InFlight' /\ UNCHANGED <<issued, taken, cpc>> /\ group' = <<>>
    BY <1>10 DEF WriterFinish, InFlight, Ownership, WriterHolds, history
  <2>2. /\ stats'["groups"] = stats["groups"] + 1
        /\ stats'["maxGroup"] \in {stats["maxGroup"], Len(group)}
        /\ stats'["inlineDrains"] = stats["inlineDrains"]
        /\ stats'["threadDrains"] = stats["threadDrains"]
        /\ stats'["suspensions"] = stats["suspensions"]
    BY <1>0, <1>10, GroupDoneFields, Zenon DEF WriterFinish
  <2>3. Len(group') = 0
    BY <2>1
  <2>4. (\E c \in Clients : Holds(c))' => Len(taken') >= 1
    BY <2>1 DEF StatsInv, Holds
  <2>5. QED
    BY <1>0, <2>1, <2>2, <2>3, <2>4 DEF StatsInv
<1>11. CASE WriterResume
  BY <1>11, IdleStats DEF WriterResume, InFlight, Holds, history
<1>12. CASE Stop \/ StopNotify \/ Join \/ UNCHANGED vars
  BY <1>12, IdleStats DEF Stop, StopNotify, Join, vars, InFlight, Holds, Notified, writerVars,
     clientVars, history
<1>13. QED
  BY <1>1, <1>2, <1>3, <1>4, <1>5, <1>6, <1>7, <1>8, <1>9, <1>10, <1>11, <1>12
     DEF Next, ClientStep, WriterStep, Terminated

-----------------------------------------------------------------------------
(***************************************************************************)
(* The theorems.                                                           *)
(***************************************************************************)

\* The strengthening of the invariants that every step preserves: who owns
\* writing_, what the writer thread's locals hold, who is still inside the
\* engine after stopWriter_ is set, and where every suspended coroutine is.
IInv == IndInv /\ SuspendedAccounted

\* The engine starts in the invariant.
LEMMA IInvInit == Init => IInv
<1> SUFFICES ASSUME Init PROVE IInv
  OBVIOUS
<1>1. TypeOK
  <2>1. /\ writers \in Seq(Clients) /\ group \in Seq(Clients)
        /\ conts \in Seq(Clients) /\ scratch \in Seq(Clients)
        /\ issued \in Seq(Clients) /\ taken \in Seq(Clients)
    BY EmptySeq DEF Init
  <2>2. /\ cpc \in [Clients -> ClientPcs]
        /\ status \in [Clients -> {"ok", "error"}]
        /\ left \in [Clients -> Nat]
        /\ stats \in [StatFields -> Nat]
    BY GroupCommitAssumption DEF Init, ClientPcs
  <2>3. QED
    BY <2>1, <2>2, GroupCommitAssumption, Zenon DEF Init, TypeOK, WriterPcs, DtorPcs
<1>2. Ownership /\ WriterLocals /\ Stopping
  BY DEF Init, Ownership, WriterHolds, Holds, WriterLocals, Stopping
<1>3. SuspendedAccounted
  BY EmptyRange DEF Init, SuspendedAccounted
<1>4. QED
  BY <1>1, <1>2, <1>3 DEF IInv, IndInv

\* Every step keeps the invariant.
LEMMA IInvStep == IInv /\ [Next]_vars => IInv'
  BY TypeStep, OwnershipStep, WriterLocalsStep, StoppingStep, SuspendedStep
     DEF IInv, IndInv

\* The strengthening holds in every reachable state.
THEOREM IInvAlways == Spec => []IInv
  BY IInvInit, IInvStep, PTL DEF Spec

\* Every variable of the group commit keeps its type.
THEOREM TypeCorrect == Spec => []TypeOK
<1>1. IInv => TypeOK
  BY DEF IInv, IndInv
<1>2. QED
  BY <1>1, IInvAlways, PTL

\* Suspended coroutines are never stranded and never resumed twice.
THEOREM SuspendedAlwaysAccounted == Spec => []SuspendedAccounted
<1>1. IInv => SuspendedAccounted
  BY DEF IInv
<1>2. QED
  BY <1>1, IInvAlways, PTL

\* writeGroup's unlocked state is never shared: writing_ is a mutual exclusion.
THEOREM ScratchAlwaysOwned == Spec => []ScratchOwned
<1>1. Init => ScratchOwned
  BY DEF Init, ScratchOwned
<1>2. IInv /\ ScratchOwned /\ [Next]_vars => ScratchOwned'
  BY ScratchStep DEF IInv, IndInv
<1>3. QED
  BY <1>1, <1>2, IInvAlways, PTL DEF Spec

\* No write is lost, duplicated or overtaken on its way into writeGroup.
THEOREM AlwaysFifo == Spec => []FifoNoLoss
<1>1. Init => FifoNoLoss
  BY DEF Init, FifoNoLoss
<1>2. IInv /\ FifoNoLoss /\ [Next]_vars => FifoNoLoss'
  BY FifoStep DEF IInv, IndInv
<1>3. QED
  BY <1>1, <1>2, IInvAlways, PTL DEF Spec

\* writerCv_ never loses a wake-up.
THEOREM NeverLostWakeup == Spec => []NoLostWakeup
<1>1. Init => NoLostWakeup
  BY DEF Init, NoLostWakeup
<1>2. IInv /\ NoLostWakeup /\ [Next]_vars => NoLostWakeup'
  BY WakeupStep DEF IInv, IndInv
<1>3. QED
  BY <1>1, <1>2, IInvAlways, PTL DEF Spec

\* The writers of a group are told one and the same status.
THEOREM GroupAlwaysSharesFate == Spec => []GroupSharesFate
<1>1. Init => GroupSharesFate
  BY DEF Init, GroupSharesFate
<1>2. IInv /\ GroupSharesFate /\ [Next]_vars => GroupSharesFate'
  BY FateStep DEF IInv, IndInv
<1>3. QED
  BY <1>1, <1>2, IInvAlways, PTL DEF Spec

\* ~DB leaves no accepted write unwritten and no coroutine suspended.
THEOREM ShutdownAlwaysDrains == Spec => []ShutdownDrains
<1>1. IInv /\ FifoNoLoss => ShutdownDrains
  <2> SUFFICES ASSUME IInv, FifoNoLoss, dpc = "closed"
               PROVE  taken = issued /\ \A c \in Clients : cpc[c] = "ready"
    BY DEF ShutdownDrains
  <2>1. stop /\ wpc = "exited" /\ writers = <<>> /\ group = <<>> /\ conts = <<>>
        /\ busy = None
    BY DEF IInv, IndInv, Stopping, WriterLocals
  <2>2. taken = issued
    BY <2>1, ConcatEmptySeq DEF IInv, IndInv, TypeOK, FifoNoLoss
  <2>3. \A c \in Clients : cpc[c] /= "suspended"
    BY <2>1, EmptyRange DEF IInv, SuspendedAccounted
  <2>4. \A c \in Clients : cpc[c] \in {"ready", "suspended"}
    BY <2>1, GroupCommitAssumption DEF IInv, IndInv, Stopping
  <2>5. QED
    BY <2>2, <2>3, <2>4
<1>2. QED
  BY <1>1, IInvAlways, AlwaysFifo, PTL

\* The counters of DebugStats never contradict each other.
THEOREM StatsAlwaysAgree == Spec => []StatsAgree
<1>1. Init => StatsInv
  BY DEF Init, StatsInv, InFlight, Holds, StatFields
<1>2. IInv /\ StatsInv /\ [Next]_vars => StatsInv'
  BY StatsStep DEF IInv
<1>3. StatsInv => StatsAgree
  BY DEF StatsInv, StatsAgree, InFlight
<1>4. QED
  BY <1>1, <1>2, <1>3, IInvAlways, PTL DEF Spec
=============================================================================
