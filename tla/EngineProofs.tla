---------------------------- MODULE EngineProofs -----------------------------
(***************************************************************************)
(* GroupCommit on top of the write path implements WalStore: for every set *)
(* of clients, every batch and every fault there may be, writeGroup is     *)
(* called for one group at a time.                                         *)
(***************************************************************************)
EXTENDS Engine, GroupCommitProofs, FiniteSetTheorems, WellFoundedInduction

\* The provers of a leaf that names none.
USE SMTT(30), Zenon

USE DEF WriterGoes, AfterInline, Drained, Informed, InlineWrite, WriterMoves

\* Some thread is inside writeGroup.
SomebodyWrites == wpc = "write" \/ \E c \in Clients : cpc[c] = "write"

\* The writer thread never drains an empty queue.
NonEmpty ==
  /\ wpc \in {"windowEval", "window"} => writers /= <<>>
  /\ wpc \in {"claimed", "write"} => group /= <<>>

\* The write path is busy, or has come to an outcome, only while a thread is
\* inside writeGroup.
WalSide ==
  /\ outcome \in {"none", "ok", "error"}
  /\ phase \in {"encoded", "written", "synced"} => outcome = "none" /\ SomebodyWrites
  /\ outcome /= "none" => phase = "idle" /\ SomebodyWrites

EInv == IInv /\ NonEmpty /\ WalSide

\* The steps of GroupCommit that neither enter nor leave writeGroup.
Around ==
  \/ \E c \in Clients : EnqueueInline(c) \/ EnqueueQueued(c) \/ InlineNotify(c) \/ Yield(c)
  \/ WriterMoves
  \/ SpuriousWakeup
  \/ Stop \/ StopNotify \/ Join

-----------------------------------------------------------------------------
(***************************************************************************)
(* What the steps of GroupCommit do to the invariant.                      *)
(***************************************************************************)

\* Nobody leaves writeGroup by another step.
LEMMA KeepsWriting ==
  ASSUME IInv, SomebodyWrites, Around
  PROVE  SomebodyWrites'
<1>1. ASSUME NEW c \in Clients,
             EnqueueInline(c) \/ EnqueueQueued(c) \/ InlineNotify(c) \/ Yield(c)
      PROVE  SomebodyWrites'
  BY <1>1 DEF EnqueueInline, EnqueueQueued, InlineNotify, Yield, MayIssue, Notified,
     SomebodyWrites, IInv, IndInv, TypeOK, writerVars, clientVars
<1>2. CASE WriterResume
  <2>1. Head(conts) \in Clients /\ cpc[Head(conts)] = "suspended"
    BY <1>2, HeadInRange, Zenon DEF WriterResume, IInv, IndInv, TypeOK, SuspendedAccounted
  <2>2. QED
    BY <1>2, <2>1 DEF WriterResume, SomebodyWrites, IInv, IndInv, TypeOK
<1>3. CASE WriterMoves /\ ~WriterResume
  BY <1>3 DEF WriterSleep, WriterExit, WriterDrain, WriterOpenWindow, WindowAgain,
     WindowFull, WindowTimeout, WriterLoop, Drain, SomebodyWrites, clientVars
<1>4. CASE SpuriousWakeup \/ Stop \/ StopNotify \/ Join
  BY <1>4 DEF SpuriousWakeup, Stop, StopNotify, Join, Notified, SomebodyWrites, writerVars,
     clientVars
<1>5. QED
  BY <1>1, <1>2, <1>3, <1>4, Zenon DEF Around

\* A queue that somebody was appended to is not empty.
LEMMA AppendNonEmpty ==
  ASSUME NEW s \in Seq(Clients), NEW c \in Clients
  PROVE  Append(s, c) /= <<>>
  BY AppendProperties, LenProperties, EmptySeq

\* Only the writer thread takes from the queue, and it takes all of it.
LEMMA NonEmptyStep ==
  ASSUME IInv, NonEmpty, [Next]_vars
  PROVE  NonEmpty'
<1> USE DEF NonEmpty, IInv, IndInv, TypeOK
<1>1. ASSUME NEW c \in Clients, EnqueueQueued(c)
      PROVE  NonEmpty'
  <2>1. writers' /= <<>>
    BY <1>1, AppendNonEmpty, Zenon DEF EnqueueQueued
  <2>2. QED
    BY <1>1, <2>1 DEF EnqueueQueued, Notified
<1>2. ASSUME NEW c \in Clients, EnqueueInline(c) \/ ClientStep(c)
      PROVE  NonEmpty'
  BY <1>2, Zenon DEF EnqueueInline, ClientStep, InlineBegin, InlineFinish, InlineNotify, Yield,
     Notified, writerVars
<1>3. CASE WriterSleep \/ WriterExit \/ WriterOpenWindow \/ WindowAgain \/ WriterResume
             \/ WriterLoop
  BY <1>3, Zenon DEF WriterSleep, WriterExit, WriterOpenWindow, WindowAgain, WriterResume,
     WriterLoop, WakeCondition, MustExit
<1>4. CASE WriterDrain \/ WindowFull \/ WindowTimeout
  BY <1>4 DEF WriterDrain, WindowFull, WindowTimeout, Drain, WakeCondition, MustExit
<1>5. CASE WriterBegin \/ \E st \in {"ok", "error"} : WriterFinish(st)
  BY <1>5 DEF WriterBegin, WriterFinish
<1>6. CASE SpuriousWakeup \/ Stop \/ StopNotify \/ Join \/ UNCHANGED vars
  BY <1>6 DEF SpuriousWakeup, Stop, StopNotify, Join, Notified, vars, writerVars
<1>7. QED
  BY <1>1, <1>2, <1>3, <1>4, <1>5, <1>6, Zenon DEF Next, WriterStep, Terminated

\* The steps around writeGroup are steps of GroupCommit.
LEMMA AroundIsNext == Around => Next
  BY DEF Around, Next, ClientStep, WriterStep

\* What the owner of writing_ relies on: when somebody is about to enter
\* writeGroup nobody is inside.
LEMMA NobodyElse ==
  ASSUME IInv,
         wpc = "claimed" \/ \E c \in Clients : cpc[c] = "claimed"
  PROVE  ~SomebodyWrites
  BY DEF IInv, IndInv, Ownership, WriterHolds, Holds, SomebodyWrites

-----------------------------------------------------------------------------
(***************************************************************************)
(* The groups that are handed to the write path.                           *)
(***************************************************************************)

\* A line-up of different clients is no longer than there are clients.
LEMMA LineupLength ==
  ASSUME NEW s \in Seq(Clients), IsInjective(s)
  PROVE  Len(s) <= Cardinality(Clients)
<1>1. Len(s) \in Nat /\ s \in [1..Len(s) -> Clients]
  BY LenProperties
<1>2. IsFiniteSet(1..Len(s)) /\ Cardinality(1..Len(s)) = Len(s)
  BY <1>1, FS_Interval
<1>3. s \in Injection(1..Len(s), Clients)
  BY <1>1 DEF Injection, IsInjective
<1>4. QED
  BY <1>1, <1>2, <1>3, FS_Injection, GroupCommitAssumption

\* Different clients make a line-up.
LEMMA IsLineup ==
  ASSUME NEW s \in Seq(Clients), s /= <<>>, IsInjective(s)
  PROVE  s \in Lineups
<1>1. Len(s) \in 1..Cardinality(Clients)
  BY LineupLength, LenProperties, EmptySeq, FS_CardinalityType, GroupCommitAssumption
<1>2. s \in [1..Len(s) -> Clients]
  BY LenProperties
<1>3. QED
  BY <1>1, <1>2 DEF Lineups

-----------------------------------------------------------------------------
(***************************************************************************)
(* The steps of the engine, by what they do to the write path.             *)
(***************************************************************************)

\* A step of the group commit that the write path does not notice; somebody's
\* write may return.
Quiet ==
  /\ Around
  /\ UNCHANGED <<walVars, outcome, placed>>
  /\ \/ UNCHANGED returned
     \/ \E c \in Clients : cpc[c] = "notify" /\ Returns(c)
     \/ conts /= <<>> /\ Returns(Head(conts))

\* Entering and leaving writeGroup.
Enters ==
  /\ (\E c \in Clients : InlineBegin(c)) \/ WriterBegin
  /\ WriteGroupBegins
Leaves ==
  /\ (\E c \in Clients : InlineFinish(c, outcome)) \/ WriterFinish(outcome)
  /\ WriteGroupEnds

\* Every step of the engine is of one of these kinds.
LEMMA Kinds ==
  ASSUME [EngineNext]_allVars
  PROVE  \/ Wal!IsOpen /\ (Quiet \/ Enters \/ Leaves \/ GroupStep)
         \/ Wal!IsOpen /\ Join /\ Wal!CloseFile /\ UNCHANGED <<faults, callVars>>
         \/ Open \/ Crash
         \/ UNCHANGED allVars
<1>1. ASSUME NEW c \in Clients, Serving(Call(c)) \/ Serving(ClientWrites(c))
      PROVE  Wal!IsOpen /\ (Quiet \/ Enters \/ Leaves)
  BY <1>1 DEF Serving, Call, ClientWrites, Elsewhere, callVars, Returns, Quiet, Around, Enters,
     Leaves, InlineNotify
<1>2. CASE Serving(WriterWrites)
  BY <1>2 DEF Serving, WriterWrites, Elsewhere, callVars, Returns, Quiet, Around, Enters, Leaves
<1>3. CASE Serving(Destroy)
  BY <1>3 DEF Serving, Destroy, Elsewhere, callVars, Quiet, Around
<1>4. CASE Serving((Stop \/ SpuriousWakeup) /\ Elsewhere)
  BY <1>4 DEF Serving, Elsewhere, callVars, Quiet, Around
<1>5. CASE Serving(GroupStep)
  BY <1>5 DEF Serving
<1>6. QED
  BY <1>1, <1>2, <1>3, <1>4, <1>5, Zenon DEF EngineNext, Done

\* A new process starts in the invariant of the group commit.
LEMMA NewProcessInv ==
  ASSUME IInv, NewProcess
  PROVE  IInv' /\ NonEmpty' /\ outcome' = "none"
<1>1. TypeOK'
  <2>1. /\ (writers \in Seq(Clients))' /\ (group \in Seq(Clients))'
        /\ (conts \in Seq(Clients))' /\ (scratch \in Seq(Clients))'
        /\ (issued \in Seq(Clients))' /\ (taken \in Seq(Clients))'
    BY EmptySeq DEF NewProcess
  <2>2. /\ (cpc \in [Clients -> ClientPcs])'
        /\ (status \in [Clients -> {"ok", "error"}])'
        /\ (left \in [Clients -> Nat])'
        /\ (stats \in [StatFields -> Nat])'
    BY DEF NewProcess, ClientPcs, IInv, IndInv, TypeOK
  <2>3. QED
    BY <2>1, <2>2, Zenon DEF NewProcess, TypeOK, WriterPcs, DtorPcs
<1>2. Ownership' /\ WriterLocals' /\ Stopping'
  BY DEF NewProcess, Ownership, WriterHolds, Holds, WriterLocals, Stopping
<1>3. SuspendedAccounted'
  BY EmptyRange DEF NewProcess, SuspendedAccounted
<1>4. QED
  BY <1>1, <1>2, <1>3 DEF IInv, IndInv, NewProcess, NonEmpty

-----------------------------------------------------------------------------
(***************************************************************************)
(* Each kind keeps the invariant and is a step of the write path.          *)
(***************************************************************************)

LEMMA QuietStep ==
  ASSUME EInv, Quiet
  PROVE  EInv' /\ UNCHANGED Wal!vars
<1>1. IInv' /\ NonEmpty'
  BY AroundIsNext, IInvStep, NonEmptyStep DEF EInv, Quiet
<1>2. WalSide'
  BY KeepsWriting DEF EInv, Quiet, WalSide, walVars
<1>3. UNCHANGED Wal!vars
  BY DEF Quiet, walVars, Wal!vars, Wal!file, Wal!members, Wal!history
<1>4. QED
  BY <1>1, <1>2, <1>3 DEF EInv

LEMMA LineupFilled ==
  ASSUME NEW s \in Lineups
  PROVE  s \in Seq(Clients) /\ s /= <<>>
BY EmptySeq DEF Lineups

\* The group that enters writeGroup is a line-up of clients: the inline writer
\* by itself, or what the writer thread drained.
LEMMA EnteringLineup ==
  ASSUME EInv, (\E c \in Clients : InlineBegin(c)) \/ WriterBegin
  PROVE  scratch' \in Lineups
<1>1. ASSUME NEW c \in Clients, InlineBegin(c)
      PROVE  scratch' \in Lineups
  <2>1. <<c>> \in Seq(Clients) /\ <<c>> /= <<>> /\ IsInjective(<<c>>)
    BY DEF IsInjective
  <2>2. QED
    BY <1>1, <2>1, IsLineup, Zenon DEF InlineBegin
<1>2. CASE WriterBegin
  <2>1. group \in Seq(Clients) /\ group /= <<>> /\ IsInjective(group)
    BY <1>2 DEF WriterBegin, EInv, IInv, IndInv, TypeOK, NonEmpty, SuspendedAccounted
  <2>2. QED
    BY <1>2, <2>1, IsLineup, Zenon DEF WriterBegin
<1>3. QED
  BY <1>1, <1>2

LEMMA EntersStep ==
  ASSUME EInv, Wal!IsOpen, Enters
  PROVE  EInv' /\ Wal!Next
<1>1. IInv' /\ NonEmpty'
  <2>1. Next
    BY DEF Enters, Next, ClientStep, WriterStep
  <2>2. QED
    BY <2>1, IInvStep, NonEmptyStep DEF EInv
<1>2. phase = "idle" /\ outcome = "none"
  BY NobodyElse DEF EInv, WalSide, Enters, InlineBegin, WriterBegin, Wal!IsOpen
<1>3. SomebodyWrites'
  BY DEF EInv, IInv, IndInv, TypeOK, Enters, InlineBegin, WriterBegin, SomebodyWrites
<1>4. phase' = "encoded" /\ outcome' = "none"
  BY <1>2 DEF Enters, WriteGroupBegins, Wal!EncodeGroup
<1>5. WalSide'
  BY <1>3, <1>4 DEF WalSide, SomebodyWrites
<1>6. Wal!WriteGroup(EntriesOf(scratch')) /\ UNCHANGED faults
  BY <1>2 DEF Enters, WriteGroupBegins, Wal!WriteGroup
<1>7. EntriesOf(scratch') \in {EntriesOf(s) : s \in Lineups}
  BY EnteringLineup DEF Enters
<1>8. Wal!Next
  BY <1>6, <1>7, Zenon DEF Wal!Next
<1>9. QED
  BY <1>1, <1>5, <1>8 DEF EInv

LEMMA LeavesStep ==
  ASSUME EInv, Leaves
  PROVE  EInv' /\ UNCHANGED Wal!vars
<1>1. outcome \in {"ok", "error"} /\ outcome' = "none" /\ phase = "idle" /\ phase' = "idle"
  BY DEF EInv, WalSide, Leaves, WriteGroupEnds, walVars
<1>2. IInv' /\ NonEmpty'
  <2>1. Next
    BY <1>1 DEF Leaves, Next, ClientStep, WriterStep
  <2>2. QED
    BY <2>1, IInvStep, NonEmptyStep DEF EInv
<1>3. WalSide'
  BY <1>1 DEF WalSide
<1>4. UNCHANGED Wal!vars
  BY DEF Leaves, WriteGroupEnds, walVars, Wal!vars, Wal!file, Wal!members, Wal!history
<1>5. QED
  BY <1>2, <1>3, <1>4 DEF EInv

\* A step of the write path alone leaves the group commit as it is.
LEMMA UnchangedInv ==
  ASSUME EInv, UNCHANGED vars
  PROVE  IInv' /\ NonEmpty' /\ (SomebodyWrites' <=> SomebodyWrites)
<1>1. IInv' /\ NonEmpty'
  BY IInvStep, NonEmptyStep DEF EInv
<1>2. SomebodyWrites' <=> SomebodyWrites
  BY DEF vars, writerVars, clientVars, SomebodyWrites
<1>3. QED
  BY <1>1, <1>2

LEMMA GroupStepStep ==
  ASSUME EInv, GroupStep
  PROVE  EInv' /\ Wal!Next
<1>1. UNCHANGED vars
  BY DEF GroupStep, DurableStep, ApplyStep
<1>2. IInv' /\ NonEmpty' /\ (SomebodyWrites' <=> SomebodyWrites)
  BY <1>1, UnchangedInv
<1>3. phase \in {"encoded", "written", "synced"}
  BY DEF GroupStep, DurableStep, ApplyStep, Wal!Writev, Wal!FDataSync, Wal!Apply, Wal!MayApply
<1>4. SomebodyWrites' /\ outcome = "none"
  BY <1>2, <1>3 DEF EInv, WalSide
<1>5. \/ phase' \in {"written", "synced"} /\ outcome' = "none"
      \/ phase' = "idle" /\ outcome' \in {"ok", "error"}
  BY <1>4 DEF GroupStep, DurableStep, ApplyStep, Wal!Writev, Wal!FDataSync, Wal!Apply,
     Wal!GroupEnds
<1>6. WalSide'
  BY <1>4, <1>5 DEF WalSide
<1>7. Wal!Next
  BY DEF GroupStep, DurableStep, ApplyStep, Wal!Next
<1>8. QED
  BY <1>2, <1>6, <1>7 DEF EInv

\* ~DB closes the file only after the join, when nobody is inside writeGroup.
LEMMA CloseStep ==
  ASSUME EInv, Wal!IsOpen, Join, Wal!CloseFile, UNCHANGED <<faults, callVars>>
  PROVE  EInv' /\ Wal!Next
<1>1. IInv' /\ NonEmpty'
  BY IInvStep, NonEmptyStep DEF EInv, Next
<1>2. ~SomebodyWrites
  BY GroupCommitAssumption, Zenon
     DEF Join, EInv, IInv, IndInv, TypeOK, WriterLocals, Stopping, SomebodyWrites
<1>3. phase = "idle" /\ outcome = "none"
  BY <1>2 DEF EInv, WalSide, Wal!IsOpen
<1>4. WalSide'
  BY <1>3 DEF WalSide, Wal!CloseFile, Wal!Down, callVars
<1>5. Wal!Next
  BY <1>3 DEF Wal!Next, Wal!Close
<1>6. QED
  BY <1>1, <1>4, <1>5 DEF EInv

LEMMA OpenStep ==
  ASSUME EInv, Open
  PROVE  EInv' /\ Wal!Next
<1>1. CASE Wal!Open /\ NewProcess
  <2>1. IInv' /\ NonEmpty' /\ outcome' = "none"
    BY <1>1, NewProcessInv, Zenon DEF EInv
  <2>2. phase' \in {"down", "truncated", "idle"}
    BY <1>1 DEF Wal!Open, Wal!OpenFails, Wal!Recovered, Wal!Down
  <2>3. Wal!Next
    BY <1>1 DEF Wal!Next, NewProcess
  <2>4. QED
    BY <2>1, <2>2, <2>3 DEF EInv, WalSide
<1>2. CASE Wal!RecoverSync /\ UNCHANGED <<faults, vars, callVars>>
  <2>1. IInv' /\ NonEmpty'
    BY <1>2, UnchangedInv
  <2>2. phase' \in {"down", "idle"} /\ outcome' = "none"
    BY <1>2 DEF Wal!RecoverSync, Wal!Down, EInv, WalSide, callVars
  <2>3. Wal!Next
    BY <1>2 DEF Wal!Next
  <2>4. QED
    BY <2>1, <2>2, <2>3 DEF EInv, WalSide
<1>3. QED
  BY <1>1, <1>2 DEF Open

LEMMA CrashStep ==
  ASSUME EInv, Crash
  PROVE  EInv' /\ Wal!Next
<1>1. IInv' /\ NonEmpty' /\ outcome' = "none"
  BY NewProcessInv DEF EInv, Crash
<1>2. phase' = "down"
  BY DEF Crash, Wal!ProcessCrash, Wal!PowerLoss, Wal!Down
<1>3. Wal!Next
  BY DEF Crash, NewProcess, Wal!Next
<1>4. QED
  BY <1>1, <1>2, <1>3 DEF EInv, WalSide

-----------------------------------------------------------------------------
(***************************************************************************)
(* The results.                                                            *)
(***************************************************************************)

LEMMA EInvInit == EngineInit => EInv
<1>1. EngineInit => IInv
  BY IInvInit DEF EngineInit
<1>2. EngineInit => NonEmpty /\ WalSide
  BY DEF EngineInit, Init, Wal!Init, NonEmpty, WalSide
<1>3. QED
  BY <1>1, <1>2 DEF EInv

LEMMA EngineStep ==
  ASSUME EInv, [EngineNext]_allVars
  PROVE  EInv' /\ [Wal!Next]_(Wal!vars)
<1>1. CASE UNCHANGED allVars
  <2>1. IInv' /\ NonEmpty' /\ (SomebodyWrites' <=> SomebodyWrites)
    BY <1>1, UnchangedInv, Zenon DEF allVars
  <2>2. WalSide' /\ UNCHANGED Wal!vars
    BY <1>1, <2>1 DEF EInv, WalSide, allVars, callVars, walVars, Wal!vars, Wal!file,
       Wal!members, Wal!history
  <2>3. QED
    BY <2>1, <2>2 DEF EInv
<1>2. QED
  BY <1>1, Kinds, QuietStep, EntersStep, LeavesStep, GroupStepStep, CloseStep, OpenStep,
     CrashStep, Zenon

\* Nobody but the one thread that GroupCommit let in is ever inside writeGroup
\* while the write path is busy, across failures, crashes and restarts.
THEOREM EInvAlways == EngineSpec => []EInv
  BY EInvInit, EngineStep, PTL DEF EngineSpec

\* For every set of clients, every batches and every faults, the engine as a
\* whole drives its write path the way WalStore takes for granted: one group
\* at a time enters writeGroup, and ~DB closes the file between groups.
THEOREM EngineImplementsWalStore == EngineSpec => ImplementsWalStore
<1>1. EngineInit => Wal!Init
  BY DEF EngineInit
<1>2. EInv /\ [EngineNext]_allVars => [Wal!Next]_(Wal!vars)
  BY EngineStep
<1>3. QED
  BY <1>1, <1>2, EInvAlways, PTL DEF EngineSpec, ImplementsWalStore, Wal!Spec
-----------------------------------------------------------------------------
(***************************************************************************)
(* The entries of a group: every writer's batch stands in it, in one       *)
(* piece, and nothing else does.                                           *)
(***************************************************************************)
LEMMA BatchType ==
  ASSUME NEW c \in Clients
  PROVE  /\ Len(Batch[c]) \in Nat \ {0} /\ DOMAIN Batch[c] = 1..Len(Batch[c])
         /\ \A j \in 1..Len(Batch[c]) : Batch[c][j] \in Wal!Entry
<1>1. Batch[c] \in Seq(Wal!Entry) /\ Batch[c] /= <<>>
  BY EngineAssumption, Zenon
<1>2. QED
  BY <1>1

\* The entries of the i-th writer.
Row(s, i) == {<<i, j>> : j \in DOMAIN Batch[s[i]]}

LEMMA RowSize ==
  ASSUME NEW s \in Seq(Clients), NEW i \in 1..Len(s)
  PROVE  IsFiniteSet(Row(s, i)) /\ Cardinality(Row(s, i)) = Len(Batch[s[i]])
<1> DEFINE l == Len(Batch[s[i]])
<1>1. s[i] \in Clients
  OBVIOUS
<1>2. l \in Nat /\ DOMAIN Batch[s[i]] = 1..l
  BY <1>1, BatchType
<1>3. Row(s, i) = {i} \X (1..l)
  BY <1>2 DEF Row
<1> HIDE DEF l
<1>4. IsFiniteSet(1..l) /\ Cardinality(1..l) = l
  BY <1>2, FS_Interval
<1>5. IsFiniteSet({i}) /\ Cardinality({i}) = 1
  BY FS_Singleton, Zenon
<1>6. /\ IsFiniteSet({i} \X (1..l))
      /\ Cardinality({i} \X (1..l)) = Cardinality({i}) * Cardinality(1..l)
  BY <1>4, <1>5, FS_Product, Zenon
<1>7. Cardinality({i}) * Cardinality(1..l) = l
  BY <1>2, <1>4, <1>5
<1>8. QED
  BY <1>3, <1>6, <1>7 DEF l

LEMMA SlotsFinite ==
  ASSUME NEW s \in Seq(Clients), NEW n \in 0..Len(s)
  PROVE  IsFiniteSet(Slots(s, n)) /\ Cardinality(Slots(s, n)) \in Nat
<1> DEFINE rows == {Row(s, i) : i \in 1..n}
           f == [i \in 1..n |-> Row(s, i)]
<1>1. f \in Surjection(1..n, rows)
  BY DEF Surjection
<1>2. IsFiniteSet(1..n)
  BY FS_Interval
<1>3. IsFiniteSet(rows)
  <2> HIDE DEF f, rows
  <2>1. QED
    BY <1>1, <1>2, FS_Surjection, Zenon
<1>4. \A T \in rows : IsFiniteSet(T)
  BY RowSize
<1>5. Slots(s, n) = UNION rows
  BY DEF Slots, Row
<1> HIDE DEF rows, f
<1>6. IsFiniteSet(Slots(s, n))
  BY <1>3, <1>4, <1>5, FS_UNION, Zenon
<1>7. QED
  BY <1>6, FS_CardinalityType

\* The batch of the i-th writer ends where that of the next one begins.
LEMMA SlotsAdd ==
  ASSUME NEW s \in Seq(Clients), NEW i \in 1..Len(s)
  PROVE  FirstOf(s, i + 1) = FirstOf(s, i) + Len(Batch[s[i]])
<1> DEFINE A == Slots(s, i - 1)
           B == Row(s, i)
<1>1. i - 1 \in 0..Len(s) /\ i + 1 - 1 = i
  OBVIOUS
<1>2. IsFiniteSet(A) /\ Cardinality(A) \in Nat
  BY <1>1, SlotsFinite, Zenon
<1>3. IsFiniteSet(B) /\ Cardinality(B) = Len(Batch[s[i]]) /\ Len(Batch[s[i]]) \in Nat
  <2>1. s[i] \in Clients
    OBVIOUS
  <2>2. QED
    BY <2>1, RowSize, BatchType, Zenon
<1>4. A \cap B = {}
  <2>1. \A x \in A : x[1] \in 1..(i - 1)
    BY DEF Slots
  <2>2. \A x \in B : x[1] = i
    BY DEF Row
  <2> HIDE DEF A, B
  <2>3. QED
    BY <2>1, <2>2
<1>5. Slots(s, i) = A \cup B
  <2>1. 1..i = (1..(i - 1)) \cup {i}
    OBVIOUS
  <2>2. QED
    BY <2>1 DEF Slots, Row
<1>6. FirstOf(s, i + 1) = Cardinality(A \cup B) /\ FirstOf(s, i) = Cardinality(A)
  <2>1. FirstOf(s, i + 1) = Cardinality(Slots(s, (i + 1) - 1))
    BY DEF FirstOf
  <2>2. FirstOf(s, i) = Cardinality(A)
    BY Zenon DEF FirstOf
  <2> HIDE DEF A, B
  <2>3. (i + 1) - 1 = i
    OBVIOUS
  <2>4. Slots(s, (i + 1) - 1) = A \cup B
    BY <1>5, <2>3, Zenon
  <2>5. QED
    BY <2>1, <2>2, <2>4, Zenon
<1> HIDE DEF A, B
<1>7. Cardinality(A \cup B) = Cardinality(A) + Cardinality(B) - Cardinality({})
  BY <1>2, <1>3, <1>4, FS_Union
<1>8. Cardinality({}) = 0
  BY FS_EmptySet
<1>9. QED
  BY <1>2, <1>3, <1>6, <1>7, <1>8

LEMMA SlotsGrow ==
  ASSUME NEW s \in Seq(Clients), NEW i \in 1..Len(s) + 1, NEW j \in i..Len(s) + 1
  PROVE  FirstOf(s, i) \in Nat /\ FirstOf(s, j) \in Nat /\ FirstOf(s, i) <= FirstOf(s, j)
<1>1. i - 1 \in 0..Len(s) /\ j - 1 \in 0..Len(s) /\ i - 1 <= j - 1
  OBVIOUS
<1>2. Slots(s, i - 1) \in SUBSET Slots(s, j - 1)
  <2>1. \A n \in 1..(i - 1) : n \in 1..(j - 1)
    BY <1>1
  <2>2. QED
    BY <2>1 DEF Slots
<1>3. /\ IsFiniteSet(Slots(s, j - 1)) /\ Cardinality(Slots(s, j - 1)) \in Nat
      /\ Cardinality(Slots(s, i - 1)) \in Nat
  BY <1>1, SlotsFinite, Zenon
<1>4. QED
  BY <1>2, <1>3, FS_Subset, Zenon DEF FirstOf
\* Where entry j of the i-th writer stands.
LEMMA PlaceOf ==
  ASSUME NEW s \in Seq(Clients), NEW i \in 1..Len(s), NEW j \in DOMAIN Batch[s[i]]
  PROVE  /\ <<i, j>> \in Slots(s, Len(s)) /\ j \in Nat
         /\ FirstOf(s, i) \in Nat /\ FirstOf(s, i + 1) \in Nat
         /\ FirstOf(s, Len(s) + 1) \in Nat
         /\ FirstOf(s, i) + j > FirstOf(s, i)
         /\ FirstOf(s, i) + j <= FirstOf(s, i + 1)
         /\ FirstOf(s, i) + j \in 1..FirstOf(s, Len(s) + 1)
<1> DEFINE l == Len(Batch[s[i]])
           a == FirstOf(s, i)
           b == FirstOf(s, i + 1)
           e == FirstOf(s, Len(s) + 1)
<1>0. Len(s) \in Nat /\ s[i] \in Clients
  OBVIOUS
<1>1. l \in Nat /\ j \in 1..l
  BY <1>0, BatchType, Zenon
<1>2. <<i, j>> \in Slots(s, Len(s))
  <2>1. <<i, j>> \in {<<i, m>> : m \in DOMAIN Batch[s[i]]}
    OBVIOUS
  <2>2. QED
    BY <2>1 DEF Slots
<1>3. a \in Nat /\ b \in Nat /\ e \in Nat /\ b <= e
  <2>1. i \in 1..Len(s) + 1 /\ i + 1 \in 1..Len(s) + 1 /\ Len(s) + 1 \in i + 1..Len(s) + 1
        /\ i + 1 \in i..Len(s) + 1
    BY <1>0
  <2>2. QED
    BY <2>1, SlotsGrow, Zenon
<1>4. b = a + l
  BY SlotsAdd
<1> HIDE DEF l, a, b, e
<1>5. j \in Nat /\ a + j > a /\ a + j <= b /\ a + j \in 1..e
  BY <1>1, <1>3, <1>4
<1>6. QED
  BY <1>2, <1>3, <1>5, Zenon DEF a, b, e

LEMMA SlotParts ==
  ASSUME NEW s \in Seq(Clients), NEW x \in Slots(s, Len(s))
  PROVE  x = <<x[1], x[2]>> /\ x[1] \in 1..Len(s) /\ x[2] \in DOMAIN Batch[s[x[1]]]
BY DEF Slots

LEMMA PlaceOnce ==
  ASSUME NEW s \in Seq(Clients), NEW x \in Slots(s, Len(s)), NEW y \in Slots(s, Len(s)),
         FirstOf(s, x[1]) + x[2] = FirstOf(s, y[1]) + y[2]
  PROVE  x = y
<1>1. ASSUME NEW i \in 1..Len(s), NEW j \in DOMAIN Batch[s[i]],
             NEW m \in 1..Len(s), NEW n \in DOMAIN Batch[s[m]], i < m
      PROVE  FirstOf(s, i) + j < FirstOf(s, m) + n
  <2> DEFINE a == FirstOf(s, i)
             b == FirstOf(s, i + 1)
             d == FirstOf(s, m)
  <2>1. a \in Nat /\ j \in Nat /\ b \in Nat /\ a + j <= b
    BY PlaceOf, Zenon
  <2>2. d \in Nat /\ n \in Nat /\ d + n > d
    BY PlaceOf, Zenon
  <2>3. b <= d
    <3>1. i + 1 \in 1..Len(s) + 1 /\ m \in i + 1..Len(s) + 1
      BY <1>1
    <3>2. QED
      BY <3>1, SlotsGrow, Zenon
  <2> HIDE DEF a, b, d
  <2>4. a + j < d + n
    BY <2>1, <2>2, <2>3
  <2>5. QED
    BY <2>4 DEF a, d
<1> DEFINE i == x[1]
           j == x[2]
           m == y[1]
           n == y[2]
<1>2. /\ x = <<i, j>> /\ i \in 1..Len(s) /\ j \in DOMAIN Batch[s[i]]
      /\ y = <<m, n>> /\ m \in 1..Len(s) /\ n \in DOMAIN Batch[s[m]]
  BY SlotParts
<1>3. FirstOf(s, i) + j = FirstOf(s, m) + n
  OBVIOUS
<1>4. FirstOf(s, i) \in Nat /\ FirstOf(s, m) \in Nat /\ j \in Nat /\ n \in Nat
  BY <1>2, PlaceOf, Zenon
<1> HIDE DEF i, j, m, n
<1>5. ~(i < m) /\ ~(m < i)
  <2>1. ASSUME i < m PROVE FALSE
    <3>1. FirstOf(s, i) + j < FirstOf(s, m) + n
      BY <1>1, <1>2, <2>1, Zenon
    <3>2. QED
      BY <1>3, <1>4, <3>1
  <2>2. ASSUME m < i PROVE FALSE
    <3>1. FirstOf(s, m) + n < FirstOf(s, i) + j
      BY <1>1, <1>2, <2>2, Zenon
    <3>2. QED
      BY <1>3, <1>4, <3>1
  <2>3. QED
    BY <2>1, <2>2, Zenon
<1>6. i = m
  BY <1>2, <1>5
<1>7. j = n
  BY <1>3, <1>4, <1>6
<1>8. QED
  BY <1>2, <1>6, <1>7, Zenon

\* Every place in the group is somebody's.
LEMMA PlaceTaken ==
  ASSUME NEW s \in Seq(Clients), NEW p \in 1..FirstOf(s, Len(s) + 1)
  PROVE  \E x \in Slots(s, Len(s)) : FirstOf(s, x[1]) + x[2] = p
<1> DEFINE S == Slots(s, Len(s))
           e == FirstOf(s, Len(s) + 1)
           f == [x \in S |-> FirstOf(s, x[1]) + x[2]]
<1>0. Len(s) \in Nat /\ Len(s) \in 0..Len(s) /\ Len(s) + 1 - 1 = Len(s)
  OBVIOUS
<1>1. IsFiniteSet(S) /\ Cardinality(S) = e /\ e \in Nat
  BY <1>0, SlotsFinite DEF FirstOf
<1>2. IsFiniteSet(1..e) /\ Cardinality(1..e) = e
  <2> HIDE DEF e
  <2>1. QED
    BY <1>1, FS_Interval
<1>3. f \in Injection(S, 1..e)
  <2>1. \A x \in S : FirstOf(s, x[1]) + x[2] \in 1..e
    BY SlotParts, PlaceOf, Zenon
  <2>2. \A x, y \in S : FirstOf(s, x[1]) + x[2] = FirstOf(s, y[1]) + y[2] => x = y
    BY PlaceOnce
  <2> HIDE DEF S, e
  <2>3. QED
    BY <2>1, <2>2, Zenon DEF Injection, IsInjective
<1> HIDE DEF S, f
<1>4. f \in Surjection(S, 1..e)
  <2> HIDE DEF e
  <2>1. QED
    BY <1>1, <1>2, <1>3, FS_Injection, Zenon
<1>5. PICK x \in S : f[x] = p
  BY <1>4, Zenon DEF Surjection
<1>6. QED
  BY <1>5 DEF f, S

\* The group is a sequence of entries, and each is an entry of a writer.
LEMMA EntriesType ==
  ASSUME NEW s \in Seq(Clients)
  PROVE  /\ EntriesOf(s) \in Seq(Wal!Entry)
         /\ DOMAIN EntriesOf(s) = 1..FirstOf(s, Len(s) + 1)
         /\ \A p \in DOMAIN EntriesOf(s) : \E x \in Slots(s, Len(s)) :
              FirstOf(s, x[1]) + x[2] = p /\ EntriesOf(s)[p] = Batch[s[x[1]]][x[2]]
<1> DEFINE e == FirstOf(s, Len(s) + 1)
           at(p) == CHOOSE x \in Slots(s, Len(s)) : FirstOf(s, x[1]) + x[2] = p
<1>1. \A p \in 1..e : at(p) \in Slots(s, Len(s)) /\ FirstOf(s, at(p)[1]) + at(p)[2] = p
  BY PlaceTaken
<1>2. EntriesOf(s) = [p \in 1..e |-> Batch[s[at(p)[1]]][at(p)[2]]]
  BY DEF EntriesOf
<1> HIDE DEF at
<1>3. e \in Nat
  <2>1. Len(s) + 1 \in 1..Len(s) + 1 /\ Len(s) + 1 \in Len(s) + 1..Len(s) + 1
    OBVIOUS
  <2>2. QED
    BY <2>1, SlotsGrow
<1> HIDE DEF e
<1>4. \A p \in 1..e : Batch[s[at(p)[1]]][at(p)[2]] \in Wal!Entry
  <2> SUFFICES ASSUME NEW p \in 1..e
               PROVE  Batch[s[at(p)[1]]][at(p)[2]] \in Wal!Entry
    OBVIOUS
  <2>1. at(p)[1] \in 1..Len(s) /\ at(p)[2] \in DOMAIN Batch[s[at(p)[1]]]
    BY <1>1, SlotParts, Zenon
  <2>2. s[at(p)[1]] \in Clients
    BY <2>1
  <2>3. QED
    BY <2>1, <2>2, BatchType, Zenon
<1>5. EntriesOf(s) \in Seq(Wal!Entry)
  BY <1>2, <1>3, <1>4
<1>6. QED
  BY <1>1, <1>2, <1>5, Zenon DEF e

LEMMA EntriesPlace ==
  ASSUME NEW s \in Seq(Clients), NEW i \in 1..Len(s), NEW j \in DOMAIN Batch[s[i]]
  PROVE  /\ FirstOf(s, i) + j \in DOMAIN EntriesOf(s)
         /\ EntriesOf(s)[FirstOf(s, i) + j] = Batch[s[i]][j]
<1>1. /\ FirstOf(s, i) + j \in 1..FirstOf(s, Len(s) + 1) /\ <<i, j>> \in Slots(s, Len(s))
  BY PlaceOf
<1>2. FirstOf(s, i) + j \in DOMAIN EntriesOf(s)
  BY <1>1, EntriesType, Zenon
<1>3. PICK x \in Slots(s, Len(s)) :
        /\ FirstOf(s, x[1]) + x[2] = FirstOf(s, i) + j
        /\ EntriesOf(s)[FirstOf(s, i) + j] = Batch[s[x[1]]][x[2]]
  BY <1>2, EntriesType, Zenon
<1>4. <<i, j>>[1] = i /\ <<i, j>>[2] = j
  BY Zenon
<1>5. x = <<i, j>>
  BY <1>1, <1>3, <1>4, PlaceOnce, Zenon
<1>6. QED
  BY <1>2, <1>3, <1>5, Zenon

\* A group that somebody is in is not empty.
LEMMA EntriesNonEmpty ==
  ASSUME NEW s \in Seq(Clients), s /= <<>>
  PROVE  EntriesOf(s) /= <<>>
<1>1. 1 \in 1..Len(s)
  BY LenProperties, EmptySeq
<1>2. s[1] \in Clients
  BY <1>1
<1>3. 1 \in DOMAIN Batch[s[1]]
  BY <1>2, BatchType
<1>4. FirstOf(s, 1) + 1 \in DOMAIN EntriesOf(s)
  BY <1>1, <1>3, EntriesPlace, Zenon
<1>5. QED
  BY <1>4
-----------------------------------------------------------------------------
(***************************************************************************)
(* What becomes of the batch of one caller.                                *)
(***************************************************************************)
\* The batch of c is in the group in flight.
Flying(c) == SomebodyWrites /\ c \in Range(scratch)

\* The entry f of a key is e, or one that replaced it.
Covers(f, e) == f = e \/ f.seq > e.seq

\* The latest batch of c: acknowledged; not in the memtable; of c's entries.
Granted(c) ==
  \A x \in placed[c] : x[1] \in Keys /\ x[2].seq \in Nat /\ Covers(acked[x[1]], x[2])
Hidden(c) == \A x \in placed[c] : mem[x[1]] /= x[2]
Own(c) ==
  \A x \in placed[c] : \E j \in DOMAIN Batch[c] :
    x[1] = Batch[c][j].key /\ x[2].val = Batch[c][j].val

Busy == phase \in {"encoded", "written", "synced"}

\* The record in flight is that of the batches in writeScratch_.
Carried ==
  Busy => /\ rec.entries = EntriesOf(scratch)
          /\ \A c \in Range(scratch) : placed[c] \subseteq Wal!IssuedBy(rec)

\* Ok goes to those whose batches are acknowledged ...
OkInv ==
  /\ \A k \in Keys : returned[k].seq \in Nat /\ Covers(acked[k], returned[k])
  /\ \A c \in Clients : status[c] = "ok" /\ ~Flying(c) => Granted(c)
  /\ outcome = "ok" => \A c \in Range(scratch) : Granted(c)

\* ... and an error to those whose batches are not in the memtable.
ErrorInv ==
  /\ phase /= "down" => \A c \in Clients : status[c] = "error" /\ ~Flying(c) => Hidden(c)
  /\ outcome = "error" => \A c \in Range(scratch) : Hidden(c)

\* No two clients write the same value to the same key.
Distinct ==
  \A c, d \in Clients : c /= d =>
    \A i \in DOMAIN Batch[c], j \in DOMAIN Batch[d] : Batch[c][i] /= Batch[d][j]

CallInv ==
  /\ Carried
  /\ \A c \in Clients : Own(c)
  /\ Wal!LogKept => OkInv
  /\ Distinct => ErrorInv

\* What is used of the write path: the record in flight is newer than the
\* memtable, and applying it puts its entries and nothing else into a table.
WritePath ==
  /\ \A k \in Keys : acked[k].seq \in Nat
  /\ Busy =>
       /\ \A x \in Wal!IssuedBy(rec) :
            /\ x[1] \in Keys /\ x[2].seq \in Nat
            /\ mem[x[1]].seq < x[2].seq
            /\ Covers(Wal!ApplyRecord(acked, rec)[x[1]], x[2])
       /\ \A k \in Keys :
            \/ Wal!ApplyRecord(mem, rec)[k] = mem[k]
            \/ <<k, Wal!ApplyRecord(mem, rec)[k]>> \in Wal!IssuedBy(rec)

\* An acknowledged entry only gives way to a newer one.
Advances == \A k \in Keys : acked'[k].seq \in Nat /\ Covers(acked'[k], acked[k])

LEMMA CoversTransitive ==
  ASSUME NEW e, NEW f, NEW g, e.seq \in Nat, f.seq \in Nat, g.seq \in Nat,
         Covers(f, e), Covers(g, f)
  PROVE  Covers(g, e)
<1>1. CASE f = e \/ g = f
  BY <1>1, Zenon DEF Covers
<1>2. CASE f.seq > e.seq /\ g.seq > f.seq
  <2>1. g.seq > e.seq
    BY <1>2
  <2>2. QED
    BY <2>1, Zenon DEF Covers
<1>3. QED
  BY <1>1, <1>2, Zenon DEF Covers

\* writeScratch_ is that of the thread in writeGroup, in every process.
LEMMA ScratchKept ==
  ASSUME EInv, ScratchOwned, [EngineNext]_allVars
  PROVE  ScratchOwned'
<1>1. ASSUME [Next]_vars
      PROVE  ScratchOwned'
  BY <1>1, ScratchStep, Zenon DEF EInv, IInv, IndInv
<1>2. CASE Quiet
  BY <1>1, <1>2, AroundIsNext, Zenon DEF Quiet
<1>3. CASE Enters
  BY <1>1, <1>3, Zenon DEF Enters, Next, ClientStep, WriterStep
<1>4. CASE Leaves
  <2>1. outcome \in {"ok", "error"}
    BY <1>4 DEF EInv, WalSide, Leaves, WriteGroupEnds
  <2>2. QED
    BY <1>1, <1>4, <2>1, Zenon DEF Leaves, Next, ClientStep, WriterStep
<1>5. CASE GroupStep \/ UNCHANGED vars
  BY <1>1, <1>5, Zenon DEF GroupStep, DurableStep, ApplyStep
<1>6. CASE Join
  BY <1>1, <1>6, Zenon DEF Next
<1>7. CASE NewProcess
  BY <1>7 DEF NewProcess, ScratchOwned
<1>8. QED
  BY <1>2, <1>3, <1>4, <1>5, <1>6, <1>7, Kinds, Zenon DEF Open, Crash, allVars

\* A caller that waits for no group any more is in none.
LEMMA NotFlying ==
  ASSUME EInv, ScratchOwned, NEW c \in Clients,
         cpc[c] \in {"ready", "notify"} \/ c \in Range(conts)
  PROVE  ~Flying(c)
<1>1. CASE wpc = "write"
  <2>1. scratch = group /\ conts = <<>>
    BY <1>1 DEF ScratchOwned, EInv, IInv, IndInv, WriterLocals
  <2>2. cpc[c] \in {"ready", "notify"}
    BY <2>1, EmptyRange, Zenon
  <2>3. c \notin Range(group)
    BY <2>2 DEF EInv, IInv, SuspendedAccounted
  <2>4. QED
    BY <2>1, <2>3, Zenon DEF Flying
<1>2. ASSUME NEW d \in Clients, cpc[d] = "write"
      PROVE  c \notin Range(scratch)
  <2>1. scratch = <<d>>
    BY <1>2 DEF ScratchOwned
  <2>2. Range(<<d>>) = {d}
    BY DEF Range
  <2>3. cpc[c] /= "write"
    BY DEF EInv, IInv, SuspendedAccounted
  <2>4. QED
    BY <1>2, <2>1, <2>2, <2>3, Zenon
<1>3. QED
  BY <1>1, <1>2, Zenon DEF Flying, SomebodyWrites

\* Among entries whose sequence numbers are bounded one is the newest.
LEMMA NewestIn ==
  ASSUME NEW E, E /= {}, NEW n \in Nat, \A e \in E : e.seq \in Nat /\ e.seq <= n
  PROVE  \E e \in E : \A d \in E : d.seq <= e.seq
<1> DEFINE U == {n - e.seq : e \in E}
           R == OpToRel(<, Nat)
<1>1. \A e \in E : n - e.seq \in Nat /\ n - e.seq \in U
  OBVIOUS
<1>2. U \subseteq Nat /\ U /= {}
  BY <1>1
<1>3. \A u \in U : \E e \in E : u = n - e.seq
  OBVIOUS
<1>4. IsWellFoundedOn(R, Nat)
  BY NatLessThanWellFounded, Zenon
<1> HIDE DEF U, R
<1>5. PICK u \in U : \A v \in U : ~(<<v, u>> \in R)
  BY <1>2, <1>4, WFMin, Zenon
<1>6. ASSUME NEW v \in U, v < u
      PROVE  FALSE
  <2>1. <<v, u>> \in R
    BY <1>2, <1>6, SMT DEF R, OpToRel
  <2>2. QED
    BY <1>5, <2>1, Zenon
<1>7. PICK e \in E : u = n - e.seq
  BY <1>3
<1>8. ASSUME NEW d \in E
      PROVE  d.seq <= e.seq
  <2>1. ~(n - d.seq < n - e.seq)
    BY <1>1, <1>6, <1>7, Zenon
  <2>2. QED
    BY <2>1
<1>9. QED
  BY <1>8

\* What a caller that was told Ok gets is acknowledged.
LEMMA ReturnsGranted ==
  ASSUME NEW c, NEW k \in Keys, status[c] = "ok" => Granted(c), Returns(c),
         acked[k].seq \in Nat, returned[k].seq \in Nat, Covers(acked[k], returned[k])
  PROVE  returned'[k].seq \in Nat /\ Covers(acked[k], returned'[k])
<1> DEFINE mine  == {x[2] : x \in {y \in placed[c] : y[1] = k}}
           newer == {e \in mine : status[c] = "ok" /\ e.seq > returned[k].seq}
<1>1. returned'[k] = IF newer = {} THEN returned[k]
                     ELSE CHOOSE e \in newer : \A d \in newer : d.seq <= e.seq
  BY DEF Returns
<1>2. \A e \in newer : e.seq \in Nat /\ Covers(acked[k], e)
  BY Zenon DEF Granted
<1> HIDE DEF newer
<1>3. CASE newer = {}
  BY <1>1, <1>3, Zenon
<1>4. CASE newer /= {}
  <2>1. \A e \in newer : e.seq \in Nat /\ e.seq <= acked[k].seq
    BY <1>2 DEF Covers
  <2>2. \E e \in newer : \A d \in newer : d.seq <= e.seq
    BY <1>4, <2>1, NewestIn, Zenon
  <2>3. returned'[k] \in newer
    BY <1>1, <1>4, <2>2, Zenon
  <2>4. QED
    BY <1>2, <2>3, Zenon
<1>5. QED
  BY <1>3, <1>4, Zenon

LEMMA AroundKeeps ==
  ASSUME Around
  PROVE  UNCHANGED <<status, scratch>>
BY Zenon DEF Around, EnqueueInline, EnqueueQueued, InlineNotify, Yield, SpuriousWakeup, Stop,
   StopNotify, Join, WriterSleep, WriterExit, WriterDrain, WriterOpenWindow, WindowAgain,
   WindowFull, WindowTimeout, WriterResume, WriterLoop, Drain, clientVars, writerVars

LEMMA QuietCalls ==
  ASSUME EInv, ScratchOwned, CallInv, WritePath, Quiet
  PROVE  CallInv'
<1>1. UNCHANGED <<status, scratch, placed, outcome, faults, phase, mem, rec, acked>>
  BY AroundKeeps DEF Quiet, walVars
<1>2. \A c \in Clients : ~Flying(c)' => ~Flying(c)
  BY <1>1, KeepsWriting, Zenon DEF Quiet, EInv, Flying
<1>3. Carried' /\ \A c \in Clients : Own(c)'
  BY <1>1 DEF CallInv, Carried, Busy, Own, Wal!IssuedBy
<1>4. ASSUME Wal!LogKept
      PROVE  OkInv'
  <2>1. OkInv
    BY <1>4, Zenon DEF CallInv
  <2>2. ASSUME NEW c \in Clients, ~Flying(c), Returns(c), NEW k \in Keys
        PROVE  returned'[k].seq \in Nat /\ Covers(acked[k], returned'[k])
    BY <2>1, <2>2, ReturnsGranted, Zenon DEF OkInv, WritePath
  <2>3. \A k \in Keys : returned'[k].seq \in Nat /\ Covers(acked[k], returned'[k])
    <3>1. CASE UNCHANGED returned
      BY <2>1, <3>1, Zenon DEF OkInv
    <3>2. ASSUME NEW c \in Clients, cpc[c] = "notify", Returns(c), NEW k \in Keys
          PROVE  returned'[k].seq \in Nat /\ Covers(acked[k], returned'[k])
      BY <2>2, <3>2, NotFlying, Zenon
    <3>3. CASE conts /= <<>> /\ Returns(Head(conts))
      <4>1. Head(conts) \in Clients /\ Head(conts) \in Range(conts)
        BY <3>3, HeadInRange, HeadTailProperties, Zenon DEF EInv, IInv, IndInv, TypeOK
      <4>2. QED
        BY <2>2, <3>3, <4>1, NotFlying, Zenon
    <3>4. QED
      BY <3>1, <3>2, <3>3, Zenon DEF Quiet
  <2>4. \A c \in Clients : Granted(c)' <=> Granted(c)
    BY <1>1 DEF Granted, Covers
  <2>5. \A c \in Range(scratch) : Granted(c)' <=> Granted(c)
    BY <1>1, Zenon DEF Granted, Covers
  <2>6. QED
    BY <1>1, <1>2, <2>1, <2>3, <2>4, <2>5, ZenonT(30) DEF OkInv
<1>5. ASSUME Distinct
      PROVE  ErrorInv'
  <2>1. ErrorInv
    BY <1>5, Zenon DEF CallInv
  <2>2. \A c : Hidden(c)' <=> Hidden(c)
    BY <1>1, Zenon DEF Hidden
  <2>3. QED
    BY <1>1, <1>2, <2>1, <2>2, Zenon DEF ErrorInv
<1>6. Wal!LogKept' <=> Wal!LogKept
  BY <1>1, Zenon DEF Wal!LogKept
<1>7. QED
  BY <1>3, <1>4, <1>5, <1>6, Zenon DEF CallInv, Distinct

\* Every writer of a group finds its entries in the record of the group.
LEMMA PlacedIssued ==
  ASSUME NEW s \in Seq(Clients), NEW i \in 1..Len(s), nextSequence \in Nat,
         NEW x \in PlacedBy(s, i)
  PROVE  /\ x \in Wal!IssuedBy([base |-> nextSequence, entries |-> EntriesOf(s)])
         /\ \E j \in DOMAIN Batch[s[i]] :
              x[1] = Batch[s[i]][j].key /\ x[2].val = Batch[s[i]][j].val
<1> DEFINE g == EntriesOf(s)
           p(j) == FirstOf(s, i) + j
<1>1. PICK j \in DOMAIN Batch[s[i]] :
        x = <<Batch[s[i]][j].key,
              [seq |-> nextSequence + FirstOf(s, i) + j - 1, val |-> Batch[s[i]][j].val]>>
  BY Zenon DEF PlacedBy
<1>2. p(j) \in DOMAIN g /\ g[p(j)] = Batch[s[i]][j]
  BY EntriesPlace, Zenon
<1>3. nextSequence + FirstOf(s, i) + j - 1 = nextSequence + p(j) - 1
  <2>1. s[i] \in Clients
    OBVIOUS
  <2>2. j \in Nat /\ FirstOf(s, i) \in Nat
    BY <2>1, BatchType, PlaceOf, ZenonT(30)
  <2>3. QED
    BY <2>2
<1> HIDE DEF p, g
<1>4. x = <<g[p(j)].key, [seq |-> nextSequence + p(j) - 1, val |-> g[p(j)].val]>>
  BY <1>1, <1>2, <1>3, Zenon
<1>5. x \in Wal!IssuedBy([base |-> nextSequence, entries |-> g])
  BY <1>2, <1>4, Zenon DEF Wal!IssuedBy
<1>6. x[1] = Batch[s[i]][j].key /\ x[2].val = Batch[s[i]][j].val
  BY <1>1
<1>7. QED
  BY <1>5, <1>6, Zenon DEF g

LEMMA EntersCalls ==
  ASSUME EInv, CallInv, Wal!IsOpen, nextSequence \in Nat, Enters
  PROVE  CallInv'
<1> DEFINE s == scratch'
           mine(c) == UNION {PlacedBy(s, i) : i \in {j \in DOMAIN s : s[j] = c}}
<1>1. s \in Seq(Clients)
  <2>1. s \in Lineups
    BY EnteringLineup, Zenon DEF Enters
  <2>2. QED
    BY <2>1 DEF Lineups
<1>2. ~SomebodyWrites
  BY NobodyElse DEF EInv, Enters, InlineBegin, WriterBegin
<1>3. SomebodyWrites'
  BY Zenon DEF EInv, IInv, IndInv, TypeOK, Enters, InlineBegin, WriterBegin, SomebodyWrites
<1>4. /\ rec' = [base |-> nextSequence, entries |-> EntriesOf(s)]
      /\ UNCHANGED <<faults, mem, acked, outcome, returned>>
      /\ \A c \in Clients :
           placed'[c] = mine(c) \cup (IF c \in Range(s) THEN {} ELSE placed[c])
  <2>1. placed' = [c \in Clients |-> mine(c) \cup (IF c \in Range(s) THEN {} ELSE placed[c])]
    BY Zenon DEF Enters, WriteGroupBegins
  <2> HIDE DEF mine
  <2>2. QED
    BY <2>1 DEF Enters, WriteGroupBegins, Wal!EncodeGroup, Wal!members
<1>5. status' = status
  BY DEF Enters, InlineBegin, WriterBegin, clientVars
<1>6. outcome = "none" /\ phase = "idle"
  BY <1>2 DEF EInv, WalSide, Wal!IsOpen
<1>7. ASSUME NEW c \in Clients, c \in Range(s)
      PROVE  Own(c)' /\ placed'[c] \subseteq Wal!IssuedBy(rec')
  <2> HIDE DEF s
  <2>1. ASSUME NEW x \in placed'[c]
        PROVE  \E i \in 1..Len(s) : s[i] = c /\ x \in PlacedBy(s, i)
    <3>1. x \in UNION {PlacedBy(s, i) : i \in {j \in DOMAIN s : s[j] = c}}
      BY <1>4, <1>7, <2>1, Zenon
    <3>2. \E i \in DOMAIN s : s[i] = c /\ x \in PlacedBy(s, i)
      BY <3>1, Zenon
    <3>3. DOMAIN s = 1..Len(s)
      BY <1>1
    <3>4. QED
      BY <3>2, <3>3, Zenon
  <2> HIDE DEF mine
  <2>2. ASSUME NEW x \in placed'[c]
        PROVE  /\ x \in Wal!IssuedBy([base |-> nextSequence, entries |-> EntriesOf(s)])
               /\ \E j \in DOMAIN Batch[c] :
                    x[1] = Batch[c][j].key /\ x[2].val = Batch[c][j].val
    <3>1. PICK i \in 1..Len(s) : s[i] = c /\ x \in PlacedBy(s, i)
      BY <2>1, <2>2, Zenon
    <3>2. QED
      BY <1>1, <3>1, PlacedIssued, Zenon
  <2>3. QED
    BY <1>4, <2>2, Zenon DEF Own
<1>8. ASSUME NEW c \in Clients, c \notin Range(s)
      PROVE  placed'[c] = placed[c]
  <2>1. \A j \in DOMAIN s : s[j] /= c
    BY <1>8 DEF Range
  <2>2. mine(c) = {}
    BY <2>1
  <2>3. QED
    BY <1>4, <1>8, <2>2, Zenon
<1>9. Range(s) \subseteq Clients
  BY <1>1 DEF Range
<1> HIDE DEF s, mine
<1>10. Carried'
  BY <1>4, <1>7, <1>9, Zenon DEF Carried, s
<1>11. ASSUME NEW c \in Clients
       PROVE  Own(c)'
  <2>1. CASE c \in Range(s)
    BY <1>7, <2>1, Zenon
  <2>2. CASE c \notin Range(s)
    <3>1. placed'[c] = placed[c] /\ Own(c)
      BY <1>8, <2>2, Zenon DEF CallInv
    <3>2. QED
      BY <3>1, Zenon DEF Own
  <2>3. QED
    BY <2>1, <2>2, Zenon
<1>12. \A c \in Clients : ~Flying(c)' => ~Flying(c) /\ placed'[c] = placed[c]
  BY <1>2, <1>3, <1>8 DEF Flying, s
<1>13. OkInv => OkInv'
  BY <1>4, <1>5, <1>6, <1>12 DEF OkInv, Granted, Covers
<1>14. ErrorInv => ErrorInv'
  BY <1>4, <1>5, <1>6, <1>12, ZenonT(30) DEF ErrorInv, Hidden
<1>15. Wal!LogKept' <=> Wal!LogKept
  BY <1>4 DEF Wal!LogKept
<1>16. QED
  BY <1>10, <1>11, <1>13, <1>14, <1>15, Zenon DEF CallInv, Distinct

\* The writers of the group, and nobody else, get its outcome.
LEMMA LeavesCalls ==
  ASSUME EInv, ScratchOwned, CallInv, Leaves
  PROVE  CallInv'
<1>1. /\ UNCHANGED <<faults, phase, mem, rec, acked, placed, returned, scratch>>
      /\ outcome' = "none"
  BY DEF Leaves, WriteGroupEnds, walVars, InlineFinish, WriterFinish
<1>2. phase = "idle" /\ SomebodyWrites
  BY Zenon DEF Leaves, WriteGroupEnds, EInv, WalSide
<1>3. \A c \in Clients : status'[c] = IF c \in Range(scratch) THEN outcome ELSE status[c]
  <2>1. ASSUME NEW d \in Clients, InlineFinish(d, outcome)
        PROVE  \A c \in Clients : status'[c] = IF c \in Range(scratch) THEN outcome ELSE status[c]
    <3>1. scratch = <<d>>
      BY <2>1 DEF InlineFinish, ScratchOwned
    <3>2. Range(scratch) = {d}
      BY <3>1 DEF Range
    <3>3. QED
      BY <2>1, <3>2, Zenon DEF InlineFinish, EInv, IInv, IndInv, TypeOK
  <2>2. CASE WriterFinish(outcome)
    BY <2>2, Zenon DEF WriterFinish, ScratchOwned
  <2>3. QED
    BY <2>1, <2>2, Zenon DEF Leaves
<1>4. Carried' /\ \A c \in Clients : Own(c)'
  BY <1>1, <1>2, Zenon DEF CallInv, Carried, Busy, Own
<1>5. \A c \in Clients : c \notin Range(scratch) => ~Flying(c)
  BY Zenon DEF Flying
<1>6. OkInv => OkInv'
  BY <1>1, <1>3, <1>5, Zenon DEF OkInv, Granted, Covers
<1>7. ErrorInv => ErrorInv'
  BY <1>1, <1>2, <1>3, <1>5, ZenonT(30) DEF ErrorInv, Hidden
<1>8. Wal!LogKept' <=> Wal!LogKept
  BY <1>1 DEF Wal!LogKept
<1>9. QED
  BY <1>4, <1>6, <1>7, <1>8, Zenon DEF CallInv, Distinct

\* A group that fails leaves the memtable behind its record.
LEMMA DurableCalls ==
  ASSUME EInv, CallInv, WritePath, DurableStep
  PROVE  CallInv'
<1>1. /\ UNCHANGED <<faults, mem, acked, placed, returned, scratch, status>>
      /\ Busy /\ phase /= "down"
      /\ \/ phase' = "idle" /\ outcome' = "error"
         \/ phase' \in {"written", "synced"} /\ outcome' = outcome /\ rec' = rec
  BY DEF DurableStep, Wal!Writev, Wal!FDataSync, Wal!GroupEnds, Wal!members, Wal!history, vars,
     clientVars, Busy
<1>2. SomebodyWrites' <=> SomebodyWrites
  BY UnchangedInv DEF DurableStep
<1>3. outcome = "none"
  BY <1>1, Zenon DEF EInv, WalSide, Busy
<1>4. Carried' /\ \A c \in Clients : Own(c)'
  <2>1. Carried'
    BY <1>1, Zenon DEF CallInv, Carried, Busy, Wal!IssuedBy
  <2>2. QED
    BY <1>1, <2>1, Zenon DEF CallInv, Own
<1>5. \A c \in Clients : Flying(c)' <=> Flying(c)
  BY <1>1, <1>2, Zenon DEF Flying
<1>6. OkInv => OkInv'
  BY <1>1, <1>3, <1>5, Zenon DEF OkInv, Granted, Covers
<1>7. \A c \in Range(scratch) : Hidden(c)'
  <2>1. ASSUME NEW c \in Range(scratch), NEW x \in placed[c]
        PROVE  mem[x[1]] /= x[2]
    <3>1. x \in Wal!IssuedBy(rec)
      BY <1>1, <2>1, Zenon DEF CallInv, Carried
    <3>2. x[2].seq \in Nat /\ mem[x[1]].seq < x[2].seq
      BY <1>1, <3>1, Zenon DEF WritePath
    <3>3. QED
      BY <3>2
  <2>2. QED
    BY <1>1, <2>1, Zenon DEF Hidden
<1>8. ErrorInv => ErrorInv'
  BY <1>1, <1>5, <1>7, Zenon DEF ErrorInv, Hidden
<1>9. Wal!LogKept' <=> Wal!LogKept
  BY <1>1 DEF Wal!LogKept
<1>10. QED
  BY <1>4, <1>6, <1>8, <1>9, Zenon DEF CallInv, Distinct

\* What an applied group puts into the memtable is of its writers' batches.
LEMMA AppliedIsTheirs ==
  ASSUME EInv, CallInv, Busy, NEW x \in Wal!IssuedBy(rec)
  PROVE  \E d \in Clients : d \in Range(scratch) /\ \E j \in DOMAIN Batch[d] :
           x[1] = Batch[d][j].key /\ x[2].val = Batch[d][j].val
<1>1. scratch \in Seq(Clients) /\ rec.entries = EntriesOf(scratch)
  BY Zenon DEF EInv, IInv, IndInv, TypeOK, CallInv, Carried
<1>2. PICK p \in DOMAIN EntriesOf(scratch) :
        x = <<EntriesOf(scratch)[p].key,
              [seq |-> rec.base + p - 1, val |-> EntriesOf(scratch)[p].val]>>
  BY <1>1, Zenon DEF Wal!IssuedBy
<1>3. PICK y \in Slots(scratch, Len(scratch)) :
        EntriesOf(scratch)[p] = Batch[scratch[y[1]]][y[2]]
  BY <1>1, EntriesType
<1>4. y[1] \in 1..Len(scratch) /\ y[2] \in DOMAIN Batch[scratch[y[1]]]
  BY <1>1, SlotParts, Zenon
<1>5. scratch[y[1]] \in Clients /\ scratch[y[1]] \in Range(scratch)
  BY <1>1, <1>4 DEF Range
<1>6. x[1] = EntriesOf(scratch)[p].key /\ x[2].val = EntriesOf(scratch)[p].val
  BY <1>2
<1>7. QED
  BY <1>3, <1>4, <1>5, <1>6, ZenonT(30)

\* An applied group covers its writers' batches, and shows nobody else's.
LEMMA ApplyCalls ==
  ASSUME EInv, CallInv, WritePath, ApplyStep, Wal!LogKept => Advances
  PROVE  CallInv'
<1>1. /\ UNCHANGED <<faults, placed, returned, scratch, status>>
      /\ Busy /\ phase /= "down" /\ phase' = "idle" /\ outcome' = "ok"
      /\ mem' = Wal!ApplyRecord(mem, rec) /\ acked' = Wal!ApplyRecord(acked, rec)
  BY DEF ApplyStep, Wal!Apply, Wal!MayApply, Wal!GroupEnds, vars, clientVars, Busy
<1>2. SomebodyWrites /\ (SomebodyWrites' <=> SomebodyWrites)
  BY <1>1, UnchangedInv, Zenon DEF ApplyStep, EInv, WalSide, Busy
<1>3. Carried' /\ \A c \in Clients : Own(c)'
  BY <1>1 DEF CallInv, Carried, Busy, Own
<1>4. \A c \in Clients : /\ Flying(c)' <=> Flying(c)
                         /\ Flying(c) <=> c \in Range(scratch)
  BY <1>1, <1>2, Zenon DEF Flying
<1>5. ASSUME Wal!LogKept
      PROVE  OkInv'
  <2>1. OkInv /\ Advances
    BY <1>5, Zenon DEF CallInv
  <2>2. \A k \in Keys : returned'[k].seq \in Nat /\ Covers(acked'[k], returned'[k])
    BY <1>1, <2>1, CoversTransitive, Zenon DEF OkInv, Advances, WritePath
  <2>3. ASSUME NEW c, Granted(c)
        PROVE  Granted(c)'
    <3>1. \A k \in Keys : /\ acked[k].seq \in Nat /\ acked'[k].seq \in Nat
                          /\ Covers(acked'[k], acked[k])
      BY <2>1, Zenon DEF Advances, WritePath
    <3>2. placed' = placed
      BY <1>1, Zenon
    <3>3. \A x \in placed[c] : /\ x[1] \in Keys /\ x[2].seq \in Nat
                               /\ Covers(acked'[x[1]], x[2])
      BY <2>3, <3>1, CoversTransitive, Zenon DEF Granted
    <3>4. QED
      BY <3>2, <3>3, Zenon DEF Granted
  <2>4. ASSUME NEW c \in Range(scratch), NEW x \in placed[c]
        PROVE  x[1] \in Keys /\ x[2].seq \in Nat /\ Covers(acked'[x[1]], x[2])
    <3>1. x \in Wal!IssuedBy(rec)
      BY <1>1, <2>4, ZenonT(30) DEF CallInv, Carried
    <3>2. QED
      BY <1>1, <3>1, Zenon DEF WritePath
  <2>5. \A c \in Range(scratch) : Granted(c)'
    BY <1>1, <2>4, Zenon DEF Granted
  <2>6. QED
    BY <1>1, <1>4, <2>1, <2>2, <2>3, <2>5, Zenon DEF OkInv
<1>6. ASSUME Distinct
      PROVE  ErrorInv'
  <2>1. ErrorInv
    BY <1>6, Zenon DEF CallInv
  <2>2. ASSUME NEW c \in Clients, c \notin Range(scratch), Hidden(c), NEW x \in placed[c]
        PROVE  mem'[x[1]] /= x[2]
    <3>1. PICK i \in DOMAIN Batch[c] : x[1] = Batch[c][i].key /\ x[2].val = Batch[c][i].val
      BY <2>2, Zenon DEF CallInv, Own
    <3>2. Batch[c][i] \in Wal!Entry
      BY <3>1, BatchType, Zenon
    <3>3. x[1] \in Keys
      BY <3>1, <3>2, Zenon DEF Wal!Entry
    <3>4. CASE mem'[x[1]] = mem[x[1]]
      BY <2>2, <3>4, Zenon DEF Hidden
    <3>5. CASE <<x[1], mem'[x[1]]>> \in Wal!IssuedBy(rec)
      <4>1. PICK d \in Clients : d \in Range(scratch) /\ \E j \in DOMAIN Batch[d] :
              x[1] = Batch[d][j].key /\ mem'[x[1]].val = Batch[d][j].val
        BY <1>1, <3>5, AppliedIsTheirs, Zenon
      <4>2. PICK j \in DOMAIN Batch[d] :
              x[1] = Batch[d][j].key /\ mem'[x[1]].val = Batch[d][j].val
        BY <4>1, Zenon
      <4>3. Batch[d][j] \in Wal!Entry /\ Batch[c][i] /= Batch[d][j]
        BY <1>6, <2>2, <4>1, <4>2, BatchType, Zenon DEF Distinct
      <4>4. ASSUME mem'[x[1]] = x[2]
            PROVE  FALSE
        <5>1. Batch[c][i].key = Batch[d][j].key /\ Batch[c][i].val = Batch[d][j].val
          BY <3>1, <4>2, <4>4, Zenon
        <5>2. QED
          BY <3>2, <4>3, <5>1 DEF Wal!Entry
      <4>5. QED
        BY <4>4, Zenon
    <3>6. QED
      BY <1>1, <3>3, <3>4, <3>5, Zenon DEF WritePath
  <2>3. \A c \in Clients : c \notin Range(scratch) /\ Hidden(c) => Hidden(c)'
    BY <1>1, <2>2, Zenon DEF Hidden
  <2>4. QED
    BY <1>1, <1>4, <2>1, <2>3, Zenon DEF ErrorInv
<1>7. Wal!LogKept' <=> Wal!LogKept
  BY <1>1, Zenon DEF Wal!LogKept
<1>8. QED
  BY <1>3, <1>5, <1>6, <1>7, Zenon DEF CallInv, Distinct

\* A new process has nobody to inform; what was returned is still acknowledged.
LEMMA NewCalls ==
  ASSUME CallInv, NewProcess, phase' \in {"down", "truncated", "idle"}, acked' = acked
  PROVE  CallInv'
<1>1. /\ UNCHANGED <<faults, returned>> /\ outcome' = "none"
      /\ \A c \in Clients : placed'[c] = {}
  BY Zenon DEF NewProcess
<1>2. Carried'
  BY DEF Carried, Busy
<1>3. \A c \in Clients : Own(c)' /\ Granted(c)' /\ Hidden(c)'
  BY <1>1, Zenon DEF Own, Granted, Hidden, Covers
<1>4. OkInv => OkInv'
  BY <1>1, <1>3, Zenon DEF OkInv
<1>5. ErrorInv'
  BY <1>1, <1>3, Zenon DEF ErrorInv
<1>6. Wal!LogKept' <=> Wal!LogKept
  BY <1>1 DEF Wal!LogKept
<1>7. QED
  BY <1>2, <1>3, <1>4, <1>5, <1>6, Zenon DEF CallInv, Distinct

\* Steps that change nothing but the phase, and the memtable when it goes.
LEMMA StillCalls ==
  ASSUME CallInv, UNCHANGED <<status, scratch, placed, returned, outcome, faults, acked>>,
         SomebodyWrites => SomebodyWrites',
         \/ UNCHANGED <<phase, mem, rec>>
         \/ phase' = "idle" /\ phase /= "down" /\ mem' = mem
         \/ phase' = "down" /\ outcome = "none"
  PROVE  CallInv'
<1>1. Carried'
  <2>1. CASE UNCHANGED <<phase, mem, rec>>
    BY <2>1, Zenon DEF CallInv, Carried, Busy, Wal!IssuedBy
  <2>2. CASE phase' \in {"idle", "down"}
    BY <2>2 DEF Carried, Busy
  <2>3. QED
    BY <2>1, <2>2
<1>2. \A c \in Clients : ~Flying(c)' => ~Flying(c)
  BY Zenon DEF Flying
<1>3. \A c \in Clients : Own(c)'
  BY Zenon DEF CallInv, Own
<1>4. OkInv => OkInv'
  BY <1>2, Zenon DEF OkInv, Granted, Covers
<1>5. ErrorInv => ErrorInv'
  BY <1>2, Zenon DEF ErrorInv, Hidden
<1>6. Wal!LogKept' <=> Wal!LogKept
  BY DEF Wal!LogKept
<1>7. QED
  BY <1>1, <1>3, <1>4, <1>5, <1>6, Zenon DEF CallInv, Distinct

LEMMA CallInvInit == EngineInit => CallInv
<1> SUFFICES ASSUME EngineInit
             PROVE  CallInv
  OBVIOUS
<1>1. /\ phase = "down" /\ outcome = "none" /\ \A c \in Clients : placed[c] = {}
      /\ \A k \in Keys : acked[k] = Wal!Untouched /\ returned[k] = Wal!Untouched
  BY DEF EngineInit, Wal!Init
<1>2. \A c \in Clients : Own(c) /\ Granted(c) /\ Hidden(c)
  BY <1>1, ZenonT(30) DEF Own, Granted, Hidden, Covers
<1>3. \A k \in Keys : returned[k].seq \in Nat /\ Covers(acked[k], returned[k])
  BY <1>1 DEF Wal!Untouched, Covers
<1>4. QED
  BY <1>1, <1>2, <1>3, Zenon DEF CallInv, Carried, Busy, OkInv, ErrorInv

LEMMA CallInvStep ==
  ASSUME EInv, ScratchOwned, CallInv, WritePath, nextSequence \in Nat,
         Wal!LogKept => Advances, [EngineNext]_allVars
  PROVE  CallInv'
<1>1. CASE Wal!IsOpen /\ (Quiet \/ Enters \/ Leaves)
  BY <1>1, QuietCalls, EntersCalls, LeavesCalls, Zenon
<1>2. CASE GroupStep
  BY <1>2, DurableCalls, ApplyCalls, Zenon DEF GroupStep
<1>3. CASE Wal!IsOpen /\ Join /\ Wal!CloseFile /\ UNCHANGED <<faults, callVars>>
  <2>1. /\ UNCHANGED <<status, scratch, placed, returned, outcome, faults, acked>>
        /\ phase' = "down"
    BY <1>3, AroundKeeps, Zenon DEF Around, Wal!CloseFile, Wal!Down, Wal!history, callVars
  <2>2. ~SomebodyWrites
    BY <1>3, GroupCommitAssumption, Zenon
       DEF Join, EInv, IInv, IndInv, TypeOK, WriterLocals, Stopping, SomebodyWrites
  <2>3. outcome = "none"
    BY <2>2 DEF EInv, WalSide
  <2>4. QED
    BY <2>1, <2>2, <2>3, StillCalls, Zenon
<1>4. CASE Wal!Open /\ NewProcess
  <2>1. phase' \in {"down", "truncated", "idle"} /\ acked' = acked
    BY <1>4 DEF Wal!Open, Wal!OpenFails, Wal!Recovered, Wal!Down
  <2>2. QED
    BY <1>4, <2>1, NewCalls, Zenon
<1>5. CASE Wal!RecoverSync /\ UNCHANGED <<faults, vars, callVars>>
  <2>1. /\ UNCHANGED <<status, scratch, placed, returned, outcome, faults, acked>>
        /\ SomebodyWrites' <=> SomebodyWrites
    BY <1>5, UnchangedInv, Zenon DEF vars, clientVars, callVars, Wal!RecoverSync
  <2>2. \/ phase' = "idle" /\ phase /= "down" /\ mem' = mem
        \/ phase' = "down" /\ phase = "truncated"
    BY <1>5 DEF Wal!RecoverSync, Wal!Down, Wal!members
  <2>3. phase = "truncated" => outcome = "none"
    BY DEF EInv, WalSide
  <2>4. QED
    BY <2>1, <2>2, <2>3, StillCalls, Zenon
<1>6. CASE Crash
  <2>1. NewProcess /\ phase' = "down" /\ acked' = acked
    BY <1>6 DEF Crash, Wal!ProcessCrash, Wal!PowerLoss, Wal!Down, Wal!history
  <2>2. QED
    BY <2>1, NewCalls, Zenon
<1>7. CASE UNCHANGED allVars
  <2>1. /\ UNCHANGED <<status, scratch, placed, returned, outcome, faults, acked>>
        /\ UNCHANGED <<phase, mem, rec>>
        /\ SomebodyWrites' <=> SomebodyWrites
    BY <1>7, UnchangedInv, Zenon DEF allVars, vars, clientVars, walVars, callVars
  <2>2. QED
    BY <2>1, StillCalls, Zenon
<1>8. QED
  BY <1>1, <1>2, <1>3, <1>4, <1>5, <1>6, <1>7, Kinds, Zenon DEF Open
-----------------------------------------------------------------------------
(***************************************************************************)
(* What WalDurabilityProofs shows of the write path holds of the engine.   *)
(***************************************************************************)
Dur == INSTANCE WalDurabilityProofs WITH
  issued <- handed,
  Groups <- {EntriesOf(s) : s \in Lineups}

LEMMA SameInit == Wal!Init => Dur!Init
BY Zenon DEF Wal!Init, Dur!Init, Wal!Untouched, Dur!Untouched, Wal!NoRecord, Dur!NoRecord,
   Wal!FirstSequence, Dur!FirstSequence

LEMMA SameNext == Wal!Next => Dur!Next
BY ZenonT(30) DEF Wal!Open, Dur!Open, Wal!OpenFails, Dur!OpenFails, Wal!Down, Dur!Down,
   Wal!Recovered, Dur!Recovered, Wal!MustTruncate, Dur!MustTruncate,
   Wal!ReadLengths, Dur!ReadLengths, Wal!Replay, Dur!Replay,
   Wal!EntryCells, Dur!EntryCells, Wal!EntryAt, Dur!EntryAt,
   Wal!RecoveredSequence, Dur!RecoveredSequence, Wal!FirstSequence, Dur!FirstSequence,
   Wal!IsValidBytes, Dur!IsValidBytes, Wal!ValidPrefix, Dur!ValidPrefix, Wal!StartOf,
   Dur!StartOf, Wal!Size, Dur!Size, Wal!RecordAt, Dur!RecordAt, Wal!Announced, Dur!Announced,
   Wal!StopReasons, Dur!StopReasons, Wal!Intruded, Dur!Intruded, Wal!Zero, Dur!Zero,
   Wal!Untouched, Dur!Untouched, Wal!NoRecord, Dur!NoRecord, Wal!Settle, Dur!Settle,
   Wal!RecoverSync, Dur!RecoverSync, Wal!Sync, Dur!Sync, Wal!SyncFailed, Dur!SyncFailed,
   Wal!WrittenBack, Dur!WrittenBack, Wal!Lengths, Dur!Lengths, Wal!WriteGroup, Dur!WriteGroup,
   Wal!EncodeGroup, Dur!EncodeGroup, Wal!IssuedBy, Dur!IssuedBy, Wal!Writev, Dur!Writev,
   Wal!WriteCells, Dur!WriteCells, Wal!Overwrite, Dur!Overwrite, Wal!Larger, Dur!Larger,
   Wal!EncodeBatch, Dur!EncodeBatch, Wal!WrittenInFull, Dur!WrittenInFull, Wal!GroupEnds,
   Dur!GroupEnds, Wal!Transfers, Dur!Transfers, Wal!FDataSync, Dur!FDataSync, Wal!Apply,
   Dur!Apply, Wal!MayApply, Dur!MayApply, Wal!ApplyRecord, Dur!ApplyRecord, Wal!NextOffset,
   Dur!NextOffset, Wal!Close, Dur!Close, Wal!CloseFile, Dur!CloseFile, Wal!ProcessCrash,
   Dur!ProcessCrash, Wal!PowerLoss, Dur!PowerLoss, Wal!Finished, Dur!Finished, Wal!vars,
   Dur!vars, Wal!file, Dur!file, Wal!members, Dur!members, Wal!history, Dur!history, Wal!Next,
   Dur!Next

LEMMA SameStep ==
  ASSUME [Wal!Next]_(Wal!vars)
  PROVE  [Dur!Next]_(Dur!vars)
<1>1. Wal!vars = Dur!vars /\ Wal!vars' = Dur!vars'
  BY Zenon DEF Wal!vars, Dur!vars, Wal!file, Dur!file, Wal!members, Dur!members, Wal!history,
     Dur!history
<1>2. QED
  BY <1>1, SameNext, Zenon

\* What WalDurabilityProofs takes for granted of its constants.
LEMMA DurConstants ==
  /\ {EntriesOf(s) : s \in Lineups} \subseteq Seq(Dur!Entry) \ {<<>>}
  /\ Deleted \notin Values /\ Limit32 \in Nat \ {0}
  /\ FaultSets \subseteq SUBSET Dur!AllFaults
  /\ MaxTransfer \in 1..Limit32
  /\ MaxGroups \in Nat
  /\ MaxOpens \in Nat
<1>1. ASSUME NEW s \in Lineups
      PROVE  EntriesOf(s) \in Seq(Dur!Entry) \ {<<>>}
  <2>1. s \in Seq(Clients) /\ s /= <<>>
    BY LineupFilled, Zenon
  <2>2. Wal!Entry = Dur!Entry
    BY Zenon DEF Wal!Entry, Dur!Entry
  <2>3. QED
    BY <2>1, <2>2, EntriesType, EntriesNonEmpty, Zenon
<1>2. Wal!AllFaults = Dur!AllFaults
  BY Zenon DEF Wal!AllFaults, Dur!AllFaults
<1>3. QED
  BY <1>1, <1>2, EngineAssumption, Zenon

\* The anchored log, and nextSequence_ ahead of the memtable, are kept.
LEMMA WritePathInit ==
  ASSUME EngineInit
  PROVE  Dur!DurInv /\ Dur!Ahead
<1>1. Dur!Init
  BY SameInit, Zenon DEF EngineInit
<1>2. Dur!DurInv
  BY <1>1, DurConstants, Dur!DurInit, Zenon DEF Dur!DurInit
<1>3. Dur!Ahead
  BY <1>1, DurConstants, Dur!AheadInit, Zenon DEF Dur!AheadInit
<1>4. QED
  BY <1>2, <1>3, Zenon

LEMMA WritePathStep ==
  ASSUME Dur!DurInv, Dur!Ahead, [Wal!Next]_(Wal!vars)
  PROVE  Dur!DurInv' /\ Dur!Ahead'
<1>1. [Dur!Next]_(Dur!vars)
  BY SameStep, Zenon
<1>2. Dur!DurInv'
  BY <1>1, DurConstants, Dur!DurStep, Zenon DEF Dur!DurStep
<1>3. Dur!LogInv
  BY Zenon DEF Dur!DurInv
<1>4. Dur!Ahead'
  BY <1>1, <1>3, DurConstants, Dur!AheadStep, Zenon DEF Dur!AheadStep
<1>5. QED
  BY <1>2, <1>4, Zenon

\* Its vocabulary is that of the engine.
LEMMA WritePathFacts ==
  ASSUME Dur!DurInv, Dur!Ahead
  PROVE  WritePath /\ nextSequence \in Nat
<1>1. /\ nextSequence \in Nat /\ rec \in Dur!Record
      /\ mem \in [Keys -> Dur!MemEntry] /\ acked \in [Keys -> Dur!MemEntry]
  BY Zenon DEF Dur!DurInv, Dur!LogInv, Dur!MemberTypes
<1>2. \A k \in Keys : acked[k].seq \in Nat /\ mem[k].seq \in Nat
  BY <1>1, Zenon DEF Dur!MemEntry
<1>3. /\ Wal!IssuedBy(rec) = Dur!IssuedBy(rec)
      /\ Wal!ApplyRecord(acked, rec) = Dur!ApplyRecord(acked, rec)
      /\ Wal!ApplyRecord(mem, rec) = Dur!ApplyRecord(mem, rec)
  BY ZenonT(30) DEF Wal!IssuedBy, Dur!IssuedBy, Wal!ApplyRecord, Dur!ApplyRecord
<1>4. ASSUME NEW x \in Dur!IssuedBy(rec)
      PROVE  /\ x[1] \in Keys /\ x[2].seq \in Nat /\ x[2].seq >= rec.base
             /\ Covers(Dur!ApplyRecord(acked, rec)[x[1]], x[2])
  BY <1>1, DurConstants, Dur!ApplyCovers, ZenonT(30) DEF Dur!ApplyCovers, Covers
<1>5. ASSUME NEW k \in Keys
      PROVE  \/ Dur!ApplyRecord(mem, rec)[k] = mem[k]
             \/ <<k, Dur!ApplyRecord(mem, rec)[k]>> \in Dur!IssuedBy(rec)
  BY <1>1, DurConstants, Dur!ApplyFrom, Zenon DEF Dur!ApplyFrom
<1>6. Busy => rec.base = nextSequence /\ \A k \in Keys : mem[k].seq < nextSequence
  BY Zenon DEF Dur!Ahead, Busy
<1>7. ASSUME NEW x \in Dur!IssuedBy(rec), Busy
      PROVE  mem[x[1]].seq < x[2].seq
  BY <1>1, <1>2, <1>4, <1>6, <1>7
<1>8. QED
  BY <1>1, <1>2, <1>3, <1>4, <1>5, <1>7, ZenonT(30) DEF WritePath

LEMMA AckedAdvances ==
  ASSUME Dur!DurInv, Dur!DurInv', Wal!LogKept, [Wal!Next]_(Wal!vars)
  PROVE  Advances
<1>1. Dur!LogKept
  BY Zenon DEF Wal!LogKept, Dur!LogKept
<1>2. /\ acked \in [Keys -> Dur!MemEntry] /\ acked' \in [Keys -> Dur!MemEntry]
  BY Zenon DEF Dur!DurInv, Dur!LogInv, Dur!MemberTypes
<1>3. \A k \in Keys : acked[k].seq \in Nat /\ acked'[k].seq \in Nat
  BY <1>2, Zenon DEF Dur!MemEntry
<1>4. CASE UNCHANGED Wal!vars
  <2>1. acked' = acked
    BY <1>4, Zenon DEF Wal!vars, Wal!history
  <2>2. QED
    BY <1>3, <2>1, Zenon DEF Advances, Covers
<1>5. CASE Wal!Next
  <2>1. Dur!Next
    BY <1>5, SameNext, Zenon
  <2>2. ASSUME NEW k \in Keys
        PROVE  acked'[k] = acked[k] \/ acked'[k].seq > acked[k].seq
    BY <1>1, <2>1, DurConstants, Dur!AdvanceStep, Zenon DEF Dur!AdvanceStep
  <2>3. QED
    BY <1>3, <2>2, Zenon DEF Advances, Covers
<1>6. QED
  BY <1>4, <1>5, Zenon

-----------------------------------------------------------------------------
(***************************************************************************)
(* What callers may rely on.                                               *)
(***************************************************************************)
CallerInv == EInv /\ ScratchOwned /\ CallInv /\ Dur!DurInv /\ Dur!Ahead

LEMMA CallerStep ==
  ASSUME CallerInv, [EngineNext]_allVars
  PROVE  CallerInv'
<1>1. EInv' /\ [Wal!Next]_(Wal!vars)
  BY EngineStep, Zenon DEF CallerInv
<1>2. ScratchOwned'
  BY ScratchKept, Zenon DEF CallerInv
<1>3. Dur!DurInv' /\ Dur!Ahead'
  BY <1>1, WritePathStep, Zenon DEF CallerInv
<1>4. WritePath /\ nextSequence \in Nat
  BY WritePathFacts, Zenon DEF CallerInv
<1>5. Wal!LogKept => Advances
  BY <1>1, <1>3, AckedAdvances, Zenon DEF CallerInv
<1>6. CallInv'
  BY <1>4, <1>5, CallInvStep, Zenon DEF CallerInv
<1>7. QED
  BY <1>1, <1>2, <1>3, <1>6, Zenon DEF CallerInv

LEMMA CallerInvAlways == EngineSpec => []CallerInv
<1>1. EngineInit => ScratchOwned
  BY Zenon DEF EngineInit, Init, ScratchOwned
<1>2. EngineInit => CallerInv
  BY <1>1, EInvInit, CallInvInit, WritePathInit, Zenon DEF CallerInv
<1>3. QED
  BY <1>2, CallerStep, PTL DEF EngineSpec

\* Whatever Put, Delete or Write returned Ok for stays readable, with its value,
\* until a later write replaces it, for any number of callers, groups, failures
\* and restarts, as long as the log is kept: the status that reaches a caller is
\* that of the group its own batch was in, and that group was acknowledged only
\* after its fdatasync.
THEOREM ReturnedAlwaysReadable == EngineSpec => []ReturnedReadable
<1>1. CallerInv => ReturnedReadable
  <2> SUFFICES ASSUME CallerInv, Wal!LogKept, Wal!IsOpen, NEW k \in Keys
               PROVE  Covers(mem[k], returned[k])
    BY Zenon DEF ReturnedReadable, Covers
  <2>1. Dur!AckedReadable
    BY DurConstants, Dur!DurReadable, Zenon DEF Dur!DurReadable, CallerInv
  <2>2. Covers(mem[k], acked[k])
    BY <2>1, Zenon DEF Dur!AckedReadable, Dur!Readable, Dur!LogKept, Dur!IsOpen, Wal!LogKept,
       Wal!IsOpen, Covers
  <2>3. returned[k].seq \in Nat /\ Covers(acked[k], returned[k])
    BY Zenon DEF CallerInv, CallInv, OkInv
  <2>4. mem \in [Keys -> Dur!MemEntry] /\ acked \in [Keys -> Dur!MemEntry]
    BY Zenon DEF CallerInv, Dur!DurInv, Dur!LogInv, Dur!MemberTypes
  <2>5. mem[k].seq \in Nat /\ acked[k].seq \in Nat
    BY <2>4, Zenon DEF Dur!MemEntry
  <2>6. QED
    BY <2>2, <2>3, <2>5, CoversTransitive, Zenon
<1>2. QED
  BY <1>1, CallerInvAlways, PTL

\* A write that returned an error shows at most after a restart, when no other
\* client writes the same value to its key (the next group is given the same
\* sequence numbers, so that the same value would be the same entry).
THEOREM FailedAlwaysInvisible ==
  ASSUME Distinct
  PROVE  EngineSpec => []FailedInvisible
<1>1. CallerInv => FailedInvisible
  <2> SUFFICES ASSUME CallerInv, Wal!IsOpen, NEW c \in Clients, cpc[c] = "ready",
                      status[c] = "error"
               PROVE  \A x \in placed[c] : mem[x[1]] /= x[2]
    BY Zenon DEF FailedInvisible
  <2>1. ~Flying(c)
    BY NotFlying, Zenon DEF CallerInv
  <2>2. ErrorInv /\ phase /= "down"
    BY DEF CallerInv, CallInv, Wal!IsOpen
  <2>3. QED
    BY <2>1, <2>2, Zenon DEF ErrorInv, Hidden
<1>2. QED
  BY <1>1, CallerInvAlways, PTL
=============================================================================
