------------------------- MODULE UringExecutorProofs -------------------------
(***************************************************************************)
(* Proofs about the executor, for every set of coroutines, ring size,      *)
(* index width and fault set, about three things: what init acquires and   *)
(* closeRing releases (HeldInv); the submission ring, whose indices wrap,  *)
(* as a queue (RingInv); and, as long as io_uring_enter does not fail, the *)
(* way of an operation from the ring through the kernel to the completion  *)
(* that resumes its coroutine (WayInv).  The definitions come first, then  *)
(* the lemmas on the last, which are the most, and the other two.          *)
(***************************************************************************)
EXTENDS UringExecutor, TLAPS

\* The provers of a leaf that names none.
USE SMTT(30), Zenon

USE DEF Joinable, AfterNop, Regions, Resources

\* The variables that the argument is about.
held == <<pc, cpc, ringOpen, hasState, ptr, acquired, released>>

HeldTypes ==
  /\ pc \in [Threads -> ThreadPcs]
  /\ cpc \in CompletionPcs
  /\ ringOpen \in BOOLEAN /\ hasState \in BOOLEAN
  /\ ptr \in [Regions -> Regions \cup {None}]
  /\ acquired \subseteq Resources
  /\ released \in [Resources -> Nat]

\* Each pointer is null or points to the region it is named for, but the one to
\* the completion ring may point into the submission ring.  They are set in
\* the order of init.
Pointers ==
  /\ ptr["sq"] \in {None, "sq"}
  /\ ptr["cq"] \in {None, "cq", "sq"}
  /\ ptr["sqes"] \in {None, "sqes"}
  /\ ptr["cq"] /= None => ptr["sq"] /= None
  /\ ptr["sqes"] /= None => ptr["cq"] /= None
  /\ \A r \in Regions : r \in acquired <=> ptr[r] = r

\* Every resource was released as often as it was acquired.
AllReleased == \A r \in Resources : released[r] = IF r \in acquired THEN 1 ELSE 0

\* The life of the executor: in init, after an init that failed, in use (until
\* the completion thread is joined), and gone.
Creating ==
  pc[Closer] = "creating" =>
    /\ hasState /\ cpc = "none"
    /\ \A r \in Resources : released[r] = 0
    /\ ringOpen <=> "fd" \in acquired
    /\ ~ringOpen => \A r \in Regions : ptr[r] = None
Failed ==
  pc[Closer] = "failed" => ~hasState /\ ~ringOpen /\ cpc = "none" /\ AllReleased
InUse ==
  pc[Closer] \in {"new", "published", "unlocking", "suspended"} =>
    /\ "fd" \in acquired /\ cpc /= "none"
    /\ \A r \in Regions : ptr[r] /= None /\ released[r] = 0
    /\ released["fd"] = IF ringOpen THEN 0 ELSE 1
    /\ pc[Closer] /= "suspended" => ringOpen
Gone ==
  pc[Closer] = "returned" => cpc \in {"none", "exited"} /\ AllReleased

\* Calls are made between Create and the destructor only.
CallsInside ==
  \A t \in Tasks : /\ pc[t] \notin {"creating", "failed"}
                   /\ pc[Closer] /= "new" => pc[t] \in {"new", "returned"}

\* The inductive invariant.
HeldInv == HeldTypes /\ Pointers /\ Creating /\ Failed /\ InUse /\ Gone /\ CallsInside

-----------------------------------------------------------------------------
(***************************************************************************)
(* Remainders.                                                             *)
(***************************************************************************)
LEMMA ModType ==
  ASSUME NEW w \in Nat \ {0}, NEW x \in Int
  PROVE  x % w \in 0..w - 1
OBVIOUS

LEMMA ModSplit ==
  ASSUME NEW w \in Nat \ {0}, NEW x \in Int
  PROVE  \E q \in Int : x = w * q + (x % w)
<1>1. x = w * (x \div w) + (x % w) /\ (x \div w) \in Int
  OBVIOUS
<1>2. QED
  BY <1>1, Zenon

LEMMA ModUnique ==
  ASSUME NEW w \in Nat \ {0}, NEW q \in Int, NEW r \in 0..w - 1
  PROVE  (w * q + r) % w = r
OBVIOUS

\* A number and the same without a multiple of e.
LEMMA ModShift ==
  ASSUME NEW e \in Nat \ {0}, NEW w \in Nat, w % e = 0, NEW x \in Int
  PROVE  (x - w) % e = x % e
<1> DEFINE r == x % e
<1>1. w \in Int
  OBVIOUS
<1>2. PICK m \in Int : w = e * m + (w % e)
  BY <1>1, ModSplit, Zenon
<1>3. PICK q \in Int : x = e * q + (x % e)
  BY ModSplit, Zenon
<1>4. r \in 0..e - 1
  BY ModType
<1>5. x = e * q + r
  BY <1>3
<1> HIDE DEF r
<1>6. x - w = e * (q - m) + r
  BY <1>2, <1>4, <1>5
<1>7. (e * (q - m) + r) % e = r
  BY <1>4, ModUnique
<1>8. QED
  BY <1>6, <1>7, Zenon DEF r

\* Numbers less than e apart have different remainders.
LEMMA ModDiffer ==
  ASSUME NEW e \in Nat \ {0}, NEW x \in Int, NEW y \in Int, x < y, y < x + e
  PROVE  x % e /= y % e
<1> SUFFICES ASSUME x % e = y % e
             PROVE  FALSE
  OBVIOUS
<1> DEFINE r == x % e
<1>1. PICK m \in Int : y = e * m + (y % e)
  BY ModSplit, Zenon
<1>2. PICK q \in Int : x = e * q + (x % e)
  BY ModSplit, Zenon
<1>3. r \in 0..e - 1
  BY ModType
<1>4. x = e * q + r /\ y = e * m + r
  BY <1>1, <1>2
<1> HIDE DEF r
<1>5. e * (m - q) > 0 /\ e * (m - q) < e
  BY <1>3, <1>4
<1>6. CASE m - q <= 0
  BY <1>5, <1>6
<1>7. CASE m - q >= 1
  BY <1>5, <1>7
<1>8. QED
  BY <1>6, <1>7

-----------------------------------------------------------------------------
(***************************************************************************)
(* The indices of the submission ring.                                     *)
(***************************************************************************)
Index == 0..Wrap - 1

\* How far t is behind h.
Behind(h, t) == (t - h) % Wrap

LEMMA BehindIs ==
  ASSUME NEW h \in Index, NEW t \in Index
  PROVE  /\ Behind(h, t) \in Index
         /\ Behind(h, t) = IF t >= h THEN t - h ELSE t - h + Wrap
<1> USE UringAssumption DEF Index, Behind
<1>1. Wrap \in Nat \ {0}
  OBVIOUS
<1>2. CASE t >= h
  <2>1. t - h \in 0..Wrap - 1
    BY <1>2
  <2>2. ASSUME NEW x \in 0..Wrap - 1
        PROVE  x % Wrap = x
    BY <1>1
  <2>3. QED
    BY <1>2, <2>1, <2>2
<1>3. CASE t < h
  <2>1. t - h \in -Wrap..-1 /\ t - h + Wrap \in 0..Wrap - 1
    BY <1>3
  <2>2. ASSUME NEW x \in -Wrap..-1
        PROVE  x % Wrap = x + Wrap
    BY <1>1
  <2>3. QED
    BY <1>3, <2>1, <2>2
<1>4. QED
  BY <1>2, <1>3

LEMMA AdvanceIs ==
  ASSUME NEW i \in Index, NEW n \in 0..Entries
  PROVE  /\ Advance(i, n) \in Index
         /\ Advance(i, n) = IF i + n < Wrap THEN i + n ELSE i + n - Wrap
<1> USE UringAssumption DEF Index, Advance
<1>1. Wrap \in Nat \ {0}
  OBVIOUS
<1>2. CASE i + n < Wrap
  <2>1. i + n \in 0..Wrap - 1
    BY <1>2
  <2>2. ASSUME NEW x \in 0..Wrap - 1
        PROVE  x % Wrap = x
    BY <1>1
  <2>3. QED
    BY <1>2, <2>1, <2>2
<1>3. CASE i + n >= Wrap
  <2>1. i + n \in Wrap..2 * Wrap - 1 /\ i + n - Wrap \in 0..Wrap - 1
    BY <1>3
  <2>2. ASSUME NEW x \in Wrap..2 * Wrap - 1
        PROVE  x % Wrap = x - Wrap
    BY <1>1
  <2>3. QED
    BY <1>3, <2>1, <2>2
<1>4. QED
  BY <1>2, <1>3

\* Storing a tail n further on adds n pending requests, ...
LEMMA BehindGrows ==
  ASSUME NEW h \in Index, NEW t \in Index, NEW n \in 0..Entries, Behind(h, t) + n <= Entries
  PROVE  Behind(h, Advance(t, n)) = Behind(h, t) + n
<1> DEFINE a == Advance(t, n)
           b == Behind(h, t)
           c == Behind(h, a)
<1>1. a \in Index /\ a = IF t + n < Wrap THEN t + n ELSE t + n - Wrap
  BY AdvanceIs
<1>2. b = IF t >= h THEN t - h ELSE t - h + Wrap
  BY BehindIs
<1> HIDE DEF a
<1>3. c = IF a >= h THEN a - h ELSE a - h + Wrap
  BY <1>1, BehindIs
<1>4. b + n <= Entries
  OBVIOUS
<1> HIDE DEF b, c
<1>5. c = b + n
  BY <1>1, <1>2, <1>3, <1>4, UringAssumption DEF Index
<1>6. QED
  BY <1>5 DEF a, b, c

\* ... and storing a head n further on takes n away.
LEMMA BehindShrinks ==
  ASSUME NEW h \in Index, NEW t \in Index, NEW n \in 0..Entries, n <= Behind(h, t)
  PROVE  Behind(Advance(h, n), t) = Behind(h, t) - n
<1> DEFINE a == Advance(h, n)
           b == Behind(h, t)
           c == Behind(a, t)
<1>1. a \in Index /\ a = IF h + n < Wrap THEN h + n ELSE h + n - Wrap
  BY AdvanceIs
<1>2. b = IF t >= h THEN t - h ELSE t - h + Wrap
  BY BehindIs
<1> HIDE DEF a
<1>3. c = IF t >= a THEN t - a ELSE t - a + Wrap
  BY <1>1, BehindIs
<1>4. n <= b
  OBVIOUS
<1> HIDE DEF b, c
<1>5. c = b - n
  BY <1>1, <1>2, <1>3, <1>4, UringAssumption DEF Index
<1>6. QED
  BY <1>5 DEF a, b, c

\* The slot of index x; Wrap is a multiple of the ring size.
Slot(x) == x % Entries

LEMMA SlotType ==
  ASSUME NEW x \in Int
  PROVE  Slot(x) \in 0..Entries - 1
BY UringAssumption, ModType DEF Slot

LEMMA SlotAdvance ==
  ASSUME NEW i \in Index, NEW n \in 0..Entries, NEW k \in Int
  PROVE  Slot(Advance(i, n) + k) = Slot(i + n + k)
<1>1. i \in Int /\ n \in Int /\ Wrap \in Nat /\ Entries \in Nat \ {0} /\ Wrap % Entries = 0
  BY UringAssumption DEF Index
<1>2. CASE Advance(i, n) = i + n
  BY <1>1, <1>2
<1>3. CASE Advance(i, n) = i + n - Wrap
  <2>1. Advance(i, n) + k = (i + n + k) - Wrap /\ i + n + k \in Int
    BY <1>1, <1>3
  <2>2. ((i + n + k) - Wrap) % Entries = (i + n + k) % Entries
    BY <1>1, <2>1, ModShift, Zenon
  <2>3. QED
    BY <2>1, <2>2 DEF Slot
<1>4. QED
  BY <1>2, <1>3, AdvanceIs

\* The slot at the tail is that behind the pending requests.
LEMMA SlotBehind ==
  ASSUME NEW h \in Index, NEW t \in Index, NEW k \in Int
  PROVE  Slot(t + k) = Slot(h + Behind(h, t) + k)
<1>1. h \in Int /\ t \in Int /\ Wrap \in Nat /\ Entries \in Nat \ {0} /\ Wrap % Entries = 0
  BY UringAssumption DEF Index
<1>2. CASE Behind(h, t) = t - h
  <2>1. h + Behind(h, t) + k = t + k
    BY <1>1, <1>2
  <2>2. QED
    BY <2>1
<1>3. CASE Behind(h, t) = t - h + Wrap
  <2>1. t + k = (h + Behind(h, t) + k) - Wrap /\ h + Behind(h, t) + k \in Int
    BY <1>1, <1>3
  <2>2. ((h + Behind(h, t) + k) - Wrap) % Entries = (h + Behind(h, t) + k) % Entries
    BY <1>1, <2>1, ModShift
  <2>3. QED
    BY <2>1, <2>2 DEF Slot
<1>4. QED
  BY <1>2, <1>3, BehindIs

LEMMA SlotsDiffer ==
  ASSUME NEW h \in Int, NEW j \in 1..Entries, NEW k \in 1..Entries, j /= k
  PROVE  Slot(h + j - 1) /= Slot(h + k - 1)
<1>1. Entries \in Nat \ {0} /\ h + j - 1 \in Int /\ h + k - 1 \in Int
  BY UringAssumption
<1> DEFINE x == h + j - 1
           y == h + k - 1
<1>2. CASE j < k
  <2>1. x \in Int /\ y \in Int /\ x < y /\ y < x + Entries
    BY <1>1, <1>2
  <2> HIDE DEF x, y
  <2>2. x % Entries /= y % Entries
    BY <1>1, <2>1, ModDiffer, Zenon
  <2>3. QED
    BY <2>2 DEF Slot, x, y
<1>3. CASE k < j
  <2>1. x \in Int /\ y \in Int /\ y < x /\ x < y + Entries
    BY <1>1, <1>3
  <2> HIDE DEF x, y
  <2>2. y % Entries /= x % Entries
    BY <1>1, <2>1, ModDiffer, Zenon
  <2>3. QED
    BY <2>2 DEF Slot, x, y
<1>4. QED
  BY <1>2, <1>3, UringAssumption

-----------------------------------------------------------------------------
(***************************************************************************)
(* The submission ring is a queue.                                         *)
(***************************************************************************)
Req == Request \cup {Nop}

RingOk ==
  /\ head \in Index /\ tail \in Index /\ seen \in Index
  /\ sqes \in [0..Entries - 1 -> Req]
  /\ queued \in Seq(Req)
  /\ Len(queued) = Behind(head, tail) /\ Len(queued) <= Entries
  /\ Behind(head, seen) <= Len(queued)
  /\ \A k \in 1..Len(queued) : queued[k] = sqes[Slot(head + k - 1)]

\* Chains of one or two requests.
Chains == {<<r>> : r \in Req} \cup {<<r, s>> : r \in Req, s \in Req}

LEMMA ChainsType ==
  ASSUME NEW q \in Seq(Req)
  PROVE  ChainsOf(q) \subseteq Chains
<1> SUFFICES ASSUME NEW i \in {j \in DOMAIN q : j = 1 \/ ~q[j - 1].link}
             PROVE  (IF q[i].link /\ i < Len(q) THEN <<q[i], q[i + 1]>> ELSE <<q[i]>>) \in Chains
  BY Zenon DEF ChainsOf
<1>1. i \in 1..Len(q) /\ q[i] \in Req
  OBVIOUS
<1>2. CASE q[i].link /\ i < Len(q)
  <2>1. q[i + 1] \in Req
    BY <1>1, <1>2
  <2>2. <<q[i], q[i + 1]>> \in Chains
    BY <1>1, <2>1 DEF Chains
  <2>3. QED
    BY <1>2, <2>2
<1>3. CASE ~(q[i].link /\ i < Len(q))
  <2>1. <<q[i]>> \in Chains
    BY <1>1 DEF Chains
  <2>2. QED
    BY <1>3, <2>1
<1>4. QED
  BY <1>2, <1>3, Zenon

\* What the kernel takes is what was published first.
LEMMA TakeKeeps ==
  ASSUME RingOk, NEW n \in 0..Len(queued), Take(n),
         \/ seen' = tail
         \/ seen' = seen /\ n <= Behind(head, seen)
  PROVE  /\ RingOk'
         /\ kern' = kern \cup ChainsOf(SubSeq(queued, 1, n))
         /\ queued' = SubSeq(queued, n + 1, Len(queued))
<1> DEFINE q == Len(queued)
<1>1. /\ head \in Index /\ tail \in Index /\ seen \in Index /\ head \in Int
      /\ q \in Nat /\ n \in Nat /\ n <= q /\ n \in 0..Entries /\ q = Behind(head, tail)
      /\ q = Len(queued) /\ queued \in Seq(Req)
      /\ Behind(head, seen) <= q /\ Behind(head, seen) \in Nat
  <2>1. head \in Index /\ tail \in Index /\ seen \in Index /\ queued \in Seq(Req)
        /\ q = Behind(head, tail) /\ q <= Entries /\ Behind(head, seen) <= q
    BY DEF RingOk
  <2>2. Behind(head, seen) \in Index
    BY <2>1, BehindIs
  <2>3. QED
    BY <2>1, <2>2, UringAssumption DEF Index
<1>2. /\ head' = Advance(head, n) /\ tail' = tail /\ sqes' = sqes
      /\ queued' = SubSeq(queued, n + 1, Len(queued))
      /\ kern' = kern \cup ChainsOf([k \in 1..n |-> sqes[(head + k - 1) % Entries]])
  BY DEF Take
<1>3. ASSUME NEW k \in 1..q
      PROVE  queued[k] = sqes[Slot(head + k - 1)]
  BY DEF RingOk
<1>4. SubSeq(queued, 1, n) = [k \in 1..n |-> sqes[(head + k - 1) % Entries]]
  <2>1. SubSeq(queued, 1, n) = [k \in 1..n |-> queued[k]]
    BY <1>1
  <2>2. \A k \in 1..n : queued[k] = sqes[(head + k - 1) % Entries]
    BY <1>1, <1>3 DEF Slot
  <2>3. QED
    BY <2>1, <2>2, Zenon
<1>5. /\ queued' \in Seq(Req) /\ Len(queued') = q - n
      /\ \A k \in 1..q - n : queued'[k] = queued[n + k]
  BY <1>1, <1>2
<1> HIDE DEF q
<1>6. head' \in Index /\ Behind(head', tail) = q - n
  <2>1. Advance(head, n) \in Index
    BY <1>1, AdvanceIs
  <2>2. n <= Behind(head, tail)
    BY <1>1
  <2>3. Behind(Advance(head, n), tail) = Behind(head, tail) - n
    BY <1>1, <2>2, BehindShrinks, Zenon
  <2>4. QED
    BY <1>1, <1>2, <2>1, <2>3, Zenon
<1>7. seen' \in Index /\ Behind(head', seen') <= q - n
  <2>1. CASE seen' = tail
    BY <1>1, <1>6, <2>1
  <2>2. CASE seen' = seen /\ n <= Behind(head, seen)
    <3>1. Behind(Advance(head, n), seen) = Behind(head, seen) - n
      BY <1>1, <2>2, BehindShrinks
    <3>2. QED
      BY <1>1, <1>2, <2>2, <3>1
  <2>3. QED
    BY <2>1, <2>2
<1>8. ASSUME NEW k \in 1..q - n
      PROVE  queued'[k] = sqes[Slot(head' + k - 1)]
  <2>1. n + k \in 1..q /\ k - 1 \in Int
    BY <1>1
  <2>2. Slot(Advance(head, n) + (k - 1)) = Slot(head + n + (k - 1))
    BY <1>1, <2>1, SlotAdvance
  <2>3. head + n + (k - 1) = head + (n + k) - 1
    BY <1>1
  <2>4. head' \in Int
    BY <1>6, UringAssumption DEF Index
  <2>5. head' + (k - 1) = head' + k - 1
    BY <2>4
  <2>6. Slot(head' + k - 1) = Slot(head + (n + k) - 1)
    BY <1>2, <2>2, <2>3, <2>5
  <2>7. QED
    BY <1>3, <1>5, <2>1, <2>6, Zenon
<1>9. RingOk'
  <2>1. q - n <= Entries
    BY <1>1, UringAssumption DEF RingOk
  <2>2. sqes \in [0..Entries - 1 -> Req]
    BY DEF RingOk
  <2>3. QED
    BY <1>1, <1>2, <1>5, <1>6, <1>7, <1>8, <2>1, <2>2, Zenon DEF RingOk
<1>10. QED
  BY <1>2, <1>4, <1>9, Zenon

-----------------------------------------------------------------------------
(***************************************************************************)
(* Coroutines, kernel and completion thread: the types.                    *)
(***************************************************************************)
Cqe == [own : Threads, addr : Addrs \cup {None}, op : {1, 2}, res : {"ok", "fail"}]

TaskTypes ==
  /\ addr \in [Tasks -> Addrs \cup {None}]
  /\ result \in [Tasks -> [1..2 -> {"ok", "fail"}]]
  /\ outcome \in [Tasks -> {"none", "ok", "error"}]
  /\ resumed \in [Tasks -> Nat]
KernTypes ==
  /\ kern \subseteq Chains /\ cq \in Seq(Cqe)
  /\ done \subseteq Threads \X {1, 2}
EnvTypes ==
  /\ faults \in FaultSets /\ sqPoll \in BOOLEAN
  /\ poll \in {"polling", "idle", "asleep"}

\* The inductive invariant.
RingInv == RingOk /\ TaskTypes /\ KernTypes /\ EnvTypes

LEMMA RequestsType ==
  ASSUME NEW s \in Threads, NEW a, s = Closer \/ a \in Addrs
  PROVE  Requests(s, a) \in Seq(Req) /\ Len(Requests(s, a)) = Count(s)
<1>1. CASE s = Closer
  <2>1. Requests(s, a) = <<Nop>> /\ Count(s) = 1
    BY <1>1, UringAssumption DEF Requests, Count
  <2>2. QED
    BY <2>1 DEF Req
<1>2. CASE s /= Closer
  <2>1. s \in Tasks /\ a \in Addrs
    BY <1>2 DEF Threads
  <2>2. ASSUME NEW op \in {1, 2}, NEW link \in BOOLEAN
        PROVE  [own |-> s, addr |-> a, op |-> op, link |-> link] \in Req
    BY <2>1 DEF Req, Request
  <2>3. CASE s \in Linked
    <3>1. /\ Count(s) = 2
          /\ Requests(s, a) = <<[own |-> s, addr |-> a, op |-> 1, link |-> TRUE],
                                [own |-> s, addr |-> a, op |-> 2, link |-> FALSE]>>
      BY <1>2, <2>3, Zenon DEF Requests, Count
    <3>2. \E x \in Req, y \in Req : Requests(s, a) = <<x, y>>
      BY <2>2, <3>1, Zenon
    <3>3. Count(s) = 2
      BY <3>1
    <3>4. QED
      BY <3>2, <3>3
  <2>4. CASE s \notin Linked
    <3>1. /\ Count(s) = 1
          /\ Requests(s, a) = <<[own |-> s, addr |-> a, op |-> 2, link |-> FALSE]>>
      BY <1>2, <2>4, Zenon DEF Requests, Count
    <3>2. \E x \in Req : Requests(s, a) = <<x>>
      BY <2>2, <3>1, Zenon
    <3>3. Count(s) = 1
      BY <3>1
    <3>4. QED
      BY <3>2, <3>3
  <2>5. QED
    BY <2>3, <2>4
<1>3. QED
  BY <1>1, <1>2

-----------------------------------------------------------------------------
(***************************************************************************)
(* The way of an operation through the executor, as long as no submission  *)
(* fails: from the ring to the kernel to the completion queue, the writev  *)
(* of a linked pair always ahead of its fdatasync.                         *)
(***************************************************************************)
Owner(ch) == ch[1].own

\* In the ring, the two requests of a pair are next to each other.
QueueShape(q) ==
  /\ \A k \in 1..Len(q) :
       /\ q[k].link <=> q[k].op = 1
       /\ q[k].op = 1 => /\ q[k].own \in Linked /\ k < Len(q)
                         /\ q[k + 1].own = q[k].own /\ q[k + 1].op = 2
       /\ q[k].op = 2 /\ q[k].own \in Linked =>
            k > 1 /\ q[k - 1].own = q[k].own /\ q[k - 1].op = 1
  /\ \A j, k \in 1..Len(q) :
       q[j].own \in Tasks /\ q[j].own = q[k].own /\ q[j].op = q[k].op => j = k

\* A chain is a whole pair, or has only the operation with the continuation.
ChainShape(ch) ==
  \/ Len(ch) = 1 /\ ch[1].op = 2
  \/ /\ Len(ch) = 2 /\ Owner(ch) \in Tasks /\ ch[2].own = Owner(ch)
     /\ ch[1].op = 1 /\ ch[2].op = 2
KernShape(K) ==
  /\ \A ch \in K : ChainShape(ch)
  /\ \A ch, d \in K : Owner(ch) \in Tasks /\ Owner(ch) = Owner(d) => ch = d

\* A coroutine is not resumed before all its completions are consumed.
CqShape(c) ==
  \A j, k \in 1..Len(c) :
    j < k /\ c[j].own \in Tasks /\ c[j].own = c[k].own => c[j].op = 1 /\ c[k].op = 2

\* What is in the ring has nothing further on, and what the kernel works on can
\* have only its writev completed.
QueueApart(q, K, c) ==
  \A k \in 1..Len(q) : q[k].own \in Tasks =>
    /\ \A ch \in K : Owner(ch) /= q[k].own
    /\ \A j \in 1..Len(c) : c[j].own /= q[k].own
KernApart(K, c) ==
  \A ch \in K, j \in 1..Len(c) :
    Owner(ch) \in Tasks /\ c[j].own = Owner(ch) => Len(ch) = 1 /\ c[j].op = 1

Shape(q, K, c) ==
  QueueShape(q) /\ KernShape(K) /\ CqShape(c) /\ QueueApart(q, K, c) /\ KernApart(K, c)

\* The requests and completions that are on their way.
OnWay(q, K, c) == Range(q) \cup Range(c) \cup (UNION {Range(ch) : ch \in K})

LEMMA ReqFields ==
  ASSUME NEW r \in Req
  PROVE  r.own \in Threads /\ r.op \in {1, 2} /\ r.link \in BOOLEAN
<1>1. CASE r \in Request
  BY <1>1 DEF Request, Threads
<1>2. CASE r = Nop
  BY <1>2 DEF Nop, Threads
<1>3. QED
  BY <1>1, <1>2 DEF Req

LEMMA OnWayIs ==
  ASSUME NEW q \in Seq(Req), NEW c \in Seq(Cqe), NEW K \in SUBSET Chains, NEW r
  PROVE  r \in OnWay(q, K, c) <=> \/ \E k \in 1..Len(q) : r = q[k]
                                  \/ \E k \in 1..Len(c) : r = c[k]
                                  \/ \E ch \in K : \E k \in 1..Len(ch) : r = ch[k]
<1>1. DOMAIN q = 1..Len(q) /\ DOMAIN c = 1..Len(c)
  OBVIOUS
<1>2. ASSUME NEW ch \in K
      PROVE  DOMAIN ch = 1..Len(ch)
  BY DEF Chains
<1>3. r \in UNION {Range(ch) : ch \in K} <=> \E ch \in K : \E k \in 1..Len(ch) : r = ch[k]
  <2>1. \A ch \in K : r \in Range(ch) <=> \E k \in 1..Len(ch) : r = ch[k]
    BY <1>2, Zenon DEF Range
  <2>2. QED
    BY <2>1
<1>4. QED
  BY <1>1, <1>3, Zenon DEF OnWay, Range

\* The same with the places under a name.
Found(r, q, K, c) == \/ \E k \in 1..Len(q) : r = q[k]
                     \/ \E k \in 1..Len(c) : r = c[k]
                     \/ \E ch \in K : \E k \in 1..Len(ch) : r = ch[k]

LEMMA OnWayFound ==
  ASSUME NEW q \in Seq(Req), NEW c \in Seq(Cqe), NEW K \in SUBSET Chains, NEW r
  PROVE  r \in OnWay(q, K, c) <=> Found(r, q, K, c)
BY OnWayIs DEF Found

\* A submission goes behind what is in the ring.
LEMMA SubmissionShape ==
  ASSUME NEW s \in Threads, NEW a, s = Closer \/ a \in Addrs,
         NEW q \in Seq(Req), QueueShape(q),
         s \in Tasks => \A k \in 1..Len(q) : q[k].own /= s
  PROVE  /\ QueueShape(q \o Requests(s, a))
         /\ \A k \in 1..Count(s) : /\ Requests(s, a)[k].own = s
                                   /\ s \in Tasks => Requests(s, a)[k].addr = a
<1> DEFINE R == Requests(s, a)
           p == q \o R
           n == Len(q)
<1>1. /\ R \in Seq(Req) /\ Len(R) = Count(s) /\ n \in Nat /\ n = Len(q)
      /\ Count(s) \in {1, 2} /\ (Count(s) = 2 <=> s \in Linked) /\ Linked \subseteq Tasks
  BY RequestsType, UringAssumption DEF Count
<1>2. /\ \A k \in 1..Count(s) : /\ R[k].own = s
                                /\ s \in Tasks => R[k].addr = a
      /\ R[Count(s)].op = 2 /\ ~R[Count(s)].link
      /\ s \in Linked => R[1].op = 1 /\ R[1].link
  <2>1. CASE s = Closer
    BY <2>1, UringAssumption DEF Requests, Count, Nop
  <2>2. CASE s \in Linked
    BY <2>2, UringAssumption DEF Requests, Count
  <2>3. CASE s /= Closer /\ s \notin Linked
    BY <2>3 DEF Requests, Count
  <2>4. QED
    BY <2>1, <2>2, <2>3
<1>3. /\ p \in Seq(Req) /\ Len(p) = n + Count(s)
      /\ \A k \in 1..n : p[k] = q[k]
      /\ \A k \in 1..Count(s) : p[n + k] = R[k]
  BY <1>1
<1> HIDE DEF R, p, n
<1>4. ASSUME NEW k \in 1..Len(p)
      PROVE  /\ p[k].link <=> p[k].op = 1
             /\ p[k].op = 1 => /\ p[k].own \in Linked /\ k < Len(p)
                               /\ p[k + 1].own = p[k].own /\ p[k + 1].op = 2
             /\ p[k].op = 2 /\ p[k].own \in Linked =>
                  k > 1 /\ p[k - 1].own = p[k].own /\ p[k - 1].op = 1
  <2>1. CASE k <= n
    <3>1. k \in 1..n /\ p[k] = q[k] /\ (k < n => p[k + 1] = q[k + 1])
          /\ (k > 1 => p[k - 1] = q[k - 1]) /\ n < Len(p)
      BY <1>1, <1>3, <2>1
    <3>2. QED
      BY <1>1, <3>1 DEF QueueShape
  <2>2. CASE k > n
    <3>1. PICK i \in 1..Count(s) : k = n + i
      BY <1>1, <1>3, <2>2
    <3>2. CASE i = Count(s)
      <4>1. p[k].op = 2 /\ ~p[k].link /\ p[k].own = s
        BY <1>1, <1>2, <1>3, <3>1, <3>2
      <4>2. CASE s \in Linked
        <5>1. k - 1 = n + 1 /\ p[k - 1] = R[1] /\ R[1].own = s /\ R[1].op = 1
          BY <1>1, <1>2, <1>3, <3>1, <3>2, <4>2
        <5>2. QED
          BY <1>1, <4>1, <5>1
      <4>3. QED
        BY <4>1, <4>2
    <3>3. CASE i /= Count(s)
      <4>1. s \in Linked /\ i = 1 /\ Count(s) = 2
        BY <1>1, <3>3
      <4>2. p[k] = R[1] /\ p[k + 1] = R[2] /\ k < Len(p)
        BY <1>1, <1>3, <3>1, <4>1
      <4>3. QED
        BY <1>1, <1>2, <4>1, <4>2
    <3>4. QED
      BY <3>2, <3>3
  <2>3. QED
    BY <1>1, <1>3, <2>1, <2>2
<1>5. ASSUME NEW j \in 1..Len(p), NEW k \in 1..Len(p), p[j].own \in Tasks,
             p[j].own = p[k].own, p[j].op = p[k].op, j < k
      PROVE  FALSE
  <2>1. CASE k <= n
    BY <1>1, <1>3, <1>5, <2>1 DEF QueueShape
  <2>2. CASE k > n /\ j <= n
    <3>1. PICK i \in 1..Count(s) : k = n + i
      BY <1>1, <1>3, <2>2
    <3>2. p[k].own = s /\ j \in 1..n /\ p[j] = q[j]
      BY <1>1, <1>2, <1>3, <2>2, <3>1
    <3>3. QED
      BY <1>5, <3>2 DEF n
  <2>3. CASE j > n
    <3> DEFINE i == j - n
               h == k - n
    <3>1. i \in 1..Count(s) /\ h \in 1..Count(s) /\ i < h /\ j = n + i /\ k = n + h
      BY <1>1, <1>3, <1>5, <2>3
    <3> HIDE DEF i, h
    <3>2. i = 1 /\ h = 2 /\ s \in Linked
      BY <1>1, <3>1
    <3>3. QED
      BY <1>1, <1>2, <1>3, <1>5, <3>1, <3>2
  <2>4. QED
    BY <1>1, <1>3, <2>1, <2>2, <2>3
<1>6. \A j, k \in 1..Len(p) :
        p[j].own \in Tasks /\ p[j].own = p[k].own /\ p[j].op = p[k].op => j = k
  <2>1. Len(p) \in Nat
    BY <1>1, <1>3
  <2>2. QED
    BY <1>5, <2>1
<1>7. QED
  BY <1>1, <1>2, <1>4, <1>6, Zenon DEF QueueShape, R, p

\* The kernel that takes whole submissions takes whole chains.
Uncut(q, n) == n = 0 \/ ~q[n].link

LEMMA ChainTaken ==
  ASSUME NEW q \in Seq(Req), QueueShape(q), NEW n \in 0..Len(q), Uncut(q, n),
         NEW ch \in ChainsOf(SubSeq(q, 1, n))
  PROVE  \E i \in 1..n : \/ ch = <<q[i]>> /\ q[i].op = 2 /\ q[i].own \notin Linked
                         \/ /\ i < n /\ ch = <<q[i], q[i + 1]>> /\ q[i].own \in Linked
                            /\ q[i].op = 1 /\ q[i + 1].op = 2 /\ q[i + 1].own = q[i].own
<1> DEFINE p == SubSeq(q, 1, n)
<1>1. /\ n \in Nat /\ Len(p) = n /\ DOMAIN p = 1..n /\ n <= Len(q) /\ Len(q) \in Nat
      /\ \A k \in 1..n : p[k] = q[k]
  OBVIOUS
<1>2. PICK i \in {j \in DOMAIN p : j = 1 \/ ~p[j - 1].link} :
        ch = IF p[i].link /\ i < Len(p) THEN <<p[i], p[i + 1]>> ELSE <<p[i]>>
  BY Zenon DEF ChainsOf
<1> HIDE DEF p
<1>3. i \in 1..n /\ p[i] = q[i] /\ (i = 1 \/ ~q[i - 1].link) /\ q[i] \in Req
  BY <1>1, <1>2
<1>4. CASE q[i].link
  <2>1. q[i].op = 1 /\ q[i].own \in Linked /\ q[i + 1].op = 2 /\ q[i + 1].own = q[i].own
    BY <1>1, <1>3, <1>4 DEF QueueShape
  <2>2. i < n
    BY <1>1, <1>3, <1>4 DEF Uncut
  <2>3. ch = <<q[i], q[i + 1]>>
    BY <1>1, <1>2, <1>3, <1>4, <2>2
  <2>4. QED
    BY <1>3, <2>1, <2>2, <2>3, Zenon
<1>5. CASE ~q[i].link
  <2>1. q[i].op = 2
    BY <1>1, <1>3, <1>5, ReqFields DEF QueueShape
  <2>2. q[i].own \notin Linked
    <3> SUFFICES ASSUME q[i].own \in Linked PROVE FALSE
      OBVIOUS
    <3>1. i > 1 /\ q[i - 1].op = 1
      BY <1>1, <1>3, <2>1 DEF QueueShape
    <3>2. i - 1 \in 1..Len(q)
      BY <1>1, <1>3, <3>1
    <3>3. q[i - 1].link
      BY <3>1, <3>2, Zenon DEF QueueShape
    <3>4. QED
      BY <1>1, <1>3, <3>1, <3>3
  <2>3. ch = <<q[i]>>
    BY <1>1, <1>2, <1>3, <1>5
  <2>4. QED
    BY <1>3, <2>1, <2>2, <2>3
<1>6. QED
  BY <1>4, <1>5

LEMMA QueuePair ==
  ASSUME NEW q \in Seq(Req), QueueShape(q), NEW k \in 1..Len(q), q[k].op = 1
  PROVE  /\ q[k].link /\ k + 1 \in 1..Len(q)
         /\ q[k + 1].own = q[k].own /\ q[k + 1].op = 2
BY DEF QueueShape

LEMMA QueueOnce ==
  ASSUME NEW q, QueueShape(q), NEW j \in 1..Len(q), NEW k \in 1..Len(q),
         q[j].own \in Tasks, q[j].own = q[k].own, q[j].op = q[k].op
  PROVE  j = k
BY Zenon DEF QueueShape

\* No task is both in what the kernel takes and in what it leaves.
LEMMA TakeApart ==
  ASSUME NEW q \in Seq(Req), QueueShape(q), NEW n \in 0..Len(q), Uncut(q, n),
         NEW i \in 1..n, NEW k \in n + 1..Len(q), q[i].own \in Tasks
  PROVE  q[i].own /= q[k].own
<1> SUFFICES ASSUME q[i].own = q[k].own PROVE FALSE
  OBVIOUS
<1>1. /\ i \in 1..Len(q) /\ k \in 1..Len(q) /\ i < k /\ n \in Nat
  OBVIOUS
<1>2. q[i].op \in {1, 2} /\ q[k].op \in {1, 2}
  BY <1>1, ReqFields
<1>3. CASE q[i].op = q[k].op
  <2>1. i = k
    BY <1>1, <1>3, QueueOnce, Zenon
  <2>2. QED
    BY <1>1, <2>1
<1>4. CASE q[i].op = 1 /\ q[k].op = 2
  <2>1. i + 1 \in 1..Len(q) /\ q[i + 1].own = q[i].own /\ q[i + 1].op = 2 /\ q[i].link
    BY <1>1, <1>4, QueuePair, Zenon
  <2>2. i + 1 = k
    BY <1>1, <1>4, <2>1, QueueOnce, Zenon
  <2>3. i = n
    BY <1>1, <2>2
  <2>4. QED
    BY <2>1, <2>3 DEF Uncut
<1>5. CASE q[i].op = 2 /\ q[k].op = 1
  <2>1. k + 1 \in 1..Len(q) /\ q[k + 1].own = q[k].own /\ q[k + 1].op = 2
    BY <1>1, <1>5, QueuePair, Zenon
  <2>2. k + 1 = i
    BY <1>1, <1>5, <2>1, QueueOnce, Zenon
  <2>3. QED
    BY <1>1, <2>2
<1>6. QED
  BY <1>2, <1>3, <1>4, <1>5

\* What the kernel leaves in the ring starts at a boundary.
LEMMA TakeQueue ==
  ASSUME NEW q \in Seq(Req), QueueShape(q), NEW n \in 0..Len(q), Uncut(q, n)
  PROVE  QueueShape(SubSeq(q, n + 1, Len(q)))
<1> DEFINE p == SubSeq(q, n + 1, Len(q))
<1>0. /\ n \in Nat /\ Len(q) \in Nat /\ n <= Len(q) /\ Len(p) = Len(q) - n
      /\ \A k \in 1..Len(q) - n : p[k] = q[n + k]
  OBVIOUS
<1> HIDE DEF p
<1>1. ASSUME NEW k \in 1..Len(p)
      PROVE  /\ p[k].link <=> p[k].op = 1
             /\ p[k].op = 1 => /\ p[k].own \in Linked /\ k < Len(p)
                               /\ p[k + 1].own = p[k].own /\ p[k + 1].op = 2
             /\ p[k].op = 2 /\ p[k].own \in Linked =>
                  k > 1 /\ p[k - 1].own = p[k].own /\ p[k - 1].op = 1
  <2>1. /\ n + k \in 1..Len(q) /\ p[k] = q[n + k] /\ (k < Len(p) => p[k + 1] = q[(n + k) + 1])
        /\ (k > 1 => p[k - 1] = q[(n + k) - 1]) /\ (n + k < Len(q) => k < Len(p))
    <3>1. k < Len(p) => n + (k + 1) = (n + k) + 1 /\ k + 1 \in 1..Len(q) - n
      BY <1>0
    <3>2. k > 1 => n + (k - 1) = (n + k) - 1 /\ k - 1 \in 1..Len(q) - n
      BY <1>0
    <3>3. n + k \in 1..Len(q) /\ k \in 1..Len(q) - n /\ (n + k < Len(q) => k < Len(p))
      BY <1>0
    <3>4. ASSUME NEW m \in 1..Len(q) - n
          PROVE  p[m] = q[n + m]
      BY <1>0
    <3>5. k < Len(p) => p[k + 1] = q[(n + k) + 1]
      BY <3>1, <3>4
    <3>6. k > 1 => p[k - 1] = q[(n + k) - 1]
      BY <3>2, <3>4
    <3>7. QED
      BY <3>3, <3>4, <3>5, <3>6
  <2> DEFINE h == n + k
  <2>2. /\ q[h].link <=> q[h].op = 1
        /\ q[h].op = 1 => /\ q[h].own \in Linked /\ h < Len(q)
                          /\ q[h + 1].own = q[h].own /\ q[h + 1].op = 2
        /\ q[h].op = 2 /\ q[h].own \in Linked =>
             h > 1 /\ q[h - 1].own = q[h].own /\ q[h - 1].op = 1
    BY <2>1, ZenonT(30) DEF QueueShape
  <2>3. q[h].op = 2 /\ q[h].own \in Linked => k > 1
    <3> SUFFICES ASSUME q[h].op = 2, q[h].own \in Linked, k = 1 PROVE FALSE
      BY <1>0
    <3>1. h - 1 = n /\ n \in 1..Len(q) /\ q[n].op = 1
      BY <1>0, <2>1, <2>2
    <3>2. q[n].link
      BY <3>1, Zenon DEF QueueShape
    <3>3. QED
      BY <1>0, <3>1, <3>2 DEF Uncut
  <2> HIDE DEF h
  <2>4. QED
    BY <2>1, <2>2, <2>3 DEF h
<1>2. ASSUME NEW j \in 1..Len(p), NEW k \in 1..Len(p), p[j].own \in Tasks,
             p[j].own = p[k].own, p[j].op = p[k].op
      PROVE  j = k
  <2>1. /\ n + j \in 1..Len(q) /\ n + k \in 1..Len(q)
        /\ j \in 1..Len(q) - n /\ k \in 1..Len(q) - n
    BY <1>0
  <2>2. n + j = n + k
    BY <1>0, <1>2, <2>1, QueueOnce, Zenon
  <2>3. QED
    BY <1>0, <2>2
<1>3. QED
  BY <1>1, <1>2, Zenon DEF QueueShape, p

LEMMA TakeShape ==
  ASSUME NEW q \in Seq(Req), NEW K \in SUBSET Chains, NEW c \in Seq(Cqe), Shape(q, K, c),
         NEW n \in 0..Len(q), Uncut(q, n)
  PROVE  /\ Shape(SubSeq(q, n + 1, Len(q)), K \cup ChainsOf(SubSeq(q, 1, n)), c)
         /\ OnWay(SubSeq(q, n + 1, Len(q)), K \cup ChainsOf(SubSeq(q, 1, n)), c)
              \subseteq OnWay(q, K, c)
<1> DEFINE p == SubSeq(q, n + 1, Len(q))
           T == ChainsOf(SubSeq(q, 1, n))
           L == K \cup T
<1>1. /\ n \in Nat /\ Len(q) \in Nat /\ n <= Len(q) /\ p \in Seq(Req) /\ Len(p) = Len(q) - n
      /\ \A k \in 1..Len(q) - n : p[k] = q[n + k]
      /\ SubSeq(q, 1, n) \in Seq(Req)
  OBVIOUS
<1>2. QueueShape(q) /\ KernShape(K) /\ CqShape(c) /\ QueueApart(q, K, c) /\ KernApart(K, c)
  BY DEF Shape
<1>3. ASSUME NEW ch \in T
      PROVE  /\ ChainShape(ch)
             /\ \E i \in 1..n : /\ Owner(ch) = q[i].own /\ ch[1] = q[i]
                                /\ \/ ch = <<q[i]>> /\ q[i].op = 2 /\ q[i].own \notin Linked
                                   \/ /\ i < n /\ ch = <<q[i], q[i + 1]>>
                                      /\ q[i].op = 1 /\ q[i].own \in Linked
             /\ \A m \in 1..Len(ch) : \E i \in 1..n : ch[m] = q[i]
  <2>1. PICK i \in 1..n : \/ ch = <<q[i]>> /\ q[i].op = 2 /\ q[i].own \notin Linked
                          \/ /\ i < n /\ ch = <<q[i], q[i + 1]>> /\ q[i].own \in Linked
                             /\ q[i].op = 1 /\ q[i + 1].op = 2 /\ q[i + 1].own = q[i].own
    BY <1>2, ChainTaken, ZenonT(30)
  <2>2. CASE ch = <<q[i]>> /\ q[i].op = 2 /\ q[i].own \notin Linked
    BY <2>2 DEF ChainShape, Owner
  <2>3. CASE /\ i < n /\ ch = <<q[i], q[i + 1]>> /\ q[i].own \in Linked
             /\ q[i].op = 1 /\ q[i + 1].op = 2 /\ q[i + 1].own = q[i].own
    <3>1. i + 1 \in 1..n /\ Linked \subseteq Tasks
      BY <1>1, <2>3, UringAssumption
    <3>2. Len(ch) = 2 /\ ch[1] = q[i] /\ ch[2] = q[i + 1]
      BY <2>3, Zenon
    <3>3. ChainShape(ch) /\ Owner(ch) = q[i].own
      BY <2>3, <3>1, <3>2 DEF ChainShape, Owner
    <3>4. \A m \in 1..Len(ch) : \E h \in 1..n : ch[m] = q[h]
      <4>1. \A m \in 1..Len(ch) : m = 1 \/ m = 2
        BY <3>2
      <4>2. QED
        BY <3>1, <3>2, <4>1
    <3>5. QED
      BY <2>3, <3>2, <3>3, <3>4, Zenon
  <2>4. QED
    BY <2>1, <2>2, <2>3, Zenon
<1>4. T \subseteq Chains /\ L \in SUBSET Chains
  BY <1>1, ChainsType, ZenonT(30)
<1> HIDE DEF p, T, L
<1>6. QueueShape(p)
  BY <1>2, TakeQueue, Zenon DEF p
<1>7. ASSUME NEW ch \in T, NEW d \in T, Owner(ch) \in Tasks, Owner(ch) = Owner(d)
      PROVE  ch = d
  <2>1. PICK i \in 1..n : /\ Owner(ch) = q[i].own
                          /\ \/ ch = <<q[i]>> /\ q[i].op = 2 /\ q[i].own \notin Linked
                             \/ ch = <<q[i], q[i + 1]>> /\ q[i].op = 1 /\ q[i].own \in Linked
    BY <1>3, Zenon
  <2>2. PICK j \in 1..n : /\ Owner(d) = q[j].own
                          /\ \/ d = <<q[j]>> /\ q[j].op = 2 /\ q[j].own \notin Linked
                             \/ d = <<q[j], q[j + 1]>> /\ q[j].op = 1 /\ q[j].own \in Linked
    BY <1>3, Zenon
  <2>3. q[i].op = q[j].op /\ q[i].own = q[j].own /\ q[i].own \in Tasks
    BY <1>7, <2>1, <2>2, Zenon
  <2>4. i = j
    <3>1. i \in 1..Len(q) /\ j \in 1..Len(q)
      BY <1>1
    <3>2. QED
      BY <1>2, <2>3, <3>1, QueueOnce, Zenon
  <2>5. QED
    BY <1>7, <2>1, <2>2, <2>4, Zenon
\* What is taken was not in the kernel or the completion queue before.
<1>8. ASSUME NEW ch \in T, Owner(ch) \in Tasks
      PROVE  /\ \A d \in K : Owner(d) /= Owner(ch)
             /\ \A j \in 1..Len(c) : c[j].own /= Owner(ch)
  <2>1. PICK i \in 1..n : Owner(ch) = q[i].own
    BY <1>3
  <2>2. i \in 1..Len(q)
    BY <1>1
  <2>3. QED
    BY <1>2, <1>8, <2>1, <2>2 DEF QueueApart
<1>9. KernShape(L)
  <2>1. \A ch \in L : ChainShape(ch)
    BY <1>2, <1>3 DEF KernShape, L
  <2>2. ASSUME NEW ch \in L, NEW d \in L, Owner(ch) \in Tasks, Owner(ch) = Owner(d)
        PROVE  ch = d
    BY <1>2, <1>7, <1>8, <2>2 DEF KernShape, L
  <2>3. QED
    BY <2>1, <2>2, Zenon DEF KernShape
<1>10. QueueApart(p, L, c)
  <2> SUFFICES ASSUME NEW k \in 1..Len(p), p[k].own \in Tasks
               PROVE  /\ \A ch \in L : Owner(ch) /= p[k].own
                      /\ \A j \in 1..Len(c) : c[j].own /= p[k].own
    BY Zenon DEF QueueApart
  <2>1. n + k \in n + 1..Len(q) /\ n + k \in 1..Len(q) /\ p[k] = q[n + k]
    BY <1>1
  <2>2. \A ch \in K : Owner(ch) /= p[k].own
    BY <1>2, <2>1, Zenon DEF QueueApart
  <2>3. ASSUME NEW ch \in T
        PROVE  Owner(ch) /= p[k].own
    <3>1. PICK i \in 1..n : Owner(ch) = q[i].own
      BY <1>3, Zenon
    <3>2. QED
      BY <1>2, <2>1, <3>1, TakeApart, Zenon
  <2>4. \A j \in 1..Len(c) : c[j].own /= p[k].own
    BY <1>2, <2>1 DEF QueueApart
  <2>5. QED
    BY <2>2, <2>3, <2>4, Zenon DEF L
<1>11. KernApart(L, c)
  BY <1>2, <1>8, Zenon DEF KernApart, L
<1>12. OnWay(p, L, c) \subseteq OnWay(q, K, c)
  <2> SUFFICES ASSUME NEW r \in OnWay(p, L, c) PROVE r \in OnWay(q, K, c)
    OBVIOUS
  <2>1. \/ \E k \in 1..Len(p) : r = p[k]
        \/ \E k \in 1..Len(c) : r = c[k]
        \/ \E ch \in L : \E k \in 1..Len(ch) : r = ch[k]
    <3>1. r \in OnWay(p, L, c) <=> Found(r, p, L, c)
      BY <1>1, <1>4, OnWayFound, Zenon
    <3>2. QED
      BY <3>1, Zenon DEF Found
  <2>2. ASSUME NEW k \in 1..Len(p), r = p[k]
        PROVE  \E m \in 1..Len(q) : r = q[m]
    <3>1. n + k \in 1..Len(q) /\ p[k] = q[n + k]
      BY <1>1
    <3>2. QED
      BY <2>2, <3>1
  <2>3. ASSUME NEW ch \in T, NEW k \in 1..Len(ch), r = ch[k]
        PROVE  \E m \in 1..Len(q) : r = q[m]
    <3>1. PICK i \in 1..n : ch[k] = q[i]
      BY <1>3, Zenon
    <3>2. i \in 1..Len(q)
      BY <1>1
    <3>3. QED
      BY <2>3, <3>1, <3>2, Zenon
  <2>4. \/ \E k \in 1..Len(q) : r = q[k]
        \/ \E k \in 1..Len(c) : r = c[k]
        \/ \E ch \in K : \E k \in 1..Len(ch) : r = ch[k]
    BY <2>1, <2>2, <2>3, Zenon DEF L
  <2>5. QED
    BY <2>4, OnWayIs, ZenonT(30)
<1>13. QED
  BY <1>2, <1>6, <1>9, <1>10, <1>11, <1>12, ZenonT(30) DEF Shape, p, T, L

\* A completion is consumed.
LEMMA ConsumeShape ==
  ASSUME NEW q \in Seq(Req), NEW K \in SUBSET Chains, NEW c \in Seq(Cqe), Shape(q, K, c),
         c /= <<>>
  PROVE  /\ Shape(q, K, Tail(c))
         /\ OnWay(q, K, Tail(c)) \subseteq OnWay(q, K, c)
         /\ Head(c) \in OnWay(q, K, c)
         /\ Head(c).own \in Tasks /\ Head(c).op = 2 =>
              \A r \in OnWay(q, K, Tail(c)) : r.own /= Head(c).own
<1> DEFINE d == Tail(c)
           n == Len(c)
<1>1. /\ n \in Nat \ {0} /\ d \in Seq(Cqe) /\ Len(d) = n - 1 /\ Head(c) = c[1]
      /\ \A k \in 1..n - 1 : d[k] = c[k + 1]
  OBVIOUS
<1>2. QueueShape(q) /\ KernShape(K) /\ CqShape(c) /\ QueueApart(q, K, c) /\ KernApart(K, c)
  BY DEF Shape
<1>3. n = Len(c)
  OBVIOUS
<1>a. ASSUME NEW r
      PROVE  r \in OnWay(q, K, d) <=> \/ \E k \in 1..Len(q) : r = q[k]
                                      \/ \E k \in 1..Len(d) : r = d[k]
                                      \/ \E ch \in K : \E k \in 1..Len(ch) : r = ch[k]
  <2>1. d \in Seq(Cqe) /\ K \in SUBSET Chains
    BY <1>1
  <2>2. ASSUME NEW x \in Seq(Cqe)
        PROVE  r \in OnWay(q, K, x) <=> \/ \E k \in 1..Len(q) : r = q[k]
                                        \/ \E k \in 1..Len(x) : r = x[k]
                                        \/ \E ch \in K : \E k \in 1..Len(ch) : r = ch[k]
    <3>1. r \in OnWay(q, K, x) <=> Found(r, q, K, x)
      BY OnWayFound, Zenon
    <3>2. QED
      BY <3>1, Zenon DEF Found
  <2>3. QED
    BY <2>1, <2>2, Zenon
<1> HIDE DEF d, n
<1>4. CqShape(d)
  <2> SUFFICES ASSUME NEW j \in 1..Len(d), NEW k \in 1..Len(d), j < k,
                      d[j].own \in Tasks, d[j].own = d[k].own
               PROVE  d[j].op = 1 /\ d[k].op = 2
    BY Zenon DEF CqShape
  <2>1. /\ j + 1 \in 1..n /\ k + 1 \in 1..n /\ j + 1 < k + 1
        /\ d[j] = c[j + 1] /\ d[k] = c[k + 1]
    BY <1>1
  <2>2. QED
    BY <1>2, <1>3, <2>1, ZenonT(30) DEF CqShape
<1>5. ASSUME NEW j \in 1..Len(d)
      PROVE  j + 1 \in 1..Len(c) /\ d[j] = c[j + 1]
  BY <1>1, <1>3
<1>6. QueueApart(q, K, d)
  BY <1>2, <1>5, Zenon DEF QueueApart
<1>7. KernApart(K, d)
  BY <1>2, <1>5 DEF KernApart
<1>8. OnWay(q, K, d) \subseteq OnWay(q, K, c)
  <2> SUFFICES ASSUME NEW r \in OnWay(q, K, d) PROVE r \in OnWay(q, K, c)
    OBVIOUS
  <2>1. \/ \E k \in 1..Len(q) : r = q[k]
        \/ \E k \in 1..Len(d) : r = d[k]
        \/ \E ch \in K : \E k \in 1..Len(ch) : r = ch[k]
    BY <1>a
  <2>2. \/ \E k \in 1..Len(q) : r = q[k]
        \/ \E k \in 1..Len(c) : r = c[k]
        \/ \E ch \in K : \E k \in 1..Len(ch) : r = ch[k]
    BY <1>5, <2>1, Zenon
  <2>3. QED
    BY <2>2, OnWayIs, ZenonT(30)
<1>9. Head(c) \in OnWay(q, K, c)
  <2>1. \E k \in 1..Len(c) : Head(c) = c[k]
    BY <1>1, <1>3
  <2>2. QED
    BY <2>1, OnWayIs, ZenonT(30)
<1>10. ASSUME c[1].own \in Tasks, c[1].op = 2, NEW r \in OnWay(q, K, d)
       PROVE  r.own /= c[1].own
  <2>1. 1 \in 1..Len(c)
    BY <1>1, <1>3
  <2>2. ASSUME NEW k \in 1..Len(q)
        PROVE  q[k].own /= c[1].own
    BY <1>2, <1>10, <2>1, Zenon DEF QueueApart
  <2>3. ASSUME NEW k \in 1..Len(d)
        PROVE  d[k].own /= c[1].own
    <3>1. k + 1 \in 1..Len(c) /\ d[k] = c[k + 1] /\ 1 < k + 1
      BY <1>5
    <3>2. QED
      BY <1>2, <1>10, <2>1, <3>1 DEF CqShape
  <2>4. ASSUME NEW ch \in K, NEW k \in 1..Len(ch)
        PROVE  ch[k].own /= c[1].own
    <3>1. Owner(ch) /= c[1].own
      BY <1>2, <1>10, <2>1 DEF KernApart
    <3>2. ch[k].own = Owner(ch)
      <4>1. ChainShape(ch)
        BY <1>2 DEF KernShape
      <4>2. QED
        BY <4>1 DEF ChainShape, Owner
    <3>3. QED
      BY <3>1, <3>2, Zenon
  <2>5. \/ \E k \in 1..Len(q) : r = q[k]
        \/ \E k \in 1..Len(d) : r = d[k]
        \/ \E ch \in K : \E k \in 1..Len(ch) : r = ch[k]
    BY <1>a
  <2>6. QED
    BY <2>2, <2>3, <2>4, <2>5, Zenon
<1>11. QED
  BY <1>1, <1>2, <1>4, <1>6, <1>7, <1>8, <1>9, <1>10 DEF Shape, d

\* The first m requests of a chain complete: all of them, or the writev only.
Rest(ch, m) == IF m = Len(ch) THEN {} ELSE {Tail(ch)}

LEMMA ChainFields ==
  ASSUME NEW ch \in Chains
  PROVE  /\ ch \in Seq(Req) /\ Len(ch) \in {1, 2}
         /\ Len(ch) = 2 => Tail(ch) = <<ch[2]>> /\ ch[2] \in Req
<1>1. CASE \E r \in Req : ch = <<r>>
  BY <1>1
<1>2. CASE \E r \in Req, x \in Req : ch = <<r, x>>
  BY <1>2
<1>3. QED
  BY <1>1, <1>2 DEF Chains

\* What completing the first m requests of a chain posts, and leaves behind.
Posted(ch, m, e) ==
  /\ Len(e) = m
  /\ \A i \in 1..m : e[i].own = ch[i].own /\ e[i].addr = ch[i].addr /\ e[i].op = ch[i].op
Left(K, ch, m) == (K \ {ch}) \cup Rest(ch, m)
SameFrames(q, L, d, K, c) ==
  \A r \in OnWay(q, L, d) : \E x \in OnWay(q, K, c) : r.own = x.own /\ r.addr = x.addr

LEMMA PairOrder ==
  ASSUME NEW n \in Nat, NEW l \in {1, 2}, NEW m \in 1..l, NEW h \in 1..m, NEW i \in 1..m,
         n + h < n + i
  PROVE  h = 1 /\ i = 2 /\ l = 2
  OBVIOUS

LEMMA PostShape ==
  ASSUME NEW q \in Seq(Req), NEW K \in SUBSET Chains, NEW c \in Seq(Cqe), Shape(q, K, c),
         NEW ch \in K, NEW m \in 1..Len(ch), NEW e \in Seq(Cqe),
         Posted(ch, m, e)
  PROVE  Shape(q, Left(K, ch, m), c \o e) /\ SameFrames(q, Left(K, ch, m), c \o e, K, c)
<1> DEFINE L == Left(K, ch, m)
           d == c \o e
           n == Len(c)
           t == Owner(ch)
<1>0. /\ Len(e) = m
      /\ \A i \in 1..m : e[i].own = ch[i].own /\ e[i].addr = ch[i].addr /\ e[i].op = ch[i].op
  BY DEF Posted
<1>a. \A x : x \in L <=> x \in K \ {ch} \/ x \in Rest(ch, m)
  BY DEF Left
<1>1. QueueShape(q) /\ KernShape(K) /\ CqShape(c) /\ QueueApart(q, K, c) /\ KernApart(K, c)
  BY Zenon DEF Shape
<1>2. /\ ChainShape(ch) /\ Len(ch) \in {1, 2} /\ m \in {1, 2} /\ ch \in Seq(Req)
      /\ \A i \in 1..Len(ch) : ch[i].own = t
      /\ ch[Len(ch)].op = 2 /\ (Len(ch) = 2 => ch[1].op = 1)
  <2>1. ChainShape(ch)
    BY <1>1 DEF KernShape
  <2>2. ch \in Seq(Req)
    BY ChainFields
  <2>3. Len(ch) \in {1, 2}
    BY <2>1 DEF ChainShape
  <2>4. m \in {1, 2}
    <3>1. m \in 1..1 \/ m \in 1..2
      BY <2>3, Zenon
    <3>2. QED
      BY <3>1
  <2>5. /\ \A i \in 1..Len(ch) : ch[i].own = t
        /\ ch[Len(ch)].op = 2 /\ (Len(ch) = 2 => ch[1].op = 1)
    <3>1. CASE Len(ch) = 1 /\ ch[1].op = 2
      <4>1. \A i \in 1..Len(ch) : i = 1
        BY <3>1
      <4>2. QED
        BY <3>1, <4>1 DEF Owner
    <3>2. CASE /\ Len(ch) = 2 /\ ch[2].own = Owner(ch)
               /\ ch[1].op = 1 /\ ch[2].op = 2
      <4>1. \A i \in 1..Len(ch) : i = 1 \/ i = 2
        BY <3>2
      <4>2. QED
        BY <3>2, <4>1 DEF Owner
    <3>3. QED
      BY <2>1, <3>1, <3>2, Zenon DEF ChainShape
  <2>6. QED
    BY <2>1, <2>2, <2>3, <2>4, <2>5
<1>3. /\ n \in Nat /\ n = Len(c) /\ d \in Seq(Cqe) /\ Len(d) = n + m
      /\ \A k \in 1..n : d[k] = c[k]
      /\ \A i \in 1..m : d[n + i] = e[i] /\ e[i].own = t /\ e[i].op = ch[i].op
  BY <1>0, <1>2
<1>4. ASSUME NEW x \in Rest(ch, m)
      PROVE  /\ m = 1 /\ Len(ch) = 2 /\ x = <<ch[2]>> /\ x \in Chains
             /\ Len(x) = 1 /\ x[1] = ch[2] /\ Owner(x) = t /\ ChainShape(x)
  <2>1. m = 1 /\ Len(ch) = 2 /\ x = Tail(ch)
    BY <1>2 DEF Rest
  <2>2. x = <<ch[2]>> /\ ch[2] \in Req
    BY <2>1, ChainFields
  <2>3. Len(x) = 1 /\ x[1] = ch[2] /\ x \in Chains
    BY <2>2 DEF Chains
  <2>4. QED
    BY <1>2, <2>1, <2>2, <2>3, Zenon DEF Owner, ChainShape
<1>5. L \in SUBSET Chains
  BY <1>4, <1>a
<1>6. ASSUME NEW x \in K \ {ch}, Owner(x) \in Tasks
      PROVE  Owner(x) /= t
  BY <1>1, <1>6, Zenon DEF KernShape
<1>7. ASSUME NEW r
      PROVE  r \in OnWay(q, L, d) <=> \/ \E k \in 1..Len(q) : r = q[k]
                                      \/ \E k \in 1..Len(d) : r = d[k]
                                      \/ \E x \in L : \E k \in 1..Len(x) : r = x[k]
  <2>1. ASSUME NEW D \in Seq(Cqe), NEW M \in SUBSET Chains
        PROVE  r \in OnWay(q, M, D) <=> \/ \E k \in 1..Len(q) : r = q[k]
                                        \/ \E k \in 1..Len(D) : r = D[k]
                                        \/ \E x \in M : \E k \in 1..Len(x) : r = x[k]
    <3>1. r \in OnWay(q, M, D) <=> Found(r, q, M, D)
      BY OnWayFound, Zenon
    <3>2. QED
      BY <3>1, Zenon DEF Found
  <2>2. d \in Seq(Cqe)
    BY <1>3, Zenon
  <2> HIDE DEF d, L
  <2>3. QED
    BY <1>5, <2>1, <2>2
<1> HIDE DEF L, d, n, t
<1>8. ASSUME NEW k \in 1..Len(d)
      PROVE  \/ k \in 1..n /\ d[k] = c[k]
             \/ \E i \in 1..m : k = n + i /\ d[k] = e[i]
  <2>1. CASE k <= n
    BY <1>3, <2>1
  <2>2. CASE k > n
    <3>1. k - n \in 1..m /\ k = n + (k - n)
      BY <1>2, <1>3, <2>2
    <3>2. QED
      BY <1>3, <3>1, Zenon
  <2>3. QED
    BY <1>3, <2>1, <2>2
<1>9. KernShape(L)
  <2>1. \A x \in L : ChainShape(x)
    BY <1>1, <1>4, <1>a DEF KernShape
  <2>2. ASSUME NEW x \in L, NEW y \in L, Owner(x) \in Tasks, Owner(x) = Owner(y)
        PROVE  x = y
    BY <1>1, <1>4, <1>6, <1>a, <2>2 DEF KernShape
  <2>3. QED
    BY <2>1, <2>2 DEF KernShape
<1>10. CqShape(d)
  <2> SUFFICES ASSUME NEW j \in 1..Len(d), NEW k \in 1..Len(d), j < k,
                      d[j].own \in Tasks, d[j].own = d[k].own
               PROVE  d[j].op = 1 /\ d[k].op = 2
    BY Zenon DEF CqShape
  <2>1. CASE k \in 1..n /\ d[k] = c[k]
    <3>1. j \in 1..n /\ d[j] = c[j]
      BY <1>3, <2>1
    <3>2. QED
      BY <1>1, <1>3, <2>1, <3>1 DEF CqShape
  <2>2. CASE \E i \in 1..m : k = n + i /\ d[k] = e[i]
    <3>1. PICK i \in 1..m : k = n + i /\ d[k] = e[i]
      BY <2>2, Zenon
    <3>2. CASE j \in 1..n /\ d[j] = c[j]
      <4>1. t \in Tasks /\ c[j].own = t
        BY <1>3, <3>1, <3>2, Zenon
      <4>2. Len(ch) = 1 /\ c[j].op = 1
        BY <1>1, <1>3, <3>2, <4>1, ZenonT(30) DEF KernApart, t
      <4>3. i = 1 /\ ch[i].op = 2
        BY <1>2, <3>1, <4>2
      <4>4. QED
        BY <1>3, <3>1, <3>2, <4>2, <4>3, Zenon
    <3>3. CASE \E h \in 1..m : j = n + h /\ d[j] = e[h]
      <4>1. PICK h \in 1..m : j = n + h /\ d[j] = e[h]
        BY <3>3, Zenon
      <4>2. h = 1 /\ i = 2 /\ Len(ch) = 2
        <5>1. n \in Nat /\ Len(ch) \in {1, 2} /\ n + h < n + i
          BY <1>2, <1>3, <3>1, <4>1, Zenon
        <5>2. QED
          BY <5>1, PairOrder, Zenon
      <4>3. QED
        BY <1>2, <1>3, <3>1, <4>1, <4>2, Zenon
    <3>4. QED
      BY <1>8, <3>2, <3>3, Zenon
  <2>3. QED
    BY <1>8, <2>1, <2>2
<1>11. QueueApart(q, L, d)
  <2> SUFFICES ASSUME NEW k \in 1..Len(q), q[k].own \in Tasks
               PROVE  /\ \A x \in L : Owner(x) /= q[k].own
                      /\ \A j \in 1..Len(d) : d[j].own /= q[k].own
    BY Zenon DEF QueueApart
  <2>1. /\ \A x \in K : Owner(x) /= q[k].own
        /\ \A j \in 1..Len(c) : c[j].own /= q[k].own
    BY <1>1, Zenon DEF QueueApart
  <2>2. t /= q[k].own
    BY <2>1 DEF t
  <2>3. \A x \in L : Owner(x) /= q[k].own
    BY <1>4, <1>a, <2>1, <2>2
  <2>4. ASSUME NEW j \in 1..Len(d)
        PROVE  d[j].own /= q[k].own
    <3>1. CASE j \in 1..n /\ d[j] = c[j]
      BY <1>3, <2>1, <3>1, Zenon
    <3>2. CASE \E i \in 1..m : j = n + i /\ d[j] = e[i]
      BY <1>3, <2>2, <3>2, Zenon
    <3>3. QED
      BY <1>8, <3>1, <3>2, ZenonT(30)
  <2>5. QED
    BY <2>3, <2>4
<1>12. KernApart(L, d)
  <2> SUFFICES ASSUME NEW x \in L, NEW j \in 1..Len(d), Owner(x) \in Tasks, d[j].own = Owner(x)
               PROVE  Len(x) = 1 /\ d[j].op = 1
    BY Zenon DEF KernApart
  <2>1. CASE x \in Rest(ch, m)
    <3>1. m = 1 /\ Len(ch) = 2 /\ Len(x) = 1 /\ Owner(x) = t
      BY <1>4, <2>1
    <3>2. CASE j \in 1..n /\ d[j] = c[j]
      BY <1>1, <1>3, <3>1, <3>2, ZenonT(30) DEF KernApart, t
    <3>3. CASE \E i \in 1..m : j = n + i /\ d[j] = e[i]
      BY <1>2, <1>3, <3>1, <3>3
    <3>4. QED
      BY <1>8, <3>2, <3>3
  <2>2. CASE x \in K \ {ch}
    <3>1. Owner(x) /= t
      BY <1>6, <2>2
    <3>2. j \in 1..n /\ d[j] = c[j]
      BY <1>3, <1>8, <3>1, Zenon
    <3>3. QED
      BY <1>1, <1>3, <2>2, <3>2, ZenonT(30) DEF KernApart
  <2>3. QED
    BY <1>a, <2>1, <2>2
<1>13. ASSUME NEW r \in OnWay(q, L, d)
       PROVE  \E x \in OnWay(q, K, c) : r.own = x.own /\ r.addr = x.addr
  <2>1. ASSUME NEW y
        PROVE  y \in OnWay(q, K, c) <=> \/ \E k \in 1..Len(q) : y = q[k]
                                        \/ \E k \in 1..Len(c) : y = c[k]
                                        \/ \E x \in K : \E k \in 1..Len(x) : y = x[k]
    <3>1. y \in OnWay(q, K, c) <=> Found(y, q, K, c)
      BY OnWayFound, Zenon
    <3>2. QED
      BY <3>1, Zenon DEF Found
  <2>2. CASE \E k \in 1..Len(q) : r = q[k]
    BY <2>1, <2>2, Zenon
  <2>3. CASE \E k \in 1..Len(d) : r = d[k]
    <3>1. PICK k \in 1..Len(d) : r = d[k]
      BY <2>3
    <3>2. CASE k \in 1..n /\ d[k] = c[k]
      BY <1>3, <2>1, <3>1, <3>2, ZenonT(30)
    <3>3. CASE \E i \in 1..m : d[k] = e[i]
      <4>1. PICK i \in 1..m : d[k] = e[i]
        BY <3>3, Zenon
      <4>2. i \in 1..Len(ch) /\ e[i].own = ch[i].own /\ e[i].addr = ch[i].addr
        BY <1>0, <1>2
      <4>3. ch[i] \in OnWay(q, K, c)
        BY <2>1, <4>2
      <4>4. QED
        BY <3>1, <4>1, <4>2, <4>3, Zenon
    <3>4. QED
      BY <1>8, <3>2, <3>3
  <2>4. CASE \E x \in L : \E k \in 1..Len(x) : r = x[k]
    <3>0. PICK x \in L : \E k \in 1..Len(x) : r = x[k]
      BY <2>4
    <3>1. PICK k \in 1..Len(x) : r = x[k]
      BY <3>0, Zenon
    <3>2. CASE x \in K \ {ch}
      BY <2>1, <3>1, <3>2, Zenon
    <3>3. CASE x \in Rest(ch, m)
      <4>1. r = ch[2] /\ 2 \in 1..Len(ch)
        BY <1>4, <3>1, <3>3
      <4>2. QED
        BY <2>1, <4>1
    <3>4. QED
      BY <1>a, <3>2, <3>3
  <2>5. QED
    BY <1>7, <2>2, <2>3, <2>4, ZenonT(30)
<1>14. QED
  BY <1>1, <1>9, <1>10, <1>11, <1>12, <1>13, Zenon DEF Shape, SameFrames, L, d

-----------------------------------------------------------------------------
\* sqMutex is held by one thread; the SQPOLL thread sees whole submissions; and
\* without it the ring holds no more than the submission of the thread that is
\* about to enter the kernel.
InLock(s) == pc[s] \in {"published", "unlocking"}
Boundaries ==
  /\ Uncut(queued, Behind(head, seen))
  /\ \A s, u \in Threads : InLock(s) /\ InLock(u) => s = u
  /\ ~sqPoll => /\ \A s \in Threads : pc[s] = "published" => Len(queued) = Count(s)
                /\ (\A s \in Threads : pc[s] /= "published") => queued = <<>>

\* What is on its way is in the frame of a coroutine that has not been resumed.
Alive ==
  \A r \in OnWay(queued, kern, cq) : r.own \in Tasks =>
    r.addr \in Addrs /\ addr[r.own] = r.addr /\ outcome[r.own] = "none"
Frames ==
  /\ \A t, u \in Tasks : addr[t] \in Addrs /\ addr[t] = addr[u] => t = u
  /\ \A t \in Tasks : pc[t] = "new" => addr[t] = None /\ outcome[t] = "none"
  /\ \A t \in Tasks : resumed[t] = IF outcome[t] = "none" THEN 0 ELSE 1

\* A success is passed on only when the kernel has done the operation.
Evidence ==
  /\ \A k \in 1..Len(cq) : cq[k].res = "ok" => <<cq[k].own, cq[k].op>> \in done
  /\ \A t \in Tasks : result[t][1] = "ok" => <<t, 1>> \in done
  /\ \A t \in Linked : outcome[t] = "ok" => <<t, 1>> \in done /\ <<t, 2>> \in done

\* The inductive invariant, on top of HeldInv and RingInv.
WayInv ==
  EnterSucceeds => /\ Shape(queued, kern, cq)
                   /\ Boundaries /\ Alive /\ Frames /\ Evidence

LEMMA WholeUncut ==
  ASSUME NEW q \in Seq(Req), QueueShape(q)
  PROVE  Uncut(q, Len(q))
<1>1. CASE Len(q) = 0
  BY <1>1 DEF Uncut
<1>2. CASE Len(q) /= 0
  <2>1. Len(q) \in 1..Len(q) /\ ~(Len(q) < Len(q))
    BY <1>2
  <2>2. QED
    BY <2>1 DEF Uncut, QueueShape
<1>3. QED
  BY <1>1, <1>2

\* Threads move, and the SQPOLL thread may see the tail.
LEMMA BoundariesKept ==
  ASSUME RingOk, QueueShape(queued), Boundaries,
         UNCHANGED <<head, queued, sqPoll>>, seen' \in {seen, tail},
         \A s \in Threads : /\ InLock(s)' => InLock(s)
                            /\ ~sqPoll => (pc'[s] = "published" <=> pc[s] = "published")
  PROVE  Boundaries'
<1>1. Uncut(queued', Behind(head', seen'))
  <2>1. CASE seen' = seen
    BY <2>1, Zenon DEF Boundaries
  <2>2. CASE seen' = tail
    <3>1. queued \in Seq(Req) /\ Behind(head, tail) = Len(queued)
      BY Zenon DEF RingOk
    <3>2. QED
      BY <2>2, <3>1, WholeUncut
  <2>3. QED
    BY <2>1, <2>2, Zenon
<1>2. \A s, u \in Threads : InLock(s)' /\ InLock(u)' => s = u
  BY Zenon DEF Boundaries
<1>3. ~sqPoll' => /\ \A s \in Threads : pc'[s] = "published" => Len(queued') = Count(s)
                  /\ (\A s \in Threads : pc'[s] /= "published") => queued' = <<>>
  BY DEF Boundaries
<1>4. QED
  BY <1>1, <1>2, <1>3, Zenon DEF Boundaries

LEMMA WayInit == Init => WayInv
<1> SUFFICES ASSUME Init PROVE WayInv
  OBVIOUS
<1>1. /\ queued = <<>> /\ kern = {} /\ cq = <<>> /\ head = 0 /\ seen = 0
      /\ \A s \in Threads : pc[s] \in {"creating", "new"}
  BY Zenon DEF Init
<1>2. Shape(queued, kern, cq)
  BY <1>1 DEF Shape, QueueShape, KernShape, CqShape, QueueApart, KernApart
<1>3. Behind(0, 0) = 0
  <2>1. 0 \in Index
    BY UringAssumption DEF Index
  <2>2. QED
    BY <2>1, BehindIs
<1>4. Boundaries
  BY <1>1, <1>3, Zenon DEF Boundaries, Uncut, InLock
<1>5. Alive
  <2>1. OnWay(queued, kern, cq) = {}
    <3>1. Range(<<>>) = {}
      BY DEF Range
    <3>2. QED
      BY <1>1, <3>1 DEF OnWay
  <2>2. QED
    BY <2>1 DEF Alive
<1>6. Frames
  BY UringAssumption DEF Init, Frames
<1>7. Evidence
  BY <1>1, UringAssumption DEF Init, Evidence
<1>8. QED
  BY <1>2, <1>4, <1>5, <1>6, <1>7 DEF WayInv

\* Steps that touch neither the ring nor the kernel nor the coroutines.
LEMMA QuietWay ==
  ASSUME RingInv, WayInv, EnterSucceeds,
         UNCHANGED <<head, queued, kern, cq, done, sqPoll, taskVars>>, seen' \in {seen, tail},
         \A s \in Threads : /\ InLock(s)' => InLock(s)
                            /\ ~sqPoll => (pc'[s] = "published" <=> pc[s] = "published"),
         \A t \in Tasks : pc'[t] = "new" => pc[t] = "new"
  PROVE  Shape(queued, kern, cq)' /\ Boundaries' /\ Alive' /\ Frames' /\ Evidence'
<1>1. Shape(queued, kern, cq) /\ Boundaries /\ Alive /\ Frames /\ Evidence
  BY DEF WayInv
<1>2. Boundaries'
  BY <1>1, BoundariesKept, ZenonT(30) DEF RingInv, Shape
<1>3. Frames'
  BY <1>1, Zenon DEF Frames, taskVars
<1>4. Alive' /\ Evidence'
  BY <1>1, ZenonT(30) DEF Alive, Evidence, taskVars
<1>5. QED
  BY <1>1, <1>2, <1>3, <1>4, Zenon

\* Nothing of a coroutine that has not submitted yet is on its way.
LEMMA NothingBefore ==
  ASSUME RingInv, Alive, Frames, NEW t \in Tasks, pc[t] = "new"
  PROVE  /\ \A r \in OnWay(queued, kern, cq) : r.own /= t
         /\ \A k \in 1..Len(queued) : queued[k].own /= t
         /\ \A k \in 1..Len(cq) : cq[k].own /= t
         /\ \A ch \in kern : Owner(ch) /= t
<1>1. addr[t] = None /\ None \notin Addrs
  BY UringAssumption, Zenon DEF Frames
<1>2. \A r \in OnWay(queued, kern, cq) : r.own /= t
  BY <1>1 DEF Alive
<1>3. queued \in Seq(Req) /\ cq \in Seq(Cqe) /\ kern \in SUBSET Chains
  BY DEF RingInv, RingOk, KernTypes
<1>4. ASSUME NEW r
      PROVE  r \in OnWay(queued, kern, cq) <=>
               \/ \E k \in 1..Len(queued) : r = queued[k]
               \/ \E k \in 1..Len(cq) : r = cq[k]
               \/ \E ch \in kern : \E k \in 1..Len(ch) : r = ch[k]
  <2>1. r \in OnWay(queued, kern, cq) <=> Found(r, queued, kern, cq)
    BY <1>3, OnWayFound, Zenon
  <2>2. QED
    BY <2>1, Zenon DEF Found
<1>5. ASSUME NEW ch \in kern
      PROVE  Owner(ch) /= t
  <2>0. ch \in Chains
    BY <1>3
  <2>1. 1 \in 1..Len(ch)
    BY <2>0, ChainFields
  <2>2. QED
    BY <1>2, <1>4, <2>1 DEF Owner
<1>6. QED
  BY <1>2, <1>4, <1>5, Zenon

LEMMA FullWay ==
  ASSUME HeldInv, RingInv, WayInv, EnterSucceeds, NEW s \in Threads, pc[s] = "new",
         SubmitError(s), UNCHANGED <<env, ring, kernVars>>
  PROVE  Shape(queued, kern, cq)' /\ Boundaries' /\ Alive' /\ Frames' /\ Evidence'
<1>1. Shape(queued, kern, cq) /\ Boundaries /\ Alive /\ Frames /\ Evidence
  BY DEF WayInv
<1>2. UNCHANGED <<head, queued, kern, cq, done, sqPoll, seen>>
  BY DEF env, ring, kernVars
<1>3. pc \in [Threads -> ThreadPcs]
  BY DEF HeldInv, HeldTypes
<1>4. CASE s = Closer
  <2>1. pc' = [pc EXCEPT ![s] = "suspended"] /\ UNCHANGED taskVars
    BY <1>4 DEF SubmitError
  <2>2. \A u \in Threads : /\ InLock(u)' => InLock(u)
                           /\ pc'[u] = "published" <=> pc[u] = "published"
    BY <1>3, <2>1 DEF InLock
  <2>3. \A t \in Tasks : pc'[t] = "new" => pc[t] = "new"
    BY <1>3, <1>4, <2>1, UringAssumption DEF Threads
  <2>4. QED
    BY <1>2, <2>1, <2>2, <2>3, QuietWay
<1>5. CASE s /= Closer
  <2>1. s \in Tasks /\ Fails(s)
    BY <1>5 DEF SubmitError, Threads
  <2>2. /\ pc'[s] = "returned" /\ \A u \in Threads : u /= s => pc'[u] = pc[u]
    BY <1>3, <2>1, Zenon DEF Fails
  <2>3. Boundaries'
    <3>1. \A u \in Threads : /\ InLock(u)' => InLock(u)
                             /\ pc'[u] = "published" <=> pc[u] = "published"
      BY <2>2 DEF InLock
    <3>2. QED
      BY <1>1, <1>2, <3>1, BoundariesKept DEF RingInv, Shape
  <2>4. /\ addr'[s] = None /\ outcome'[s] = "error" /\ resumed'[s] = resumed[s] + 1
        /\ \A t \in Tasks : t /= s =>
             addr'[t] = addr[t] /\ outcome'[t] = outcome[t] /\ resumed'[t] = resumed[t]
        /\ result' = result
    BY <2>1, Zenon DEF Fails, RingInv, TaskTypes
  <2>5. Frames'
    <3>1. resumed[s] = 0 /\ None \notin Addrs
      BY <1>1, <2>1, UringAssumption, ZenonT(30) DEF Frames
    <3>2. QED
      BY <1>1, <2>1, <2>2, <2>4, <3>1 DEF Frames, Threads
  <2>6. Alive'
    <3>1. \A r \in OnWay(queued, kern, cq) : r.own /= s
      BY <1>1, <2>1, NothingBefore, ZenonT(30)
    <3>2. QED
      BY <1>1, <1>2, <2>4, <3>1, ZenonT(30) DEF Alive
  <2>7. Evidence'
    BY <1>1, <1>2, <2>4, UringAssumption, Zenon DEF Evidence
  <2>8. QED
    BY <1>1, <1>2, <2>3, <2>5, <2>6, <2>7
<1>6. QED
  BY <1>4, <1>5

LEMMA PublishWay ==
  ASSUME HeldInv, RingInv, RingInv', WayInv, EnterSucceeds,
         NEW s \in Threads, pc[s] = "new", ~Locked,
         NEW a, s = Closer \/ a \in Addrs \ Range(addr),
         Publish(Requests(s, a)), UNCHANGED <<env, kernVars, result, outcome, resumed>>,
         pc' = [pc EXCEPT ![s] = "published"],
         addr' = IF s = Closer THEN addr ELSE [addr EXCEPT ![s] = a]
  PROVE  Shape(queued, kern, cq)' /\ Boundaries' /\ Alive' /\ Frames' /\ Evidence'
<1> DEFINE R == Requests(s, a)
<1>1. Shape(queued, kern, cq) /\ Boundaries /\ Alive /\ Frames /\ Evidence
  BY Zenon DEF WayInv
<1>2. /\ queued' = queued \o R /\ head' = head /\ seen' \in {seen, tail'}
      /\ UNCHANGED <<kern, cq, done, sqPoll>>
  BY DEF Publish, env, kernVars
<1>3. /\ pc'[s] = "published" /\ \A u \in Threads : u /= s => pc'[u] = pc[u]
  BY Zenon DEF HeldInv, HeldTypes
<1>4. queued \in Seq(Req) /\ R \in Seq(Req) /\ Len(R) = Count(s) /\ Count(s) \in {1, 2}
  BY RequestsType DEF RingInv, RingOk, Count
<1>5. s \in Tasks => /\ \A r \in OnWay(queued, kern, cq) : r.own /= s
                     /\ \A k \in 1..Len(queued) : queued[k].own /= s
                     /\ \A k \in 1..Len(cq) : cq[k].own /= s
                     /\ \A ch \in kern : Owner(ch) /= s
  BY <1>1, NothingBefore, Zenon
<1>6. s \in Tasks <=> s /= Closer
  BY UringAssumption DEF Threads
<1>7. /\ QueueShape(queued')
      /\ \A k \in 1..Count(s) : R[k].own = s /\ (s \in Tasks => R[k].addr = a)
  <2>1. s = Closer \/ a \in Addrs
    OBVIOUS
  <2>2. QueueShape(queued)
    BY <1>1, Zenon DEF Shape
  <2>3. QED
    BY <1>2, <1>4, <1>5, <2>1, <2>2, SubmissionShape, Zenon
<1> HIDE DEF R
<1>8. ASSUME NEW k \in 1..Len(queued')
      PROVE  \/ k \in 1..Len(queued) /\ queued'[k] = queued[k]
             \/ queued'[k].own = s /\ (s \in Tasks => queued'[k].addr = a)
  <2>1. Len(queued') = Len(queued) + Len(R) /\ Len(queued) \in Nat
    BY <1>2, <1>4
  <2>2. CASE k <= Len(queued)
    BY <1>2, <1>4, <2>1, <2>2
  <2>3. CASE k > Len(queued)
    <3>1. k - Len(queued) \in 1..Len(R) /\ queued'[k] = R[k - Len(queued)]
      BY <1>2, <1>4, <2>1, <2>3
    <3>2. QED
      BY <1>4, <1>7, <3>1, Zenon
  <2>4. QED
    BY <2>1, <2>2, <2>3
<1>9. Shape(queued, kern, cq)'
  <2>1. QueueApart(queued', kern, cq)
    BY <1>1, <1>5, <1>8, Zenon DEF Shape, QueueApart
  <2>2. QED
    BY <1>1, <1>2, <1>7, <2>1 DEF Shape
<1>10. Boundaries'
  <2>1. ASSUME NEW u \in Threads
        PROVE  ~InLock(u) /\ (InLock(u)' <=> u = s)
    BY <1>3 DEF Locked, InLock
  <2>2. Uncut(queued', Behind(head', seen'))
    <3>1. CASE seen' = seen
      <4>1. Behind(head, seen) \in 0..Len(queued)
        <5>1. Behind(head, seen) \in Index /\ Behind(head, seen) <= Len(queued)
          BY BehindIs DEF RingInv, RingOk
        <5>2. QED
          BY <1>4, <5>1, UringAssumption DEF Index
      <4>2. \A k \in 1..Len(queued) : queued'[k] = queued[k]
        <5>1. \A k \in 1..Len(queued) : (queued \o R)[k] = queued[k]
          BY <1>4
        <5>2. QED
          BY <1>2, <5>1, Zenon DEF R
      <4>3. Uncut(queued, Behind(head, seen))
        BY <1>1, Zenon DEF Boundaries
      <4>4. QED
        BY <1>2, <3>1, <4>1, <4>2, <4>3 DEF Uncut
    <3>2. CASE seen' = tail'
      <4>1. Behind(head', tail') = Len(queued') /\ queued' \in Seq(Req)
        BY DEF RingInv, RingOk
      <4>2. QED
        BY <1>7, <3>2, <4>1, WholeUncut, Zenon
    <3>3. QED
      BY <1>2, <3>1, <3>2, Zenon
  <2>3. ASSUME ~sqPoll
        PROVE  Len(queued') = Count(s)
    <3>1. queued = <<>>
      BY <1>1, <2>1, <2>3 DEF Boundaries, InLock
    <3>2. QED
      BY <1>2, <1>4, <3>1
  <2>4. \A u \in Threads : pc'[u] = "published" => u = s
    BY <2>1 DEF InLock
  <2>5. \A u, v \in Threads : InLock(u)' /\ InLock(v)' => u = v
    BY <2>1, Zenon
  <2>6. QED
    BY <1>2, <1>3, <2>2, <2>3, <2>4, <2>5 DEF Boundaries
<1>11. s \in Tasks => /\ addr'[s] = a /\ a \in Addrs /\ \A t \in Tasks : addr[t] /= a
                      /\ outcome[s] = "none"
  <2> SUFFICES ASSUME s \in Tasks
               PROVE  /\ addr'[s] = a /\ a \in Addrs /\ \A t \in Tasks : addr[t] /= a
                      /\ outcome[s] = "none"
    OBVIOUS
  <2>1. a \in Addrs /\ a \notin Range(addr) /\ addr' = [addr EXCEPT ![s] = a] /\ DOMAIN addr = Tasks
    BY <1>6 DEF RingInv, TaskTypes
  <2>2. \A t \in Tasks : addr[t] /= a
    BY <2>1 DEF Range
  <2>3. QED
    BY <1>1, <2>1, <2>2, Zenon DEF Frames
<1>12. \A t \in Tasks : t /= s => addr'[t] = addr[t]
  BY DEF RingInv, TaskTypes
<1>13. Frames'
  <2>1. \A t, u \in Tasks : addr'[t] \in Addrs /\ addr'[t] = addr'[u] => t = u
    BY <1>1, <1>11, <1>12 DEF Frames
  <2>2. \A t \in Tasks : pc'[t] = "new" => addr'[t] = None /\ outcome'[t] = "none"
    BY <1>1, <1>3, <1>12 DEF Frames, Threads
  <2>3. QED
    BY <1>1, <2>1, <2>2, ZenonT(30) DEF Frames
<1>14. Alive'
  <2> SUFFICES ASSUME NEW r \in OnWay(queued', kern, cq), r.own \in Tasks
               PROVE  r.addr \in Addrs /\ addr'[r.own] = r.addr /\ outcome[r.own] = "none"
    BY <1>2, Zenon DEF Alive
  <2>1. queued' \in Seq(Req) /\ cq \in Seq(Cqe) /\ kern \in SUBSET Chains
    BY DEF RingInv, RingOk, KernTypes
  <2>2. \/ \E k \in 1..Len(queued') : r = queued'[k]
        \/ \E k \in 1..Len(cq) : r = cq[k]
        \/ \E ch \in kern : \E k \in 1..Len(ch) : r = ch[k]
    <3>1. ASSUME NEW q \in Seq(Req), r \in OnWay(q, kern, cq)
          PROVE  \/ \E k \in 1..Len(q) : r = q[k]
                 \/ \E k \in 1..Len(cq) : r = cq[k]
                 \/ \E ch \in kern : \E k \in 1..Len(ch) : r = ch[k]
      <4>1. r \in OnWay(q, kern, cq) <=> Found(r, q, kern, cq)
        BY <2>1, OnWayFound, Zenon
      <4>2. QED
        BY <3>1, <4>1, Zenon DEF Found
    <3>2. QED
      BY <2>1, <3>1, ZenonT(30)
  <2>3. r \in OnWay(queued, kern, cq) \/ (r.own = s /\ (s \in Tasks => r.addr = a))
    <3>1. ASSUME \/ \E k \in 1..Len(queued) : r = queued[k]
                 \/ \E k \in 1..Len(cq) : r = cq[k]
                 \/ \E ch \in kern : \E k \in 1..Len(ch) : r = ch[k]
          PROVE  r \in OnWay(queued, kern, cq)
      BY <1>4, <2>1, <3>1, OnWayIs, ZenonT(30)
    <3>2. QED
      BY <1>8, <2>2, <3>1, ZenonT(30)
  <2>4. CASE r \in OnWay(queued, kern, cq)
    <3>1. r.own /= s
      BY <1>5, <2>4, Zenon
    <3>2. QED
      BY <1>1, <1>12, <2>4, <3>1, ZenonT(30) DEF Alive
  <2>5. CASE r.own = s /\ (s \in Tasks => r.addr = a)
    BY <1>11, <2>5, Zenon
  <2>6. QED
    BY <2>3, <2>4, <2>5, Zenon
<1>15. Evidence'
  BY <1>1, <1>2, Zenon DEF Evidence
<1>16. QED
  BY <1>9, <1>10, <1>13, <1>14, <1>15

LEMMA SubmitWay ==
  ASSUME HeldInv, RingInv, RingInv', WayInv, EnterSucceeds, NEW s \in Threads, Submit(s)
  PROVE  Shape(queued, kern, cq)' /\ Boundaries' /\ Alive' /\ Frames' /\ Evidence'
<1>1. pc[s] = "new" /\ ~Locked /\ UNCHANGED <<env, kernVars>>
  BY Zenon DEF Submit, MaySubmit
<1>2. CASE SubmitError(s) /\ UNCHANGED ring
  BY <1>1, <1>2, FullWay
<1>3. CASE /\ pc' = [pc EXCEPT ![s] = "published"]
           /\ IF s = Closer
              THEN Publish(Requests(s, None)) /\ UNCHANGED addr
              ELSE \E a \in Addrs \ Range(addr) :
                     Publish(Requests(s, a)) /\ addr' = [addr EXCEPT ![s] = a]
           /\ UNCHANGED <<result, outcome, resumed, ringOpen, released>>
  <2>1. UNCHANGED <<env, kernVars, result, outcome, resumed>>
    BY <1>1, <1>3
  <2>2. CASE s = Closer
    <3>1. Publish(Requests(s, None)) /\ addr' = addr
      BY <1>3, <2>2
    <3>2. QED
      BY <1>1, <1>3, <2>1, <2>2, <3>1, PublishWay, Zenon
  <2>3. CASE s /= Closer
    <3>1. PICK a \in Addrs \ Range(addr) :
            Publish(Requests(s, a)) /\ addr' = [addr EXCEPT ![s] = a]
      BY <1>3, <2>3, Zenon
    <3>2. QED
      BY <1>1, <1>3, <2>1, <2>3, <3>1, PublishWay, ZenonT(30)
  <2>4. QED
    BY <2>2, <2>3
<1>4. QED
  BY <1>2, <1>3 DEF Submit

\* The kernel takes whole submissions.
LEMMA TakeWay ==
  ASSUME RingInv, RingInv', WayInv, EnterSucceeds, NEW n \in 0..Len(queued), Uncut(queued, n),
         queued' = SubSeq(queued, n + 1, Len(queued)),
         kern' = kern \cup ChainsOf(SubSeq(queued, 1, n)),
         UNCHANGED <<cq, done, taskVars>>,
         \A t \in Tasks : pc'[t] = "new" => pc[t] = "new"
  PROVE  Shape(queued, kern, cq)' /\ Alive' /\ Frames' /\ Evidence'
<1>1. Shape(queued, kern, cq) /\ Alive /\ Frames /\ Evidence
  BY Zenon DEF WayInv
<1>2. queued \in Seq(Req) /\ cq \in Seq(Cqe) /\ kern \in SUBSET Chains
  BY DEF RingInv, RingOk, KernTypes
<1>3. /\ Shape(SubSeq(queued, n + 1, Len(queued)), kern \cup ChainsOf(SubSeq(queued, 1, n)), cq)
      /\ OnWay(SubSeq(queued, n + 1, Len(queued)), kern \cup ChainsOf(SubSeq(queued, 1, n)), cq)
           \subseteq OnWay(queued, kern, cq)
  BY <1>1, <1>2, TakeShape, Zenon
<1>4. Shape(queued', kern', cq') /\ OnWay(queued', kern', cq') \subseteq OnWay(queued, kern, cq)
  BY <1>3, Zenon
<1>5. Alive'
  BY <1>1, <1>4, Zenon DEF Alive, taskVars
<1>6. Frames' /\ Evidence'
  BY <1>1, Zenon DEF Frames, Evidence, taskVars
<1>7. QED
  BY <1>4, <1>5, <1>6, Zenon

LEMMA EnterWay ==
  ASSUME HeldInv, RingInv, RingInv', WayInv, EnterSucceeds, NEW s \in Threads, Enter(s)
  PROVE  Shape(queued, kern, cq)' /\ Boundaries' /\ Alive' /\ Frames' /\ Evidence'
<1> DEFINE n == IF Count(s) < Pending(tail) THEN Count(s) ELSE Pending(tail)
<1>1. Shape(queued, kern, cq) /\ Boundaries
  BY DEF WayInv
<1>2. /\ pc[s] = "published" /\ ~sqPoll /\ sqPoll' = sqPoll /\ seen' = tail /\ Take(n)
      /\ pc' = [pc EXCEPT ![s] = "suspended"] /\ UNCHANGED taskVars
  BY DEF Enter, EnterSucceeds, env
<1>3. /\ queued \in Seq(Req) /\ Len(queued) \in Nat /\ Len(queued) = Count(s)
      /\ Pending(tail) = Len(queued)
  BY <1>1, <1>2 DEF RingInv, RingOk, Boundaries, Pending, Behind
<1>4. n = Len(queued)
  BY <1>3
<1> HIDE DEF n
<1>5. Uncut(queued, n)
  BY <1>1, <1>3, <1>4, WholeUncut DEF Shape
<1>6. n \in 0..Len(queued)
  BY <1>3, <1>4
<1>7. /\ kern' = kern \cup ChainsOf(SubSeq(queued, 1, n))
      /\ queued' = SubSeq(queued, n + 1, Len(queued))
  BY <1>2, <1>6, TakeKeeps DEF RingInv
<1>8. UNCHANGED <<cq, done>> /\ tail' = tail
  BY <1>2 DEF Take
<1>9. pc'[s] = "suspended" /\ \A u \in Threads : u /= s => pc'[u] = pc[u]
  BY <1>2 DEF HeldInv, HeldTypes
<1>10. Shape(queued, kern, cq)' /\ Alive' /\ Frames' /\ Evidence'
  <2>1. \A t \in Tasks : pc'[t] = "new" => pc[t] = "new"
    BY <1>9 DEF Threads
  <2>2. QED
    BY <1>2, <1>5, <1>6, <1>7, <1>8, <2>1, TakeWay, ZenonT(30)
<1>11. queued' = <<>>
  BY <1>3, <1>4, <1>7
<1>12. Boundaries'
  <2>1. Behind(head', seen') = 0
    <3>1. Len(queued') = Behind(head', tail')
      BY Zenon DEF RingInv, RingOk
    <3>2. QED
      BY <1>2, <1>8, <1>11, <3>1
  <2>2. ASSUME NEW u \in Threads
        PROVE  ~InLock(u)'
    <3>1. InLock(s)
      BY <1>2 DEF InLock
    <3>2. QED
      BY <1>1, <1>9, <3>1, Zenon DEF Boundaries, InLock
  <2>3. QED
    BY <1>11, <2>1, <2>2 DEF Boundaries, Uncut, InLock
<1>13. QED
  BY <1>10, <1>12

LEMMA PollTakeWay ==
  ASSUME HeldInv, RingInv, RingInv', WayInv, EnterSucceeds, PollTake
  PROVE  Shape(queued, kern, cq)' /\ Boundaries' /\ Alive' /\ Frames' /\ Evidence'
<1> DEFINE n == Behind(head, seen)
<1>1. Boundaries
  BY DEF WayInv
<1>2. sqPoll /\ Take(n) /\ UNCHANGED <<sqPoll, seen, pc, taskVars>>
  BY DEF PollTake, Pending, Behind, env
<1>3. /\ head \in Index /\ seen \in Index /\ n \in Nat /\ n \in 0..Len(queued) /\ n \in 0..Entries
  <2>1. /\ head \in Index /\ seen \in Index /\ n <= Len(queued) /\ Len(queued) <= Entries
        /\ Len(queued) \in Nat
    BY DEF RingInv, RingOk
  <2>2. n \in Index
    BY <2>1, BehindIs
  <2>3. QED
    BY <2>1, <2>2, UringAssumption DEF Index
<1>4. Uncut(queued, n)
  BY <1>1 DEF Boundaries
<1>5. /\ kern' = kern \cup ChainsOf(SubSeq(queued, 1, n))
      /\ queued' = SubSeq(queued, n + 1, Len(queued))
  BY <1>2, <1>3, TakeKeeps DEF RingInv
<1>6. UNCHANGED <<cq, done>> /\ head' = Advance(head, n)
  BY <1>2 DEF Take
<1>7. Shape(queued, kern, cq)' /\ Alive' /\ Frames' /\ Evidence'
  BY <1>2, <1>3, <1>4, <1>5, <1>6, TakeWay, Zenon
<1>8. Behind(head', seen') = 0
  <2>1. Behind(Advance(head, n), seen) = Behind(head, seen) - n
    BY <1>3, BehindShrinks
  <2>2. QED
    BY <1>2, <1>3, <1>6, <2>1
<1>9. Boundaries'
  BY <1>1, <1>2, <1>8, Zenon DEF Boundaries, Uncut, InLock
<1>10. QED
  BY <1>7, <1>9

LEMMA WakeWay ==
  ASSUME HeldInv, RingInv, WayInv, EnterSucceeds, NEW s \in Threads,
         WakeSqPollIfNeeded(s) \/ Unlock(s)
  PROVE  Shape(queued, kern, cq)' /\ Boundaries' /\ Alive' /\ Frames' /\ Evidence'
<1>1. /\ UNCHANGED <<head, queued, kern, cq, done, sqPoll, taskVars>> /\ seen' \in {seen, tail}
  BY DEF WakeSqPollIfNeeded, Unlock, EnterSucceeds, env, kernVars
<1>2. \/ sqPoll /\ pc[s] = "published" /\ pc' = [pc EXCEPT ![s] = "unlocking"]
      \/ pc[s] = "unlocking" /\ pc' = [pc EXCEPT ![s] = "suspended"]
  BY DEF WakeSqPollIfNeeded, Unlock, EnterSucceeds
<1>3. pc \in [Threads -> ThreadPcs]
  BY DEF HeldInv, HeldTypes
<1>4. \A u \in Threads : /\ InLock(u)' => InLock(u)
                         /\ ~sqPoll => (pc'[u] = "published" <=> pc[u] = "published")
  BY <1>2, <1>3 DEF InLock
<1>5. \A t \in Tasks : pc'[t] = "new" => pc[t] = "new"
  BY <1>2, <1>3 DEF Threads
<1>6. QED
  BY <1>1, <1>4, <1>5, QuietWay

LEMMA PostWay ==
  ASSUME RingInv, RingInv', WayInv, EnterSucceeds, NEW ch \in kern, KernelComplete(ch)
  PROVE  Shape(queued, kern, cq)' /\ Boundaries' /\ Alive' /\ Frames' /\ Evidence'
<1> DEFINE cqe(r, res) == [own |-> r.own, addr |-> r.addr, op |-> r.op, res |-> res]
<1>1. Shape(queued, kern, cq) /\ Boundaries /\ Alive /\ Frames /\ Evidence
  BY DEF WayInv
<1>2. UNCHANGED <<head, seen, queued, sqPoll, pc, taskVars>>
  BY Zenon DEF KernelComplete, ring, env
<1>3. queued \in Seq(Req) /\ cq \in Seq(Cqe) /\ kern \in SUBSET Chains /\ ch \in Chains
  BY DEF RingInv, RingOk, KernTypes
<1>4. ch \in Seq(Req) /\ Len(ch) \in {1, 2} /\ DOMAIN ch = 1..Len(ch) /\ Head(ch) = ch[1]
  BY <1>3, ChainFields
<1>5. ASSUME NEW r \in Req, NEW res \in {"ok", "fail"}
      PROVE  /\ cqe(r, res) \in Cqe /\ cqe(r, res).own = r.own /\ cqe(r, res).addr = r.addr
             /\ cqe(r, res).op = r.op /\ cqe(r, res).res = res
  BY DEF Req, Request, Nop, Cqe, Threads
<1> HIDE DEF cqe
<1>6. PICK m \in 1..Len(ch), e \in Seq(Cqe) :
        /\ Posted(ch, m, e) /\ cq' = cq \o e /\ kern' = Left(kern, ch, m)
        /\ done \subseteq done'
        /\ \A i \in 1..m : e[i].res = "ok" => <<e[i].own, e[i].op>> \in done'
  <2>1. CASE /\ cq' = Append(cq, cqe(Head(ch), "ok"))
             /\ kern' = (kern \ {ch}) \cup (IF Len(ch) = 1 THEN {} ELSE {Tail(ch)})
             /\ done' = done \cup {<<Head(ch).own, Head(ch).op>>}
    <3> DEFINE x == cqe(Head(ch), "ok")
    <3>1. /\ x \in Cqe /\ x.own = ch[1].own /\ x.addr = ch[1].addr /\ x.op = ch[1].op
      <4>1. ch[1] \in Req /\ "ok" \in {"ok", "fail"}
        BY <1>4
      <4>2. QED
        BY <1>4, <1>5, <4>1, Zenon
    <3> HIDE DEF x
    <3>2. /\ <<x>> \in Seq(Cqe) /\ Len(<<x>>) = 1 /\ Append(cq, x) = cq \o <<x>>
          /\ 1 \in 1..Len(ch) /\ \A i \in 1..1 : i = 1 /\ <<x>>[i] = x
      <4>1. 1 \in 1..Len(ch)
        BY <1>4
      <4>2. Append(cq, x) = cq \o <<x>>
        BY <1>3, <3>1
      <4>3. \A i \in 1..1 : i = 1 /\ <<x>>[i] = x
        OBVIOUS
      <4>4. <<x>> \in Seq(Cqe) /\ Len(<<x>>) = 1
        BY <3>1
      <4>5. QED
        BY <4>1, <4>2, <4>3, <4>4, Zenon
    <3>3. kern' = Left(kern, ch, 1)
      BY <1>4, <2>1 DEF Rest, Left
    <3>4. cq' = cq \o <<x>>
      BY <2>1, <3>2 DEF x
    <3>5. done \subseteq done' /\ <<x.own, x.op>> \in done'
      BY <1>4, <2>1, <3>1, Zenon
    <3>6. /\ Posted(ch, 1, <<x>>)
          /\ \A i \in 1..1 : <<x>>[i].res = "ok" => <<<<x>>[i].own, <<x>>[i].op>> \in done'
      BY <3>1, <3>2, <3>5, Zenon DEF Posted
    <3>7. QED
      BY <3>2, <3>3, <3>4, <3>5, <3>6, Zenon
  <2>2. CASE /\ cq' = cq \o [k \in DOMAIN ch |-> cqe(ch[k], "fail")]
             /\ kern' = kern \ {ch}
             /\ UNCHANGED done
    <3> DEFINE e == [k \in DOMAIN ch |-> cqe(ch[k], "fail")]
    <3>1. ASSUME NEW k \in 1..Len(ch)
          PROVE  /\ e[k] \in Cqe /\ e[k].own = ch[k].own /\ e[k].addr = ch[k].addr
                 /\ e[k].op = ch[k].op /\ e[k].res = "fail"
      BY <1>4, <1>5
    <3>2. e \in Seq(Cqe) /\ Len(e) = Len(ch)
      BY <1>4, <3>1
    <3>3. cq' = cq \o e
      BY <2>2
    <3> HIDE DEF e
    <3>4. kern' = Left(kern, ch, Len(ch)) /\ Len(ch) \in 1..Len(ch) /\ done' = done
      BY <1>4, <2>2 DEF Rest, Left
    <3>5. \A i \in 1..Len(ch) : e[i].res = "ok" => <<e[i].own, e[i].op>> \in done'
      BY <3>1, Zenon
    <3>6. Posted(ch, Len(ch), e)
      BY <3>1, <3>2 DEF Posted
    <3>7. QED
      BY <3>2, <3>3, <3>4, <3>5, <3>6, Zenon
  <2>3. QED
    BY <2>1, <2>2, Zenon DEF KernelComplete, cqe
<1>7. Shape(queued, kern', cq') /\ SameFrames(queued, kern', cq', kern, cq)
  <2>1. Posted(ch, m, e) /\ cq' = cq \o e /\ kern' = Left(kern, ch, m)
    BY <1>6
  <2>2. Shape(queued, kern, cq)
    BY <1>1
  <2>3. /\ Shape(queued, Left(kern, ch, m), cq \o e)
        /\ SameFrames(queued, Left(kern, ch, m), cq \o e, kern, cq)
    BY <1>3, <2>1, <2>2, PostShape, Zenon
  <2>4. QED
    BY <2>1, <2>3, Zenon
<1>8. Alive'
  BY <1>1, <1>2, <1>7 DEF Alive, SameFrames, taskVars
<1>9. Boundaries' /\ Frames'
  BY <1>1, <1>2, ZenonT(30) DEF Boundaries, InLock, Frames, taskVars
<1>10. Evidence'
  <2>1. \A k \in 1..Len(cq') : cq'[k].res = "ok" => <<cq'[k].own, cq'[k].op>> \in done'
    <3> SUFFICES ASSUME NEW k \in 1..Len(cq'), cq'[k].res = "ok"
                 PROVE  <<cq'[k].own, cq'[k].op>> \in done'
      OBVIOUS
    <3>1. Len(cq') = Len(cq) + m /\ Len(cq) \in Nat /\ m \in Nat
      <4>1. cq' = cq \o e /\ Len(e) = m
        BY <1>6 DEF Posted
      <4>2. ASSUME NEW a \in Seq(Cqe), NEW b \in Seq(Cqe)
            PROVE  Len(a \o b) = Len(a) + Len(b) /\ Len(a) \in Nat /\ Len(b) \in Nat
        OBVIOUS
      <4>3. Len(cq \o e) = Len(cq) + Len(e) /\ Len(cq) \in Nat /\ Len(e) \in Nat
        BY <1>3, <4>2
      <4>4. QED
        BY <4>1, <4>3, Zenon
    <3>2. CASE k <= Len(cq)
      <4>1. k \in 1..Len(cq) /\ cq'[k] = cq[k]
        BY <1>3, <1>6, <3>1, <3>2
      <4>2. QED
        BY <1>1, <1>6, <4>1, ZenonT(30) DEF Evidence
    <3>3. CASE k > Len(cq)
      <4>1. k - Len(cq) \in 1..m /\ cq'[k] = e[k - Len(cq)]
        BY <1>3, <1>6, <3>1, <3>3
      <4>2. QED
        BY <1>6, <4>1, Zenon
    <3>4. QED
      BY <3>1, <3>2, <3>3
  <2>2. QED
    BY <1>1, <1>2, <1>6, <2>1, ZenonT(30) DEF Evidence, taskVars
<1>11. QED
  BY <1>2, <1>7, <1>8, <1>9, <1>10

\* A completion reaches the coroutine it is for, and the one with the
\* continuation is its last.
LEMMA ReapWay ==
  ASSUME HeldInv, RingInv, RingInv', WayInv, EnterSucceeds, CompletionReap
  PROVE  Shape(queued, kern, cq)' /\ Boundaries' /\ Alive' /\ Frames' /\ Evidence'
<1> DEFINE c == Head(cq)
<1>1. Shape(queued, kern, cq) /\ Boundaries /\ Alive /\ Frames /\ Evidence
  BY DEF WayInv
<1>2. /\ cq /= <<>> /\ cq' = Tail(cq)
      /\ UNCHANGED <<head, seen, queued, sqPoll, pc, kern, done>>
  BY ZenonT(30) DEF CompletionReap, ring, env
<1>3. queued \in Seq(Req) /\ cq \in Seq(Cqe) /\ kern \in SUBSET Chains
  BY Zenon DEF RingInv, RingOk, KernTypes
<1>4. /\ Shape(queued, kern, cq')
      /\ OnWay(queued, kern, cq') \subseteq OnWay(queued, kern, cq)
      /\ c \in OnWay(queued, kern, cq)
      /\ c.own \in Tasks /\ c.op = 2 => \A r \in OnWay(queued, kern, cq') : r.own /= c.own
  BY <1>1, <1>2, <1>3, ConsumeShape
<1>5. Boundaries'
  BY <1>1, <1>2 DEF Boundaries, InLock
<1>6. /\ c.own \in Threads /\ c.op \in {1, 2} /\ c.res \in {"ok", "fail"}
      /\ c.res = "ok" => <<c.own, c.op>> \in done
  <2>1. c \in Cqe /\ c = cq[1] /\ 1 \in 1..Len(cq)
    BY <1>2, <1>3
  <2>2. QED
    BY <1>1, <2>1, Zenon DEF Cqe, Evidence
<1>7. \A k \in 1..Len(cq') : cq'[k].res = "ok" => <<cq'[k].own, cq'[k].op>> \in done
  <2> SUFFICES ASSUME NEW k \in 1..Len(cq'), cq'[k].res = "ok"
               PROVE  <<cq'[k].own, cq'[k].op>> \in done
    OBVIOUS
  <2>1. k + 1 \in 1..Len(cq) /\ cq'[k] = cq[k + 1]
    BY <1>2, <1>3
  <2>2. QED
    BY <1>1, <2>1 DEF Evidence
<1> HIDE DEF c
<1>8. CASE UNCHANGED taskVars
  BY <1>1, <1>2, <1>4, <1>5, <1>7, <1>8, Zenon DEF Alive, Frames, Evidence, taskVars
<1>9. CASE c.own /= Closer /\ \E t \in Tasks : addr[t] = c.addr /\ Complete(t, c)
  <2>1. PICK t \in Tasks : addr[t] = c.addr /\ Complete(t, c)
    BY <1>9, Zenon
  <2>2. c.own \in Tasks
    BY <1>6, <1>9, Zenon DEF Threads
  <2>3. c.addr \in Addrs /\ addr[c.own] = c.addr /\ outcome[c.own] = "none"
    BY <1>1, <1>4, <2>2 DEF Alive
  <2>4. t = c.own /\ outcome[t] = "none" /\ resumed[t] = 0
    BY <1>1, <2>1, <2>2, <2>3, Zenon DEF Frames
  <2>5. /\ addr' = addr
        /\ result'[t][c.op] = c.res /\ (c.op /= 1 => result'[t][1] = result[t][1])
        /\ \A u \in Tasks : u /= t => result'[u] = result[u]
    <3>1. result \in [Tasks -> [1..2 -> {"ok", "fail"}]]
      BY DEF RingInv, TaskTypes
    <3>2. result' = [result EXCEPT ![t][c.op] = c.res] /\ addr' = addr
      BY <2>1 DEF Complete
    <3>3. c.op \in 1..2
      BY <1>6
    <3>4. QED
      BY <3>1, <3>2, <3>3
  <2>6. \A u \in Tasks : result'[u][1] = "ok" => <<u, 1>> \in done
    <3>1. ASSUME NEW u \in Tasks, result'[u][1] = "ok", u = t
          PROVE  <<u, 1>> \in done
      <4>1. CASE c.op = 1
        BY <1>6, <2>4, <2>5, <3>1, <4>1
      <4>2. CASE c.op /= 1
        BY <1>1, <2>5, <3>1, <4>2, ZenonT(30) DEF Evidence
      <4>3. QED
        BY <4>1, <4>2, Zenon
    <3>2. ASSUME NEW u \in Tasks, result'[u][1] = "ok", u /= t
          PROVE  <<u, 1>> \in done
      BY <1>1, <2>5, <3>2, Zenon DEF Evidence
    <3>3. QED
      BY <3>1, <3>2
  <2>7. CASE c.op = 2
    <3>1. /\ outcome' = [outcome EXCEPT ![t] = Outcome(t, result'[t])]
          /\ resumed' = [resumed EXCEPT ![t] = @ + 1]
      BY <2>1, <2>7 DEF Complete, HasContinuation
    <3>2. /\ outcome'[t] = Outcome(t, result'[t]) /\ resumed'[t] = 1
          /\ \A u \in Tasks : u /= t => outcome'[u] = outcome[u] /\ resumed'[u] = resumed[u]
      BY <2>4, <3>1 DEF RingInv, TaskTypes
    <3>3. outcome'[t] /= "none"
      BY <3>2, Zenon DEF Outcome
    <3>4. t \in Linked /\ outcome'[t] = "ok" => <<t, 1>> \in done /\ <<t, 2>> \in done
      <4> SUFFICES ASSUME t \in Linked, outcome'[t] = "ok"
                   PROVE  <<t, 1>> \in done /\ <<t, 2>> \in done
        OBVIOUS
      <4>1. result'[t][1] = "ok" /\ result'[t][2] = "ok"
        BY <3>2 DEF Outcome
      <4>2. c.res = "ok"
        BY <2>5, <2>7, <4>1, Zenon
      <4>3. QED
        BY <1>6, <2>4, <2>6, <2>7, <4>1, <4>2
    <3>5. Evidence'
      <4>1. \A u \in Linked : outcome'[u] = "ok" => <<u, 1>> \in done /\ <<u, 2>> \in done
        BY <1>1, <3>2, <3>4, UringAssumption, ZenonT(30) DEF Evidence
      <4>2. QED
        BY <1>2, <1>7, <2>6, <4>1 DEF Evidence
    <3>6. Frames'
      <4>1. pc[t] /= "new"
        BY <1>1, <2>1, <2>3, UringAssumption DEF Frames
      <4>2. QED
        BY <1>1, <1>2, <2>5, <3>2, <3>3, <4>1, ZenonT(30) DEF Frames
    <3>7. Alive'
      <4>1. \A r \in OnWay(queued, kern, cq') : r.own /= t
        BY <1>4, <2>2, <2>4, <2>7
      <4>2. QED
        BY <1>1, <1>2, <1>4, <2>5, <3>2, <4>1, ZenonT(30) DEF Alive
    <3>8. QED
      BY <1>2, <1>4, <1>5, <3>5, <3>6, <3>7
  <2>8. CASE c.op /= 2
    <3>1. UNCHANGED <<outcome, resumed>>
      BY <2>1, <2>8 DEF Complete, HasContinuation
    <3>2. Evidence'
      BY <1>1, <1>2, <1>7, <2>6, <3>1, Zenon DEF Evidence
    <3>3. Frames' /\ Alive'
      BY <1>1, <1>2, <1>4, <2>5, <3>1, ZenonT(30) DEF Frames, Alive
    <3>4. QED
      BY <1>2, <1>4, <1>5, <3>2, <3>3
  <2>9. QED
    BY <2>7, <2>8
<1>10. QED
  BY <1>8, <1>9 DEF CompletionReap, c

\* A frame is destroyed when nothing refers to it any more.
LEMMA ReturnWay ==
  ASSUME HeldInv, RingInv, WayInv, EnterSucceeds, NEW t \in Tasks, Return(t)
  PROVE  Shape(queued, kern, cq)' /\ Boundaries' /\ Alive' /\ Frames' /\ Evidence'
<1>1. Shape(queued, kern, cq) /\ Boundaries /\ Alive /\ Frames /\ Evidence
  BY DEF WayInv
<1>2. /\ pc[t] = "suspended" /\ outcome[t] /= "none"
      /\ UNCHANGED <<head, seen, queued, sqPoll, kern, cq, done, result, outcome, resumed>>
  BY DEF Return, ring, env, kernVars
<1>3. pc'[t] = "returned" /\ \A u \in Threads : u /= t => pc'[u] = pc[u]
  BY DEF Return, HeldInv, HeldTypes, Threads
<1>4. addr'[t] = None /\ \A u \in Tasks : u /= t => addr'[u] = addr[u]
  BY Zenon DEF Return, RingInv, TaskTypes
<1>5. Boundaries'
  <2>1. \A u \in Threads : /\ InLock(u)' => InLock(u)
                           /\ pc'[u] = "published" <=> pc[u] = "published"
    BY <1>2, <1>3 DEF InLock, Threads
  <2>2. QED
    BY <1>1, <1>2, <2>1, BoundariesKept, Zenon DEF RingInv, Shape
<1>6. Alive'
  BY <1>1, <1>2, <1>4, ZenonT(30) DEF Alive
<1>7. Frames'
  BY <1>1, <1>2, <1>3, <1>4, UringAssumption, ZenonT(30) DEF Frames, Threads
<1>8. Evidence'
  BY <1>1, <1>2, ZenonT(30) DEF Evidence
<1>9. QED
  BY <1>1, <1>2, <1>5, <1>6, <1>7, <1>8, Zenon

\* init, the completion thread's waiting and the join leave operations alone.
LEMMA OtherWay ==
  ASSUME HeldInv, RingInv, WayInv, EnterSucceeds,
         \/ SetupRing \/ (\E r \in Regions : Mmap(r)) \/ StartThread \/ DestroyFailed
         \/ CompletionEnter \/ CompletionWoken \/ CompletionDrained
         \/ Join \/ PollSleep \/ UNCHANGED vars
  PROVE  Shape(queued, kern, cq)' /\ Boundaries' /\ Alive' /\ Frames' /\ Evidence'
<1>1. UNCHANGED <<env, ring, taskVars, kernVars>>
  BY Zenon DEF SetupRing, Mmap, StartThread, DestroyFailed, CompletionEnter, CompletionWoken,
     CompletionDrained, Join, PollSleep, vars
<1>2. UNCHANGED <<head, queued, kern, cq, done, sqPoll, taskVars>> /\ seen' \in {seen, tail}
  BY <1>1 DEF env, ring, kernVars
<1>3. \/ UNCHANGED pc
      \/ /\ pc[Closer] \in {"creating", "failed", "suspended"}
         /\ \E v \in {"failed", "new", "returned"} : pc' = [pc EXCEPT ![Closer] = v]
  BY DEF SetupRing, Mmap, StartThread, DestroyFailed, CompletionEnter, CompletionWoken,
     CompletionDrained, Join, PollSleep, vars
<1>4. pc \in [Threads -> ThreadPcs] /\ Closer \in Threads /\ Closer \notin Tasks
  BY UringAssumption DEF HeldInv, HeldTypes, Threads
<1>5. /\ \A u \in Threads : /\ InLock(u)' => InLock(u)
                            /\ pc'[u] = "published" <=> pc[u] = "published"
      /\ \A t \in Tasks : pc'[t] = pc[t]
  BY <1>3, <1>4 DEF InLock, Threads
<1>6. QED
  BY <1>2, <1>5, QuietWay, Zenon

LEMMA WayStep == HeldInv /\ RingInv /\ RingInv' /\ WayInv /\ [Next]_vars => WayInv'
<1> SUFFICES ASSUME HeldInv, RingInv, RingInv', WayInv, [Next]_vars, EnterSucceeds'
             PROVE  Shape(queued, kern, cq)' /\ Boundaries' /\ Alive' /\ Frames' /\ Evidence'
  BY DEF WayInv
<1>1. EnterSucceeds
  <2>1. faults' = faults
    BY Zenon DEF Next, SetupRing, Mmap, StartThread, DestroyFailed, Submit, ThreadStep, Enter,
       WakeSqPollIfNeeded, Unlock, Return, PollTake, PollSleep, KernelComplete,
       CompletionStep, CompletionEnter, CompletionWoken, CompletionReap, CompletionDrained,
       Join, Terminated, env, vars
  <2>2. QED
    BY <2>1 DEF EnterSucceeds
<1>2. CASE \E s \in Threads : Submit(s) \/ ThreadStep(s)
  BY <1>1, <1>2, SubmitWay, EnterWay, WakeWay DEF ThreadStep
<1>3. CASE (\E t \in Tasks : Return(t)) \/ PollTake \/ CompletionReap
  BY <1>1, <1>3, ReturnWay, PollTakeWay, ReapWay
<1>4. CASE \E ch \in kern : KernelComplete(ch)
  BY <1>1, <1>4, PostWay
<1>5. CASE \/ SetupRing \/ (\E r \in Regions : Mmap(r)) \/ StartThread \/ DestroyFailed
           \/ CompletionEnter \/ CompletionWoken \/ CompletionDrained
           \/ Join \/ PollSleep \/ UNCHANGED vars
  BY <1>1, <1>5, OtherWay, Zenon
<1>6. QED
  BY <1>2, <1>3, <1>4, <1>5, Zenon DEF Next, Terminated, CompletionStep

-----------------------------------------------------------------------------
(***************************************************************************)
(* What init acquires, closeRing releases.                                 *)
(***************************************************************************)
LEMMA HeldInit == Init => HeldInv
<1> SUFFICES ASSUME Init PROVE HeldInv
  OBVIOUS
<1> USE UringAssumption DEF Init
<1>1. HeldTypes
  BY Zenon DEF HeldTypes, ThreadPcs, CompletionPcs
<1>2. pc[Closer] = "creating" /\ \A t \in Tasks : pc[t] = "new"
  BY DEF Threads
<1>3. Pointers /\ Creating
  BY DEF Pointers, Creating
<1>4. QED
  BY <1>1, <1>2, <1>3 DEF HeldInv, Failed, InUse, Gone, CallsInside

\* init, one step at a time.
LEMMA SetupStep ==
  ASSUME HeldInv, SetupRing
  PROVE  HeldInv'
<1> USE UringAssumption DEF HeldInv, SetupRing
<1>1. HeldTypes'
  BY Zenon DEF HeldTypes, ThreadPcs
<1>2. pc'[Closer] \in {"creating", "failed"} /\ \A t \in Tasks : pc'[t] = pc[t]
  BY DEF HeldTypes, Threads
<1>3. CASE pc' = pc
  <2>1. ringOpen' /\ acquired' = {"fd"} /\ UNCHANGED <<pc, hasState, ptr, released, cpc>>
    BY <1>3 DEF Creating, HeldTypes, Threads
  <2>2. \A r \in Regions : ptr[r] = None
    BY DEF Creating
  <2>3. Pointers' /\ Creating'
    BY <2>1, <2>2 DEF Pointers, Creating
  <2>4. QED
    BY <1>1, <1>2, <2>1, <2>3 DEF Failed, InUse, Gone, CallsInside
<1>4. CASE pc' /= pc
  <2>1. ~hasState' /\ pc'[Closer] = "failed" /\ UNCHANGED <<ringOpen, acquired, ptr, released, cpc>>
    BY <1>4 DEF HeldTypes, Threads
  <2>2. acquired = {} /\ ~ringOpen /\ cpc = "none" /\ \A r \in Resources : released[r] = 0
    BY DEF Creating, Pointers, HeldTypes
  <2>3. Failed'
    BY <2>1, <2>2 DEF Failed, AllReleased
  <2>4. Pointers'
    BY <2>1 DEF Pointers
  <2>5. QED
    BY <1>1, <1>2, <2>1, <2>3, <2>4 DEF Creating, InUse, Gone, CallsInside
<1>5. QED
  BY <1>3, <1>4

\* closeRing releases exactly what was acquired.
LEMMA ReleaseAll ==
  ASSUME HeldTypes, Pointers, Release,
         \A r \in Regions : released[r] = 0,
         released["fd"] = IF "fd" \in acquired /\ ~ringOpen THEN 1 ELSE 0,
         ringOpen => "fd" \in acquired
  PROVE  /\ released' \in [Resources -> Nat] /\ AllReleased'
         /\ Pointers' /\ ~ringOpen' /\ ~hasState'
         /\ UNCHANGED <<ptr, acquired>>
<1>1. /\ ~ringOpen' /\ ~hasState' /\ UNCHANGED <<ptr, acquired>>
  BY DEF Release
<1>2. Pointers'
  BY <1>1 DEF Pointers
<1>3. released'["fd"] = IF "fd" \in acquired THEN 1 ELSE 0
  BY UringAssumption DEF Release, Pointers, CqUnmapped
<1>4. ASSUME NEW r \in Regions
      PROVE  released'[r] = IF r \in acquired THEN 1 ELSE 0
  <2>1. released'[r] = (IF ptr["sqes"] = r THEN 1 ELSE 0)
                         + (IF CqUnmapped = r THEN 1 ELSE 0)
                         + (IF ptr["sq"] = r THEN 1 ELSE 0)
    BY DEF Release
  <2>2. QED
    BY <2>1, UringAssumption DEF Pointers, CqUnmapped
<1>5. released' \in [Resources -> Nat]
  <2>1. released' = [r \in Resources |-> released'[r]]
    BY DEF Release
  <2>2. \A r \in Resources : released'[r] \in Nat
    BY <1>3, <1>4
  <2>3. QED
    BY <2>1, <2>2
<1>6. QED
  BY <1>1, <1>2, <1>3, <1>4, <1>5 DEF AllReleased

LEMMA MmapStep ==
  ASSUME HeldInv, NEW r \in Regions, Mmap(r)
  PROVE  HeldInv'
<1> USE UringAssumption DEF HeldInv
<1>1. /\ pc[Closer] = "creating" /\ ringOpen /\ hasState /\ cpc = "none" /\ cpc' = cpc
      /\ "fd" \in acquired /\ \A q \in Resources : released[q] = 0
  BY DEF Mmap, Creating
<1>2. CASE pc' = pc
  <2>1. UNCHANGED <<pc, ringOpen, hasState, released>>
    BY <1>1, <1>2 DEF Mmap, HeldTypes, Threads
  <2>2. /\ ptr' \in [Regions -> Regions \cup {None}] /\ acquired' \subseteq Resources
        /\ Pointers' /\ "fd" \in acquired'
    <3>1. ~Release
      BY <1>1, <2>1 DEF Release
    <3>2. \/ ptr' = [ptr EXCEPT ![r] = r] /\ acquired' = acquired \cup {r}
          \/ r = "cq" /\ ptr' = [ptr EXCEPT ![r] = ptr["sq"]] /\ acquired' = acquired
      BY <3>1, Zenon DEF Mmap
    <3>3. IsNext(r)
      BY DEF Mmap
    <3>4. /\ ptr' \in [Regions -> Regions \cup {None}] /\ acquired' \subseteq Resources
          /\ "fd" \in acquired'
      <4>1. ptr["sq"] \in Regions \cup {None}
        BY DEF HeldTypes
      <4>2. ptr' \in [Regions -> Regions \cup {None}]
        BY <3>2, <4>1 DEF HeldTypes
      <4>3. acquired' \subseteq Resources /\ "fd" \in acquired'
        BY <1>1, <3>2, Zenon DEF HeldTypes
      <4>4. QED
        BY <4>2, <4>3
    <3>5. \A q \in Regions : q /= r => ptr'[q] = ptr[q] /\ (q \in acquired' <=> q \in acquired)
      BY <3>2 DEF HeldTypes
    <3>6. \/ ptr'[r] = r /\ r \in acquired'
          \/ r = "cq" /\ ptr'[r] = ptr["sq"] /\ (r \in acquired' <=> r \in acquired)
      BY <3>2 DEF HeldTypes
    <3>7. Pointers'
      <4>1. CASE r = "sq"
        BY <3>3, <3>5, <3>6, <4>1 DEF IsNext, Pointers
      <4>2. CASE r = "cq"
        BY <3>3, <3>5, <3>6, <4>2 DEF IsNext, Pointers
      <4>3. CASE r = "sqes"
        BY <3>3, <3>5, <3>6, <4>3 DEF IsNext, Pointers
      <4>4. QED
        BY <4>1, <4>2, <4>3
    <3>8. QED
      BY <3>4, <3>7
  <2>3. HeldTypes' /\ Creating'
    BY <1>1, <2>1, <2>2, Zenon DEF HeldTypes, Creating
  <2>4. QED
    BY <1>1, <2>1, <2>2, <2>3 DEF Failed, InUse, Gone, CallsInside
<1>3. CASE pc' /= pc
  <2>1. Release /\ pc' = [pc EXCEPT ![Closer] = "failed"]
    BY <1>3, Zenon DEF Mmap
  <2>2. /\ released' \in [Resources -> Nat] /\ AllReleased'
        /\ Pointers' /\ ~ringOpen' /\ ~hasState'
        /\ UNCHANGED <<ptr, acquired>>
    BY <1>1, <2>1, ReleaseAll
  <2>3. pc' \in [Threads -> ThreadPcs] /\ pc'[Closer] = "failed" /\ \A t \in Tasks : pc'[t] = pc[t]
    BY <2>1 DEF HeldTypes, Threads, ThreadPcs
  <2>4. HeldTypes' /\ Failed'
    BY <1>1, <2>1, <2>2, <2>3, Zenon DEF HeldTypes, Failed, Release
  <2>5. QED
    BY <1>1, <2>2, <2>3, <2>4 DEF Creating, InUse, Gone, CallsInside
<1>4. QED
  BY <1>2, <1>3

LEMMA StartStep ==
  ASSUME HeldInv, StartThread
  PROVE  HeldInv'
<1> USE UringAssumption DEF HeldInv, StartThread, setup
<1>1. /\ pc' \in [Threads -> ThreadPcs] /\ pc'[Closer] = "new"
      /\ \A t \in Tasks : pc'[t] = pc[t]
  BY DEF HeldTypes, Threads, ThreadPcs
<1>2. cpc' = "entering" /\ UNCHANGED <<ringOpen, hasState, ptr, acquired, released>>
  OBVIOUS
<1>3. HeldTypes' /\ Pointers'
  BY <1>1, <1>2 DEF HeldTypes, Pointers, CompletionPcs
<1>4. InUse'
  BY <1>1, <1>2 DEF InUse, Creating, Pointers
<1>5. QED
  BY <1>1, <1>3, <1>4 DEF Creating, Failed, Gone, CallsInside

LEMMA DestroyStep ==
  ASSUME HeldInv, DestroyFailed
  PROVE  HeldInv'
<1> USE UringAssumption DEF HeldInv, DestroyFailed, setup
<1>1. /\ pc' \in [Threads -> ThreadPcs] /\ pc'[Closer] = "returned"
      /\ \A t \in Tasks : pc'[t] = pc[t]
  BY DEF HeldTypes, Threads, ThreadPcs
<1>2. /\ pc[Closer] = "failed" /\ cpc = "none" /\ AllReleased
      /\ UNCHANGED <<cpc, ringOpen, hasState, ptr, acquired, released>>
  BY DEF Failed
<1>3. HeldTypes' /\ Pointers'
  BY <1>1, <1>2 DEF HeldTypes, Pointers
<1>4. Gone'
  BY <1>1, <1>2 DEF Gone, AllReleased
<1>5. QED
  BY <1>1, <1>2, <1>3, <1>4 DEF Creating, Failed, InUse, CallsInside

\* A step that moves one thread, between Create and the end of closeRing; the
\* descriptor may be closed when closeRing could not submit its NOP.
Moves(s, where) ==
  /\ pc' = [pc EXCEPT ![s] = where]
  /\ where \in {"published", "unlocking", "suspended", "returned"}
  /\ IF s = Closer
     THEN /\ pc[s] \in {"new", "published", "unlocking"} /\ where /= "returned"
          /\ \A t \in Tasks : pc[t] \in {"new", "returned"}
          /\ \/ UNCHANGED <<ringOpen, released>>
             \/ /\ where = "suspended" /\ ringOpen' = FALSE
                /\ released' = [released EXCEPT !["fd"] = @ + 1]
     ELSE pc[Closer] = "new" /\ UNCHANGED <<ringOpen, released>>
  /\ UNCHANGED <<cpc, hasState, ptr, acquired>>

LEMMA MovesStep ==
  ASSUME HeldInv, NEW s \in Threads, NEW where, Moves(s, where)
  PROVE  HeldInv'
<1> USE UringAssumption DEF HeldInv
<1>1. /\ pc' \in [Threads -> ThreadPcs] /\ pc'[s] = where
      /\ \A u \in Threads : u /= s => pc'[u] = pc[u]
      /\ UNCHANGED <<cpc, hasState, ptr, acquired>>
  BY DEF Moves, HeldTypes, ThreadPcs
<1>2. Pointers'
  BY <1>1 DEF Pointers
<1>3. CASE s = Closer
  <2>1. /\ pc[s] \in {"new", "published", "unlocking"}
        /\ where \in {"published", "unlocking", "suspended"}
        /\ ringOpen /\ released["fd"] = 0
    BY <1>3 DEF Moves, InUse
  <2>2. /\ released' \in [Resources -> Nat] /\ ringOpen' \in BOOLEAN
        /\ \A r \in Regions : released'[r] = released[r]
        /\ \/ released'["fd"] = 0 /\ ringOpen'
           \/ released'["fd"] = 1 /\ ~ringOpen' /\ where = "suspended"
    <3>1. CASE UNCHANGED <<ringOpen, released>>
      BY <2>1, <3>1 DEF HeldTypes
    <3>2. CASE /\ where = "suspended" /\ ringOpen' = FALSE
               /\ released' = [released EXCEPT !["fd"] = @ + 1]
      <4>1. /\ released' \in [Resources -> Nat] /\ released'["fd"] = 1
            /\ \A r \in Regions : released'[r] = released[r]
        BY <2>1, <3>2 DEF HeldTypes
      <4>2. QED
        BY <3>2, <4>1, Zenon
    <3>3. QED
      BY <1>3, <3>1, <3>2, Zenon DEF Moves
  <2>3. HeldTypes'
    BY <1>1, <2>2 DEF HeldTypes
  <2>4. InUse'
    BY <1>1, <1>3, <2>1, <2>2 DEF InUse
  <2>5. CallsInside'
    BY <1>1, <1>3, Zenon DEF Moves, CallsInside, Threads
  <2>6. QED
    BY <1>1, <1>2, <1>3, <2>1, <2>3, <2>4, <2>5 DEF Creating, Failed, Gone
<1>4. CASE s /= Closer
  <2>1. UNCHANGED <<ringOpen, released>> /\ pc[Closer] = "new" /\ pc'[Closer] = "new"
    BY <1>1, <1>4 DEF Moves, Threads
  <2>2. HeldTypes' /\ InUse'
    BY <1>1, <2>1 DEF HeldTypes, InUse
  <2>3. CallsInside'
    BY <1>1, <1>4, <2>1 DEF Moves, CallsInside, Threads
  <2>4. QED
    BY <1>2, <2>1, <2>2, <2>3 DEF Creating, Failed, Gone
<1>5. QED
  BY <1>3, <1>4

\* Submitting, entering and waking, by coroutines and by closeRing.
LEMMA ThreadMoves ==
  ASSUME HeldInv, NEW s \in Threads, Submit(s) \/ ThreadStep(s)
  PROVE  \E where : Moves(s, where)
<1> USE UringAssumption DEF HeldInv, setup, SubmitError, Fails, taskVars
<1>1. ASSUME NEW t \in Tasks, t /= Closer, pc[t] \in {"published", "unlocking"}
      PROVE  pc[Closer] = "new"
  BY <1>1 DEF CallsInside
<1>2. pc[Closer] \in {"published", "unlocking"} => \A t \in Tasks : pc[t] \in {"new", "returned"}
  BY DEF CallsInside
<1>3. CASE Submit(s)
  <2>1. CASE s = Closer
    <3>1. Moves(s, "published") \/ Moves(s, "suspended")
      BY <1>3, <2>1, Zenon DEF Submit, MaySubmit, Moves
    <3>2. QED
      BY <3>1, Zenon
  <2>2. CASE s /= Closer
    <3>1. Moves(s, "published") \/ Moves(s, "returned")
      BY <1>3, <2>2, Zenon DEF Submit, MaySubmit, Moves
    <3>2. QED
      BY <3>1, Zenon
  <2>3. QED
    BY <2>1, <2>2
<1>4. CASE Enter(s) \/ WakeSqPollIfNeeded(s) \/ Unlock(s)
  <2>1. CASE s = Closer
    <3>1. Moves(s, "unlocking") \/ Moves(s, "suspended")
      BY <1>2, <1>4, <2>1 DEF Enter, WakeSqPollIfNeeded, Unlock, Moves
    <3>2. QED
      BY <3>1, Zenon
  <2>2. CASE s /= Closer
    <3>1. s \in Tasks
      BY <2>2, Zenon DEF Threads
    <3>2. Moves(s, "unlocking") \/ Moves(s, "suspended") \/ Moves(s, "returned")
      BY <1>1, <1>4, <2>2, <3>1, Zenon DEF Enter, WakeSqPollIfNeeded, Unlock, Moves
    <3>3. QED
      BY <3>2
  <2>3. QED
    BY <2>1, <2>2
<1>5. QED
  BY <1>3, <1>4 DEF ThreadStep

\* The frame of a coroutine is gone when its call returns.
LEMMA ReturnMoves ==
  ASSUME HeldInv, NEW t \in Tasks, Return(t)
  PROVE  Moves(t, "returned")
  BY UringAssumption, Zenon DEF HeldInv, CallsInside, Return, Moves, setup

\* The completion thread runs between init and the join.
LEMMA CompletionHeld ==
  ASSUME HeldInv, CompletionStep
  PROVE  HeldInv'
<1> USE DEF HeldInv
<1>1. /\ cpc \in {"entering", "waiting", "reaping"}
      /\ cpc' \in {"entering", "waiting", "reaping", "exited"}
      /\ UNCHANGED <<pc, ringOpen, hasState, ptr, acquired, released>>
  BY Zenon DEF CompletionStep, CompletionEnter, CompletionWoken, CompletionReap,
               CompletionDrained, setup
<1>2. HeldTypes' /\ Pointers' /\ CallsInside'
  BY <1>1 DEF HeldTypes, Pointers, CallsInside, CompletionPcs
<1>3. Creating' /\ Failed' /\ InUse' /\ Gone'
  BY <1>1, Zenon DEF Creating, Failed, InUse, Gone
<1>4. QED
  BY <1>2, <1>3, Zenon

\* The completion thread has ended when closeRing releases the rings.
LEMMA JoinHeld ==
  ASSUME HeldInv, Join
  PROVE  HeldInv'
<1> USE UringAssumption DEF HeldInv
<1>1. /\ pc' \in [Threads -> ThreadPcs] /\ pc'[Closer] = "returned"
      /\ \A t \in Tasks : pc'[t] = pc[t]
  BY DEF Join, HeldTypes, Threads, ThreadPcs
<1>2. pc[Closer] = "suspended" /\ cpc = "exited" /\ cpc' = cpc /\ Release
  BY DEF Join
<1>3. /\ released' \in [Resources -> Nat] /\ AllReleased'
      /\ Pointers' /\ ~ringOpen' /\ ~hasState'
      /\ UNCHANGED <<ptr, acquired>>
  BY <1>2, ReleaseAll DEF InUse
<1>4. HeldTypes'
  BY <1>1, <1>2, <1>3, Zenon DEF HeldTypes, Release
<1>5. QED
  BY <1>1, <1>2, <1>3, <1>4 DEF Creating, Failed, InUse, Gone, CallsInside

\* The kernel has no part in it.
LEMMA KernelHeld ==
  ASSUME HeldInv, UNCHANGED held
  PROVE  HeldInv'
  BY DEF HeldInv, held, HeldTypes, Pointers, Creating, Failed, InUse, Gone, CallsInside,
     AllReleased

-----------------------------------------------------------------------------
LEMMA HeldStep == HeldInv /\ [Next]_vars => HeldInv'
<1> SUFFICES ASSUME HeldInv, [Next]_vars PROVE HeldInv'
  OBVIOUS
<1>1. CASE PollTake \/ PollSleep \/ (\E ch \in kern : KernelComplete(ch)) \/ UNCHANGED vars
  <2>1. UNCHANGED held
    BY <1>1, Zenon DEF PollTake, PollSleep, KernelComplete, vars, setup, held
  <2>2. QED
    BY <2>1, KernelHeld
<1>2. CASE \E s \in Threads : Submit(s) \/ ThreadStep(s)
  BY <1>2, ThreadMoves, MovesStep
<1>3. CASE \E t \in Tasks : Return(t)
  BY <1>3, ReturnMoves, MovesStep DEF Threads
<1>4. QED
  BY <1>1, <1>2, <1>3, SetupStep, MmapStep, StartStep, DestroyStep, CompletionHeld, JoinHeld
     DEF Next, Terminated

\* The stages of the executor's life, from init to the end of closeRing.
THEOREM HeldAlways == Spec => []HeldInv
  BY HeldInit, HeldStep, PTL DEF Spec

\* Whatever init gets hold of is released once and not left behind, wherever
\* init fails and whether or not closeRing can submit its NOP.
THEOREM AlwaysReleasedOnce == Spec => []ReleasedOnce
<1>1. HeldInv => ReleasedOnce
  <2> SUFFICES ASSUME HeldInv, NEW r \in Resources
               PROVE  /\ released[r] <= IF r \in acquired THEN 1 ELSE 0
                      /\ pc[Closer] = "returned" /\ r \in acquired => released[r] = 1
    BY DEF ReleasedOnce
  <2>1. pc[Closer] \in ThreadPcs /\ released[r] \in Nat
    BY DEF HeldInv, HeldTypes, Threads
  <2>2. CASE pc[Closer] \in {"failed", "returned"}
    BY <2>2 DEF HeldInv, Failed, Gone, AllReleased
  <2>3. CASE pc[Closer] = "creating"
    BY <2>3 DEF HeldInv, Creating
  <2>4. CASE pc[Closer] \in {"new", "published", "unlocking", "suspended"}
    BY <2>4 DEF HeldInv, InUse
  <2>5. QED
    BY <2>1, <2>2, <2>3, <2>4 DEF ThreadPcs
<1>2. QED
  BY <1>1, HeldAlways, PTL

\* closeRing unmaps the rings only when neither the completion thread nor a
\* submission can touch them any more.
THEOREM AlwaysMapped == Spec => []MappedWhileUsed
<1>1. HeldInv => MappedWhileUsed
  <2> SUFFICES ASSUME HeldInv, cpc \in {"entering", "waiting", "reaping"} \/ Locked,
                      NEW r \in Regions
               PROVE  ptr[r] \in acquired /\ released[ptr[r]] = 0
    BY DEF MappedWhileUsed
  <2>1. pc[Closer] \in {"new", "published", "unlocking", "suspended"}
    BY DEF HeldInv, HeldTypes, Threads, ThreadPcs, Creating, Failed, Gone, CallsInside, Locked
  <2>2. ptr[r] /= None /\ \A q \in Regions : released[q] = 0
    BY <2>1 DEF HeldInv, InUse
  <2>3. ptr[r] \in Regions /\ ptr[r] \in acquired
    BY <2>2 DEF HeldInv, Pointers
  <2>4. QED
    BY <2>2, <2>3
<1>2. QED
  BY <1>1, HeldAlways, PTL
-----------------------------------------------------------------------------
(***************************************************************************)
(* The submission ring keeps to RingInv.                                   *)
(***************************************************************************)
\* A submission goes into slots that hold nothing pending.
LEMMA PublishKeeps ==
  ASSUME RingOk, NEW reqs \in Seq(Req), Publish(reqs), ~IsFull(Len(reqs))
  PROVE  RingOk'
<1> DEFINE n == Len(reqs)
           q == Len(queued)
<1>1. n \in Nat /\ q \in Nat /\ q + n <= Entries /\ q = Behind(head, tail) /\ Entries \in Nat \ {0}
  BY UringAssumption DEF IsFull, Pending, Behind, RingOk
<1>a. /\ head \in Index /\ tail \in Index /\ seen \in Index /\ head \in Int /\ tail \in Int
      /\ Behind(head, seen) <= q /\ n \in 0..Entries /\ n = Len(reqs) /\ q = Len(queued)
      /\ DOMAIN reqs = 1..n /\ \A k \in 1..n : reqs[k] \in Req
  BY <1>1, UringAssumption DEF RingOk, Index
<1>2. /\ tail' = Advance(tail, n) /\ head' = head /\ queued' = queued \o reqs
      /\ seen' \in {seen, tail'}
  BY DEF Publish
<1> HIDE DEF n, q
<1>3. tail' \in Index /\ seen' \in Index /\ Behind(head, tail') = q + n
  <2>1. Advance(tail, n) \in Index
    BY <1>a, AdvanceIs
  <2>2. Behind(head, tail) + n <= Entries
    BY <1>1
  <2>3. Behind(head, Advance(tail, n)) = Behind(head, tail) + n
    BY <1>a, <2>2, BehindGrows
  <2>4. QED
    BY <1>1, <1>2, <1>a, <2>1, <2>3, Zenon
<1>4. queued' \in Seq(Req) /\ Len(queued') = q + n
  <2>1. queued \in Seq(Req)
    BY DEF RingOk
  <2>2. queued \o reqs \in Seq(Req) /\ Len(queued \o reqs) = Len(queued) + Len(reqs)
    BY <2>1
  <2>3. QED
    BY <1>2, <1>a, <2>2
<1>5. Behind(head, seen') <= q + n
  <2>1. CASE seen' = seen
    BY <1>1, <1>a, <2>1, BehindIs DEF Index
  <2>2. CASE seen' = tail'
    BY <1>1, <1>3, <2>2
  <2>3. QED
    BY <1>2, <2>1, <2>2
<1>6. ASSUME NEW i \in 0..Entries - 1
      PROVE  /\ sqes'[i] \in Req
             /\ \A k \in 1..n : Slot(head + q + k - 1) = i => sqes'[i] = reqs[k]
             /\ (\A k \in 1..n : Slot(head + q + k - 1) /= i) => sqes'[i] = sqes[i]
  <2> DEFINE hit == {k \in DOMAIN reqs : (tail + k - 1) % Entries = i}
  <2>1. sqes'[i] = IF hit = {} THEN sqes[i] ELSE reqs[CHOOSE k \in hit : TRUE]
    BY DEF Publish
  <2>2. ASSUME NEW k \in 1..n
        PROVE  k \in hit <=> Slot(head + q + k - 1) = i
    <3>1. k - 1 \in Int /\ tail \in Int /\ head \in Int
      BY <1>1, <1>a
    <3>2. Slot(tail + (k - 1)) = Slot(head + Behind(head, tail) + (k - 1))
      BY <1>a, <3>1, SlotBehind
    <3>3. tail + (k - 1) = tail + k - 1 /\ head + Behind(head, tail) + (k - 1) = head + q + k - 1
      BY <1>1, <3>1
    <3>4. Slot(tail + k - 1) = Slot(head + q + k - 1)
      BY <3>2, <3>3
    <3>5. k \in DOMAIN reqs
      BY <1>a
    <3>6. QED
      BY <3>4, <3>5 DEF Slot
  <2>3. ASSUME NEW k \in hit, NEW j \in hit
        PROVE  j = k
    <3>1. j \in 1..n /\ k \in 1..n
      BY <1>a
    <3>2. head \in Int /\ q + j \in 1..Entries /\ q + k \in 1..Entries
      BY <1>1, <1>a, <3>1
    <3>3. Slot(head + q + j - 1) = Slot(head + q + k - 1)
      BY <2>2, <3>1
    <3>4. head + (q + j) - 1 = head + q + j - 1 /\ head + (q + k) - 1 = head + q + k - 1
      BY <1>1, <3>1, <3>2
    <3>5. Slot(head + (q + j) - 1) = Slot(head + (q + k) - 1)
      BY <3>3, <3>4
    <3>6. q + j = q + k
      BY <3>2, <3>5, SlotsDiffer, Zenon
    <3>7. QED
      BY <1>1, <3>1, <3>6
  <2>4. hit \subseteq 1..n
    BY <1>a
  <2> HIDE DEF hit
  <2>5. ASSUME NEW k \in hit
        PROVE  sqes'[i] = reqs[k] /\ reqs[k] \in Req
    <3>1. (CHOOSE j \in hit : TRUE) = k
      BY <2>3
    <3>2. QED
      BY <1>a, <2>1, <2>4, <3>1, Zenon
  <2>6. hit = {} => sqes'[i] = sqes[i] /\ sqes[i] \in Req
    BY <2>1 DEF RingOk
  <2>7. QED
    BY <2>2, <2>4, <2>5, <2>6, Zenon
<1>7. sqes' \in [0..Entries - 1 -> Req]
  <2>1. sqes' = [i \in 0..Entries - 1 |-> sqes'[i]]
    BY DEF Publish
  <2>2. QED
    BY <1>6, <2>1
<1>8. ASSUME NEW k \in 1..q + n
      PROVE  queued'[k] = sqes'[Slot(head + k - 1)]
  <2>1. head \in Int /\ k \in Int /\ head + k - 1 \in Int
    BY <1>1, <1>a
  <2>2. Slot(head + k - 1) \in 0..Entries - 1
    BY <2>1, SlotType, Zenon
  <2>3. CASE k <= q
    <3>1. queued'[k] = queued[k] /\ queued[k] = sqes[Slot(head + k - 1)]
      BY <1>1, <1>2, <1>a, <2>3 DEF RingOk
    <3>2. ASSUME NEW j \in 1..n
          PROVE  Slot(head + q + j - 1) /= Slot(head + k - 1)
      <4>1. q + j \in 1..Entries /\ k \in 1..Entries /\ q + j /= k
        BY <1>1, <2>3
      <4>2. Slot(head + (q + j) - 1) /= Slot(head + k - 1)
        BY <2>1, <4>1, SlotsDiffer, Zenon
      <4>3. head + (q + j) - 1 = head + q + j - 1
        BY <1>1, <2>1
      <4>4. QED
        BY <4>2, <4>3
    <3>3. sqes'[Slot(head + k - 1)] = sqes[Slot(head + k - 1)]
      BY <1>6, <2>2, <3>2
    <3>4. QED
      BY <3>1, <3>3
  <2>4. CASE k > q
    <3>1. k - q \in 1..n /\ head + q + (k - q) - 1 = head + k - 1
      BY <1>1, <2>1, <2>4
    <3>2. queued'[k] = reqs[k - q]
      <4>1. queued \in Seq(Req) /\ k \in Len(queued) + 1..Len(queued) + Len(reqs)
        BY <1>1, <1>a, <2>4 DEF RingOk
      <4>2. (queued \o reqs)[k] = reqs[k - Len(queued)]
        BY <4>1
      <4>3. QED
        BY <1>2, <1>a, <4>2
    <3>3. QED
      BY <1>6, <2>2, <3>1, <3>2
  <2>5. QED
    BY <1>1, <2>1, <2>3, <2>4
<1>9. QED
  BY <1>1, <1>2, <1>3, <1>4, <1>5, <1>7, <1>8, <1>a, Zenon DEF RingOk

LEMMA RingInit == Init => RingInv
<1> SUFFICES ASSUME Init PROVE RingInv
  OBVIOUS
<1>1. TaskTypes
  BY DEF Init, TaskTypes
<1>2. KernTypes /\ EnvTypes
  BY UringAssumption DEF Init, KernTypes, EnvTypes
<1>3. head = 0 /\ tail = 0 /\ seen = 0 /\ queued = <<>> /\ 0 \in Index
  BY UringAssumption DEF Init, Index
<1>4. Behind(0, 0) = 0
  BY <1>3, BehindIs DEF Index
<1>5. sqes \in [0..Entries - 1 -> Req]
  BY DEF Init, Req
<1>6. RingOk
  BY <1>3, <1>4, <1>5, UringAssumption DEF RingOk
<1>7. QED
  BY <1>1, <1>2, <1>6 DEF RingInv

LEMMA ErrorTypes ==
  ASSUME TaskTypes, NEW s \in Threads, SubmitError(s)
  PROVE  TaskTypes'
<1>1. CASE s = Closer
  BY <1>1 DEF SubmitError, taskVars, TaskTypes
<1>2. CASE s /= Closer
  <2>1. s \in Tasks /\ Fails(s)
    BY <1>2 DEF SubmitError, Threads
  <2>2. addr' \in [Tasks -> Addrs \cup {None}] /\ result' = result
    BY <2>1 DEF Fails, TaskTypes
  <2>3. outcome' \in [Tasks -> {"none", "ok", "error"}]
    BY <2>1 DEF Fails, TaskTypes
  <2>4. resumed' \in [Tasks -> Nat]
    BY <2>1 DEF Fails, TaskTypes
  <2>5. QED
    BY <2>2, <2>3, <2>4 DEF TaskTypes
<1>3. QED
  BY <1>1, <1>2

LEMMA SubmitRing ==
  ASSUME RingInv, NEW s \in Threads, Submit(s)
  PROVE  RingInv'
<1>1. KernTypes' /\ EnvTypes'
  BY DEF RingInv, Submit, env, kernVars, KernTypes, EnvTypes
<1>2. CASE IsFull(Count(s))
  <2>1. SubmitError(s) /\ UNCHANGED ring
    BY <1>2 DEF Submit
  <2>2. RingOk'
    BY <2>1 DEF RingInv, RingOk, ring
  <2>3. QED
    BY <1>1, <2>1, <2>2, ErrorTypes DEF RingInv
<1>3. CASE ~IsFull(Count(s))
  <2>1. UNCHANGED <<result, outcome, resumed>>
    BY <1>3 DEF Submit
  <2>2. PICK a : /\ s = Closer \/ a \in Addrs
                 /\ Publish(Requests(s, a))
                 /\ addr' = addr \/ (s \in Tasks /\ a \in Addrs /\ addr' = [addr EXCEPT ![s] = a])
    <3>1. CASE s = Closer
      BY <1>3, <3>1 DEF Submit
    <3>2. CASE s /= Closer
      BY <1>3, <3>2 DEF Submit, Threads
    <3>3. QED
      BY <3>1, <3>2
  <2>3. TaskTypes'
    <3>1. addr' \in [Tasks -> Addrs \cup {None}]
      BY <2>2 DEF RingInv, TaskTypes
    <3>2. QED
      BY <2>1, <3>1 DEF RingInv, TaskTypes
  <2>4. RingOk'
    BY <1>3, <2>2, RequestsType, PublishKeeps DEF RingInv
  <2>5. QED
    BY <1>1, <2>3, <2>4 DEF RingInv
<1>4. QED
  BY <1>2, <1>3

LEMMA EnterRing ==
  ASSUME RingInv, NEW s \in Threads, Enter(s)
  PROVE  RingInv'
<1>1. EnvTypes' /\ seen' = tail
  BY DEF RingInv, Enter, env, EnvTypes
<1>2. CASE SubmitError(s) /\ UNCHANGED <<head, tail, sqes, queued, kernVars>>
  <2>1. TaskTypes' /\ KernTypes'
    BY <1>2, ErrorTypes DEF RingInv, KernTypes, kernVars
  <2>2. RingOk'
    <3>1. tail \in Index /\ Behind(head, tail) = Len(queued) /\ Len(queued) \in Nat
      BY DEF RingInv, RingOk
    <3>2. QED
      BY <1>1, <1>2, <3>1 DEF RingInv, RingOk
  <2>3. QED
    BY <1>1, <2>1, <2>2 DEF RingInv
<1>3. CASE /\ Take(IF Count(s) < Pending(tail) THEN Count(s) ELSE Pending(tail))
           /\ UNCHANGED taskVars
  <2> DEFINE n == IF Count(s) < Pending(tail) THEN Count(s) ELSE Pending(tail)
  <2>1. n \in 0..Len(queued) /\ Take(n)
    BY <1>3 DEF RingInv, RingOk, Behind, Pending, Count
  <2> HIDE DEF n
  <2>2. /\ RingOk'
        /\ kern' = kern \cup ChainsOf(SubSeq(queued, 1, n))
    BY <1>1, <2>1, TakeKeeps DEF RingInv
  <2>3. KernTypes'
    <3>1. SubSeq(queued, 1, n) \in Seq(Req)
      BY <2>1 DEF RingInv, RingOk
    <3>2. UNCHANGED <<cq, done>>
      BY <2>1 DEF Take
    <3>3. QED
      BY <2>2, <3>1, <3>2, ChainsType, Zenon DEF RingInv, KernTypes
  <2>4. TaskTypes'
    BY <1>3 DEF RingInv, TaskTypes, taskVars
  <2>5. QED
    BY <1>1, <2>2, <2>3, <2>4 DEF RingInv
<1>4. QED
  BY <1>2, <1>3 DEF Enter

LEMMA PollTakeRing ==
  ASSUME RingInv, PollTake
  PROVE  RingInv'
<1> DEFINE n == Pending(seen)
<1>1. n \in 0..Len(queued) /\ Take(n) /\ n <= Behind(head, seen)
  <2>1. Behind(head, seen) \in Index /\ Pending(seen) = Behind(head, seen)
    BY BehindIs DEF RingInv, RingOk, Pending, Behind
  <2>2. QED
    BY <2>1, UringAssumption DEF RingInv, RingOk, PollTake, Index
<1>2. UNCHANGED <<env, seen, taskVars, poll>>
  BY DEF PollTake
<1> HIDE DEF n
<1>3. /\ RingOk'
      /\ kern' = kern \cup ChainsOf(SubSeq(queued, 1, n))
  BY <1>1, <1>2, TakeKeeps DEF RingInv
<1>4. KernTypes'
  <2>1. SubSeq(queued, 1, n) \in Seq(Req)
    BY <1>1 DEF RingInv, RingOk
  <2>2. UNCHANGED <<cq, done>>
    BY <1>1 DEF Take
  <2>3. QED
    BY <1>3, <2>1, <2>2, ChainsType, Zenon DEF RingInv, KernTypes
<1>5. TaskTypes' /\ EnvTypes'
  BY <1>2 DEF RingInv, TaskTypes, taskVars, EnvTypes, env
<1>6. QED
  BY <1>3, <1>4, <1>5 DEF RingInv

LEMMA WakeRing ==
  ASSUME RingInv, NEW s \in Threads, WakeSqPollIfNeeded(s) \/ Unlock(s)
  PROVE  RingInv'
<1>1. /\ UNCHANGED <<head, tail, sqes, queued>> /\ seen' \in {seen, tail}
  BY DEF WakeSqPollIfNeeded, Unlock
<1>2. RingOk'
  <2>1. tail \in Index /\ Behind(head, tail) = Len(queued) /\ Len(queued) \in Nat
    BY DEF RingInv, RingOk
  <2>2. QED
    BY <1>1, <2>1 DEF RingInv, RingOk
<1>3. KernTypes' /\ EnvTypes'
  BY DEF RingInv, WakeSqPollIfNeeded, Unlock, KernTypes, EnvTypes, env, kernVars
<1>4. TaskTypes'
  <2>1. UNCHANGED taskVars \/ SubmitError(s)
    BY Zenon DEF WakeSqPollIfNeeded, Unlock
  <2>2. QED
    BY <2>1, ErrorTypes DEF RingInv, TaskTypes, taskVars
<1>5. QED
  BY <1>2, <1>3, <1>4 DEF RingInv

LEMMA CompleteRing ==
  ASSUME RingInv, NEW ch \in kern, KernelComplete(ch)
  PROVE  RingInv'
<1> DEFINE cqe(r, res) == [own |-> r.own, addr |-> r.addr, op |-> r.op, res |-> res]
<1>1. RingOk' /\ TaskTypes' /\ EnvTypes'
  <2>1. UNCHANGED <<env, ring, taskVars, poll>>
    BY DEF KernelComplete
  <2>2. QED
    BY <2>1 DEF RingInv, RingOk, ring, TaskTypes, taskVars, EnvTypes, env
<1>2. ASSUME NEW r \in Req, NEW res \in {"ok", "fail"}
      PROVE  cqe(r, res) \in Cqe
  BY DEF Req, Request, Nop, Cqe, Threads
<1>3. /\ Len(ch) \in {1, 2} /\ ch \in Seq(Req) /\ Head(ch) \in Req
      /\ Len(ch) = 2 => Tail(ch) \in Chains
  <2>1. ch \in Chains
    BY DEF RingInv, KernTypes
  <2>2. CASE \E r \in Req : ch = <<r>>
    BY <2>2
  <2>3. CASE \E r \in Req, x \in Req : ch = <<r, x>>
    <3>1. PICK r \in Req, x \in Req : ch = <<r, x>>
      BY <2>3
    <3>2. Tail(ch) = <<x>> /\ Len(ch) = 2 /\ ch \in Seq(Req) /\ Head(ch) = r
      BY <3>1
    <3>3. <<x>> \in Chains
      BY DEF Chains
    <3>4. QED
      BY <3>2, <3>3, Zenon
  <2>4. QED
    BY <2>1, <2>2, <2>3 DEF Chains
<1> HIDE DEF cqe
<1>4. CASE /\ cq' = Append(cq, cqe(Head(ch), "ok"))
           /\ kern' = (kern \ {ch}) \cup (IF Len(ch) = 1 THEN {} ELSE {Tail(ch)})
           /\ done' = done \cup {<<Head(ch).own, Head(ch).op>>}
  <2>1. cq' \in Seq(Cqe)
    BY <1>2, <1>3, <1>4 DEF RingInv, KernTypes
  <2>2. kern' \subseteq Chains
    BY <1>3, <1>4, Zenon DEF RingInv, KernTypes
  <2>3. done' \subseteq Threads \X {1, 2}
    <3>1. Head(ch).own \in Threads /\ Head(ch).op \in {1, 2}
      BY <1>3 DEF Req, Request, Nop, Threads
    <3>2. QED
      BY <1>4, <3>1 DEF RingInv, KernTypes
  <2>4. QED
    BY <1>1, <2>1, <2>2, <2>3 DEF RingInv, KernTypes
<1>5. CASE /\ cq' = cq \o [k \in DOMAIN ch |-> cqe(ch[k], "fail")]
           /\ kern' = kern \ {ch}
           /\ UNCHANGED done
  <2>1. [k \in DOMAIN ch |-> cqe(ch[k], "fail")] \in Seq(Cqe)
    <3>1. DOMAIN ch = 1..Len(ch) /\ Len(ch) \in Nat /\ \A k \in 1..Len(ch) : ch[k] \in Req
      BY <1>3
    <3>2. \A k \in 1..Len(ch) : cqe(ch[k], "fail") \in Cqe
      BY <1>2, <3>1
    <3>3. QED
      BY <3>1, <3>2
  <2>2. cq' \in Seq(Cqe)
    BY <1>5, <2>1 DEF RingInv, KernTypes
  <2>3. QED
    BY <1>1, <1>5, <2>2 DEF RingInv, KernTypes
<1>6. QED
  BY <1>4, <1>5, Zenon DEF KernelComplete, cqe

LEMMA ReapRing ==
  ASSUME RingInv, CompletionReap
  PROVE  RingInv'
<1> DEFINE c == Head(cq)
<1>1. RingOk' /\ EnvTypes'
  <2>1. UNCHANGED <<env, ring, poll>>
    BY DEF CompletionReap
  <2>2. QED
    BY <2>1, Zenon DEF RingInv, RingOk, ring, EnvTypes, env
<1>2. cq \in Seq(Cqe) /\ cq /= <<>> /\ cq' = Tail(cq) /\ UNCHANGED <<kern, done>>
  BY Zenon DEF RingInv, KernTypes, CompletionReap
<1>3. KernTypes'
  BY <1>2 DEF RingInv, KernTypes
<1>4. c \in Cqe /\ c.op \in {1, 2} /\ c.res \in {"ok", "fail"}
  <2>1. c \in Cqe
    BY <1>2
  <2>2. QED
    BY <2>1 DEF Cqe
<1> HIDE DEF c
<1>5. CASE UNCHANGED taskVars
  BY <1>1, <1>3, <1>5 DEF RingInv, TaskTypes, taskVars
<1>6. CASE \E t \in Tasks : addr[t] = c.addr /\ Complete(t, c)
  <2>1. PICK t \in Tasks : Complete(t, c)
    BY <1>6
  <2>2. result' \in [Tasks -> [1..2 -> {"ok", "fail"}]] /\ addr' = addr
    <3>1. result' = [result EXCEPT ![t][c.op] = c.res] /\ addr' = addr
      BY <2>1 DEF Complete
    <3>2. c.op \in 1..2
      BY <1>4
    <3>3. QED
      BY <1>4, <3>1, <3>2 DEF RingInv, TaskTypes
  <2>3. outcome' \in [Tasks -> {"none", "ok", "error"}]
    BY <2>1 DEF Complete, Outcome, RingInv, TaskTypes
  <2>4. resumed' \in [Tasks -> Nat]
    BY <2>1 DEF Complete, RingInv, TaskTypes
  <2>5. TaskTypes'
    BY <2>2, <2>3, <2>4 DEF RingInv, TaskTypes
  <2>6. QED
    BY <1>1, <1>3, <2>5 DEF RingInv
<1>7. QED
  BY <1>5, <1>6 DEF CompletionReap, c

\* The steps that leave ring, coroutines and kernel alone, and the return of a
\* coroutine.
LEMMA OtherRing ==
  ASSUME RingInv, UNCHANGED <<env, ring, kernVars, result, outcome, resumed>>,
         poll' \in {"polling", "idle", "asleep"},
         addr' = addr \/ \E t \in Tasks : addr' = [addr EXCEPT ![t] = None]
  PROVE  RingInv'
<1>1. RingOk' /\ KernTypes' /\ EnvTypes'
  BY DEF RingInv, RingOk, ring, KernTypes, kernVars, EnvTypes, env
<1>2. TaskTypes'
  BY DEF RingInv, TaskTypes
<1>3. QED
  BY <1>1, <1>2, Zenon DEF RingInv

LEMMA RingStep == RingInv /\ [Next]_vars => RingInv'
<1> SUFFICES ASSUME RingInv, [Next]_vars PROVE RingInv'
  OBVIOUS
<1>1. poll \in {"polling", "idle", "asleep"}
  BY DEF RingInv, EnvTypes
<1>2. CASE \/ SetupRing \/ (\E r \in Regions : Mmap(r)) \/ StartThread \/ DestroyFailed
           \/ CompletionEnter \/ CompletionWoken \/ CompletionDrained \/ Join
  <2>1. UNCHANGED <<env, ring, taskVars, kernVars, poll>>
    BY <1>2, Zenon DEF SetupRing, Mmap, StartThread, DestroyFailed, CompletionEnter,
       CompletionWoken, CompletionDrained, Join
  <2>2. QED
    BY <1>1, <2>1, OtherRing DEF taskVars
<1>3. CASE PollSleep \/ UNCHANGED vars \/ \E t \in Tasks : Return(t)
  <2>1. /\ UNCHANGED <<env, ring, kernVars, result, outcome, resumed>>
        /\ poll' \in {"polling", "idle", "asleep"}
        /\ addr' = addr \/ \E t \in Tasks : addr' = [addr EXCEPT ![t] = None]
    BY <1>1, <1>3 DEF PollSleep, vars, Return, taskVars
  <2>2. QED
    BY <2>1, OtherRing, Zenon
<1>4. QED
  BY <1>2, <1>3, SubmitRing, EnterRing, WakeRing, PollTakeRing, CompleteRing, ReapRing
     DEF Next, Terminated, ThreadStep, CompletionStep

\* The ring, the completions and the coroutines keep their types.
THEOREM RingInvAlways == Spec => []RingInv
  BY RingInit, RingStep, PTL DEF Spec

\* Every variable keeps its type: the indices stay inside their width, and
\* the kernel and the completion thread only ever see requests.
THEOREM UringTypeCorrect == Spec => []TypeOK
<1>1. HeldInv /\ RingInv => TypeOK
  BY DEF HeldInv, HeldTypes, RingInv, RingOk, TaskTypes, KernTypes, EnvTypes, TypeOK, Index, Req
<1>2. QED
  BY <1>1, HeldAlways, RingInvAlways, PTL

\* For every ring size and index width, the ring holds exactly the requests
\* published and not yet taken, in the order of their publication: the check
\* for a full ring keeps submissions off the slots of the others, also when
\* the indices wrap and whatever io_uring_enter returns.
THEOREM RingAlwaysFifo == Spec => []RingFifo
<1>1. RingInv => RingFifo
  <2> SUFFICES ASSUME RingInv PROVE RingFifo
    OBVIOUS
  <2>1. Len(queued) = Pending(tail) /\ DOMAIN queued = 1..Len(queued)
    BY DEF RingInv, RingOk, Pending, Behind
  <2>2. QED
    BY <2>1 DEF RingFifo, RingInv, RingOk, Slot
<1>2. QED
  BY <1>1, RingInvAlways, PTL

-----------------------------------------------------------------------------
(***************************************************************************)
(* An operation goes its way.                                              *)
(***************************************************************************)
\* As long as no submission fails, an operation goes its way from the ring to
\* the completion thread once, in order, and with a frame to come back to.
THEOREM WayInvAlways == Spec => []WayInv
  BY WayInit, WayStep, HeldAlways, RingInvAlways, PTL DEF Spec

\* "Buffers referenced by SQEs must remain alive until their CQEs are
\* consumed", for any number of coroutines, any ring and any order in which
\* the kernel completes: no frame goes away under an operation.
THEOREM BuffersAlwaysAlive == Spec => []BuffersAlive
<1>1. WayInv => BuffersAlive
  BY Zenon DEF WayInv, Alive, BuffersAlive, Outstanding, OnWay
<1>2. QED
  BY <1>1, WayInvAlways, PTL

\* The completion thread resumes a coroutine once: the linked writev carries
\* no continuation, and a full ring resumes one that has nothing on its way.
THEOREM AlwaysResumedOnce == Spec => []ResumedOnce
<1>1. WayInv => ResumedOnce
  BY DEF WayInv, Frames, ResumedOnce
<1>2. QED
  BY <1>1, WayInvAlways, PTL

\* WritevAndFDataSync returns Ok only after the kernel has done both its
\* writev and its fdatasync, although the two results arrive apart and the
\* frame is found by its address.
THEOREM SubmittedSuccessAlwaysSynced == Spec => []SubmittedSuccessIsSynced
<1>1. WayInv => SubmittedSuccessIsSynced
  BY DEF WayInv, Evidence, SubmittedSuccessIsSynced, SuccessIsSynced
<1>2. QED
  BY <1>1, WayInvAlways, PTL
=============================================================================
