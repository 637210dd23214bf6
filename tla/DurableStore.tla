---------------------------- MODULE DurableStore -----------------------------
(***************************************************************************)
(* What storage_engine::DB promises to its callers, without a log, a file  *)
(* or a cache: a table, at most one group of writes on its way into it,    *)
(* and the tables that a recovery may come up with.                        *)
(*                                                                         *)
(* A group takes effect as a whole.  Once it is acknowledged, the table    *)
(* with it is settled: every recovery finds at least that.  The groups     *)
(* that failed or were cut off by a crash since then are attempts, and a   *)
(* recovery may find any of them, each by all of its entries or by none.   *)
(* Which of them it finds together depends on the file system: an orderly  *)
(* one whose syncs succeed only ever brings back a table that the DB was   *)
(* about to have.                                                          *)
(***************************************************************************)
EXTENDS WalFormat

VARIABLES
  open,      \* there is a DB object that serves calls
  table,     \* what Get sees, key -> [seq, val]
  pending,   \* the group on its way, or NoGroup
  settled,   \* the last table that is known to survive
  attempts,  \* the groups since then, each with the table it was to change
  kept,      \* the environment keeps what the engine has synced
  orderly    \* ... and syncs do not fail, and file systems keep the order

vars == <<open, table, pending, settled, attempts, kept, orderly>>

Blank   == [k \in Keys |-> Untouched]
NoGroup == [base |-> 1, entries |-> <<>>]

EntriesFor(r, k) ==
  {[seq |-> r.base + i - 1, val |-> r.entries[i].val] :
     i \in {j \in DOMAIN r.entries : r.entries[j].key = k}}

\* Table t and the groups in C together: the newest entry of a key wins.
Merged(t, C) ==
  [k \in Keys |->
    LET all == {t[k]} \cup UNION {EntriesFor(r, k) : r \in C}
    IN  CHOOSE e \in all : \A d \in all : d.seq <= e.seq]

\* No two groups of C give their entries the same sequence number.
Apart(C) ==
  \A r, s \in C : \/ r = s
                  \/ r.base + Len(r.entries) <= s.base
                  \/ s.base + Len(s.entries) <= r.base

\* The tables that the DB had or was about to have since the settled one.
Futures == {settled} \cup {ApplyRecord(x.on, x.group) : x \in attempts}

Init ==
  /\ open = FALSE
  /\ table = Blank
  /\ pending = NoGroup
  /\ settled = Blank /\ attempts = {}
  /\ kept \in BOOLEAN /\ orderly \in BOOLEAN

\* A group is handed to the engine.
Begin ==
  /\ open /\ pending = NoGroup
  /\ pending' /= NoGroup
  /\ attempts' = attempts \cup {[on |-> table, group |-> pending']}
  /\ UNCHANGED <<open, table, settled>>

\* Status::Ok to its writers ...
Acknowledge ==
  /\ pending /= NoGroup
  /\ table' = ApplyRecord(table, pending)
  /\ settled' = table' /\ attempts' = {}
  /\ pending' = NoGroup
  /\ UNCHANGED open

\* ... or an error.
Fail ==
  /\ pending /= NoGroup
  /\ pending' = NoGroup
  /\ UNCHANGED <<open, table, settled, attempts>>

\* ~DB, or a crash.
Shut ==
  /\ open
  /\ open' = FALSE
  /\ table' = Blank
  /\ pending' = NoGroup
  /\ UNCHANGED <<settled, attempts>>

\* DB::Open succeeds.  What it found may be settled by now; otherwise the next
\* recovery may find something else.
Recover ==
  /\ ~open /\ open'
  /\ kept => \E C \in SUBSET {x.group : x \in attempts} :
               Apart(C) /\ table' = Merged(settled, C)
  /\ orderly => table' \in Futures
  /\ \/ settled' = table' /\ attempts' = {}
     \/ UNCHANGED <<settled, attempts>>
  /\ UNCHANGED pending

Next ==
  /\ Begin \/ Acknowledge \/ Fail \/ Shut \/ Recover
  /\ UNCHANGED <<kept, orderly>>

Spec == Init /\ [][Next]_vars
=============================================================================
