---------------------------- MODULE MCWalRecovery ----------------------------
(***************************************************************************)
(* Instances of WalRecovery for TLC: every file of up to MaxCells cells    *)
(* taken from three records and zeros, in any order and mixture, and       *)
(* longer logs with one cell overwritten.  The second record has more      *)
(* iovecs than IovMax, so it is written by EncodeBatchInto.  One value is  *)
(* empty; entries of different records differ, as the cells of WalFormat   *)
(* do.                                                                     *)
(***************************************************************************)
EXTENDS WalRecovery

CONSTANTS MaxCells

k1 == <<107>>
k2 == <<107, 50>>
MCKeys == {k1, k2}

v1 == <<118>>
v2 == <<119, 0, 255>>
MCValues == {v1, v2, <<>>}

MCRecords ==
  { [base |-> 1, entries |-> <<[key |-> k1, val |-> v1]>>],
    [base |-> 2, entries |-> <<[key |-> k2, val |-> <<>>], [key |-> k1, val |-> Deleted]>>],
    [base |-> 300, entries |-> <<[key |-> k1, val |-> v2]>>] }

MCCells == UNION {{EncodeBatch(r)[i] : i \in 1..Size(r)} : r \in MCRecords} \cup {Zero}

\* Logs of three records with at most one cell overwritten.
MCLogs == {EncodeBatch(a) \o EncodeBatch(b) \o EncodeBatch(c) : a, b, c \in MCRecords}
MCDamaged == UNION {{[f EXCEPT ![i] = c] : i \in DOMAIN f, c \in MCCells} : f \in MCLogs}

MCFiles == UNION {[1..n -> MCCells] : n \in 0..MaxCells} \cup MCDamaged
=============================================================================
