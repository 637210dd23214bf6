----------------------------- MODULE WalPromise ------------------------------
(***************************************************************************)
(* What the durable write path (module WalStore) promises to the callers   *)
(* of storage_engine::DB, as a refinement.                                 *)
(***************************************************************************)
EXTENDS WalStore

\* DB promises what DurableStore states: a write takes effect as a whole and
\* for good when it is acknowledged, one that failed or was cut off may take
\* effect at the next recovery, and nothing else ever shows.
Store == INSTANCE DurableStore WITH
  open <- IsOpen, table <- IF IsOpen THEN mem ELSE [k \in Keys |-> Untouched],
  pending <- rec, kept <- LogKept, orderly <- Orderly
ImplementsDurableStore == Store!Spec
=============================================================================
