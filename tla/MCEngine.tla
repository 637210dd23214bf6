------------------------------ MODULE MCEngine -------------------------------
(***************************************************************************)
(* An instance of Engine for TLC: a thread and a coroutine that write the  *)
(* same key.                                                               *)
(***************************************************************************)
EXTENDS Engine, TLC

CONSTANTS c1, c2, k1, k2, v1, v2

MCBatch ==
  (c1 :> <<[key |-> k1, val |-> v1]>>)
    @@ (c2 :> <<[key |-> k1, val |-> v2], [key |-> k2, val |-> v2]>>)
=============================================================================
