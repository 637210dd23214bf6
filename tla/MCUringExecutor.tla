--------------------------- MODULE MCUringExecutor ---------------------------
(***************************************************************************)
(* Linked writes and single operations, on a ring so small that it fills   *)
(* up and that its indices wrap.                                           *)
(***************************************************************************)
EXTENDS UringExecutor, TLC

CONSTANTS t1, t2, t3, a1, a2, a3
=============================================================================
