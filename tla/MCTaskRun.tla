------------------------------ MODULE MCTaskRun ------------------------------
(***************************************************************************)
(* A task that is run, one that is awaited, and a place to move them to.   *)
(***************************************************************************)
EXTENDS TaskRun

CONSTANTS t1, t2, s1, s2, s3

MCTasks   == {t1, t2}
MCAwaited == {t2}
MCSlots   == {s1, s2, s3}
=============================================================================
