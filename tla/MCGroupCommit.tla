---------------------------- MODULE MCGroupCommit ----------------------------
(***************************************************************************)
(* Instances of GroupCommit for TLC.                                       *)
(***************************************************************************)
EXTENDS GroupCommit, TLC

CONSTANTS c1, c2, c3

\* Two threads that use the blocking API and one coroutine.
MCClients      == {c1, c2, c3}
MCAsyncClients == {c3}

\* One of each.
MCTwoClients == {c1, c3}

\* A coroutine that goes on to use the blocking API where it was resumed.
MCBlocking == {c3}
=============================================================================
