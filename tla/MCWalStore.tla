------------------------------ MODULE MCWalStore -----------------------------
(***************************************************************************)
(* Instances of WalStore for TLC.                                          *)
(***************************************************************************)
EXTENDS WalPromise, TLC

CONSTANTS k1, k2, v1

\* Two single Puts of the same size, a group of a Put and a Delete, and one that
\* is too large for a writev and for the length field of its header.
MCPut(k) == [key |-> k, val |-> v1]
MCGroups ==
  { <<MCPut(k1)>>,
    <<MCPut(k2)>>,
    <<MCPut(k2), [key |-> k1, val |-> Deleted]>>,
    <<MCPut(k1), MCPut(k2), MCPut(k2)>> }

\* Honest syncs on an unordered file system; crashes on an ordered one; power
\* losses and failed writes; and what no code can make good.
MCFaultSets ==
  { {"write", "sync", "crash", "power", "unordered"},
    {"crash", "power"},
    {"write", "power"},
    {"read", "sync", "forget", "power", "dir"} }
=============================================================================
