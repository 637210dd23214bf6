------------------------------ MODULE MCMemTable -----------------------------
(***************************************************************************)
(* Three keys on two shards; groups that touch one shard, both, and one    *)
(* key twice.                                                              *)
(***************************************************************************)
EXTENDS MemTable

CONSTANTS k1, k2, k3, v1

MCKeys     == {k1, k2, k3}
MCShardFor == [k \in MCKeys |-> IF k = k2 THEN 2 ELSE 1]

Put(k)  == [key |-> k, val |-> v1]
Del(k)  == [key |-> k, val |-> Deleted]
MCGroups == {<<Put(k1), Del(k1)>>, <<Put(k2), Put(k3)>>, <<Put(k3)>>,
             <<Del(k2), Put(k1), Put(k2)>>}
=============================================================================
