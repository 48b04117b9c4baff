------------------------------ MODULE MCShard ------------------------------
(* Small instances of Shard. *)
EXTENDS ShardInvariant, TLC

CONSTANTS k1, k2, t1

TwoKeys == {k1, k2}
OwnBucket == k1 :> 1 @@ k2 :> 2
SinglePuts == {<<k1>>, <<k2>>}
=============================================================================
