-------------------------- MODULE ShardRefinement --------------------------
(***************************************************************************)
(* Shard implements SnapshotStore. A key's current version is the record   *)
(* of the live segments visible at commitSeq, not what the writer holding  *)
(* the lock has already stored: a commit takes effect when it is unlocked. *)
(***************************************************************************)
EXTENDS Shard

CurrentAt(k) == SeqsOf(Stored(k, commitSeq))

Touches(k) == {i \in 1 .. commitSeq : hist[i][k] # "none"}
LastTouch(k) ==
  IF Touches(k) = {} THEN 0 ELSE CHOOSE i \in Touches(k) : \A j \in Touches(k) : j <= i

Store == INSTANCE SnapshotStore
  WITH ver <- commitSeq,
       cur <- [k \in Keys |-> CurrentAt(k)],
       stamp <- [k \in Keys |-> LastTouch(k)]

\* Every step of the shard is one atomic commit of a versioned map, the opening
\* or end of a transaction, or invisible: segments, chains, sealing, eviction
\* and reclaim never show through (shard.put, del, applyTxn, reclaimDeadShard).
AtomicSnapshots == Store!SSpec

=============================================================================
