--------------------------- MODULE SnapshotStore ---------------------------
(***************************************************************************)
(* What a shard promises its clients, without segments, chains or reclaim: *)
(* a map from keys to versions that every commit changes in one step, and  *)
(* optimistic transactions that commit a write only if nobody changed its  *)
(* key after their snapshot (collections/docs/MVCC_TRANSACTIONS.md).       *)
(***************************************************************************)
EXTENDS Integers

CONSTANTS Keys, Txns

VARIABLES
  ver,     \* commits so far; a version is the number of the commit that put it
  cur,     \* key -> its current version, a set of at most one
  stamp,   \* key -> the last commit that touched it
  snap     \* transaction -> its snapshot, or -1

svars == <<ver, cur, stamp, snap>>

SInit ==
  /\ ver = 0
  /\ cur = [k \in Keys |-> {}]
  /\ stamp = [k \in Keys |-> 0]
  /\ snap = [t \in Txns |-> -1]

\* One commit that puts the keys P and removes the keys D.
Apply(P, D) ==
  /\ P \cap D = {}
  /\ cur' = [k \in Keys |-> IF k \in P THEN {ver + 1} ELSE IF k \in D THEN {} ELSE cur[k]]
  /\ stamp' = [k \in Keys |-> IF k \in P \cup D THEN ver + 1 ELSE stamp[k]]

\* A batch of puts, a delete or a truncation.
Write ==
  /\ ver' = ver + 1
  /\ snap' = snap
  /\ \E P, D \in SUBSET Keys : Apply(P, D)

Take(t) ==
  /\ snap[t] = -1
  /\ snap' = [snap EXCEPT ![t] = ver]
  /\ UNCHANGED <<ver, cur, stamp>>

\* The writes of t that won are applied, all in one step.
CommitTxn(t) ==
  /\ ver' = ver + 1
  /\ snap' = [snap EXCEPT ![t] = -1]
  /\ \E P, D \in SUBSET Keys :
       /\ \A k \in P \cup D : stamp[k] <= snap[t]
       /\ Apply(P, D)

\* t ends with nothing to apply.
EndTxn(t) ==
  /\ snap' = [snap EXCEPT ![t] = -1]
  /\ UNCHANGED <<ver, cur, stamp>>

SNext == Write \/ \E t \in Txns : Take(t) \/ CommitTxn(t) \/ EndTxn(t)

SSpec == SInit /\ [][SNext]_svars

=============================================================================
