---------------------------- MODULE MCCompaction ----------------------------
(* Small instances of Compaction. *)
EXTENDS Compaction, TLC

CONSTANTS k1, k2, t1, p1

OneKey == {k1}
TwoKeys == {k1, k2}
OneBucket == [k \in Keys |-> 1]
OnePut == {<<k1>>}
\* a batch may name a key twice
PairPuts == {<<k1>>, <<k2, k2>>}
=============================================================================
