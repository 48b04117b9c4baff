---------------------------- MODULE MCDurability ----------------------------
(* A small instance of Durability. *)
EXTENDS Durability

CONSTANTS k1, w1, w2

OneKey == {k1}
TwoWriters == {w1, w2}
=============================================================================
