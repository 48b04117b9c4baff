------------------------------ MODULE MCWatch ------------------------------
(* A parent and its child, for TLC. *)
EXTENDS Watch

Kids == [k \in Keys |-> IF k = "p" THEN NoKey ELSE "p"]

Mode(race, batch, consumer, filter, coalesce, most, vals) ==
  [race |-> race, batch |-> batch, consumer |-> consumer, filter |-> filter, coalesce |-> coalesce,
   faults |-> most, vals |-> vals]

Regular ==
  {Mode("none", TRUE, "view", FALSE, FALSE, 1, Vals), Mode("catchup", FALSE, "view", FALSE, FALSE, 0, Vals),
   Mode("none", FALSE, "sink", FALSE, TRUE, 1, Matching), Mode("none", FALSE, "client", TRUE, FALSE, 1, Vals)}

OneTxn == {<<"k", "p">>}
=============================================================================
