------------------------------ MODULE MCViews ------------------------------
(* Rows for TLC: two buckets, two labels, a late, an undefined and an       *)
(* unbucketed one.                                                          *)
EXTENDS Views

Row(l, t, v) == [label |-> l, time |-> t, val |-> v]
SomeRows == {Row("x", 0, 1), Row("y", 1, 2), Row("y", 2, Undefined), Row("x", NotNumeric, 1)}
=============================================================================
