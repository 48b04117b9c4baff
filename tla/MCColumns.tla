------------------------------ MODULE MCColumns ------------------------------
(* Scenarios for ColumnScan: a fixed collection asked a wide range of         *)
(* questions over columns beside the records and over native segments; and   *)
(* writers, passes and restarts racing the scans.                             *)
EXTENDS ColumnScan

MCNarrow == <<4>>
A == Ref("", "a")
B == Ref("", "b")
E == Ref("", "e")
G == Ref("", "g")
H == Ref("", "h")
T == Ref("", "t")
X == Ref("", "x")
I(n) == Lit(VInt(n))
S(c) == Lit(VStr(<<c>>))
Yes == Lit(VBool(TRUE))
Attrs == <<"a", "b", "e", "g", "h", "t", "x">>
Of(es) == LET ns == SelectSeq(Attrs, LAMBDA n : n \in DOMAIN es) IN Ad(1, ns, [i \in DOMAIN ns |-> es[ns[i]]])
Stored0(key, es) == [key |-> key, ad |-> Of(es)]

\* Integers that escape four bits, a real among integers, a missing attribute,
\* members and exceptions of the group {g, h}, and expressions.
Mixed ==
  <<Stored0("1", [a |-> I(3), t |-> S(120), e |-> I(1)]),
    Stored0("2", [a |-> I(-2), t |-> S(88), e |-> I(5)]),
    Stored0("3", [a |-> I(100), t |-> S(120), e |-> I(2), g |-> I(1), h |-> I(2)]),
    Stored0("4", [a |-> Lit(VReal(3)), t |-> S(121), e |-> I(3)]),
    Stored0("5", [t |-> I(5), b |-> Yes, e |-> I(2)]),
    Stored0("6", [a |-> I(1), t |-> S(121), g |-> I(5), x |-> Bin("+", A, I(1))]),
    Stored0("7", [a |-> I(0), t |-> S(121), e |-> I(2), g |-> I(100), h |-> S(120)]),
    Stored0("8", [a |-> I(3), t |-> S(122), e |-> I(0)]),
    Stored0("1", [a |-> I(3), t |-> S(88), e |-> I(7)])>>
Computed ==
  [i \in DOMAIN Mixed |-> IF Mixed[i].key # "2" THEN Mixed[i]
                          ELSE Stored0("2", [a |-> I(-2), t |-> S(88), e |-> Bin("+", A, I(7))])]

Counting(q) == [what |-> "count", q |-> q, names |-> {}, by |-> ""]
Stats(q, n) == [what |-> "stats", q |-> q, names |-> {n}, by |-> ""]
Grouped(q, n, m) == [what |-> "groups", q |-> q, names |-> {n, m}, by |-> n]
Rows(q, ns) == [what |-> "rows", q |-> q, names |-> ns, by |-> ""]

Numeric0 == {Bin(op, A, v) : op \in {"<", ">=", "==", "!="}, v \in {I(3), I(100), Lit(VReal(3))}}
Exprs ==
  {Bin(op, T, S(c)) : op \in {"==", "!=", "<", "<=", ">", ">="}, c \in {88, 121}}
  \cup {Bin("is", T, S(120)), Un("!", Bin("==", T, S(120))), Bin(">", Bin("+", A, I(1)), I(3)), Bin("<=", I(2), A),
        Bin("||", Bin("==", T, S(122)), Bin(">", A, I(50))), Un("!", Bin(">", Bin("*", A, I(2)), I(3))),
        Bin("&&", Bin("!=", T, S(88)), Bin("<", A, Bin("+", A, I(1)))), B, Bin("&&", B, Bin("==", T, I(5))),
        Bin("==", G, H), Bin(">", G, I(1)), Bin("==", H, S(120)), Bin("<", Ref("TARGET", "a"), I(3)), Bin("is", G, Lit(Undef)),
        Bin("==", X, I(2)), Bin("!=", T, S(120)), Bin("isnt", G, H)}
Presences == {Bin("is", A, Lit(Undef)), Bin("isnt", T, Lit(Undef)), Un("!", Call("isundefined", <<A>>))}

Wide(native, dicts, records, hots, more) ==
  [records |-> records, keys |-> {}, ads |-> {}, writes |-> 0, orders |-> {Attrs},
   native |-> native, dicts |-> dicts, grouped |-> TRUE, reschema |-> FALSE, passes |-> 1, hots |-> hots,
   opens |-> {}, sampled |-> {"1", "2", "3", "4", "5", "7", "8"},
   asks |-> {Counting(q) : q \in Numeric0 \cup Exprs \cup Presences}
     \cup {Stats(NoNode, "a"), Stats(Bin(">", A, I(0)), "a"), Stats(Bin("<", A, I(3)), "e")}
     \cup {Grouped(Bin(">=", A, I(0)), "a", "e"), Grouped(Bin("==", T, S(121)), "a", "e")}
     \cup {Rows(q, ns) : q \in {NoNode, Bin(">", A, I(2)), Bin("==", T, S(120)), Bin("==", X, I(2))},
                         ns \in {{}, {"a", "h", "x"}}}
     \cup more]
\* Writers and passes race a scan.
Racing ==
  [records |-> SubSeq(Mixed, 1, 7), keys |-> {"1", "3"}, ads |-> {Of([a |-> I(50), e |-> I(6)])}, writes |-> 2,
   orders |-> {Attrs}, native |-> TRUE, dicts |-> FALSE, grouped |-> FALSE,
   reschema |-> TRUE, passes |-> 2, hots |-> {{"a"}}, opens |-> {}, sampled |-> {"1", "2", "3", "4", "7"},
   asks |-> {Counting(Bin(">", A, I(2))), Counting(Bin(">", Bin("+", A, I(1)), I(3))), Stats(Bin(">=", A, I(1)), "e"),
             Rows(Bin(">", A, I(2)), {"a", "t"})}]
\* Closed and opened by a program that interns seven names of its own first.
Reopening ==
  [records |-> Mixed, keys |-> {}, ads |-> {}, writes |-> 0,
   orders |-> {Attrs, <<"x", "t", "h", "e", "g", "b", "a">>},
   native |-> TRUE, dicts |-> FALSE, grouped |-> FALSE, reschema |-> FALSE, passes |-> 2, hots |-> {{}},
   opens |-> {<<"1", "2", "3", "4", "5", "6", "7">>}, sampled |-> {"1", "2", "3", "4", "7"},
   asks |-> {Counting(Bin(">", Bin("+", A, I(1)), I(3))), Counting(Bin("==", T, S(120))), Counting(Bin("is", A, Lit(Undef))),
             Rows(Bin("==", T, S(120)), {"a", "g"}), Rows(NoNode, {})}]
MCScenarios ==
  {Wide(FALSE, FALSE, Computed, {{}, {"a"}},
        {Counting(Bin("is", E, Lit(Undef))), Counting(Bin(">", Bin("+", E, I(0)), I(2)))}),
   Wide(TRUE, FALSE, Mixed, {{}}, {}), Wide(TRUE, TRUE, Mixed, {{"a"}}, {}), Racing, Reopening}

=============================================================================
