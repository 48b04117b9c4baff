------------------------------- MODULE MCQuery -------------------------------
(* Scenarios for QueryScan: writers and index passes racing a scan; inherited *)
(* attributes; and a fixed collection asked a wide range of queries.          *)
EXTENDS QueryScan

A == Ref("", "a")
B == Ref("", "b")
MyA == Ref("MY", "a")
I(n) == Lit(VInt(n))
R(h) == Lit(VReal(h))
S(c) == Lit(VStr(<<c>>))
One == Ad(1, <<"a">>, <<I(1)>>)
Three == Ad(1, <<"a", "b">>, <<I(3), S(120)>>)
Half == Ad(1, <<"a">>, <<R(1)>>)
Capital == Ad(1, <<"b">>, <<S(88)>>)
Truth == Ad(1, <<"a", "b">>, <<Lit(VBool(TRUE)), Lit(VBool(FALSE))>>)
Computed == Ad(1, <<"a", "b">>, <<Bin("+", B, I(2)), I(2)>>)
Cycle == Ad(1, <<"a", "b">>, <<Bin("+", B, I(1)), A>>)
Word == Ad(1, <<"a">>, <<S(120)>>)
Bad == Ad(1, <<"a">>, <<Bin("/", I(1), I(0))>>)
Empty == Ad(1, <<>>, <<>>)
Parent == Ad(3, <<"b">>, <<I(2)>>)

Stored(key, ad) == [key |-> key, ad |-> ad]
Both == [cat |-> {"b"}, val |-> {"a"}]
Swapped == [cat |-> {"a"}, val |-> {"b"}]

Racing ==
  [records |-> <<Stored("j", One), Stored("k", Three)>>, writes |-> 2, chained |-> FALSE,
   ads |-> {Half, Three, Computed}, specs |-> {Both},
   queries |-> {Bin(">=", A, I(3)),
                Bin("&&", Bin(">", A, I(0)), Bin("<", A, I(3))),
                Bin("||", Bin("==", A, I(1)), Bin("==", B, S(120)))}]
Inheriting ==
  [records |-> <<Stored("p", Parent), Stored("k", One)>>, writes |-> 2, chained |-> TRUE,
   ads |-> {One, Parent}, specs |-> {},
   queries |-> {Bin("==", B, I(2)), Bin("&&", A, Ref("PARENT", "b"))}]
Various ==
  [records |-> <<Stored("1", One), Stored("2", Three), Stored("3", Half), Stored("4", Capital), Stored("5", Truth),
                 Stored("6", Computed), Stored("7", Cycle), Stored("8", Word), Stored("9", Bad), Stored("10", Cycle), Stored("11", Computed), Stored("12", Empty)>>,
   writes |-> 0, chained |-> FALSE, ads |-> {}, specs |-> {Both, Swapped},
   queries |-> {Bin(op, x, y) : op \in {"==", "!=", "<", "<=", ">", ">="}, x \in {A}, y \in {I(3), R(1), S(120)}}
     \cup {A, Un("!", A), Un("!", Bin("==", MyA, I(3))), Un("!", B), Bin("isnt", A, Lit(Undef)),
           Call("isundefined", <<B>>), Bin("is", A, I(3)), Bin("isnt", B, S(120)), Bin("||", A, B),
           Bin("&&", Bin("==", A, I(3)), Bin("<", A, I(1))),
           Bin("||", Bin("==", A, I(1)), Bin("==", A, I(3))), Cond(B, A, Lit(VBool(TRUE)))}]

Ordered(s, r) == [records |-> s.records, writes |-> s.writes, chained |-> s.chained, ads |-> s.ads,
                  specs |-> s.specs, queries |-> s.queries, reverse |-> r]
MCScenarios ==
  {Ordered(Racing, FALSE), Ordered([Racing EXCEPT !.writes = 1], TRUE), Ordered(Inheriting, FALSE),
   Ordered(Various, FALSE), Ordered(Various, TRUE)}
MCParentKey == [j |-> "", k |-> "p", p |-> ""]
=============================================================================
