----------------------------- MODULE MCLanguage -----------------------------
(* The laws, and ads with the attributes a, b and c to ask them of.          *)
EXTENDS Language

A == Ref("", "a")
B == Ref("", "b")
C == Ref("", "c")
I(n) == Lit(VInt(n))
S(s) == Lit(VStr(s))
F(fn, x) == Call(fn, <<x>>)
F2(fn, x, y) == Call(fn, <<x, y>>)
F3(fn, x, y, z) == Call(fn, <<x, y, z>>)
Is2(x, y) == Bin("is", x, y)
Implies(x, y) == Bin("||", Un("!", Paren(x)), y)
And2(x, y) == Bin("&&", x, y)

Ads1(X) == {Ad(1, <<"a">>, <<Lit(x)>>) : x \in X}
Ads2(X, Y) == {Ad(1, <<"a", "b">>, <<Lit(x), Lit(y)>>) : x \in X, y \in Y}
Ads3(X, Y, Z) == {Ad(1, <<"a", "b", "c">>, <<Lit(x), Lit(y), Lit(z)>>) : x \in X, y \in Y, z \in Z}

Ints == {VInt(n) : n \in {-8, -7, -2, -1, 0, 1, 2, 3, 7}}
Few == {VInt(n) : n \in 0..3}
Small == {VInt(n) : n \in 0..5}
Reals == {VReal(h) : h \in {-5, -2, -1, 0, 1, 3, 6}}
Numbers == {VInt(-2), VInt(0), VInt(3), VReal(1), VReal(-3), VBool(TRUE)}
Versions == {VStr(s) : s \in {<<>>, <<48>>, <<48, 48>>, <<48, 49>>, <<49>>, <<49, 48>>, <<57>>, <<97>>,
                              <<97, 49>>, <<97, 48, 49>>, <<97, 57, 46>>, <<97, 49, 48>>}}
Texts3 == {VStr(s) : s \in {<<>>, <<120>>, <<88>>, <<120, 121>>, <<121, 120, 120>>, <<120, 44, 121>>}}
ListTexts == {VStr(s) : s \in {<<>>, <<120>>, <<120, 44, 121>>, <<121, 44, 32, 120>>, <<44, 44, 88>>, <<32, 120, 32>>}}
Words == {VStr(s) : s \in {<<120>>, <<88>>, <<121>>}}
Anything == {Undef, Err, VBool(TRUE), VBool(FALSE), VInt(0), VInt(2), VReal(1), VStr(<<120>>), VList(<<>>)}

Law(e, ads) == [es |-> {e}, ads |-> ads, holds |-> TRUE]
Pair == ListOf(<<A, B>>)
CommaText == S(<<44>>)
Types == <<"isundefined", "iserror", "isstring", "isinteger", "isreal", "isboolean", "islist", "isclassad">>

ArithmeticLaws ==
  "recompose" :> Law(Bin("||", Bin("==", B, I(0)), Bin("==", Bin("+", Bin("*", Bin("/", A, B), B), Bin("%", A, B)), A)),
                     Ads2(Ints \ {VInt(MinInt)}, Ints))
  @@ "quantize" :> Law(And2(And2(Bin(">=", F2("quantize", A, B), A), Bin("<", Bin("-", F2("quantize", A, B), A), B)),
                            Bin("==", Bin("%", F2("quantize", A, B), B), I(0))), Ads2(Small, {VInt(1), VInt(2), VInt(3)}))
  @@ "floor" :> Law(And2(And2(Bin("<=", F("floor", A), A), Bin("<", A, Bin("+", F("floor", A), I(1)))),
                         Bin("==", F("ceil", A), Un("-", F("floor", Un("-", A))))), Ads1(Reals))
  @@ "round" :> Law(And2(Bin("<=", Bin("-", F("round", A), A), Lit(VReal(1))), Bin("<=", Bin("-", A, F("round", A)), Lit(VReal(1)))),
                    Ads1(Reals))
  @@ "extremes" :> Law(And2(Bin("==", Bin("+", F("min", Pair), F("max", Pair)), F("sum", Pair)),
                            Bin("==", Bin("*", F("avg", Pair), Lit(VReal(4))), F("sum", Pair))), Ads2(Few, Few))
  @@ "shift" :> Law(Is2(Bin(">>", Bin("<<", A, I(1)), I(1)), A), Ads1({VInt(n) : n \in -4..3}))
  @@ "bits" :> Law(Is2(Bin("^", Bin("|", A, B), Bin("&", A, B)), Bin("^", A, B)), Ads2(Ints, Ints))
TextLaws ==
  "cut" :> Law(Is2(F2("strcat", F3("substr", A, I(0), B), F2("substr", A, B)), A), Ads2(Texts3, Ints))
  @@ "orders" :> Law(And2(And2(Is2(Bin("<", A, B), Bin("<", F2("stricmp", A, B), I(0))),
                               Is2(Is2(A, B), Bin("==", F2("strcmp", A, B), I(0)))),
                          Is2(Bin("==", A, B), Is2(F("tolower", A), F("tolower", B)))), Ads2(Texts3, Texts3))
  @@ "case" :> Law(And2(Is2(F("tolower", F("toupper", A)), F("tolower", A)), Is2(F("size", F("toupper", A)), F("size", A))),
                   Ads1(Texts3))
  @@ "int text" :> Law(Is2(F("int", F("string", A)), A), Ads1({VInt(n) : n \in MinInt..MaxInt}))
  @@ "real text" :> Law(Is2(F("real", F("string", A)), A), Ads1(Reals))
  @@ "replace" :> Law(And2(Is2(F3("replaceall", B, A, B), A),
                           Is2(F2("regexp", B, A), Bin("isnt", F3("replace", B, A, S(<<>>)), A))),
                      Ads2(Texts3, Words))
  @@ "user" :> Law(And2(Is2(Subscript(F("splitusername", F3("strcat", A, S(<<64>>), B)), I(0)), A),
                        Is2(Subscript(F("splitslotname", F3("strcat", A, S(<<64>>), B)), I(1)), B)), Ads2(Texts3, Texts3))
VersionLaws ==
  "antisymmetric" :> Law(And2(Is2(F2("versionlt", A, B), F2("versiongt", B, A)),
                              Is2(F2("versioneq", A, B), Is2(A, B))), Ads2(Versions, Versions))
  @@ "transitive" :> Law(And2(Implies(And2(F2("versionle", A, B), F2("versionle", B, C)), F2("versionle", A, C)),
                              Is2(F3("version_in_range", B, A, C), And2(F2("versionge", B, A), F2("versionge", C, B)))),
                         Ads3(Versions, Versions, Versions))
ListLaws ==
  "member" :> Law(Is2(F2("stringlistmember", B, A), F3("anycompare", S(<<105, 115>>), F2("split", A, S(<<44, 32>>)), B)),
                  Ads2(ListTexts, Words))
  @@ "imember" :> Law(Is2(F2("stringlistimember", B, A), F2("member", B, F("split", A))), Ads2(ListTexts, Words))
  @@ "lists" :> Law(And2(Is2(F2("stringlistsintersect", A, B), F2("stringlistsintersect", B, A)),
                         Implies(And2(F2("stringlistsubsetmatch", A, B), Bin(">", F("stringlistsize", A), I(0))),
                                 F2("stringlistsintersect", A, B))), Ads2(ListTexts, ListTexts))
  @@ "join" :> Law(Bin("==", F("size", F2("split", F2("join", CommaText, Pair), CommaText)), I(2)), Ads2(Words, Words))
  @@ "duality" :> Law(Is2(F3("anycompare", S(<<60>>), Pair, C), Un("!", F3("allcompare", S(<<62, 61>>), Pair, C))),
                      Ads3(Numbers, Numbers, Numbers))
  @@ "elements" :> Law(And2(Is2(Subscript(Pair, I(1)), B), Is2(Select(Record(<<"b">>, <<A>>), "b"), A)),
                       Ads2(Anything \ {VList(<<>>)}, Anything \ {VList(<<>>)}))
  @@ "contexts" :> Law(Bin("==", F2("countmatches", Bin("<", C, I(2)), ListOf(<<Record(<<"c">>, <<I(1)>>), Record(<<"c">>, <<I(3)>>)>>)),
                           I(1)), Ads1(Small))
LogicLaws ==
  "de morgan" :> Law(Is2(Un("!", Paren(And2(A, B))), Bin("||", Un("!", A), Un("!", B))), Ads2(Anything, Anything))
  @@ "converse" :> Law(Is2(Bin("<", A, B), Bin(">", B, A)), Ads2(Anything, Anything))
  @@ "negated" :> Law(Is2(Un("!", Paren(Bin("==", A, B))), Bin("!=", A, B)), Ads2(Anything, Anything))
  @@ "choice" :> Law(Is2(F3("ifthenelse", A, B, I(1)), Cond(A, B, I(1))), Ads2(Anything \ {VList(<<>>)}, Anything \ {VList(<<>>)}))
  @@ "types" :> Law(Bin("==", FoldLeft(LAMBDA e, t : Bin("+", e, F(t, A)), I(0), Types), I(1)), Ads1(Anything))
  @@ "eval" :> Law(Is2(F("eval", S(<<97>>)), A), Ads1(Anything \ {VList(<<>>)}))

\* The machine: nested operators over every kind of value, a cycle, a tree too tall.
Atoms == {A, B, Lit(Undef), Lit(VBool(FALSE)), I(1)}
Operators == {"&&", "||", "+", "<", "is"}
Shapes == {Bin(o, x, Bin(p, y, A)) : o, p \in Operators, x, y \in Atoms}
            \cup {Elvis(Bin(o, x, A), y) : o \in Operators, x, y \in Atoms}
            \cup {Un("!", Paren(Bin(o, Elvis(A, x), y))) : o \in Operators, x, y \in Atoms}
            \cup {Cond(x, Bin(o, A, y), B) : o \in Operators, x, y \in Atoms}
ShapeAds == {Ad(1, <<"a", "b">>, <<x, y>>) : x \in {Lit(Undef), I(1), Lit(VBool(TRUE)), B}, y \in {Lit(Err), I(0), A}}
Tall == Bin("+", Bin("+", Bin("+", Bin("+", Bin("+", A, A), A), A), A), A)
MCLaws ==
  ArithmeticLaws @@ TextLaws @@ VersionLaws @@ ListLaws @@ LogicLaws
  @@ ("machine" :> [es |-> Shapes \cup {Tall}, ads |-> ShapeAds, holds |-> FALSE])
=============================================================================
