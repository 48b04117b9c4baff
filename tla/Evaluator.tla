------------------------------ MODULE Evaluator ------------------------------
(***************************************************************************)
(* The tree-walking evaluator of ClassAd expressions                       *)
(* (classad/evaluator.go) and the folding of constants (classad.go).       *)
(*                                                                         *)
(* An expression is a node [k, op, ns, v, a]: its kind, operator or scope, *)
(* names, literal value and subexpressions.  An ad is a frame              *)
(* [id, ns, es]: its identity, attribute names (lower case, as the index   *)
(* keeps them) and expressions.  A scope is the chain of an ad and its     *)
(* parents.  A context holds the scope, the attributes being evaluated     *)
(* (the code keeps them on the ads), the depth, and the two ads of a match.*)
(***************************************************************************)
EXTENDS Builtins

CONSTANTS MaxDepth    \* nested evaluations before a panic (2000 in the code)

ASSUME DepthAssumption == MaxDepth \in Nat \ {0}

Node(k, op, ns, v, a) == [k |-> k, op |-> op, ns |-> ns, v |-> v, a |-> a]
Lit(v) == Node("lit", "", <<>>, v, <<>>)
Ref(scope, name) == Node("ref", scope, <<name>>, Undef, <<>>)
Bin(op, l, r) == Node("bin", op, <<>>, Undef, <<l, r>>)
Un(op, e) == Node("un", op, <<>>, Undef, <<e>>)
Paren(e) == Node("paren", "", <<>>, Undef, <<e>>)
Cond(c, t, f) == Node("cond", "", <<>>, Undef, <<c, t, f>>)
Elvis(l, r) == Node("elvis", "", <<>>, Undef, <<l, r>>)
ListOf(es) == Node("list", "", <<>>, Undef, es)
Record(ns, es) == Node("rec", "", ns, Undef, es)
Call(fn, args) == Node("call", fn, <<>>, Undef, args)
Select(e, name) == Node("sel", "", <<name>>, Undef, <<e>>)
Subscript(e, i) == Node("sub", "", <<>>, Undef, <<e, i>>)
IsLiteral(e) == e.k = "lit"

Ad(id, ns, es) == [id |-> id, ns |-> ns, es |-> es]
Names(ad) == ToSet(ad.ns)
Lookup(ad, name) == ad.es[CHOOSE i \in DOMAIN ad.ns : ad.ns[i] = name]

\* The two ads of a match, each the other's target; an empty scope is no ad.
TargetOf(c) ==
  IF c.chain = <<>> THEN <<>>
  ELSE IF c.chain[1].id = 1 THEN c.target ELSE IF c.chain[1].id = 2 THEN c.my ELSE <<>>
ParentOf(c) == IF c.chain = <<>> THEN <<>> ELSE Tail(c.chain)
Context(my, target) == [chain |-> my, busy |-> {}, depth |-> 0, my |-> my, target |-> target]

-----------------------------------------------------------------------------
\* The panic of a cycle, or of too deep a nesting, unwinds to a caller that
\* recovers it as ERROR, and leaves the evaluator at the depth it was raised.
Cyclic(depth) == Value("cyclic", depth, <<>>, <<>>, <<>>)
IsCyclic(v) == v.t = "cyclic"
Bind(v, f(_)) == IF IsCyclic(v) THEN v ELSE f(v)
BindAll(vs, f(_)) == IF Some(vs, IsCyclic) THEN vs[SelectInSeq(vs, IsCyclic)] ELSE f(vs)
Recovered(v) == IF IsCyclic(v) THEN Err ELSE v

\* The part of a scope from the first ad that has the name.
Owner(chain, name) ==
  LET has == {i \in DOMAIN chain : name \in Names(chain[i])}
  IN IF has = {} THEN <<>>
     ELSE SubSeq(chain, CHOOSE i \in has : \A j \in has : i <= j, Len(chain))

Texts == [t \in {<<97>>, <<98>>} |-> IF t = <<97>> THEN "a" ELSE "b"]

RECURSIVE Evaluate(_, _)

EvalAttrExpr(owner, name, c) ==
  LET e == Lookup(owner[1], name)
      within == [c EXCEPT !.chain = owner, !.busy = @ \cup {<<owner[1].id, name>>}]
  IN IF ~IsLiteral(e) /\ <<owner[1].id, name>> \in c.busy THEN Cyclic(c.depth)
     ELSE Evaluate(e, IF IsLiteral(e) THEN c ELSE within)
EvalAttrIn(chain, name, c) == IF chain = <<>> THEN Undef ELSE EvalAttrExpr(chain, name, c)

\* An unscoped name is sought in the ad and its parents, then in the target and
\* its parents; a scoped one in the one ad.
InFirst(chain, name) == IF chain # <<>> /\ name \in Names(chain[1]) THEN chain ELSE <<>>
ScopeOf(scope, name, c) ==
  CASE scope = "MY" -> InFirst(c.chain, name)
    [] scope = "TARGET" -> InFirst(TargetOf(c), name)
    [] scope = "PARENT" -> InFirst(ParentOf(c), name)
    [] OTHER -> IF Owner(c.chain, name) # <<>> THEN Owner(c.chain, name) ELSE Owner(TargetOf(c), name)
ResolveReference(scope, name, c) == EvalAttrIn(ScopeOf(scope, name, c), name, c)

\* The clock stands in for an attribute CurrentTime that is not there.
IsCurrentTime(scope, name) == scope \in {"", "MY"} /\ name = "currenttime"
AttributeReference(scope, name, c) ==
  Bind(ResolveReference(scope, name, c),
       LAMBDA v : IF IsUndef(v) /\ IsCurrentTime(scope, name) THEN VInt(Now) ELSE v)

EvalShortCircuit(e, c) ==
  Bind(Evaluate(e.a[1], c), LAMBDA l :
    IF ShortCircuits(e.op, l) THEN OfState(Logical(l))
    ELSE Bind(Evaluate(e.a[2], c), LAMBDA r : Binary(e.op, l, r)))
EvalBinary(e, c) ==
  IF e.op \in {"&&", "||"} THEN EvalShortCircuit(e, c)
  ELSE Bind(Evaluate(e.a[1], c), LAMBDA l :
         Bind(Evaluate(e.a[2], c), LAMBDA r : Binary(e.op, l, r)))

\* An undefined condition evaluates both branches, for the panic they may raise.
EvalConditional(e, c) ==
  Bind(Evaluate(e.a[1], c), LAMBDA b :
    CASE Logical(b) = "true" -> Evaluate(e.a[2], c)
      [] Logical(b) = "false" -> Evaluate(e.a[3], c)
      [] Logical(b) = "undef" -> BindAll(<<Evaluate(e.a[2], c), Evaluate(e.a[3], c)>>,
                                         LAMBDA vs : Undef)
      [] OTHER -> Err)
EvalElvis(e, c) ==
  Bind(Evaluate(e.a[1], c), LAMBDA l : IF IsUndef(l) THEN Evaluate(e.a[2], c) ELSE l)

-----------------------------------------------------------------------------
\* Lists are lazy: elements are evaluated in the scope and at the depth of the
\* literal, or at the depth of the evaluator that asks if it is deeper.
LazyContext(v, depth, c) ==
  [c EXCEPT !.chain = v.c, !.depth = IF depth > v.n THEN depth ELSE v.n]
ElementAt(v, i, c) ==
  IF v.t = "list" THEN v.l[i] ELSE Recovered(Evaluate(v.l[i], LazyContext(v, c.depth, c)))
Forced(v, c) ==
  IF v.t # "lazy" THEN v
  ELSE VList([i \in 1..Len(v.l) |-> Recovered(Evaluate(v.l[i], LazyContext(v, 0, c)))])
Propagating(v, c) ==
  IF v.t = "list" THEN v.l
  ELSE [i \in 1..Len(v.l) |-> Evaluate(v.l[i], LazyContext(v, c.depth, c))]

\* A record literal is a new ad, with no parent until something is selected.
NewAd(e, c) == Value("ad", 0, <<>>, <<>>, <<Ad(10 + Cardinality(c.busy), e.ns, e.a)>>)

SelectAttr(v, name, c) ==
  IF IsUndef(v) THEN Undef
  ELSE IF ~IsAd(v) THEN Err
  ELSE AttributeReference("", name, [c EXCEPT !.chain = v.c \o c.chain])
EvalSelect(e, c) ==
  Bind(Evaluate(e.a[1], c), LAMBDA v :
    IF ~IsList(v) THEN SelectAttr(v, e.ns[1], c)
    ELSE BindAll(Propagating(v, c), LAMBDA vs :
           BindAll([i \in 1..Len(vs) |-> SelectAttr(vs[i], e.ns[1], c)], LAMBDA rs : VList(rs))))

\* An ad's own entry point: a new evaluator, with no parent to fall back on.
EvaluateAttr(chain, name, c) ==
  IF name \notin Names(chain[1]) THEN (IF name = "currenttime" THEN VInt(Now) ELSE Undef)
  ELSE Recovered(Evaluate(Lookup(chain[1], name), [c EXCEPT !.chain = chain, !.depth = 0]))
EvalSubscript(e, c) ==
  Bind(Evaluate(e.a[1], c), LAMBDA v :
    IF IsUndef(v) \/ IsErr(v) THEN v
    ELSE Bind(Evaluate(e.a[2], c), LAMBDA i :
      IF IsUndef(i) \/ IsErr(i) THEN i
      ELSE IF IsList(v) THEN (IF IsInt(i) /\ i.n >= 0 /\ i.n < Len(v.l) THEN ElementAt(v, i.n + 1, c)
                              ELSE Err)
      ELSE IF ~IsAd(v) \/ ~IsStr(i) THEN Err
      ELSE IF Fold(i.s) \in DOMAIN Texts THEN EvaluateAttr(v.c, Texts[Fold(i.s)], c) ELSE Undef))

-----------------------------------------------------------------------------
\* Functions that take their arguments unevaluated.
EvalUnparse(args, c) ==
  LET e == args[1]
      chain == CASE e.op = "TARGET" -> TargetOf(c) [] e.op = "PARENT" -> ParentOf(c)
                 [] OTHER -> c.chain
  IN IF Len(args) # 1 \/ e.k # "ref" THEN Err
     ELSE IF chain = <<>> THEN Undef
     ELSE IF e.ns[1] \notin Names(chain[1]) THEN Undef
     ELSE VStr(SourceText(Lookup(chain[1], e.ns[1])).s)

\* The model's texts that parse are the names of Texts and decimal numbers.
Parses(s) == s \in DOMAIN Texts \/ (s # <<>> /\ \A i \in DOMAIN s : s[i] \in Digit)
ParseExpr(s) == IF s \in DOMAIN Texts THEN Ref("", Texts[s]) ELSE Lit(VInt(Wrap(NumberOf(s, 10))))
EvalEval(args, c) ==
  IF Len(args) # 1 THEN Err
  ELSE Bind(Evaluate(args[1], c), LAMBDA v :
         IF IsUndef(v) THEN Undef
         ELSE IF ~IsStr(v) \/ ~Parses(v.s) THEN Err ELSE Evaluate(ParseExpr(v.s), c))

EvalIfThenElse(args, c) ==
  IF Len(args) # 3 THEN Err
  ELSE Bind(Evaluate(args[1], c), LAMBDA b :
         CASE Logical(b) = "true" -> Evaluate(args[2], c)
           [] Logical(b) = "false" -> Evaluate(args[3], c)
           [] OTHER -> OfState(Logical(b)))

\* strcat stops at its first UNDEFINED or ERROR argument.
EvalStrcat(args, c) ==
  LET vs == [i \in 1..Len(args) |-> Evaluate(args[i], c)]
      stops(v) == IsCyclic(v) \/ IsUndef(v) \/ IsErr(v)
      k == IF Some(vs, stops) THEN SelectInSeq(vs, stops) ELSE Len(vs)
  IN BindAll(SubSeq(vs, 1, k), Strcat)

\* countMatches and evalInEachContext: an attribute stands for the expression it
\* is bound to, which each ad of the list evaluates as its own.
RECURSIVE Unwrapped(_)
Unwrapped(e) == IF e.k = "paren" THEN Unwrapped(e.a[1]) ELSE e
BoundExpr(e, c) ==
  LET r == Unwrapped(e)
      chain == IF r.op = "TARGET" THEN TargetOf(c) ELSE c.chain
  IN IF r.k # "ref" \/ chain = <<>> THEN e
     ELSE IF r.ns[1] \in Names(chain[1]) THEN Lookup(chain[1], r.ns[1]) ELSE e
EvalInNested(e, v, c) ==
  IF IsAd(v) THEN Evaluate(e, [c EXCEPT !.chain = v.c]) ELSE IF IsUndef(v) THEN Undef ELSE Err
EvalInEach(args, wantList, c) ==
  LET e == BoundExpr(args[1], c)
  IN Bind(Evaluate(args[2], c), LAMBDA v :
       IF IsUndef(v) THEN (IF wantList THEN Undef ELSE VInt(0))
       ELSE IF ~IsList(v) THEN Err
       ELSE LET els == Forced(v, c).l
            IN BindAll([i \in 1..Len(els) |-> EvalInNested(e, els[i], c)], LAMBDA rs :
                 IF wantList THEN VList(rs)
                 ELSE VInt(Wrap(Len(SelectSeq(rs, LAMBDA r : Numeric(r) /\ r.n # 0))))))

FunctionCall(fn, args, c) ==
  IF fn = "unparse" THEN EvalUnparse(args, c)
  ELSE IF fn = "eval" THEN EvalEval(args, c)
  ELSE IF fn = "ifthenelse" THEN EvalIfThenElse(args, c)
  ELSE IF ~Accepts(fn, Len(args)) THEN Err
  ELSE IF fn = "strcat" THEN EvalStrcat(args, c)
  ELSE IF fn = "countmatches" THEN EvalInEach(args, FALSE, c)
  ELSE IF fn = "evalineachcontext" THEN EvalInEach(args, TRUE, c)
  ELSE BindAll([i \in 1..Len(args) |-> Evaluate(args[i], c)], LAMBDA a :
         Apply(fn, a, [i \in 1..Len(a) |-> Forced(a[i], c)]))

EvalNode(e, c) ==
  CASE e.k = "lit" -> e.v
    [] e.k = "paren" -> Evaluate(e.a[1], c)
    [] e.k = "ref" -> AttributeReference(e.op, e.ns[1], c)
    [] e.k = "bin" -> EvalBinary(e, c)
    [] e.k = "un" -> Bind(Evaluate(e.a[1], c), LAMBDA v : Unary(e.op, v))
    [] e.k = "cond" -> EvalConditional(e, c)
    [] e.k = "elvis" -> EvalElvis(e, c)
    [] e.k = "list" -> Value("lazy", c.depth, <<>>, e.a, c.chain)
    [] e.k = "rec" -> NewAd(e, c)
    [] e.k = "call" -> FunctionCall(e.op, e.a, c)
    [] e.k = "sel" -> EvalSelect(e, c)
    [] e.k = "sub" -> EvalSubscript(e, c)

Evaluate(e, c) ==
  IF c.depth >= MaxDepth THEN Cyclic(c.depth) ELSE EvalNode(e, [c EXCEPT !.depth = @ + 1])

\* Expr.EvalWithContext: an expression over an ad, with the ad it is matched to.
Eval(e, my, target) == Recovered(Evaluate(e, Context(my, target)))

-----------------------------------------------------------------------------
\* The folding of constants that the query compiler applies: Flatten over an
\* empty ad.  A node that is not a literal has the value UNDEFINED here.
ExprValue(e) == IF IsLiteral(e) THEN e.v ELSE Undef
Defined(v) == ~IsUndef(v) /\ ~IsErr(v)

FoldedLogical(op, l, r) ==
  LET lv == ExprValue(l)
      rv == ExprValue(r)
      decisive == IF op = "&&" THEN VBool(FALSE) ELSE VBool(TRUE)
  IN IF IsBool(lv) THEN (IF lv = decisive THEN l ELSE r)
     ELSE IF IsBool(rv) THEN (IF rv = decisive THEN r ELSE l)
     ELSE IF IsUndef(lv) \/ IsUndef(rv) \/ ~Defined(Binary(op, lv, rv)) THEN Bin(op, l, r)
     ELSE Lit(Binary(op, lv, rv))
FoldedBinaryUnknown(op, l, r) ==
  LET v == Binary(op, ExprValue(l), ExprValue(r)) IN IF Defined(v) THEN Lit(v) ELSE Bin(op, l, r)
FoldedTo(op, l, r, v) ==
  IF op \in {"is", "isnt"} /\ IsLiteral(l) /\ IsLiteral(r) /\ IsBool(v) THEN Lit(v)
  ELSE IF ~IsUndef(ExprValue(l)) /\ ~IsUndef(ExprValue(r)) /\ Defined(v) THEN Lit(v)
  ELSE Bin(op, l, r)
FoldedBinary(op, l, r) ==
  IF op \in {"&&", "||"} THEN FoldedLogical(op, l, r)
  ELSE FoldedTo(op, l, r, Binary(op, ExprValue(l), ExprValue(r)))
FoldedElvis(l, r) == IF IsUndef(ExprValue(l)) THEN r ELSE Elvis(l, r)

RECURSIVE FoldConstants(_)
FoldConstants(e) ==
  LET fs == [i \in 1..Len(e.a) |-> FoldConstants(e.a[i])]
      chosen == IF ExprValue(fs[1]) = VBool(TRUE) THEN fs[2] ELSE fs[3]
  IN CASE e.k = "paren" -> IF fs[1].k \in {"bin", "un", "cond", "elvis"} THEN Paren(fs[1]) ELSE fs[1]
       [] e.k = "ref" -> IF IsCurrentTime(e.op, e.ns[1]) THEN Lit(VInt(Now)) ELSE e
       [] e.k = "bin" -> FoldedBinary(e.op, fs[1], fs[2])
       [] e.k = "un" -> IF ~IsUndef(ExprValue(fs[1])) /\ Defined(Unary(e.op, ExprValue(fs[1])))
                        THEN Lit(Unary(e.op, ExprValue(fs[1]))) ELSE Un(e.op, fs[1])
       [] e.k = "cond" -> IF IsBool(ExprValue(fs[1])) THEN chosen ELSE [e EXCEPT !.a = fs]
       [] e.k = "elvis" -> FoldedElvis(fs[1], fs[2])
       [] e.k = "call" /\ e.op = "ifthenelse" /\ Len(fs) = 3 ->
            IF IsBool(ExprValue(fs[1])) THEN chosen ELSE [e EXCEPT !.a = fs]
       [] e.k \in {"call", "list", "sel", "sub"} -> [e EXCEPT !.a = fs]
       [] OTHER -> e
=============================================================================
