------------------------------- MODULE Program -------------------------------
(***************************************************************************)
(* The query compiler (collections/vm): an expression becomes a program    *)
(* for a stack machine, the probes that an index or a column answers, and  *)
(* the list of attributes it reads.                                        *)
(*                                                                         *)
(* An instruction [op, x, n, v, e, to] has its operator or scope, the name *)
(* it loads, the constant it pushes, the tree it hands to the evaluator    *)
(* and the target of its jump.  Positions start at 1.                      *)
(***************************************************************************)
EXTENDS Evaluator

CONSTANTS NativeDepth,   \* taller trees are not compiled (1000 in the code)
          MaxGroups      \* alternatives a disjunctive normal form may have (16)

ASSUME ProgramAssumption == NativeDepth \in Nat /\ MaxGroups \in Nat \ {0}

NoNode == Lit(Undef)
Instr(op, x, n, v, e, to) == [op |-> op, x |-> x, n |-> n, v |-> v, e |-> e, to |-> to]
Push(v) == Instr("push", "", "", v, NoNode, 0)
Load(scope, name) == Instr("load", scope, name, Undef, NoNode, 0)
Do(kind, op) == Instr(kind, op, "", Undef, NoNode, 0)
JumpTo(kind, op, to) == Instr(kind, op, "", Undef, NoNode, to)
HandOver(e) == Instr("node", "", "", Undef, e, 0)

RECURSIVE AstHeight(_)
AstHeight(e) == 1 + FoldLeft(LAMBDA h, a : LET g == AstHeight(a) IN IF g > h THEN g ELSE h, 0, e.a)

\* The code of e, its first instruction at position at.  A logical operator
\* tests its left operand and skips the right one; parentheses leave no code;
\* what is neither operator, literal nor reference goes to the evaluator.
RECURSIVE Emit(_, _)
Emit(e, at) ==
  LET l == Emit(e.a[1], at)
      mid == at + Len(l)
      r == Emit(e.a[2], mid)
      s == Emit(e.a[2], mid + 1)
  IN CASE e.k = "lit" -> <<Push(e.v)>>
       [] e.k = "ref" -> <<Load(e.op, e.ns[1])>>
       [] e.k = "paren" -> l
       [] e.k = "un" -> l \o <<Do("unop", e.op)>>
       [] e.k = "bin" /\ e.op \in {"&&", "||"} ->
            l \o <<JumpTo("short", e.op, mid + Len(s) + 2)>> \o s \o <<Do("combine", e.op)>>
       [] e.k = "bin" /\ e.op \notin {"&&", "||"} -> l \o r \o <<Do("binop", e.op)>>
       [] e.k = "elvis" -> l \o <<JumpTo("jmpIfNotUndef", "", mid + Len(s) + 1)>> \o s
       [] OTHER -> <<HandOver(e)>>

CompileProgram(e) == IF AstHeight(e) >= NativeDepth THEN <<HandOver(e)>> ELSE Emit(e, 1)

\* The names an expression reads without a scope, in the order it meets them.
RECURSIVE Reads(_, _)
Reads(e, scopes) ==
  IF e.k = "ref" THEN (IF e.op \in scopes THEN {e.ns[1]} ELSE {})
  ELSE UNION {Reads(e.a[i], scopes) : i \in DOMAIN e.a}

\* A query that reads the clock is folded, so that the clock becomes a constant.
ReferencesCurrentTime(e) == "currenttime" \in Reads(e, {""})
Prepared(e) == IF ReferencesCurrentTime(e) THEN FoldConstants(e) ELSE e
Native(code) == \A i \in DOMAIN code : code[i].op # "node"

-----------------------------------------------------------------------------
\* What a record has to hold for the query: the names it reads of its own ad.
\* eval() may read any attribute, so a query that calls it needs the whole ad.
Seeds(e) == Reads(e, {"", "MY"})
RECURSIVE PartialSafe(_)
PartialSafe(e) == ~(e.k = "call" /\ e.op = "eval") /\ \A i \in DOMAIN e.a : PartialSafe(e.a[i])

\* The attributes of an ad reached from the seeds through its expressions.
RECURSIVE Closure(_, _)
Closure(ad, names) ==
  LET mine == names \cap Names(ad)
      more == names \cup UNION {Seeds(Lookup(ad, n)) : n \in mine}
  IN IF more = names THEN mine ELSE Closure(ad, more)

-----------------------------------------------------------------------------
\* The machine: its position, its stack and where it has been.  given[i] is what the evaluator, or
\* the resolver it is set to, answers to the load or the tree at position i.
Top(m) == m.stack[Len(m.stack)]
Below(m) == m.stack[Len(m.stack) - 1]
Pushed(m, v) == [m EXCEPT !.ip = @ + 1, !.stack = Append(@, v)]
Replaced(m, k, v) == [m EXCEPT !.ip = @ + 1, !.stack = Append(SubSeq(@, 1, Len(@) - k), v)]

\* A logical operator that its left operand decides leaves a boolean, not the
\* operand.
SkippingOperand(m, to) == [m EXCEPT !.ip = to]
Skipping(m, to) == [Replaced(m, 1, OfState(Logical(Top(m)))) EXCEPT !.ip = to]

Stepped(code, m, given) ==
  LET i == code[m.ip]
  IN CASE i.op = "push" -> Pushed(m, i.v)
       [] i.op \in {"load", "node"} -> Pushed(m, given[m.ip])
       [] i.op = "unop" -> Replaced(m, 1, Unary(i.x, Top(m)))
       [] i.op \in {"binop", "combine"} -> Replaced(m, 2, Binary(i.x, Below(m), Top(m)))
       [] i.op = "short" ->
            IF ShortCircuits(i.x, Top(m)) THEN Skipping(m, i.to) ELSE [m EXCEPT !.ip = @ + 1]
       [] i.op = "jmpIfNotUndef" ->
            IF ~IsUndef(Top(m)) THEN [m EXCEPT !.ip = i.to]
            ELSE [m EXCEPT !.ip = @ + 1, !.stack = Front(@)]
Step(code, m, given) == [Stepped(code, m, given) EXCEPT !.ran = @ \cup {m.ip}]

\* A cycle, or an evaluation too deep, unwinds the whole program to ERROR.
Panicked(m) == m.stack # <<>> /\ IsCyclic(Top(m))
Finished(code, m) == m.ip > Len(code) \/ Panicked(m)
ResultOf(m) == IF m.stack = <<>> THEN Undef ELSE Recovered(Top(m))

RECURSIVE ExecFrom(_, _, _)
ExecFrom(code, m, given) ==
  IF Finished(code, m) THEN m ELSE ExecFrom(code, Step(code, m, given), given)
Start == [ip |-> 1, stack |-> <<>>, ran |-> {}]
Exec(code, given) == ExecFrom(code, Start, given)

\* Matcher.Eval over an ad, at the depth the evaluator is set to.
GivenBy(code, c) ==
  [p \in DOMAIN code |-> IF code[p].op = "load" THEN AttributeReference(code[p].x, code[p].n, c)
                         ELSE Evaluate(code[p].e, c)]
Matcher(code, c) == ResultOf(Exec(code, GivenBy(code, c)))

-----------------------------------------------------------------------------
\* A probe is one conjunct of the query that compares an attribute of the ad
\* with literals; <<>> is no probe.
Probe(attr, op, vals) == <<[attr |-> attr, op |-> op, vals |-> vals]>>
NoProbe == <<>>

IndexableRef(e) == LET r == Unwrapped(e) IN r.k = "ref" /\ r.op \in {"", "MY"}
RefName(e) == Unwrapped(e).ns[1]
IsUndefinedLit(e) == Unwrapped(e) = Lit(Undef)
LiteralVal(e) == IsLiteral(Unwrapped(e)) /\ Unwrapped(e).v.t \in {"int", "real", "string", "bool"}

NegFlip == [op \in {"==", "!=", "<", "<=", ">", ">="} |->
  CASE op = "==" -> "!=" [] op = "!=" -> "==" [] op = "<" -> ">="
    [] op = "<=" -> ">" [] op = ">" -> "<=" [] op = ">=" -> "<"]
OperandFlip(op) ==
  CASE op = "<" -> ">" [] op = "<=" -> ">=" [] op = ">" -> "<" [] op = ">=" -> "<=" [] OTHER -> op

CmpProbe(op, l, r) ==
  IF IndexableRef(l) /\ LiteralVal(r) THEN Probe(RefName(l), op, <<Unwrapped(r).v>>)
  ELSE IF IndexableRef(r) /\ LiteralVal(l) THEN Probe(RefName(r), OperandFlip(op), <<Unwrapped(l).v>>)
  ELSE NoProbe

\* The reference of a comparison with the literal UNDEFINED, or nothing.
RefVsUndefined(l, r) ==
  IF IsUndefinedLit(r) THEN (IF IndexableRef(l) THEN <<RefName(l)>> ELSE <<>>)
  ELSE IF IsUndefinedLit(l) /\ IndexableRef(r) THEN <<RefName(r)>> ELSE <<>>
UndefinedFuncProbe(e, op) ==
  IF e.op = "isundefined" /\ Len(e.a) = 1 /\ IndexableRef(e.a[1]) THEN Probe(RefName(e.a[1]), op, <<>>)
  ELSE NoProbe

RECURSIVE FlattenOp(_, _)
FlattenOp(op, e) ==
  LET u == Unwrapped(e)
  IN IF u.k = "bin" /\ u.op = op THEN FlattenOp(op, u.a[1]) \o FlattenOp(op, u.a[2]) ELSE <<u>>

RECURSIVE ProbeFrom(_)

\* attr == a || attr == b || ...: membership in a set of literals.
OrEqProbe(e) ==
  LET ds == FlattenOp("||", e)
      ps == [i \in DOMAIN ds |-> ProbeFrom(ds[i])]
  IN IF \A i \in DOMAIN ps : ps[i] # NoProbe /\ ps[i][1].op = "==" /\ ps[i][1].attr = ps[1][1].attr
     THEN Probe(ps[1][1].attr, "in", [i \in DOMAIN ps |-> ps[i][1].vals[1]])
     ELSE NoProbe

\* A negated comparison is the opposite comparison: the operand it drops,
\* UNDEFINED or ERROR, satisfies neither.
NegatedProbe(e) ==
  LET name == RefVsUndefined(e.a[1], e.a[2])
  IN IF e.k = "call" THEN UndefinedFuncProbe(e, "present")
     ELSE IF e.k = "bin" /\ e.op \in DOMAIN NegFlip THEN CmpProbe(NegFlip[e.op], e.a[1], e.a[2])
     ELSE IF e.k = "bin" /\ e.op \in {"is", "isnt"} /\ name # <<>>
       THEN Probe(name[1], IF e.op = "is" THEN "present" ELSE "absent", <<>>)
     ELSE IF IndexableRef(e) THEN Probe(RefName(e), "untruthy", <<>>) ELSE NoProbe

ProbeFrom(e) ==
  LET u == Unwrapped(e)
      name == RefVsUndefined(u.a[1], u.a[2])
  IN CASE u.k = "un" /\ u.op = "!" -> NegatedProbe(Unwrapped(u.a[1]))
       [] u.k = "call" -> UndefinedFuncProbe(u, "absent")
       [] IndexableRef(u) -> Probe(RefName(u), "truthy", <<>>)
       [] u.k = "bin" /\ u.op \in DOMAIN NegFlip -> CmpProbe(u.op, u.a[1], u.a[2])
       [] u.k = "bin" /\ u.op \in {"is", "isnt"} ->
            IF name # <<>> THEN Probe(name[1], IF u.op = "is" THEN "absent" ELSE "present", <<>>)
            ELSE CmpProbe(u.op, u.a[1], u.a[2])
       [] u.k = "bin" /\ u.op = "||" -> OrEqProbe(u)
       [] OTHER -> NoProbe

ProbesOf(es) == FlattenSeq([i \in DOMAIN es |-> ProbeFrom(es[i])])

\* The probes among the top conjuncts of the folded query, and whether they are
\* all of them.
Probes(e) == ProbesOf(FlattenOp("&&", FoldConstants(e)))
ExactProbes(e) == Len(Probes(e)) = Len(FlattenOp("&&", FoldConstants(e)))

\* The disjunctive normal form, <<>> when it has too many alternatives.
RECURSIVE TryDNF(_)
TryDNF(e) ==
  LET u == Unwrapped(e)
      l == TryDNF(u.a[1])
      r == TryDNF(u.a[2])
  IN IF u.k = "bin" /\ u.op = "||" /\ OrEqProbe(u) = NoProbe
     THEN IF l = <<>> \/ r = <<>> \/ Len(l) + Len(r) > MaxGroups THEN <<>> ELSE l \o r
     ELSE IF u.k = "bin" /\ u.op = "&&"
     THEN IF l = <<>> \/ r = <<>> \/ Len(l) * Len(r) > MaxGroups THEN <<>>
          ELSE FlattenSeq([i \in DOMAIN l |-> [j \in DOMAIN r |-> l[i] \o r[j]]])
     ELSE <<<<u>>>>

DistributeDNF(e) ==
  LET ds == FlattenOp("||", e)
  IN IF TryDNF(e) # <<>> THEN TryDNF(e) ELSE [i \in DOMAIN ds |-> FlattenOp("&&", ds[i])]
ProbePlan(e) == LET gs == DistributeDNF(FoldConstants(e)) IN [i \in DOMAIN gs |-> ProbesOf(gs[i])]
=============================================================================
