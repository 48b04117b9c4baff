------------------------------- MODULE Vectors -------------------------------
(***************************************************************************)
(* The vector executor (collections/vm/vecexec.go, vecmask.go,             *)
(* simdcompare.go): a query's program run once over a block of n records,  *)
(* a column at a time, where the program and the columns allow it.         *)
(*                                                                         *)
(* A vector is in one of four forms: "data" holds an element per record,   *)
(* "const" one element for them all, "raw" the unwidened codes of a narrow *)
(* column, and "mask" two bit planes with a logical state per record:      *)
(* false is neither bit, true is lo, undefined is hi, error is both.  A    *)
(* plane is the set of its one bits over whole words, the tail past n too. *)
(***************************************************************************)
EXTENDS Program

CONSTANTS WordSize,   \* bits of a word of a plane (64 in the code)
          Lanes,      \* records one SIMD comparison takes (8 for int16x8)
          SimdWidths  \* widths with a SIMD comparison (16 and 32 bits)

ASSUME VectorAssumption ==
  WordSize \in Nat \ {0} /\ Lanes \in Nat \ {0} /\ WordSize % Lanes = 0 /\ SimdWidths \subseteq Nat

NoRaw == [codes |-> <<>>, width |-> 0, uns |-> FALSE, real |-> FALSE]
Vec(form, xs, hi, lo, raw, dict) ==
  [form |-> form, xs |-> xs, hi |-> hi, lo |-> lo, raw |-> raw, dict |-> dict]
Data(xs, dict) == Vec("data", xs, {}, {}, NoRaw, dict)
Broadcast(v, dict) == Vec("const", <<v>>, {}, {}, NoRaw, dict)
Mask(hi, lo, dict) == Vec("mask", <<>>, hi, lo, NoRaw, dict)
Raw(raw) == Vec("raw", <<>>, {}, {}, raw, <<>>)

\* A string of a dictionary column, kept as its code (from 0).
DictCode(k) == Value("dict", k, <<>>, <<>>, <<>>)
EntryAt(dict, k) == IF k < Len(dict) THEN VStr(dict[k + 1]) ELSE Err
Plain(x, dict) == IF x.t = "dict" THEN EntryAt(dict, x.n) ELSE x

-----------------------------------------------------------------------------
\* Bit planes.  Positions start at 0; bit p belongs to record p if p < n.
MaskWords(n) == (n + WordSize - 1) \div WordSize
Bits0(n) == 0..(MaskWords(n) * WordSize - 1)
Records(n) == 0..(n - 1)
WordOf(p) == {p + d : d \in (-(p % WordSize))..(WordSize - 1 - (p % WordSize))}

StateAt(hi, lo, p) ==
  IF p \in hi THEN (IF p \in lo THEN "error" ELSE "undef")
  ELSE IF p \in lo THEN "true" ELSE "false"
HiBits(state) == {p \in DOMAIN state : state[p] \in {"undef", "error"}}
LoBits(state) == {p \in DOMAIN state : state[p] \in {"true", "error"}}

\* A word neither operand of which has a bit in hi is an ordinary conjunction;
\* in any other the states are told apart.
TrueBits(v) == v.lo \ v.hi
UndefBits(v) == v.hi \ v.lo
ErrorBits(v) == v.hi \cap v.lo
FalseBits(n, v) == Bits0(n) \ (v.lo \cup v.hi)
EasyBits(n, x, y) == {p \in Bits0(n) : (x.hi \cup y.hi) \cap WordOf(p) = {}}
PlaneOf(T, U, E, easy, inEasy, dict) ==
  Mask((U \cup E) \ easy, ((T \cup E) \ easy) \cup (inEasy \cap easy), dict)
PlaneAnd(n, x, y) ==
  PlaneOf(TrueBits(x) \cap TrueBits(y),
          (TrueBits(x) \cap UndefBits(y)) \cup (UndefBits(x) \cap (TrueBits(y) \cup UndefBits(y))),
          ErrorBits(x) \cup ((TrueBits(x) \cup UndefBits(x)) \cap ErrorBits(y)),
          EasyBits(n, x, y), x.lo \cap y.lo, x.dict)
PlaneOr(n, x, y) ==
  PlaneOf(TrueBits(x) \cup ((FalseBits(n, x) \cup UndefBits(x)) \cap TrueBits(y)),
          (FalseBits(n, x) \cap UndefBits(y)) \cup (UndefBits(x) \cap (FalseBits(n, y) \cup UndefBits(y))),
          ErrorBits(x) \cup ((FalseBits(n, x) \cup UndefBits(x)) \cap ErrorBits(y)),
          EasyBits(n, x, y), x.lo \cup y.lo, x.dict)

\* Negation turns the bits past n to true; whoever counts masks them out.
PlaneNot(n, x) == Mask(x.hi, (Bits0(n) \ (x.hi \cup x.lo)) \cup (x.hi \cap x.lo), x.dict)

-----------------------------------------------------------------------------
\* Changes of form.
ReadIntLE(code, width, uns) ==
  IF uns \/ code < 2 ^ (width - 1) THEN code ELSE code - 2 ^ width
Widened(raw, i) == IF raw.real THEN VReal(i) ELSE VInt(i)
EnsureInts(v) ==
  IF v.form # "raw" THEN v
  ELSE Data([k \in DOMAIN v.raw.codes |-> Widened(v.raw, ReadIntLE(v.raw.codes[k], v.raw.width, v.raw.uns))], v.dict)

ItemAt(v, p) == v.xs[IF v.form = "const" THEN 1 ELSE p + 1]
MaskBy(state, dict) == Mask(HiBits(state), LoBits(state), dict)
MaskOf(n, v) == IF v.form = "mask" THEN v ELSE MaskBy([p \in Records(n) |-> Logical(ItemAt(v, p))], v.dict)
ToMask(n, v) == MaskOf(n, EnsureInts(v))

ToData(n, v) ==
  IF v.form = "mask" THEN Data([k \in 1..n |-> OfState(StateAt(v.hi, v.lo, k - 1))], v.dict) ELSE v
Materialize(n, v) ==
  IF v.form = "const" THEN Data([k \in 1..n |-> v.xs[1]], v.dict) ELSE v
AsData(n, v) == Materialize(n, ToData(n, EnsureInts(v)))

-----------------------------------------------------------------------------
\* Arithmetic: a fast path on numbers, the evaluator's rule on anything else.
\* The fast path on reals keeps what it computes, an infinity too.
Overflows(x) == x < MinInt \/ x > MaxInt
FastInt(op, a, b) == CASE op = "+" -> a + b [] op = "-" -> a - b [] op = "*" -> a * b
FastReal(op, a, b) ==
  CASE op = "+" -> RAdd(a, b) [] op = "-" -> RAdd(a, RNeg(b)) [] op = "*" -> RMul(a, b)

KeptInt(i, op, x, y) == IF Overflows(i) THEN Binary(op, x, y) ELSE VInt(i)
ArithElement(op, x, y) ==
  IF ~IsNumber(x) \/ ~IsNumber(y) THEN Binary(op, x, y)
  ELSE IF IsInt(x) /\ IsInt(y) THEN KeptInt(FastInt(op, x.n, y.n), op, x, y)
  ELSE VReal(FastReal(op, AsReal(x), AsReal(y)))
ArithOr(op, x, y) == IF op \in {"+", "-", "*"} THEN ArithElement(op, x, y) ELSE Binary(op, x, y)
ElementsOf(op, n, a, b, dict) ==
  Data([k \in 1..n |-> ArithOr(op, Plain(a.xs[k], a.dict), Plain(b.xs[k], b.dict))], dict)
ArithVec(op, n, l, r) == ElementsOf(op, n, AsData(n, l), AsData(n, r), l.dict)

NegatedOf(op, n, a, dict) == Data([k \in 1..n |-> Unary(op, Plain(a.xs[k], a.dict))], dict)
UnopVec(op, n, v) ==
  IF op = "!" THEN PlaneNot(n, ToMask(n, v)) ELSE NegatedOf(op, n, AsData(n, v), v.dict)

-----------------------------------------------------------------------------
\* Comparison: integers exactly, numbers as reals, strings without case.
Ordered(op, less, same) ==
  CASE op = "<" -> less [] op = "<=" -> less \/ same [] op = ">" -> ~less /\ ~same
    [] op = ">=" -> ~less [] op = "==" -> same [] op = "!=" -> ~same
CmpFloat(op, a, b) ==
  CASE op = "<" -> RLess(a, b) [] op = "<=" -> RLess(a, b) \/ REqual(a, b) [] op = ">" -> RLess(b, a)
    [] op = ">=" -> RLess(b, a) \/ REqual(a, b) [] op = "==" -> REqual(a, b) [] op = "!=" -> ~REqual(a, b)
BySign(op, c) == VBool(Ordered(op, c < 0, c = 0))
CmpElement(op, x, y) ==
  IF IsStr(x) /\ IsStr(y) THEN BySign(op, CompareFold(x.s, y.s))
  ELSE IF IsInt(x) /\ IsInt(y) THEN BySign(op, x.n - y.n)
  ELSE IF IsNumber(x) /\ IsNumber(y) THEN VBool(CmpFloat(op, AsReal(x), AsReal(y)))
  ELSE Binary(op, x, y)

ElementWise(op, n, l, r) ==
  MaskBy([p \in Records(n) |-> Logical(CmpElement(op, Plain(l.xs[p + 1], l.dict), Plain(ItemAt(r, p), r.dict)))], l.dict)

\* The codes of a sorted dictionary whose strings equal a literal are a range.
DictRange(dict, lit) ==
  [lo |-> Cardinality({k \in DOMAIN dict : CompareFold(dict[k], lit) < 0}),
   hi |-> Cardinality({k \in DOMAIN dict : CompareFold(dict[k], lit) <= 0})]
AllCodes(l) == \A k \in DOMAIN l.xs : l.xs[k].t = "dict"
InDictRange(op, c, g) ==
  CASE op = "==" -> c >= g.lo /\ c < g.hi [] op = "!=" -> c < g.lo \/ c >= g.hi
    [] op = "<" -> c < g.lo [] op = "<=" -> c < g.hi
    [] op = ">" -> c >= g.hi [] op = ">=" -> c >= g.lo
CompareVecDict(op, n, l, lit) ==
  Mask({}, {p \in Records(n) : InDictRange(op, l.xs[p + 1].n, DictRange(l.dict, lit))}, l.dict)

\* A raw column against an integer.  When the literal fits the width, whole
\* groups of Lanes records compare narrow codes with the narrowed literal and
\* the rest of a word is read one by one; otherwise every code is widened.
\* Only ==, > and < are computed: the other three are complements, whose tail
\* is cleared.
Fits(lit, width, uns) ==
  IF uns THEN lit >= 0 /\ lit < 2 ^ width ELSE lit >= -(2 ^ (width - 1)) /\ lit < 2 ^ (width - 1)
BaseFor(op) ==
  [base |-> CASE op \in {"==", "!="} -> "==" [] op \in {">", "<="} -> ">" [] op \in {"<", ">="} -> "<",
   negate |-> op \in {"!=", "<=", ">="}]
InWholeGroup(n, p) == p - (p % Lanes) + Lanes <= n
BaseHolds(base, a, b) == Ordered(base, a < b, a = b)
LaneLit(n, p, raw, lit) ==
  IF InWholeGroup(n, p) /\ raw.width \in SimdWidths /\ Fits(lit, raw.width, raw.uns)
  THEN ReadIntLE(lit % 2 ^ raw.width, raw.width, raw.uns) ELSE lit
HeldAt(n, p, raw, base, lit) ==
  BaseHolds(base, ReadIntLE(raw.codes[p + 1], raw.width, raw.uns), LaneLit(n, p, raw, lit))
SimdCompareRaw(op, n, l, lit) ==
  Mask({}, {p \in Records(n) : HeldAt(n, p, l.raw, BaseFor(op).base, lit) # BaseFor(op).negate}, l.dict)

CompareWith(op, n, l, a, r) ==
  IF r.form = "const" /\ l.form = "raw" /\ ~l.raw.real /\ IsInt(r.xs[1]) THEN SimdCompareRaw(op, n, l, r.xs[1].n)
  ELSE IF r.form = "const" /\ a.dict # <<>> /\ IsStr(r.xs[1]) /\ AllCodes(a) THEN CompareVecDict(op, n, a, r.xs[1].s)
  ELSE ElementWise(op, n, a, EnsureInts(r))
CompareLeft(op, n, l, r) == CompareWith(op, n, l, EnsureInts(l), r)
CompareVec(op, n, l, r) == CompareLeft(op, n, Materialize(n, ToData(n, l)), ToData(n, r))

BinopVec(op, n, l, r) ==
  IF op \in {"<", "<=", ">", ">=", "==", "!="} THEN CompareVec(op, n, l, r) ELSE ArithVec(op, n, l, r)
LogicalOf(op, n, x, y) == IF op = "&&" THEN PlaneAnd(n, x, y) ELSE PlaneOr(n, x, y)
LogicalVec(op, n, l, r) == LogicalOf(op, n, ToMask(n, l), ToMask(n, r))

-----------------------------------------------------------------------------
\* The machine.  Its slots outlive a run: a vector that is pushed keeps the
\* dictionary the last one in its slot had.  columns[p] is what the load at
\* position p finds, none of it when the column cannot be loaded.
NoColumn == Vec("none", <<>>, {}, {}, NoRaw, <<>>)
StaleDict(m) == IF Len(m.slots) > m.depth THEN m.slots[m.depth + 1].dict ELSE <<>>
PushVec(m, v) ==
  [m EXCEPT !.depth = @ + 1,
            !.slots = IF Len(@) > m.depth THEN [@ EXCEPT ![m.depth + 1] = v] ELSE Append(@, v)]
SetTop(m, d, v) == [m EXCEPT !.depth = d, !.slots[d] = v]
Refused(m) == [m EXCEPT !.ok = FALSE]

VecAt(i, n, m, d, column) ==
  CASE i.op = "push" -> PushVec(m, Broadcast(i.v, StaleDict(m)))
    [] i.op = "load" -> IF column.form = "none" THEN Refused(m) ELSE PushVec(m, column)
    [] i.op = "unop" -> SetTop(m, d, UnopVec(i.x, n, m.slots[d]))
    [] i.op = "binop" -> SetTop(m, d - 1, BinopVec(i.x, n, m.slots[d - 1], m.slots[d]))
    [] i.op = "combine" -> SetTop(m, d - 1, LogicalVec(i.x, n, m.slots[d - 1], m.slots[d]))
    [] i.op = "short" -> m
    [] OTHER -> Refused(m)
VecStep(i, n, m, column) == VecAt(i, n, m, m.depth, column)

RECURSIVE ExecVec(_, _, _, _, _)
ExecVec(code, ip, n, m, columns) ==
  IF ~m.ok \/ ip > Len(code) THEN m
  ELSE ExecVec(code, ip + 1, n, VecStep(code[ip], n, m, columns[ip]), columns)

\* The run of a query over a block: the machine it leaves, its result on top.
Started(code, slots) == [slots |-> slots, depth |-> 0, ok |-> Native(code)]
VecEval(code, n, slots, columns) == ExecVec(code, 1, n, Started(code, slots), columns)
ResultVec(m) == m.slots[1]

\* The number of live records whose result is TRUE, and the one at k.
CountTrue(v, live) ==
  CASE v.form = "mask" -> Cardinality((v.lo \ v.hi) \cap live)
    [] v.form = "raw" -> 0
    [] OTHER -> Cardinality({p \in live : Matches(v.xs[IF v.form = "const" THEN 1 ELSE p + 1])})
=============================================================================
