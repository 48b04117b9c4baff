------------------------------- MODULE Values -------------------------------
(***************************************************************************)
(* ClassAd values and the operators on them (classad/evaluator.go): the    *)
(* three-valued logic with ERROR, wrapping integers, reals that round and  *)
(* overflow, and strings compared without case.                            *)
(*                                                                         *)
(* An int64 is a Bits-wide two's complement integer.  A float64 is a       *)
(* number of halves: every half up to Exact (2^53 in the code) is a real,  *)
(* above it only even integers are, and above MaxReal there is infinity.   *)
(* A string is a sequence of ASCII codes.                                  *)
(***************************************************************************)
EXTENDS Integers, Sequences

CONSTANTS Bits,     \* width of an integer (64 in the code), a power of two
          Exact,    \* below it a real holds every integer (2^53)
          MaxReal   \* the largest finite real (about 1.8e308)

ASSUME SizeAssumption ==
  /\ Bits \in {2, 4, 8}
  /\ Exact \in Nat \ {0} /\ MaxReal \in Nat
  /\ Exact % 2 = 0 /\ MaxReal % 2 = 0 /\ Exact < MaxReal

LOCAL INSTANCE Bitwise

-----------------------------------------------------------------------------
\* One shape for every value: the type, the number of a bool, int or real, the
\* characters of a string, the elements of a list (the expressions of a lazy
\* one, kept with the scope they are to be evaluated in).
Value(t, n, s, l, c) == [t |-> t, n |-> n, s |-> s, l |-> l, c |-> c]

Undef == Value("undef", 0, <<>>, <<>>, <<>>)
Err == Value("error", 0, <<>>, <<>>, <<>>)
VBool(b) == Value("bool", IF b THEN 1 ELSE 0, <<>>, <<>>, <<>>)
VInt(i) == Value("int", i, <<>>, <<>>, <<>>)
VReal(h) == Value("real", h, <<>>, <<>>, <<>>)
VStr(s) == Value("string", 0, s, <<>>, <<>>)
VList(l) == Value("list", 0, <<>>, l, <<>>)
IsUndef(v) == v.t = "undef"
IsErr(v) == v.t = "error"
IsBool(v) == v.t = "bool"
IsInt(v) == v.t = "int"
IsReal(v) == v.t = "real"
IsNumber(v) == v.t \in {"int", "real"}
IsStr(v) == v.t = "string"
IsList(v) == v.t \in {"list", "lazy"}
IsAd(v) == v.t = "ad"

-----------------------------------------------------------------------------
\* Machine integers.
MinInt == -(2 ^ (Bits - 1))
MaxInt == 2 ^ (Bits - 1) - 1
Wrap(x) == ((x - MinInt) % (2 ^ Bits)) + MinInt
Unsigned(x) == x % (2 ^ Bits)

Abs(x) == IF x < 0 THEN -x ELSE x
Sign(x) == IF x < 0 THEN -1 ELSE IF x > 0 THEN 1 ELSE 0

\* Go's integer division truncates toward zero.
Quot(a, b) == Sign(a) * Sign(b) * (Abs(a) \div Abs(b))
Rem(a, b) == a - b * Quot(a, b)

\* Machine reals, in halves.
PosInf == 2 * MaxReal + 4
NegInf == -PosInf
NaN == PosInf + 4
Finite(h) == Abs(h) < PosInf

Nearest(num, den) ==
  LET f == num \div den
      r == num % den
  IN IF 2 * r < den THEN f ELSE IF 2 * r > den THEN f + 1 ELSE f + (f % 2)

\* The real nearest to num/den halves.
Rounded(num, den) ==
  LET fine == Nearest(num, den)
      coarse == 4 * Nearest(num, 4 * den)
  IN IF Abs(fine) <= 2 * Exact THEN fine
     ELSE IF Abs(coarse) <= 2 * MaxReal THEN coarse ELSE Sign(num) * PosInf

Float(i) == Rounded(2 * i, 1)

RAdd(a, b) ==
  IF a = NaN \/ b = NaN \/ {a, b} = {PosInf, NegInf} THEN NaN
  ELSE IF ~Finite(a) THEN a ELSE IF ~Finite(b) THEN b ELSE Rounded(a + b, 1)

RNeg(a) == IF a = NaN THEN NaN ELSE -a

RMul(a, b) ==
  IF a = NaN \/ b = NaN \/ (0 \in {a, b} /\ ~(Finite(a) /\ Finite(b))) THEN NaN
  ELSE IF ~Finite(a) \/ ~Finite(b) THEN Sign(a) * Sign(b) * PosInf
  ELSE Rounded(a * b, 2)

RDiv(a, b) ==
  IF a = NaN \/ b = NaN \/ (a = 0 /\ b = 0) \/ (~Finite(a) /\ ~Finite(b)) THEN NaN
  ELSE IF ~Finite(a) \/ b = 0 THEN Sign(a) * (IF b < 0 THEN -1 ELSE 1) * PosInf
  ELSE IF ~Finite(b) THEN 0 ELSE Rounded(2 * a * Sign(b), Abs(b))

RLess(a, b) == a # NaN /\ b # NaN /\ a < b
REqual(a, b) == a # NaN /\ b # NaN /\ a = b

-----------------------------------------------------------------------------
\* A number, or a boolean counted as 0 or 1.
Numeric(v) == v.t \in {"int", "real", "bool"}
Integral(v) == v.t \in {"int", "bool"}
AsReal(v) == IF v.t = "real" THEN v.n ELSE Float(v.n)

\* Only positive infinity is an error: the code tests IsInf(comp, 1).
RealResult(h) == IF h = PosInf THEN Err ELSE VReal(h)

Arith(left, right, onInts, onReals) ==
  IF IsUndef(left) \/ IsUndef(right) THEN Undef
  ELSE IF ~Numeric(left) \/ ~Numeric(right) THEN Err
  ELSE IF Integral(left) /\ Integral(right) THEN onInts ELSE RealResult(onReals)

Add(l, r) == Arith(l, r, VInt(Wrap(l.n + r.n)), RAdd(AsReal(l), AsReal(r)))
Subtract(l, r) == Arith(l, r, VInt(Wrap(l.n - r.n)), RAdd(AsReal(l), RNeg(AsReal(r))))
Multiply(l, r) == Arith(l, r, VInt(Wrap(l.n * r.n)), RMul(AsReal(l), AsReal(r)))

Divide(l, r) ==
  Arith(l, r,
        IF r.n = 0 THEN Err
        ELSE IF l.n = MinInt /\ r.n = -1 THEN VInt(MaxInt) ELSE VInt(Quot(l.n, r.n)),
        RDiv(AsReal(l), AsReal(r)))

Modulo(l, r) ==
  IF IsUndef(l) \/ IsUndef(r) THEN Undef
  ELSE IF ~Integral(l) \/ ~Integral(r) \/ r.n = 0 THEN Err
  ELSE IF r.n = -1 THEN VInt(0) ELSE VInt(Rem(l.n, r.n))

ShiftLeft(x, k) == Wrap(x * 2 ^ (Unsigned(k) % Bits))
ShiftRight(x, k) ==
  IF x >= 0 THEN x \div 2 ^ (Unsigned(k) % Bits)
  ELSE x \div 2 ^ (IF k < 0 THEN 0 ELSE IF k > Bits THEN Bits ELSE k)
ShiftUnsigned(x, k) ==
  IF x >= 0 THEN x \div 2 ^ (Unsigned(k) % Bits)
  ELSE (Unsigned(x) \div 2) \div 2 ^ (Unsigned(k - 1) % Bits)

Bitwise2(op, l, r) ==
  IF IsUndef(l) \/ IsUndef(r) THEN Undef
  ELSE IF ~IsInt(l) \/ ~IsInt(r) THEN Err
  ELSE VInt(CASE op = "&" -> Wrap(Unsigned(l.n) & Unsigned(r.n))
             [] op = "|" -> Wrap(Unsigned(l.n) | Unsigned(r.n))
             [] op = "^" -> Wrap(Unsigned(l.n) ^^ Unsigned(r.n))
             [] op = "<<" -> ShiftLeft(l.n, r.n)
             [] op = ">>" -> ShiftRight(l.n, r.n)
             [] op = ">>>" -> ShiftUnsigned(l.n, r.n))

-----------------------------------------------------------------------------
\* Strings compare byte by byte, upper case folded to lower.
Lower(c) == IF c \in 65..90 THEN c + 32 ELSE c
Fold(s) == [i \in 1..Len(s) |-> Lower(s[i])]

\* Lexicographic order of two sequences of codes: -1, 0 or 1.
Compare(a, b) ==
  LET differ == {i \in 1..Len(a) \cap 1..Len(b) : a[i] # b[i]}
  IN IF differ = {} THEN Sign(Len(a) - Len(b))
     ELSE LET i == CHOOSE i \in differ : \A j \in differ : i <= j
          IN Sign(a[i] - b[i])
CompareFold(a, b) == Compare(Fold(a), Fold(b))

\* <, <=, > and >=: numbers as reals, strings by CompareFold, nothing else.
RealsCompare(op, x, y) ==
  CASE op = "<" -> RLess(x, y) [] op = ">" -> RLess(y, x)
    [] op = "<=" -> RLess(x, y) \/ REqual(x, y) [] op = ">=" -> RLess(y, x) \/ REqual(x, y)
SignCompare(op, c) ==
  CASE op = "<" -> c < 0 [] op = ">" -> c > 0 [] op = "<=" -> c <= 0 [] op = ">=" -> c >= 0
Relational(op, l, r) ==
  IF IsUndef(l) \/ IsUndef(r) THEN Undef
  ELSE IF Numeric(l) /\ Numeric(r) THEN VBool(RealsCompare(op, AsReal(l), AsReal(r)))
  ELSE IF IsStr(l) /\ IsStr(r) THEN VBool(SignCompare(op, CompareFold(l.s, r.s)))
  ELSE Err

Equal(l, r) ==
  IF IsUndef(l) \/ IsUndef(r) THEN Undef
  ELSE IF Numeric(l) /\ Numeric(r) THEN
    VBool(IF Integral(l) /\ Integral(r) THEN l.n = r.n ELSE REqual(AsReal(l), AsReal(r)))
  ELSE IF IsStr(l) /\ IsStr(r) THEN VBool(CompareFold(l.s, r.s) = 0) ELSE Err

Negated(v) == IF IsBool(v) THEN VBool(v.n = 0) ELSE v
NotEqual(l, r) == Negated(Equal(l, r))

\* =?=: same type and same value, case kept; lists and ads are an error.
Is(l, r) ==
  IF l.t # r.t /\ ~(IsList(l) /\ IsList(r)) THEN VBool(FALSE)
  ELSE IF IsList(l) \/ IsAd(l) THEN Err
  ELSE IF IsReal(l) THEN VBool(REqual(l.n, r.n)) ELSE VBool(l = r)
Isnt(l, r) == Negated(Is(l, r))

-----------------------------------------------------------------------------
\* The four logical states of an operand: a number is its truth, a string, a
\* list or an ad is an error.
Logical(v) ==
  IF v.t \in {"bool", "int", "real"} THEN (IF v.n # 0 THEN "true" ELSE "false")
  ELSE IF IsUndef(v) THEN "undef" ELSE "error"

OfState(s) ==
  CASE s = "true" -> VBool(TRUE) [] s = "false" -> VBool(FALSE)
    [] s = "undef" -> Undef [] OTHER -> Err

\* && (decided by "false") and || (decided by "true"), left operand first.
Connective(decisive, neutral, l, r) ==
  LET a == Logical(l)
      b == Logical(r)
  IN OfState(CASE a \in {decisive, "error"} -> a
               [] a = neutral -> b
               [] OTHER -> IF b \in {decisive, "error"} THEN b ELSE "undef")
LogicalAnd(l, r) == Connective("false", "true", l, r)
LogicalOr(l, r) == Connective("true", "false", l, r)

\* Whether the left operand alone settles the connective.
ShortCircuits(op, l) == Logical(l) \in {"error", IF op = "&&" THEN "false" ELSE "true"}

Binary(op, l, r) ==
  CASE op = "&&" -> LogicalAnd(l, r) [] op = "||" -> LogicalOr(l, r)
    [] op = "is" -> Is(l, r) [] op = "isnt" -> Isnt(l, r)
    [] op \notin {"&&", "||", "is", "isnt"} /\ (IsErr(l) \/ IsErr(r)) -> Err
    [] op = "+" -> Add(l, r) [] op = "-" -> Subtract(l, r) [] op = "*" -> Multiply(l, r)
    [] op = "/" -> Divide(l, r) [] op = "%" -> Modulo(l, r)
    [] op \in {"<", "<=", ">", ">="} -> Relational(op, l, r)
    [] op = "==" -> Equal(l, r) [] op = "!=" -> NotEqual(l, r)
    [] op \in {"&", "|", "^", "<<", ">>", ">>>"} -> Bitwise2(op, l, r)
    [] OTHER -> Err

LogicalNot(v) == Negated(OfState(Logical(v)))

Unary(op, v) ==
  IF IsErr(v) \/ IsUndef(v) THEN v
  ELSE CASE op = "-" /\ IsInt(v) -> VInt(Wrap(-v.n))
         [] op = "-" /\ IsReal(v) -> VReal(RNeg(v.n))
         [] op = "+" /\ IsNumber(v) -> v
         [] op = "!" -> LogicalNot(v)
         [] op = "~" /\ IsInt(v) -> VInt(-v.n - 1)
         [] OTHER -> Err

\* A constraint selects an ad when it is the boolean TRUE and nothing else.
Matches(v) == v = VBool(TRUE)
=============================================================================
