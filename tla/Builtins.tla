------------------------------ MODULE Builtins ------------------------------
(***************************************************************************)
(* The ClassAd built-in functions (classad/functions.go) over evaluated    *)
(* arguments.  a is the argument sequence; a list argument that is still   *)
(* lazy keeps its text, and f is the same sequence with every list forced, *)
(* which is what Value.ListValue returns to the function.                  *)
(***************************************************************************)
EXTENDS Values, SequencesExt

CONSTANTS Now,         \* the clock, in seconds
          Saturates    \* what int64(f) does out of range: Go leaves it to the
                       \* processor (arm64 saturates, amd64 yields the minimum)

ASSUME ClockAssumption == Now \in Int /\ Saturates \in BOOLEAN

Some(a, P(_)) == \E i \in 1..Len(a) : P(a[i])

\* The two orders in which functions look at UNDEFINED and ERROR arguments.
ErrFirst(a, v) == IF Some(a, IsErr) THEN Err ELSE IF Some(a, IsUndef) THEN Undef ELSE v
UndefFirst(a, v) == IF Some(a, IsUndef) THEN Undef ELSE IF Some(a, IsErr) THEN Err ELSE v

-----------------------------------------------------------------------------
\* Characters.
Space == {9, 10, 11, 12, 13, 32}
Digit == 48..57
HexDigit == Digit \cup 65..70 \cup 97..102
Quote == 34
Dot == 46
At == 64

\* How many characters of s from i on lie in cs.
Span(s, i, cs) ==
  LET stops == {k \in i..Len(s) : s[k] \notin cs}
  IN IF stops = {} THEN (IF i > Len(s) THEN 0 ELSE Len(s) - i + 1)
     ELSE (CHOOSE k \in stops : \A m \in stops : k <= m) - i
Slice(s, i, n) == SubSeq(s, i, i + n - 1)
CharAt(s, i) == IF i \in 1..Len(s) THEN s[i] ELSE 0
HasWord(s, i, w) == i + Len(w) - 1 <= Len(s) /\ Fold(Slice(s, i, Len(w))) = w

DigitOf(c) == IF c \in Digit THEN c - 48 ELSE (Lower(c) - 97) + 10
NumberOf(ds, base) == FoldLeft(LAMBDA acc, c : acc * base + DigitOf(c), 0, ds)

-----------------------------------------------------------------------------
\* The longest numeric prefix of a string: [ok, h] with h in halves.
NoFloat == [ok |-> FALSE, h |-> 0]
Parsed(neg, h) == [ok |-> TRUE, h |-> IF neg THEN RNeg(h) ELSE h]
InBounds(neg, h) == IF Finite(h) THEN Parsed(neg, h) ELSE NoFloat   \* ParseFloat's range error
Scaled(m, e) == IF e >= 0 THEN Rounded(2 * m * 10 ^ e, 1) ELSE Rounded(2 * m, 10 ^ (-e))

\* The exponent that may follow at position p.
ExponentFrom(s, p, e) ==
  IF Lower(CharAt(s, p)) = 101 /\ CharAt(s, e) \in Digit
  THEN (IF CharAt(s, p + 1) = 45 THEN -1 ELSE 1) * NumberOf(Slice(s, e, Span(s, e, Digit)), 10)
  ELSE 0
Exponent(s, p) == ExponentFrom(s, p, IF CharAt(s, p + 1) \in {43, 45} THEN p + 2 ELSE p + 1)

\* whole digits at i, then the point and frac digits.
Decimals(s, i, neg, whole, frac) ==
  IF whole + frac = 0 THEN NoFloat
  ELSE InBounds(neg, Scaled(NumberOf(Slice(s, i, whole) \o Slice(s, i + whole + 1, frac), 10),
                            Exponent(s, i + whole + 1 + frac) - frac))
DigitsAt(s, i, neg, whole) ==
  IF CharAt(s, i + whole) = Dot THEN Decimals(s, i, neg, whole, Span(s, i + whole + 1, Digit))
  ELSE IF whole = 0 THEN NoFloat
  ELSE InBounds(neg, Scaled(NumberOf(Slice(s, i, whole), 10), Exponent(s, i + whole)))

Magnitude(s, i, neg) ==
  IF HasWord(s, i, <<105, 110, 102>>) THEN Parsed(neg, PosInf)
  ELSE IF HasWord(s, i, <<110, 97, 110>>) THEN Parsed(FALSE, NaN)
  ELSE IF CharAt(s, i) = 48 /\ Lower(CharAt(s, i + 1)) = 120 /\ CharAt(s, i + 2) \in HexDigit
       THEN InBounds(neg, Float(NumberOf(Slice(s, i + 2, Span(s, i + 2, HexDigit)), 16)))
  ELSE DigitsAt(s, i, neg, Span(s, i, Digit))
SignedFrom(s, i) == Magnitude(s, IF CharAt(s, i) \in {43, 45} THEN i + 1 ELSE i, CharAt(s, i) = 45)
ParseLeadingFloat(s) == SignedFrom(s, 1 + Span(s, 1, Space))

CoerceToReal(v) ==
  IF Numeric(v) THEN [ok |-> TRUE, h |-> AsReal(v)]
  ELSE IF IsStr(v) THEN ParseLeadingFloat(v.s) ELSE NoFloat

\* A real as an integer: saturating, and as Go's bare conversion.
Truncated(h) == Quot(h, 2)
InRange(h) == h # NaN /\ h < Float(MaxInt) /\ h > Float(MinInt)
FloatToInt(h) ==
  IF h = NaN THEN 0 ELSE IF h >= Float(MaxInt) THEN MaxInt
  ELSE IF h <= Float(MinInt) THEN MinInt ELSE Truncated(h)
Converted(h) == IF InRange(h) \/ Saturates THEN FloatToInt(h) ELSE MinInt

FloorOf(h) == IF Finite(h) THEN 2 * (h \div 2) ELSE h
CeilOf(h) == RNeg(FloorOf(RNeg(h)))
RoundEven(h) == IF Finite(h) THEN 2 * Nearest(h, 2) ELSE h

-----------------------------------------------------------------------------
\* Text.  Decimal digits for numbers (the layout of a real is not kept apart
\* from its value); an unevaluated list element stands for its source.
RECURSIVE Decimal(_)
Decimal(n) == IF n < 10 THEN <<48 + n>> ELSE Decimal(n \div 10) \o <<48 + (n % 10)>>
IntText(n) == IF n < 0 THEN <<45>> \o Decimal(-n) ELSE Decimal(n)
RealText(h) ==
  IF h = NaN THEN <<110, 97, 110>> ELSE IF h = PosInf THEN <<105, 110, 102>>
  ELSE IF h = NegInf THEN <<45, 105, 110, 102>>
  ELSE (IF h < 0 THEN <<45>> ELSE <<>>) \o Decimal(Abs(h) \div 2)
       \o <<Dot, IF h % 2 = 0 THEN 48 ELSE 53>>
TrueText == <<116, 114, 117, 101>>
FalseText == <<102, 97, 108, 115, 101>>
BoolText(b) == IF b THEN TrueText ELSE FalseText

NoText == [ok |-> FALSE, s |-> <<>>]
Text1(s) == [ok |-> TRUE, s |-> s]

\* A scalar as a string; UNDEFINED, ERROR, lists and ads have none.
ScalarText(v) ==
  CASE IsStr(v) -> Text1(v.s) [] IsInt(v) -> Text1(IntText(v.n))
    [] IsBool(v) -> Text1(BoolText(v.n = 1)) [] IsReal(v) -> Text1(RealText(v.n))
    [] OTHER -> NoText

\* A list is unparsed, strings quoted; an ad inside it has no text.
RECURSIVE NestedText(_)
SourceText(e) == IF e.k = "lit" THEN NestedText(e.v) ELSE Text1(<<63>>)
ListText(v) ==
  LET parts == [i \in 1..Len(v.l) |-> IF v.t = "list" THEN NestedText(v.l[i])
                                       ELSE SourceText(v.l[i])]
      sep(i) == IF i = 1 THEN <<>> ELSE <<44>>
  IN IF \E i \in DOMAIN parts : ~parts[i].ok THEN NoText
     ELSE Text1(<<123>> \o FlattenSeq([i \in 1..Len(parts) |-> sep(i) \o parts[i].s]) \o <<125>>)
NestedText(v) ==
  CASE IsUndef(v) -> Text1(<<117>>) [] IsErr(v) -> Text1(<<101>>)
    [] IsStr(v) -> Text1(<<Quote>> \o v.s \o <<Quote>>)
    [] IsList(v) -> ListText(v) [] OTHER -> ScalarText(v)

Text(v) == IF IsList(v) THEN ListText(v) ELSE ScalarText(v)
HasText(v) == Text(v).ok
WithText(v, res(_)) == IF HasText(v) THEN res(Text(v).s) ELSE Err

-----------------------------------------------------------------------------
\* Strings.
Strcat(a) ==
  LET bad(v) == ~HasText(v)
  IN IF Some(a, bad) THEN (IF IsUndef(a[SelectInSeq(a, bad)]) THEN Undef ELSE Err)
     ELSE VStr(FlattenSeq([i \in 1..Len(a) |-> Text(a[i]).s]))

\* A negative offset counts from the end, a length at or below zero trims the
\* end, and a third argument of exactly zero is the empty string.
Substr(a) ==
  LET n == Len(a[1].s)
      off == IF a[2].n < 0 THEN (IF n + a[2].n < 0 THEN 0 ELSE n + a[2].n)
             ELSE IF a[2].n >= n THEN n ELSE a[2].n
      given == IF Len(a) = 3 THEN a[3].n ELSE 0
      len == IF given <= 0 THEN (IF n - off + given < 0 THEN 0 ELSE n - off + given)
             ELSE IF given > n - off THEN n - off ELSE given
  IN UndefFirst(a, IF ~IsStr(a[1]) \/ ~IsInt(a[2]) \/ (Len(a) = 3 /\ ~IsInt(a[3])) THEN Err
                   ELSE IF Len(a) = 3 /\ given = 0 THEN VStr(<<>>)
                   ELSE VStr(Slice(a[1].s, off + 1, len)))

Size(a) ==
  ErrFirst(a, IF IsStr(a[1]) THEN VInt(Wrap(Len(a[1].s)))
              ELSE IF IsList(a[1]) THEN VInt(Wrap(Len(a[1].l))) ELSE Err)

Upper(s) == [i \in 1..Len(s) |-> IF s[i] \in 97..122 THEN s[i] - 32 ELSE s[i]]
ToLower(a) == ErrFirst(a, WithText(a[1], LAMBDA s : VStr(Fold(s))))
ToUpper(a) == ErrFirst(a, WithText(a[1], LAMBDA s : VStr(Upper(s))))

\* strcmp and stricmp.
Strcmp(a, fold) ==
  UndefFirst(a, IF Some(a, LAMBDA v : ~HasText(v)) THEN Err
                ELSE VInt(IF fold THEN CompareFold(Text(a[1]).s, Text(a[2]).s)
                          ELSE Compare(Text(a[1]).s, Text(a[2]).s)))

\* split: runs of delimiters separate fields, and each delimiter of a run that
\* is not white space, but the first, stands for an empty field.
RECURSIVE Fields(_, _, _)
Fields(s, i, delim) ==
  LET run == Span(s, i, delim)
      hard == Cardinality({k \in i..(i + run - 1) : s[k] \notin Space})
      word == Span(s, i, 0..127 \ delim)
  IN IF i > Len(s) THEN <<>>
     ELSE IF s[i] \in delim THEN [k \in 1..(IF hard > 1 THEN hard - 1 ELSE 0) |-> <<>>]
                                 \o Fields(s, i + run, delim)
     ELSE <<Slice(s, i, word)>> \o Fields(s, i + word, delim)
Strings(ss) == VList([i \in 1..Len(ss) |-> VStr(ss[i])])
Split(a) ==
  IF ~IsStr(a[1]) \/ (Len(a) = 2 /\ ~IsStr(a[2])) THEN Err
  ELSE Strings(Fields(a[1].s, 1, IF Len(a) = 2 THEN ToSet(a[2].s) ELSE Space \cup {44}))

\* splitUserName and splitSlotName: at the first "@", or all on one side.
SplitAt(a, userFirst) ==
  LET s == a[1].s
      k == Span(s, 1, 0..127 \ {At})
  IN IF ~IsStr(a[1]) THEN Err
     ELSE IF k < Len(s) THEN Strings(<<Slice(s, 1, k), SubSeq(s, k + 2, Len(s))>>)
     ELSE IF userFirst THEN Strings(<<s, <<>>>>) ELSE Strings(<<<<>>, s>>)

\* join: the separator may be missing, undefined items are skipped.
Join(a, f) ==
  LET last == Len(a)
      spread == last <= 2 /\ IsList(a[last])
      xs == IF ~spread THEN a
            ELSE <<IF last = 2 THEN a[1] ELSE VStr(<<>>)>> \o f[last].l
      items == Tail(xs)
      shown == SelectSeq(items, LAMBDA v : ~IsUndef(v))
      sep(i) == IF i = 1 \/ IsUndef(xs[1]) THEN <<>> ELSE Text(xs[1]).s
  IN IF (last <= 2 /\ IsErr(a[last])) \/ Some(xs, IsErr) THEN Err
     ELSE IF (~IsUndef(xs[1]) /\ ~HasText(xs[1])) \/ Some(shown, LAMBDA v : ~HasText(v)) THEN Err
     ELSE IF shown = <<>> /\ (items # <<>> \/ IsUndef(xs[1])) THEN Undef
     ELSE VStr(FlattenSeq([i \in 1..Len(shown) |-> sep(i) \o Text(shown[i]).s]))

-----------------------------------------------------------------------------
\* Numbers and conversions.
OnReal(r, res(_)) == IF r.ok THEN res(r.h) ELSE Err
RoundTo(fn, h) ==
  CASE fn = "floor" -> FloorOf(h) [] fn = "round" -> RoundEven(h) [] OTHER -> CeilOf(h)
RoundWith(fn, a) ==
  IF IsErr(a[1]) THEN Err ELSE IF IsInt(a[1]) THEN a[1]
  ELSE OnReal(CoerceToReal(a[1]), LAMBDA h : VInt(Converted(RoundTo(fn, h))))

ToInt(a) ==
  ErrFirst(a, IF IsInt(a[1]) THEN a[1] ELSE OnReal(CoerceToReal(a[1]), LAMBDA h : VInt(FloatToInt(h))))
ToReal(a) == ErrFirst(a, OnReal(CoerceToReal(a[1]), VReal))
ToStr(a) == ErrFirst(a, WithText(a[1], LAMBDA s : VStr(s)))
ToBool(a) ==
  ErrFirst(a, IF Numeric(a[1]) THEN VBool(a[1].n # 0)
              ELSE IF ~IsStr(a[1]) THEN Err
              ELSE IF Fold(a[1].s) = TrueText THEN VBool(TRUE)
              ELSE IF Fold(a[1].s) = FalseText THEN VBool(FALSE) ELSE Undef)

TypeTest(fn, v) ==
  VBool(CASE fn = "isundefined" -> IsUndef(v) [] fn = "iserror" -> IsErr(v)
          [] fn = "isstring" -> IsStr(v) [] fn = "isinteger" -> IsInt(v)
          [] fn = "isreal" -> IsReal(v) [] fn = "isboolean" -> IsBool(v)
          [] fn = "islist" -> IsList(v) [] fn = "isclassad" -> IsAd(v))

\* pow of two integers is rounded back to an integer.
RPow(b, e) == IF e >= 0 THEN Rounded(2 * b ^ e, 1) ELSE RDiv(2, Rounded(2 * b ^ (-e), 1))
PowOf(a, x, y) ==
  IF Some(a, IsErr) \/ Some(a, IsUndef) \/ ~x.ok \/ ~y.ok THEN Err
  ELSE IF IsInt(a[1]) /\ IsInt(a[2]) /\ a[2].n >= 0
       THEN VInt(Converted(RAdd(RPow(a[1].n, a[2].n), 1)))
  ELSE VReal(RPow(Truncated(x.h), Truncated(y.h)))   \* whole operands only
Pow(a) == PowOf(a, CoerceToReal(a[1]), CoerceToReal(a[2]))

\* quantize: up to the next multiple, or the first element that is large enough.
QuantizeScalar(v, h, base) ==
  OnReal(CoerceToReal(base), LAMBDA b :
    IF b = 0 THEN v
    ELSE IF IsInt(base) /\ IsInt(v) THEN VInt(Wrap(Quot(Wrap(v.n + base.n - 1), base.n) * base.n))
    ELSE VReal(RMul(CeilOf(RDiv(h, b)), b)))
Reaches(r, h) == ~r.ok \/ RLess(h, r.h) \/ REqual(h, r.h)
FirstReached(items, reals, k) == IF reals[k].ok THEN items[k] ELSE Err
Quantized(v, h, base, items, reals) ==
  IF Some(reals, LAMBDA r : Reaches(r, h))
  THEN FirstReached(items, reals, SelectInSeq(reals, LAMBDA r : Reaches(r, h)))
  ELSE IF IsList(base) /\ items = <<>> THEN v
  ELSE QuantizeScalar(v, h, IF IsList(base) THEN Last(items) ELSE base)
Quantize(f) ==
  IF Some(f, IsErr) \/ Some(f, IsUndef) THEN Err
  ELSE OnReal(CoerceToReal(f[1]), LAMBDA h :
         Quantized(f[1], h, f[2], f[2].l, [i \in 1..Len(f[2].l) |-> CoerceToReal(f[2].l[i])]))

-----------------------------------------------------------------------------
\* Lists.  sum, avg, min and max skip UNDEFINED and stop at anything that is
\* not a number; one boolean alone keeps its type.
OverNumbers(f, empty, res(_)) ==
  LET xs == SelectSeq(f[1].l, LAMBDA v : ~IsUndef(v))
  IN ErrFirst(f, IF ~IsList(f[1]) THEN Err
                 ELSE IF f[1].l = <<>> THEN empty
                 ELSE IF Some(xs, LAMBDA v : ~Numeric(v)) THEN Err ELSE res(xs))
HasReal(xs) == Some(xs, IsReal)
RSum(xs) == FoldLeft(LAMBDA acc, v : RAdd(acc, AsReal(v)), 0, xs)

SumOf(f) ==
  OverNumbers(f, VInt(0), LAMBDA xs :
    IF HasReal(xs) THEN VReal(RSum(xs))
    ELSE IF Len(xs) = 1 /\ IsBool(xs[1]) THEN xs[1]
    ELSE VInt(FoldLeft(LAMBDA acc, v : Wrap(acc + v.n), 0, xs)))
AvgOf(f) ==
  OverNumbers(f, VInt(0), LAMBDA xs :
    IF xs = <<>> THEN VInt(0) ELSE VReal(RDiv(RSum(xs), Float(Len(xs)))))

\* min and max: the first element no later one beats.
MinOf(acc, v) == IF RLess(AsReal(v), AsReal(acc)) THEN v ELSE acc
MaxOf(acc, v) == IF RLess(AsReal(acc), AsReal(v)) THEN v ELSE acc
BestOf(xs, best) ==
  IF HasReal(xs) THEN VReal(AsReal(best))
  ELSE IF Len(xs) >= 2 /\ IsBool(best) THEN VInt(best.n) ELSE best
Extreme(f, better(_, _)) ==
  OverNumbers(f, Undef, LAMBDA xs :
    IF xs = <<>> THEN Undef ELSE BestOf(xs, FoldLeft(better, Head(xs), Tail(xs))))

Member(f) ==
  UndefFirst(f, IF ~IsList(f[2]) \/ IsList(f[1]) \/ IsAd(f[1]) THEN Err
                ELSE VBool(Some(f[2].l, LAMBDA v : Equal(v, f[1]) = VBool(TRUE))))
IdenticalMember(f) ==
  IF IsUndef(f[2]) THEN Undef
  ELSE IF ~IsList(f[2]) \/ IsList(f[1]) \/ IsAd(f[1]) THEN Err
  ELSE VBool(Some(f[2].l, LAMBDA v : Is(f[1], v) = VBool(TRUE)))

\* anyCompare and allCompare stop at the first element that decides, or errs.
CompareOps == {"<", "<=", ">", ">=", "==", "!=", "is", "isnt"}
Compared(op, v, target) ==
  CASE op = "==" -> Equal(v, target) [] op = "!=" -> NotEqual(v, target)
    [] op = "is" -> Is(v, target) [] op = "isnt" -> Isnt(v, target)
    [] OTHER -> Relational(op, v, target)
Verdict(rs, all) ==
  LET decides(r) == IsErr(r) \/ (r = VBool(TRUE)) # all
  IN IF ~Some(rs, decides) THEN VBool(all)
     ELSE IF IsErr(rs[SelectInSeq(rs, decides)]) THEN Err ELSE VBool(~all)
CompareList(op, xs, target, all) == Verdict([i \in 1..Len(xs) |-> Compared(op, xs[i], target)], all)

\* The operator argument comes first, as text.
OpTexts == [o \in CompareOps |->
  CASE o = "<" -> {<<60>>} [] o = "<=" -> {<<60, 61>>} [] o = ">" -> {<<62>>}
    [] o = ">=" -> {<<62, 61>>} [] o = "==" -> {<<61, 61>>} [] o = "!=" -> {<<33, 61>>}
    [] o = "is" -> {<<105, 115>>, <<61, 63, 61>>}
    [] OTHER -> {<<105, 115, 110, 116>>, <<61, 33, 61>>}]
QuantifiedCompare(f, all) ==
  IF IsUndef(f[1]) THEN Undef
  ELSE IF ~IsStr(f[1]) \/ \A o \in CompareOps : f[1].s \notin OpTexts[o] THEN Err
  ELSE IF IsUndef(f[2]) THEN Undef
  ELSE IF ~IsList(f[2]) \/ IsErr(f[3]) THEN Err
  ELSE CompareList(CHOOSE o \in CompareOps : f[1].s \in OpTexts[o], f[2].l, f[3], all)

-----------------------------------------------------------------------------
\* Versions: numbers inside text compare as numbers, a run of leading zeros
\* sorts before fewer of them.
VersionCompareNumbers(x, y) ==
  LET a == Span(x, 1, Digit)
      b == Span(y, 1, Digit)
  IN IF a > 0 /\ b > 0 THEN NumberOf(Slice(x, 1, a), 10) - NumberOf(Slice(y, 1, b), 10) ELSE Compare(x, y)
\* They differ first at i, and the digits before i start at n.
Zeros(s, n, z) == IF z > 0 /\ CharAt(s, n + z) \notin Digit THEN z - 1 ELSE z
Digits(x, y, n, diff) ==
  IF Span(x, n, Digit) # Span(y, n, Digit) THEN Span(x, n, Digit) - Span(y, n, Digit) ELSE diff
Padded(x, y, n, diff, zx, zy) ==
  IF zx # zy THEN zy - zx ELSE IF zx > 0 THEN diff ELSE Digits(x, y, n, diff)
VersionFrom(x, y, i, n) ==
  IF CharAt(x, i) = CharAt(y, i) THEN 0
  ELSE IF n = i /\ (CharAt(x, i) \notin Digit \/ CharAt(y, i) \notin Digit)
       THEN CharAt(x, i) - CharAt(y, i)
  ELSE Padded(x, y, n, CharAt(x, i) - CharAt(y, i),
              Zeros(x, n, Span(x, n, {48})), Zeros(y, n, Span(y, n, {48})))
DigitsFrom(x, i) == CHOOSE n \in 1..i : /\ \A m \in n..(i - 1) : x[m] \in Digit
                                        /\ n > 1 => x[n - 1] \notin Digit
FirstDifference(x, y) ==
  CHOOSE i \in 1..(Len(x) + 1) : /\ CharAt(x, i) = 0 \/ CharAt(x, i) # CharAt(y, i)
                                 /\ \A k \in 1..(i - 1) : CharAt(x, k) = CharAt(y, k)
VersionCompare(x, y) == VersionFrom(x, y, FirstDifference(x, y), DigitsFrom(x, FirstDifference(x, y)))

VersionTest(fn, c) ==
  CASE fn = "versioncmp" -> VInt(Wrap(c)) [] fn = "versionge" -> VBool(c >= 0)
    [] fn = "versiongt" -> VBool(c > 0) [] fn = "versionle" -> VBool(c <= 0)
    [] fn = "versionlt" -> VBool(c < 0) [] fn = "versioneq" -> VBool(c = 0)
Versioncmp(fn, a) ==
  UndefFirst(a, IF Some(a, LAMBDA v : ~HasText(v)) THEN Err
                ELSE VersionTest(fn, VersionCompare(Text(a[1]).s, Text(a[2]).s)))
VersionInRange(a) ==
  IF IsUndef(a[2]) \/ IsUndef(a[3]) THEN Undef
  ELSE IF Some(a, LAMBDA v : ~HasText(v)) THEN Err
  ELSE VBool(/\ VersionCompare(Text(a[2]).s, Text(a[1]).s) <= 0
             /\ VersionCompare(Text(a[1]).s, Text(a[3]).s) <= 0)

-----------------------------------------------------------------------------
\* String lists: fields between delimiters, white space trimmed.
Trimmed(s) ==
  LET kept == {k \in 1..Len(s) : s[k] \notin Space}
  IN IF kept = {} THEN <<>>
     ELSE SubSeq(s, CHOOSE k \in kept : \A m \in kept : k <= m,
                    CHOOSE k \in kept : \A m \in kept : k >= m)
RECURSIVE Pieces(_, _, _)
Pieces(s, i, delim) ==
  LET skip == Span(s, i, delim)
      word == Span(s, i + skip, 0..127 \ delim)
  IN IF i + skip > Len(s) THEN <<>>
     ELSE <<Trimmed(Slice(s, i + skip, word))>> \o Pieces(s, i + skip + word, delim)
ParseStringList(s, delim) == Pieces(s, 1, IF delim = <<>> THEN {44, 32} ELSE ToSet(delim))
Comma == <<44, 32>>
NonEmpty(ss) == SelectSeq(ss, LAMBDA s : s # <<>>)

\* stringListMember and stringListIMember: UNDEFINED is the empty string,
\* unless both are.
StringArg(v) == IsUndef(v) \/ IsStr(v)
StringListMember(a, fold) ==
  LET same(x, y) == IF fold THEN Fold(x) = Fold(y) ELSE x = y
  IN IF IsUndef(a[1]) /\ IsUndef(a[2]) THEN Undef
     ELSE IF Some(a, LAMBDA v : ~StringArg(v)) THEN Err
     ELSE VBool(Some(ParseStringList(a[2].s, IF Len(a) = 3 THEN a[3].s ELSE <<>>),
                     LAMBDA e : same(e, a[1].s)))

\* stringListSize, Sum, Avg, Min and Max.
AllText(a) == ~Some(a, LAMBDA v : ~IsStr(v))
StringListArgs(a) == NonEmpty(ParseStringList(a[1].s, IF Len(a) = 2 THEN a[2].s ELSE Comma))
IntField(s) ==
  LET k == IF CharAt(s, 1) \in {43, 45} THEN 1 ELSE 0
      n == NumberOf(SubSeq(s, k + 1, Len(s)), 10)
  IN /\ Len(s) > k /\ \A i \in (k + 1)..Len(s) : s[i] \in Digit
     /\ IF s[1] = 45 THEN -n >= MinInt ELSE n <= MaxInt
Total(hs) == FoldLeft(RAdd, 0, hs)
Least(hs) == FoldLeft(LAMBDA x, y : IF RLess(y, x) THEN y ELSE x, Head(hs), Tail(hs))
Greatest(hs) == FoldLeft(LAMBDA x, y : IF RLess(x, y) THEN y ELSE x, Head(hs), Tail(hs))
StringListSize(a) == IF AllText(a) THEN VInt(Wrap(Len(StringListArgs(a)))) ELSE Err
StringListSum(hs, ints) == IF ints THEN VInt(Converted(Total(hs))) ELSE VReal(Total(hs))
StringListAvg(hs, ints) ==
  IF ints THEN VInt(Quot(Converted(Total(hs)), Len(hs))) ELSE VReal(RDiv(Total(hs), Float(Len(hs))))
StringListExtreme(h, ints) == IF ints THEN VInt(Converted(h)) ELSE VReal(h)
OnFloats(fn, hs, ints) ==
  CASE fn = "stringlistsum" -> StringListSum(hs, ints) [] fn = "stringlistavg" -> StringListAvg(hs, ints)
    [] OTHER -> StringListExtreme(IF fn = "stringlistmin" THEN Least(hs) ELSE Greatest(hs), ints)
NoFields(fn) == IF fn \in {"stringlistsum", "stringlistavg"} THEN VReal(0) ELSE Undef
FieldNumbers(fn, ss, ps) ==
  IF Some(ps, LAMBDA p : ~p.ok) THEN Err
  ELSE IF ss = <<>> THEN NoFields(fn)
  ELSE OnFloats(fn, [i \in 1..Len(ps) |-> ps[i].h], \A i \in 1..Len(ss) : IntField(ss[i]))
NumericFields(fn, a) ==
  LET ss == StringListArgs(a)
  IN IF AllText(a) THEN FieldNumbers(fn, ss, [i \in 1..Len(ss) |-> ParseLeadingFloat(ss[i])]) ELSE Err

StringListsIntersect(a) ==
  LET d == IF Len(a) = 3 THEN a[3].s ELSE Comma
      two == SubSeq(a, 1, 2)
  IN ErrFirst(two, IF ~IsStr(a[1]) \/ ~IsStr(a[2]) THEN Err
                 ELSE IF Len(a) = 3 /\ IsUndef(a[3]) THEN Undef
                 ELSE IF Len(a) = 3 /\ ~IsStr(a[3]) THEN Err
                 ELSE VBool(ToSet(NonEmpty(ParseStringList(a[1].s, d)))
                            \cap ToSet(NonEmpty(ParseStringList(a[2].s, d))) # {}))
StringListSubsetMatch(a) ==
  LET d == IF Len(a) = 3 THEN a[3].s ELSE Comma
      l1 == ParseStringList(a[1].s, d)
  IN IF IsUndef(a[1]) /\ IsUndef(a[2]) THEN Undef
     ELSE IF Some(a, LAMBDA v : ~StringArg(v)) THEN Err
     ELSE IF l1 = <<>> THEN VBool(a[1].s = <<>>)
     ELSE VBool(ToSet(NonEmpty(l1)) \subseteq ToSet(ParseStringList(a[2].s, d)))

-----------------------------------------------------------------------------
\* Regular expressions are Go's regexp package.  The model's patterns are
\* literal text, found anywhere; one that opens a group does not compile.
Compiles(pattern) == 40 \notin ToSet(pattern)
Find(pattern, fold, s) ==
  LET q == IF fold THEN Fold(s) ELSE s
      p == IF fold THEN Fold(pattern) ELSE pattern
      hits == {k \in 1..(Len(s) - Len(p) + 1) : Slice(q, k, Len(p)) = p}
  IN IF hits = {} THEN 0 ELSE CHOOSE k \in hits : \A m \in hits : k <= m
Folding(v) == 105 \in ToSet(Fold(v.s))

\* regexp(pattern, target[, options]): options must be a string.
Regexp(a) ==
  LET two == SubSeq(a, 1, 2)
      fold == Len(a) = 3 /\ Folding(a[3])
  IN ErrFirst(two, IF Some(two, LAMBDA v : ~IsStr(v)) THEN Err
       ELSE IF Len(a) = 3 /\ IsUndef(a[3]) THEN Undef
       ELSE IF Len(a) = 3 /\ ~IsStr(a[3]) THEN Err
       ELSE IF ~Compiles(a[1].s) THEN Err ELSE VBool(Find(a[1].s, fold, a[2].s) > 0))

\* The other regexp functions read UNDEFINED options as none.
Options(a, n) == Len(a) < n \/ StringArg(a[n])
StringListRegexpMember(a) ==
  LET two == SubSeq(a, 1, 2)
      d == IF Len(a) >= 3 /\ IsStr(a[3]) THEN a[3].s ELSE Comma
      fold == Len(a) = 4 /\ Folding(a[4])
  IN ErrFirst(two, IF Some(two, LAMBDA v : ~IsStr(v)) \/ ~Options(a, 3) \/ ~Options(a, 4) THEN Err
       ELSE IF ~Compiles(a[1].s) THEN Err
       ELSE VBool(Some(NonEmpty(ParseStringList(a[2].s, d)), LAMBDA e : Find(a[1].s, fold, e) > 0)))
RegexpMember(a, f) ==
  LET two == SubSeq(a, 1, 2)
      fold == Len(a) = 3 /\ Folding(a[3])
  IN ErrFirst(two, IF ~IsStr(a[1]) \/ ~IsList(a[2]) \/ ~Options(a, 3) \/ ~Compiles(a[1].s) THEN Err
       ELSE VBool(Some(f[2].l, LAMBDA v : IsStr(v) /\ Find(a[1].s, fold, v.s) > 0)))

\* replace changes the first match, regexps and replaceAll every one; the empty
\* pattern matches before every character and at the end.
RECURSIVE Substituted(_, _, _, _, _)
Substituted(p, fold, s, by, all) ==
  LET k == Find(p, fold, s)
      rest == SubSeq(s, k + Len(p), Len(s))
  IN IF k = 0 THEN s
     ELSE IF p = <<>> /\ all THEN FlattenSeq([i \in 1..Len(s) |-> Append(by, s[i])]) \o by
     ELSE SubSeq(s, 1, k - 1) \o by \o (IF all THEN Substituted(p, fold, rest, by, all) ELSE rest)
Replace(a, all) ==
  LET three == SubSeq(a, 1, 3)
      fold == Len(a) = 4 /\ Folding(a[4])
  IN ErrFirst(three, IF Some(three, LAMBDA v : ~IsStr(v)) \/ ~Options(a, 4) \/ ~Compiles(a[1].s)
                     THEN Err ELSE VStr(Substituted(a[1].s, fold, a[2].s, a[3].s, all)))

-----------------------------------------------------------------------------
\* Times.  A conversion of a format stands for that field of the instant.
Conversions == {97, 65, 98, 66, 99, 100, 72, 73, 106, 109, 77, 112, 83, 85, 87, 119, 120, 88, 121,
                89, 90}
RECURSIVE Strftime(_, _)
Strftime(t, format) ==
  IF format = <<>> THEN <<>>
  ELSE IF format[1] # 37 \/ Len(format) = 1 THEN <<format[1]>> \o Strftime(t, Tail(format))
  ELSE (IF format[2] \in Conversions THEN <<1000 + format[2], t>>
        ELSE IF format[2] = 37 THEN <<37>> ELSE <<37, format[2]>>)
       \o Strftime(t, SubSeq(format, 3, Len(format)))
FormatTime(a) ==
  LET t == IF Len(a) >= 1 /\ ~IsUndef(a[1]) THEN a[1] ELSE VInt(Now)
  IN IF ~IsInt(t) \/ (Len(a) = 2 /\ ~IsStr(a[2])) THEN Err
     ELSE VStr(Strftime(t.n, IF Len(a) = 2 THEN a[2].s ELSE <<37, 99>>))

\* An interval: the count is cut to half the width of an integer, then shown as
\* days, hours, minutes and seconds without the leading ones that are zero.
Narrow(x) == ((x + 2 ^ (Bits \div 2 - 1)) % 2 ^ (Bits \div 2)) - 2 ^ (Bits \div 2 - 1)
IntervalParts(n) == <<n \div 86400, (n % 86400) \div 3600, (n % 3600) \div 60>>
FirstShown(parts) ==
  CHOOSE k \in 1..4 : (k < 4 => parts[k] > 0) /\ \A m \in 1..(k - 1) : parts[m] = 0
IntervalText(x) ==
  VStr((IF x < 0 THEN <<45>> ELSE <<>>)
       \o SubSeq(IntervalParts(Abs(x)), FirstShown(IntervalParts(Abs(x))), 3) \o <<Abs(x) % 60>>)
Interval(a) ==
  IF Integral(a[1]) THEN IntervalText(Narrow(a[1].n))
  ELSE OnReal(CoerceToReal(a[1]), LAMBDA h : IntervalText(Narrow(FloatToInt(h))))

-----------------------------------------------------------------------------
\* How many arguments each function takes; a negative maximum is no maximum.
Arity == [fn \in {"strcat"} |-> <<0, -1>>]
  @@ [fn \in {"unparse", "eval", "size", "tolower", "toupper", "floor", "ceil", "ceiling", "round",
              "int", "real", "isundefined", "iserror", "isstring", "isinteger", "isreal",
              "isboolean", "islist", "isclassad", "string", "bool", "sum", "avg", "min", "max",
              "splitusername", "splitslotname", "interval"} |-> <<1, 1>>]
  @@ [fn \in {"member", "pow", "quantize", "strcmp", "stricmp", "versioncmp", "versionge",
              "versiongt", "versionle", "versionlt", "versioneq", "countmatches",
              "evalineachcontext", "identicalmember"} |-> <<2, 2>>]
  @@ [fn \in {"ifthenelse", "version_in_range", "anycompare", "allcompare"} |-> <<3, 3>>]
  @@ [fn \in {"substr", "stringlistmember", "stringlistimember", "regexp", "stringlistsintersect",
              "stringlistsubsetmatch", "regexpmember"} |-> <<2, 3>>]
  @@ [fn \in {"split", "stringlistsize", "stringlistsum", "stringlistavg", "stringlistmin",
              "stringlistmax"} |-> <<1, 2>>]
  @@ [fn \in {"regexps", "replace", "replaceall"} |-> <<3, 4>>]
  @@ ("join" :> <<1, -1>>) @@ ("time" :> <<0, 0>>) @@ ("formattime" :> <<0, 2>>)
  @@ ("stringlistregexpmember" :> <<2, 4>>)
Accepts(fn, n) ==
  fn \in DOMAIN Arity /\ n >= Arity[fn][1] /\ (Arity[fn][2] < 0 \/ n <= Arity[fn][2])

\* The functions over evaluated arguments.
Apply(fn, a, f) ==
  CASE fn = "strcat" -> Strcat(a) [] fn = "substr" -> Substr(a) [] fn = "size" -> Size(a)
    [] fn = "tolower" -> ToLower(a) [] fn = "toupper" -> ToUpper(a)
    [] fn \in {"floor", "ceil", "ceiling", "round"} -> RoundWith(fn, a)
    [] fn = "int" -> ToInt(a) [] fn = "real" -> ToReal(a)
    [] fn = "string" -> ToStr(a) [] fn = "bool" -> ToBool(a)
    [] fn \in {"isundefined", "iserror", "isstring", "isinteger", "isreal", "isboolean", "islist",
               "isclassad"} -> TypeTest(fn, a[1])
    [] fn = "time" -> VInt(Now) [] fn = "pow" -> Pow(a) [] fn = "quantize" -> Quantize(f)
    [] fn = "sum" -> SumOf(f) [] fn = "avg" -> AvgOf(f) [] fn = "min" -> Extreme(f, MinOf)
    [] fn = "max" -> Extreme(f, MaxOf) [] fn = "member" -> Member(f)
    [] fn = "identicalmember" -> IdenticalMember(f)
    [] fn \in {"anycompare", "allcompare"} -> QuantifiedCompare(f, fn = "allcompare")
    [] fn = "join" -> Join(a, f) [] fn = "split" -> Split(a)
    [] fn \in {"splitusername", "splitslotname"} -> SplitAt(a, fn = "splitusername")
    [] fn \in {"strcmp", "stricmp"} -> Strcmp(a, fn = "stricmp")
    [] fn \in {"versioncmp", "versionge", "versiongt", "versionle", "versionlt", "versioneq"} ->
         Versioncmp(fn, a)
    [] fn = "version_in_range" -> VersionInRange(a)
    [] fn = "formattime" -> FormatTime(a) [] fn = "interval" -> Interval(a)
    [] fn \in {"stringlistmember", "stringlistimember"} ->
         StringListMember(a, fn = "stringlistimember")
    [] fn = "stringlistsize" -> StringListSize(a)
    [] fn \in {"stringlistsum", "stringlistavg", "stringlistmin", "stringlistmax"} ->
         NumericFields(fn, a)
    [] fn = "stringlistsintersect" -> StringListsIntersect(a)
    [] fn = "stringlistsubsetmatch" -> StringListSubsetMatch(a)
    [] fn = "stringlistregexpmember" -> StringListRegexpMember(a)
    [] fn = "regexp" -> Regexp(a) [] fn = "regexpmember" -> RegexpMember(a, f)
    [] fn \in {"replace", "regexps", "replaceall"} -> Replace(a, fn # "replace")
    [] OTHER -> Err
=============================================================================
