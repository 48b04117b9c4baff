-------------------------------- MODULE Index --------------------------------
(***************************************************************************)
(* The per-segment index (collections/index.go, index_query.go,            *)
(* readindex.go): which probes of a query an index answers, how several    *)
(* probes of one attribute fold into one, and the candidates it returns.   *)
(*                                                                         *)
(* A categorical index posts string literals (folded) and booleans, a      *)
(* value index numbers and booleans; a record whose attribute is anything  *)
(* else is exceptional.  Postings are read off the records they were built *)
(* from, which never change.                                               *)
(***************************************************************************)
EXTENDS Program

CONSTANTS BloomBits   \* positions of the Bloom filter over posted strings

ASSUME BloomAssumption == BloomBits \in Nat \ {0}

\* The configured index: categorical and numeric attributes, disjoint.
Spec0 == [cat |-> {}, val |-> {}]
AnyIndex(spec) == spec.cat \cup spec.val # {}

\* A probe that an index can answer.  A band has an upper bound hiOp, hiVal too.
Usable(attr, cat, op, svals, fvals) ==
  [attr |-> attr, cat |-> cat, op |-> op, svals |-> svals, fvals |-> fvals,
   hiOp |-> "", hiVal |-> 0, unsat |-> FALSE]

\* The key of a literal under a categorical index, and under a value index.
CatKeyed(v) == IsStr(v) \/ IsBool(v)
CatExact(v) == IF IsStr(v) THEN v.s ELSE BoolText(v.n = 1)
CatKeys(p) == [i \in DOMAIN p.vals |-> CatExact(p.vals[i])]
CatUsable(p) ==
  CASE p.op \in {"present", "absent"} -> <<Usable(p.attr, TRUE, p.op, <<>>, <<>>)>>
    [] p.op = "truthy" -> <<Usable(p.attr, TRUE, "==", <<TrueText>>, <<>>)>>
    [] p.op = "untruthy" -> <<Usable(p.attr, TRUE, "==", <<FalseText>>, <<>>)>>
    [] p.op \in {"is", "isnt", "==", "!=", "in"} /\ \A i \in DOMAIN p.vals : CatKeyed(p.vals[i]) ->
         <<Usable(p.attr, TRUE, p.op, IF p.op \in {"is", "isnt"} THEN CatKeys(p)
                                      ELSE [i \in DOMAIN p.vals |-> Fold(CatExact(p.vals[i]))], <<>>)>>
    [] OTHER -> <<>>
ValUsableAs(p, op) ==
  CASE op \in {"present", "absent"} -> <<Usable(p.attr, FALSE, op, <<>>, <<>>)>>
    [] op = "truthy" -> <<Usable(p.attr, FALSE, "!=", <<>>, <<0>>)>>
    [] op = "untruthy" -> <<Usable(p.attr, FALSE, "==", <<>>, <<0>>)>>
    [] op \in {"==", "!=", "in", "<", "<=", ">", ">="} /\ \A i \in DOMAIN p.vals : Numeric(p.vals[i]) ->
         <<Usable(p.attr, FALSE, op, <<>>, [i \in DOMAIN p.vals |-> AsReal(p.vals[i])])>>
    [] OTHER -> <<>>
ValUsable(p) == ValUsableAs(p, IF p.op = "is" THEN "==" ELSE p.op)

-----------------------------------------------------------------------------
\* Probes of one numeric attribute fold together: ranges into a band,
\* equalities into the values that all of them admit.
IsEqOp(op) == op \in {"==", "in"}
IsRangeOp(op) == op \in {"<", "<=", ">", ">="}
CmpReal(op, k, t) ==
  CASE op = "<" -> RLess(k, t) [] op = "<=" -> RLess(k, t) \/ REqual(k, t)
    [] op = ">" -> RLess(t, k) [] op = ">=" -> RLess(t, k) \/ REqual(k, t) [] OTHER -> FALSE
RangeAdmits(u, v) ==
  u.fvals # <<>> /\ CmpReal(u.op, v, u.fvals[1]) /\ (u.hiOp = "" \/ CmpReal(u.hiOp, v, u.hiVal))

Bound(op, v) == [op |-> op, v |-> v, has |-> op # ""]
RangeLow(u) == IF u.op \in {">", ">="} THEN Bound(u.op, u.fvals[1]) ELSE Bound("", 0)
RangeHigh(u) ==
  IF u.hiOp # "" THEN Bound(u.hiOp, u.hiVal)
  ELSE IF u.op \in {"<", "<="} THEN Bound(u.op, u.fvals[1]) ELSE Bound("", 0)
Tighter(a, b, strict, beats(_, _)) ==
  IF b.has /\ (~a.has \/ beats(b.v, a.v) \/ (b.v = a.v /\ b.op = strict)) THEN b ELSE a
Banded(attr, lo, hi) ==
  IF lo.has THEN [Usable(attr, FALSE, lo.op, <<>>, <<lo.v>>) EXCEPT !.hiOp = hi.op, !.hiVal = hi.v]
  ELSE Usable(attr, FALSE, hi.op, <<>>, <<hi.v>>)
MergeRange(a, b) ==
  Banded(a.attr, Tighter(RangeLow(a), RangeLow(b), ">", LAMBDA x, y : x > y),
                 Tighter(RangeHigh(a), RangeHigh(b), "<", LAMBDA x, y : x < y))

\* The first probe of us on the attribute of u with an operator in ops, or 0.
FirstOf(us, u, ops) == SelectInSeq(us, LAMBDA x : ~x.cat /\ x.attr = u.attr /\ x.op \in ops)
MergedAt(us, u, i) == IF i = 0 THEN Append(us, u) ELSE [us EXCEPT ![i] = MergeRange(@, u)]
Merged(us, u) ==
  MergedAt(us, u, IF u.cat \/ ~IsRangeOp(u.op) THEN 0 ELSE FirstOf(us, u, {"<", "<=", ">", ">="}))
CoalesceRanges(us) == FoldLeft(Merged, <<>>, us)

WithValues(u, keep) == [u EXCEPT !.fvals = keep, !.unsat = keep = <<>>]
\* An equality takes in the later equalities of its attribute and its ranges:
\* into[i] is the equality that probe i is taken into, itself the first, or 0.
FoldsInto(us) ==
  [i \in DOMAIN us |-> IF ~us[i].cat /\ (IsEqOp(us[i].op) \/ IsRangeOp(us[i].op))
                       THEN FirstOf(us, us[i], {"==", "in"}) ELSE 0]
AdmitsAll(us, joined, v) ==
  \A i \in joined : IF IsEqOp(us[i].op) THEN v \in ToSet(us[i].fvals) ELSE RangeAdmits(us[i], v)
KeepValues(us, i, joined) ==
  WithValues(us[i], SelectSeq(us[i].fvals, LAMBDA v : AdmitsAll(us, joined, v)))
FoldedWith(us, i, joined) == IF joined = {i} THEN us[i] ELSE KeepValues(us, i, joined)
FoldBy(us, into) ==
  FlattenSeq([i \in DOMAIN us |->
    IF into[i] = 0 THEN <<us[i]>>
    ELSE IF into[i] # i THEN <<>> ELSE <<FoldedWith(us, i, {j \in DOMAIN us : into[j] = i})>>])
FoldEqualities(us) == FoldBy(us, FoldsInto(us))

EmptyBand(u) ==
  u.hiOp # "" /\ (u.fvals[1] > u.hiVal \/ (u.fvals[1] = u.hiVal /\ (u.op = ">" \/ u.hiOp = "<")))
NeverMatches(u) == u.unsat \/ EmptyBand(u)
Unsatisfiable(us) == \E i \in DOMAIN us : NeverMatches(us[i])

\* A categorical attribute keeps only its categorical index.
UsableFor(spec, p) ==
  IF p.attr \in spec.cat THEN CatUsable(p) ELSE IF p.attr \in spec.val THEN ValUsable(p) ELSE <<>>
PlanIndex(spec, probes) ==
  FoldEqualities(CoalesceRanges(FlattenSeq([i \in DOMAIN probes |-> UsableFor(spec, probes[i])])))
\* One list of usable probes per alternative; none unless every one has some.
AllUsable(gs) == IF \A i \in DOMAIN gs : gs[i] # <<>> THEN gs ELSE <<>>
PlanIndexGroups(spec, plan) == AllUsable([i \in DOMAIN plan |-> PlanIndex(spec, plan[i])])

-----------------------------------------------------------------------------
\* The index of a segment covers its first upto records; ads are those of the
\* segment, in order, and a record is named by its position.
SegIndex(upto, spec) == [upto |-> upto, cat |-> spec.cat, val |-> spec.val]
NoIndex == SegIndex(0, Spec0)
All(ix) == 1..ix.upto

Keyed(u, e) == IsLiteral(e) /\ (IF u.cat THEN CatKeyed(e.v) ELSE Numeric(e.v))
With(ix, ads, u, keyed) ==
  {o \in All(ix) : u.attr \in Names(ads[o]) /\ Keyed(u, Lookup(ads[o], u.attr)) = keyed}
Posted(ix, ads, u) == With(ix, ads, u, TRUE)
Exceptional(ix, ads, u) == With(ix, ads, u, FALSE)
PostedUnder(u, v, key) == IF u.cat THEN Fold(CatExact(v)) = key ELSE REqual(AsReal(v), key)
Post(ix, ads, u, key) == {o \in Posted(ix, ads, u) : PostedUnder(u, Lookup(ads[o], u.attr).v, key)}

\* Exact spellings: a folded key with one spelling stores it beside its posting,
\* one with several has a posting for each.
Spelt(ads, u, o) == CatExact(Lookup(ads[o], u.attr).v)
ExactOf(ads, u, key, fold, spellings) ==
  IF Cardinality(spellings) = 1 THEN (IF spellings = {key} THEN fold ELSE {})
  ELSE {o \in fold : Spelt(ads, u, o) = key}
ExactIn(ads, u, key, fold) == ExactOf(ads, u, key, fold, {Spelt(ads, u, o) : o \in fold})
ExactBitmap(ix, ads, u, key) == ExactIn(ads, u, key, Post(ix, ads, u, Fold(key)))

OffsetsFor(ix, ads, u, keys, posted, exc) ==
  CASE IsEqOp(u.op) -> exc \cup UNION {Post(ix, ads, u, keys[i]) : i \in DOMAIN keys}
    [] u.op = "!=" -> All(ix) \ Post(ix, ads, u, keys[1])
    [] u.op = "present" -> posted \cup exc
    [] u.op = "absent" -> All(ix) \ posted
    [] u.op = "is" -> ExactBitmap(ix, ads, u, keys[1])
    [] u.op = "isnt" -> All(ix) \ ExactBitmap(ix, ads, u, keys[1])
    [] OTHER -> exc \cup {o \in posted : RangeAdmits(u, AsReal(Lookup(ads[o], u.attr).v))}
ProbeOffsets(ix, ads, u) ==
  OffsetsFor(ix, ads, u, IF u.cat THEN u.svals ELSE u.fvals, Posted(ix, ads, u), Exceptional(ix, ads, u))

\* The statistics that show no covered record can satisfy a probe: no record is
\* exceptional and the keys lie outside the range, or outside the Bloom filter.
BloomHash(s) == FoldLeft(LAMBDA h, c : (h + c) % BloomBits, 0, s)
BloomAbsent(ix, ads, u) ==
  \A i \in DOMAIN u.svals : \A o \in Posted(ix, ads, u) :
    BloomHash(Fold(CatExact(Lookup(ads[o], u.attr).v))) # BloomHash(u.svals[i])
RangeBoundSkips(lo, hi, op, t) ==
  CASE op = "<" -> lo >= t [] op = "<=" -> lo > t [] op = ">" -> hi <= t [] op = ">=" -> hi < t [] OTHER -> FALSE
CanSkipUnseen(ix, ads, u) ==
  ~u.cat /\ IsRangeOp(u.op) /\ \A o \in Posted(ix, ads, u) : ~RangeAdmits(u, AsReal(Lookup(ads[o], u.attr).v))
OutsideRange(u, lo, hi) ==
  CASE IsEqOp(u.op) -> \A i \in DOMAIN u.fvals : u.fvals[i] < lo \/ u.fvals[i] > hi
    [] IsRangeOp(u.op) -> \/ RangeBoundSkips(lo, hi, u.op, u.fvals[1])
                          \/ u.hiOp # "" /\ RangeBoundSkips(lo, hi, u.hiOp, u.hiVal)
    [] OTHER -> FALSE
SkipsKeys(u, keys) ==
  IF keys = {} THEN u.op # "!="
  ELSE OutsideRange(u, CHOOSE k \in keys : \A j \in keys : k <= j, CHOOSE k \in keys : \A j \in keys : k >= j)
CanSkip(ix, ads, u) ==
  \/ NeverMatches(u)
  \/ /\ Exceptional(ix, ads, u) = {}
     /\ u.op \notin {"present", "absent"}
     /\ IF u.cat THEN IsEqOp(u.op) /\ BloomAbsent(ix, ads, u)
        ELSE SkipsKeys(u, {AsReal(Lookup(ads[o], u.attr).v) : o \in Posted(ix, ads, u)})

CoversProbe(ix, u) == u.attr \in (IF u.cat THEN ix.cat ELSE ix.val)
Covers(ix, us) == \A i \in DOMAIN us : CoversProbe(ix, us[i])
SkipsPrefix(ix, ads, us) == \E i \in DOMAIN us : CanSkip(ix, ads, us[i])

\* The candidates of a conjunction.  The cheapest probe is always asked; another
\* is left out when its estimated cost exceeds what it saves, so which ones are
\* asked is up to the estimates: asked chooses among the positions of us.
AskedOf(on) == IF on = {} THEN {1} ELSE on
CandidateOffsets(ix, ads, us, asked) ==
  IF Unsatisfiable(us) THEN {}
  ELSE {o \in All(ix) : \A i \in AskedOf(asked \cap DOMAIN us) : o \in ProbeOffsets(ix, ads, us[i])}
CandidateOffsetsGroups(ix, ads, groups, asked) ==
  UNION {CandidateOffsets(ix, ads, groups[i], asked) : i \in DOMAIN groups}
=============================================================================
