----------------------------- MODULE ColumnRead ------------------------------
(***************************************************************************)
(* What is read from the columns of a segment (colscope.go, colvec.go,     *)
(* colgroupread.go, colmulti.go, colpresence.go, colagg.go, colnative.go,  *)
(* colproject.go): a record at a time by the query's program, a column at  *)
(* a time by the vector executor, and the numeric scans that answer exact  *)
(* probes without running the program at all.                              *)
(*                                                                         *)
(* A part is one block of a cover with the blocks of its groups; k is a    *)
(* row of it.  only says that the columns are all there is of a literal: a *)
(* name they lack may still be an expression of the record's remnant.      *)
(***************************************************************************)
EXTENDS Columns

-----------------------------------------------------------------------------
\* The program over one record: a resolver that reads slots and cold tails, and
\* asks for the whole record where it meets an expression.
Known(v) == [v |-> v, fell |-> FALSE]
LiteralOr(e) == [v |-> IF IsLiteral(e) THEN e.v ELSE Undef, fell |-> ~IsLiteral(e)]
NodeOr(es, only) == IF es = <<>> THEN [v |-> Undef, fell |-> only] ELSE LiteralOr(es[1])
FromColdTail(b, k, id, only) == NodeOr(EscapedNode(b, k, id), only)
ResolveField(b, k, i, id, only) ==
  IF Escaped(b, k, i) THEN FromColdTail(b, k, id, only) ELSE Known(SlotValue(b, k, i))

GroupHolding(part, name) == SelectInSeq(part.groups, LAMBDA g : HasField(g.blk.schema, name))
ResolveMember(part, gb, m, k, name, id, only) ==
  IF m # 0 THEN ResolveField(gb.blk, m, FieldIndex(gb.blk.schema, name), id, FALSE)
  ELSE IF k \in gb.exceptions THEN FromColdTail(part.blk, k, id, only)
  ELSE Known(Undef)
ResolveGroup(part, gb, k, name, id, only) == ResolveMember(part, gb, MemberIndex(gb, k), k, name, id, only)

ResolveIn(part, k, i, g, name, id, only) ==
  IF i # 0 THEN ResolveField(part.blk, k, i, id, only)
  ELSE IF g # 0 THEN ResolveGroup(part, part.groups[g], k, name, id, only)
  ELSE FromColdTail(part.blk, k, id, only)
ScopeResolve(part, k, scope, name, ids, only) ==
  IF scope \notin {"", "MY"} \/ ~Interned(ids, name) THEN Known(Undef)
  ELSE ResolveIn(part, k, FieldIndex(part.blk.schema, name), GroupHolding(part, name), name, IdOf(ids, name), only)

\* The result of the program, and whether it fell back on the way.
GotAt(code, part, k, ids, only) ==
  [p \in DOMAIN code |-> IF code[p].op = "load"
     THEN ScopeResolve(part, k, code[p].x, code[p].n, ids, only) ELSE Known(Undef)]
OutcomeOf(m, got) == [v |-> ResultOf(m), fell |-> \E p \in m.ran : got[p].fell]
RunOn(code, got) == OutcomeOf(Exec(code, [p \in DOMAIN code |-> got[p].v]), got)
RunScoped(code, part, k, ids, only) == RunOn(code, GotAt(code, part, k, ids, only))

\* A whole record put back together: what its remnant kept, the slots, the cold
\* tail and the groups it is a member of.  <<>> when a name cannot be told.
ColdName(cover, b, id, ids) ==
  IF cover.dict # <<>> THEN NameOf(cover.dict, id) ELSE NameOf(ids, Current(b, id))
Nameable(cover, b, id, ids) ==
  IF cover.dict # <<>> THEN id < Len(cover.dict) ELSE Current(b, id) < Len(ids)
Attribute(name, es) == IF es = <<>> THEN <<>> ELSE <<[n |-> name, e |-> es[1]]>>
FieldNode(b, k, i, id) == IF Escaped(b, k, i) THEN EscapedNode(b, k, id) ELSE <<Lit(SlotValue(b, k, i))>>
FieldsAt(b, m, ids) ==
  IF m = 0 THEN <<>>
  ELSE FlattenSeq([i \in DOMAIN b.schema |-> Attribute(b.schema[i].name, FieldNode(b, m, i, IdOf(ids, b.schema[i].name)))])
SplicedGroup(gb, k, ids) == FieldsAt(gb.blk, MemberIndex(gb, k), ids)
SplicedGroups(part, k, ids) == FlattenSeq([g \in DOMAIN part.groups |-> SplicedGroup(part.groups[g], k, ids)])
SlotNode(b, k, i) == IF Escaped(b, k, i) THEN <<>> ELSE <<Lit(SlotValue(b, k, i))>>
SlotFields(b, k) == FlattenSeq([i \in DOMAIN b.schema |-> Attribute(b.schema[i].name, SlotNode(b, k, i))])
ColdFields(cover, b, cold, ids) ==
  [j \in DOMAIN cold |-> [n |-> ColdName(cover, b, cold[j].id, ids), e |-> cold[j].e]]
Extended(ad, xs) ==
  Ad(ad.id, ad.ns \o [j \in DOMAIN xs |-> xs[j].n], ad.es \o [j \in DOMAIN xs |-> xs[j].e])
SpliceCold(cover, part, k, cold, remnant, ids) ==
  IF \E j \in DOMAIN cold : ~Nameable(cover, part.blk, cold[j].id, ids) THEN <<>>
  ELSE <<Extended(remnant, SlotFields(part.blk, k) \o ColdFields(cover, part.blk, cold, ids)
                           \o SplicedGroups(part, k, ids))>>
Splice(cover, part, k, remnant, ids) == SpliceCold(cover, part, k, part.blk.rows[k].cold, remnant, ids)
\* The wanted attributes alone, read where each one lies.
OwnNode(b, k, i, id) == IF i = 0 THEN EscapedNode(b, k, id) ELSE FieldNode(b, k, i, id)
OwnFields(b, k, ns, ids) ==
  FlattenSeq([j \in DOMAIN ns |-> Attribute(ns[j], OwnNode(b, k, FieldIndex(b.schema, ns[j]), IdOf(ids, ns[j])))])
WantedPart(ad, wants) == AdOver(ad, SelectSeq(ad.ns, LAMBDA n : n \in wants))
ProjectFromColumns(part, k, remnant, wants, ids) ==
  <<Extended(WantedPart(remnant, wants),
      OwnFields(part.blk, k, SelectSeq(ids, LAMBDA n : n \in wants), ids)
      \o SelectSeq(SplicedGroups(part, k, ids), LAMBDA x : x.n \in wants))>>

-----------------------------------------------------------------------------
\* The vector over one column of a block, NoColumn when it must be refused.
IsComputed(es) == es # <<>> /\ ~IsLiteral(es[1])
LiteralIn(es) == IF es = <<>> THEN Undef ELSE es[1].v
DataFrom(nodes) ==
  IF \E k \in DOMAIN nodes : IsComputed(nodes[k]) THEN NoColumn
  ELSE Data([k \in DOMAIN nodes |-> LiteralIn(nodes[k])], <<>>)
FixEscapes(b, i, id) == DataFrom([k \in DOMAIN b.rows |-> FieldNode(b, k, i, id)])
\* A column of dictionary codes.
CodesIn(dict, b, i) ==
  Data([k \in DOMAIN b.rows |-> DictCode(SelectInSeq(dict, LAMBDA t : t = SlotValue(b, k, i).s) - 1)], dict)
DictOrFix(dict, b, i, id) == IF dict # <<>> /\ NoEscape(b, i) THEN CodesIn(dict, b, i) ELSE FixEscapes(b, i, id)
RawOf(b, i, f) ==
  Raw([codes |-> [k \in DOMAIN b.rows |-> b.rows[k].slots[i].n], width |-> f.width, uns |-> f.uns, real |-> FALSE])
LoadField(b, i, id) ==
  IF b.schema[i].kind = "int" /\ b.schema[i].width \in SimdWidths /\ EscapeFree(b, i) THEN RawOf(b, i, b.schema[i])
  ELSE DictOrFix(StrDict(b, i), b, i, id)

\* A group's column, spread over the rows of the block: members from the group's
\* block, exceptions from the cold tail, UNDEFINED elsewhere.
MemberOr(xs, m, es) ==
  IF m # 0 THEN xs[m] ELSE IF es # <<>> /\ Defined(es[1].v) THEN es[1].v ELSE Undef
Spread(gb, sub, exc) ==
  IF sub.form = "none" \/ \E k \in DOMAIN exc : IsComputed(exc[k]) THEN NoColumn
  ELSE Data([k \in DOMAIN exc |-> MemberOr(sub.xs, MemberIndex(gb, k), exc[k])], sub.dict)
ExceptionNodes(part, gb, id) ==
  [k \in DOMAIN part.blk.rows |-> IF k \in gb.exceptions THEN EscapedNode(part.blk, k, id) ELSE <<>>]
LoadGroupColumn(part, gb, name, id) ==
  Spread(gb, IF gb.members = <<>> THEN Data(<<>>, <<>>)
             ELSE EnsureInts(LoadField(gb.blk, FieldIndex(gb.blk.schema, name), id)), ExceptionNodes(part, gb, id))
LoadFrom(part, i, g, name, id) ==
  IF i # 0 THEN LoadField(part.blk, i, id)
  ELSE IF g # 0 THEN LoadGroupColumn(part, part.groups[g], name, id) ELSE NoColumn
LoadColumn(part, scope, name, ids) ==
  IF scope \notin {"", "MY"} \/ ~Interned(ids, name) THEN NoColumn
  ELSE LoadFrom(part, FieldIndex(part.blk.schema, name), GroupHolding(part, name), name, IdOf(ids, name))
Columns0(code, part, ids) ==
  [p \in DOMAIN code |-> IF code[p].op = "load" THEN LoadColumn(part, code[p].x, code[p].n, ids) ELSE NoColumn]

-----------------------------------------------------------------------------
\* What of a query rules out blocks: its probes on numeric fields against the
\* zones, its probes on string fields against the dictionaries.
CmpOps == {"<", "<=", ">", ">=", "==", "!="}
OneNumber(us) == us # <<>> /\ Len(us[1].fvals) = 1 /\ us[1].op \in CmpOps
NumTest(p) == OneNumber(ValUsable(p))
TestBy(name, u) == [name |-> name, op |-> u.op, t |-> u.fvals[1]]
Tests(ps) == [i \in DOMAIN ps |-> TestBy(ps[i].attr, ValUsable(ps[i])[1])]
ZonePrunableTests(q, schema) == Tests(SelectSeq(Probes(q), LAMBDA p : HasNumber(schema, p.attr) /\ NumTest(p)))
ZonePrunes(b, tests) ==
  \E i \in DOMAIN tests : ~MayMatch(b, FieldIndex(b.schema, tests[i].name), tests[i].op, tests[i].t)
StringField(schema, i) == i # 0 /\ schema[i].kind = "string"
OnStrings(p) ==
  /\ p.op \in {"==", "in", "is", "<", "<=", ">", ">="} /\ p.vals # <<>>
  /\ \A i \in DOMAIN p.vals : IsStr(p.vals[i])
  /\ p.op \in {"<", "<=", ">", ">="} => Len(p.vals) = 1
StrEqProbes(q, schema) ==
  SelectSeq(Probes(q), LAMBDA p : StringField(schema, FieldIndex(schema, p.attr)) /\ OnStrings(p))
StrPrunes(b, ps) ==
  \E i \in DOMAIN ps : DictPrunes(b, FieldIndex(b.schema, ps[i].attr), ps[i].op,
                                  [j \in DOMAIN ps[i].vals |-> ps[i].vals[j].s])

\* The query as comparisons of numeric fields, all of it and nothing else; <<>>
\* when it is not.
AllTests(ps, schema, ids) ==
  IF \A i \in DOMAIN ps : Interned(ids, ps[i].attr) /\ HasNumber(schema, ps[i].attr) /\ NumTest(ps[i])
  THEN Tests(ps) ELSE <<>>
NumPredsOnFields(q, schema, ids) ==
  IF Native(CompileProgram(Prepared(q))) /\ ExactProbes(q) THEN AllTests(Probes(q), schema, ids) ELSE <<>>
NumCmp(op, x, t) == IF op = "==" THEN REqual(x, t) ELSE IF op = "!=" THEN ~REqual(x, t) ELSE CmpReal(op, x, t)
Satisfies(val, t) == val # <<>> /\ NumCmp(t.op, AsReal(val[1]), t.t)
ResolveFields(schema, tests) == \A i \in DOMAIN tests : HasNumber(schema, tests[i].name)
\* The value of a numeric field at a row; of a record read whole, a literal only.
FieldVal(b, k, name, ids) == NumCol(b, k, FieldIndex(b.schema, name), IdOf(ids, name))
BruteVal(ad, name) == IF name \in Names(ad) THEN NodeColVal(Lookup(ad, name)) ELSE <<>>
PassesAll(val(_), tests) == \A i \in DOMAIN tests : Satisfies(val(tests[i].name), tests[i])

\* A query that is one test of presence: the attribute and what is wanted of it.
PresenceIn(ps, schema) ==
  IF Len(ps) = 1 /\ ps[1].op \in {"absent", "present"} /\ HasField(schema, ps[1].attr)
  THEN <<[name |-> ps[1].attr, absent |-> ps[1].op = "absent"]>> ELSE <<>>
PresencePred(q, schema) ==
  IF Native(CompileProgram(Prepared(q))) THEN PresenceIn(Probes(q), schema) ELSE <<>>
\* Whether an attribute is UNDEFINED at a row: "yes", "no", or "?" for one that
\* must be evaluated.
NodeIsUndefined(e) == IF ~IsLiteral(e) THEN "?" ELSE IF IsUndef(e.v) THEN "yes" ELSE "no"
UndefinedBy(b, k, i, was, es) ==
  IF FieldAbsentFromBlock(b, i, was) THEN "yes"
  ELSE IF ~Escaped(b, k, i) THEN "no"
  ELSE IF EscapeIsMissing(b, k, was) \/ es = <<>> THEN "yes" ELSE NodeIsUndefined(es[1])
UndefinedAt(b, k, name, was, ids) ==
  UndefinedBy(b, k, FieldIndex(b.schema, name), was, EscapedNode(b, k, IdOf(ids, name)))
BruteUndefined(ad, name) == IF name \in Names(ad) THEN NodeIsUndefined(Lookup(ad, name)) ELSE "yes"
=============================================================================
