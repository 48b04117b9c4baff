------------------------------- MODULE Columns -------------------------------
(***************************************************************************)
(* The columnar form of a sealed segment (adschema.go, colblock.go,        *)
(* colgroup*.go, strdict.go, colescclass.go, colpersist.go, colnative.go): *)
(* a schema learnt from samples, the records of a segment cut into blocks, *)
(* each block a column per schema field, and what is read back from them.  *)
(*                                                                         *)
(* A value that is not of its field's kind, or an integer too wide for the *)
(* field, escapes: its bit is set and the value goes to the record's cold  *)
(* tail, keyed by attribute id.  An id is the position of a name in the    *)
(* interner (ids, first seen first), or in the segment's own dictionary.   *)
(* Attributes that occur together form a group: a record that holds all of *)
(* a group is a member and has them in the group's block; one that holds   *)
(* some is an exception and keeps them in its cold tail.                   *)
(***************************************************************************)
EXTENDS Vectors, Index

CONSTANTS NarrowWidths,  \* the integer widths below Bits, ascending (8, 16, 32 and 48 bits)
          Presence,      \* percent of samples a field's kind must reach (90)
          Fit, HotFit,   \* percent of values a width must hold: any field (95), a hot one (99.9)
          MaxDict,       \* distinct strings a dictionary must stay below (2^16)
          MaxRows,       \* rows of a block (8192)
          TargetBytes,   \* bytes of a block (128 KiB)
          RowAlign,      \* row multiple a block over its bytes is cut back to (8)
          TopGroups      \* groups kept (4)

ASSUME ColumnAssumption ==
  /\ \A i \in DOMAIN NarrowWidths : NarrowWidths[i] \in 1..(Bits - 1)
  /\ {Presence, Fit, HotFit} \subseteq 0..100
  /\ {MaxDict, MaxRows, TargetBytes, RowAlign} \subseteq Nat \ {0} /\ TopGroups \in Nat

-----------------------------------------------------------------------------
\* The interner.
IdOf(ids, name) == SelectInSeq(ids, LAMBDA n : n = name) - 1
NameOf(ids, id) == ids[id + 1]
Interned(ids, name) == name \in ToSet(ids)
Intern(ids, name) == IF Interned(ids, name) THEN ids ELSE Append(ids, name)
InternAll(ids, names) == FoldLeft(Intern, ids, names)

\* The schema: fields in the order of their columns.  A field has a kind, and an
\* integer field a width and a sign; equal kinds and widths are ordered by id.
Kinds == <<"bool", "int", "real", "string">>
KindRank(k) == SelectInSeq(Kinds, LAMBDA x : x = k)
KindOf(e) == IF IsLiteral(e) /\ KindRank(e.v.t) # 0 THEN e.v.t ELSE "none"
NumericKind(k) == k \in {"int", "real"}
Field(name, kind, width, uns) == [name |-> name, kind |-> kind, width |-> width, uns |-> uns]
FieldIndex(schema, name) == SelectInSeq(schema, LAMBDA f : f.name = name)
HasField(schema, name) == FieldIndex(schema, name) # 0
HasNumber(schema, name) == HasField(schema, name) /\ NumericKind(schema[FieldIndex(schema, name)].kind)

FieldKey(f, ids) == <<KindRank(f.kind), f.width, IdOf(ids, f.name)>>
KeyLess(a, b) == \E i \in 1..3 : a[i] < b[i] /\ \A j \in 1..(i - 1) : a[j] = b[j]
LayoutSchema(fields, ids) ==
  SetToSortSeq(fields, LAMBDA f, g : KeyLess(FieldKey(f, ids), FieldKey(g, ids)))

AtLeast(part, whole, percent) == whole > 0 /\ part * 100 >= percent * whole
WidthHolds(xs, w, uns, fit) == AtLeast(Len(SelectSeq(xs, LAMBDA x : Fits(x, w, uns))), Len(xs), fit)
WidthAt(i, uns) == IF i = 0 THEN [width |-> Bits, uns |-> FALSE] ELSE [width |-> NarrowWidths[i], uns |-> uns]
Narrowest(xs, fit, uns) == WidthAt(SelectInSeq(NarrowWidths, LAMBDA w : WidthHolds(xs, w, uns, fit)), uns)
ChooseIntWidth(xs, fit) == Narrowest(xs, fit, \A i \in DOMAIN xs : xs[i] >= 0)

Holding(ads, name) == SelectSeq(ads, LAMBDA ad : name \in Names(ad))
OfKind(ads, name, k) == SelectSeq(Holding(ads, name), LAMBDA ad : KindOf(Lookup(ad, name)) = k)
ValuesIn(ads, name) == [i \in DOMAIN ads |-> Lookup(ads[i], name).v.n]
IntValues(ads, name) == ValuesIn(OfKind(ads, name, "int"), name)
\* The commonest kind of an attribute, the first of several, or none of them.
Commonest(n) ==
  IF \A i \in DOMAIN Kinds : n[i] = 0 THEN "none"
  ELSE Kinds[CHOOSE i \in DOMAIN Kinds : /\ \A j \in DOMAIN Kinds : n[j] <= n[i]
                                         /\ \A j \in 1..(i - 1) : n[j] < n[i]]
DominantKind(ads, name) == Commonest([i \in DOMAIN Kinds |-> Len(OfKind(ads, name, Kinds[i]))])
SizedInt(name, w) == Field(name, "int", w.width, w.uns)
FieldFor(ads, name, kind, fit) ==
  IF kind = "int" THEN SizedInt(name, ChooseIntWidth(IntValues(ads, name), fit))
  ELSE Field(name, kind, IF kind = "real" THEN Bits ELSE 0, FALSE)

AllNames(ads) == UNION {Names(ads[i]) : i \in DOMAIN ads}
KindsOf(ads) == [n \in AllNames(ads) |-> DominantKind(ads, n)]
Frequent(ads, n, k) == k # "none" /\ AtLeast(Len(OfKind(ads, n, k)), Len(ads), Presence)
SchemaBy(ads, ids, kinds) ==
  LayoutSchema({FieldFor(ads, n, kinds[n], Fit) : n \in {n \in DOMAIN kinds : Frequent(ads, n, kinds[n])}}, ids)
BuildAdSchema(ads, ids) == SchemaBy(ads, ids, KindsOf(ads))
\* The numeric fields most asked for are fitted to hold nearly every sample.
Refitted(f, ads, hot) ==
  IF f.name \in hot /\ f.kind = "int" THEN FieldFor(ads, f.name, DominantKind(ads, f.name), HotFit) ELSE f
RefitHotIntWidths(schema, ads, hot, ids) ==
  LayoutSchema({Refitted(schema[i], ads, hot) : i \in DOMAIN schema}, ids)

-----------------------------------------------------------------------------
\* Groups.  Attributes outside the schema are grouped by the samples they occur
\* in; the groups that cover most cells are kept, a schema of its own for each.
Pattern(ads, name) == {i \in DOMAIN ads : name \in Names(ads[i])}
GroupsOver(ads, rest) ==
  {[names |-> {m \in rest : Pattern(ads, m) = Pattern(ads, n)},
    holders |-> Cardinality(Pattern(ads, n))] : n \in rest}
GroupCandidates(ads, schema) == GroupsOver(ads, {n \in AllNames(ads) : ~HasField(schema, n)})
LeastId(names, ids) == CHOOSE i \in {IdOf(ids, n) : n \in names} : \A n \in names : i <= IdOf(ids, n)
\* Most cells first, then most attributes, then the least id.
CandKey(c, ids) == <<-(Cardinality(c.names) * c.holders), -Cardinality(c.names), LeastId(c.names, ids)>>
SortCands(cands, ids) == SetToSortSeq(cands, LAMBDA c, d : KeyLess(CandKey(c, ids), CandKey(d, ids)))
SchemaOver(ads, names, ids, kinds) ==
  LayoutSchema({FieldFor(ads, n, kinds[n], Fit) : n \in {n \in names : kinds[n] # "none"}}, ids)
BuildAdSchemaFor(ads, names, ids) == SchemaOver(ads, names, ids, KindsOf(ads))
TopOf(cands) == SubSeq(cands, 1, IF Len(cands) < TopGroups THEN Len(cands) ELSE TopGroups)
SchemasFor(ads, ids, top) == [i \in DOMAIN top |-> BuildAdSchemaFor(ads, top[i].names, ids)]
DeriveGroupSchemas(ads, schema, ids) ==
  SelectSeq(SchemasFor(ads, ids, TopOf(SortCands(GroupCandidates(ads, schema), ids))), LAMBDA g : g # <<>>)

FieldNames(schema) == {schema[i].name : i \in DOMAIN schema}
IsMember(g, ad) == FieldNames(g) \subseteq Names(ad)
IsException(g, ad) == ~IsMember(g, ad) /\ FieldNames(g) \cap Names(ad) # {}
GroupSkipSet(groups, ad) ==
  UNION {FieldNames(groups[i]) : i \in {i \in DOMAIN groups : IsMember(groups[i], ad)}}

-----------------------------------------------------------------------------
\* A record: a bit per escaped field, a slot per field (zero when it escaped)
\* and the cold tail.  key(n) is the id under which the tail holds attribute n.
ZeroSlot(f) == CASE f.kind = "bool" -> VBool(FALSE) [] f.kind = "int" -> VInt(0)
                 [] f.kind = "real" -> VReal(0) [] f.kind = "string" -> VStr(<<>>)
PutSlot(f, v) == IF f.kind = "int" THEN [v EXCEPT !.n = @ % (2 ^ f.width)] ELSE v
ReadSlot(f, x) == IF f.kind = "int" THEN VInt(ReadIntLE(x.n, f.width, f.uns)) ELSE x
HeldInSlotUnfit(f, e) == KindOf(e) = f.kind
HeldInSlot(f, e) == KindOf(e) = f.kind /\ (f.kind = "int" => Fits(e.v.n, f.width, f.uns))

Slotted(schema, ad, n) == HasField(schema, n) /\ HeldInSlot(schema[FieldIndex(schema, n)], Lookup(ad, n))
TailKey(cov, name) == IF Interned(cov.dict, name) THEN IdOf(cov.dict, name) ELSE IdOf(cov.ids, name)
RowWith(cov, schema, ad, filled, cold) ==
  [esc |-> DOMAIN schema \ filled,
   slots |-> [i \in DOMAIN schema |-> IF i \in filled THEN PutSlot(schema[i], Lookup(ad, schema[i].name).v)
                                      ELSE ZeroSlot(schema[i])],
   cold |-> [i \in DOMAIN cold |-> [id |-> TailKey(cov, cold[i]), e |-> Lookup(ad, cold[i])]]]
RowOf(cov, schema, ad, slotted, skip) ==
  RowWith(cov, schema, ad, {i \in DOMAIN schema : schema[i].name \in slotted},
          SelectSeq(ad.ns, LAMBDA n : n \notin skip \cup slotted))
EncodeRow(cov, schema, ad, skip) ==
  RowOf(cov, schema, ad, {n \in Names(ad) \ skip : Slotted(schema, ad, n)}, skip)

\* The rows of a segment cut into blocks: a block is full at MaxRows rows or
\* TargetBytes bytes; one that went over its bytes is cut back to a multiple of
\* RowAlign rows if enough is left, and the rest starts the next block.
RowBytes(row) == 1 + Len(row.cold)
SumBytes(rows) == FoldLeft(LAMBDA s, r : s + RowBytes(r), 0, rows)
Full(rows) == Len(rows) >= MaxRows \/ SumBytes(rows) >= TargetBytes
Aligned(rows) == SubSeq(rows, 1, Len(rows) - (Len(rows) % RowAlign))
Shortened(rows, a) ==
  IF SumBytes(rows) > TargetBytes /\ a # <<>> /\ Len(a) < Len(rows) /\ SumBytes(a) >= TargetBytes \div 2
  THEN Len(a) ELSE Len(rows)
SealAt(rows) == Shortened(rows, Aligned(rows))
CutAt(done, rows, n) == [done |-> Append(done, n), open |-> SubSeq(rows, n + 1, Len(rows))]
CutIf(done, rows) ==
  IF Full(rows) THEN CutAt(done, rows, SealAt(rows)) ELSE [done |-> done, open |-> rows]
Cut(st, row) == CutIf(st.done, Append(st.open, row))
\* The row counts of the blocks; a segment without records has one empty block.
SizesOf(st) ==
  IF st.open # <<>> THEN Append(st.done, Len(st.open)) ELSE IF st.done = <<>> THEN <<0>> ELSE st.done
BlockSizes(rows) == SizesOf(FoldLeft(Cut, [done |-> <<>>, open |-> <<>>], rows))

-----------------------------------------------------------------------------
\* What a block knows of its columns.
Block(schema, rows, remap) == [schema |-> schema, rows |-> rows, remap |-> remap]
Escaped(b, k, i) == i \in b.rows[k].esc
InColumn(b, i) == {k \in DOMAIN b.rows : ~Escaped(b, k, i)}
SlotValue(b, k, i) == ReadSlot(b.schema[i], b.rows[k].slots[i])

\* The zone of a numeric column: whether a value escaped, and the bounds of the
\* others.
ZoneEscaped(b, i) == InColumn(b, i) # DOMAIN b.rows \/ b.rows = <<>>
ZoneKeys(b, i) == {AsReal(SlotValue(b, k, i)) : k \in InColumn(b, i)}
ZoneMayMatch(keys, op, t) ==
  CASE op = "==" -> (\E k \in keys : RLess(k, t) \/ REqual(k, t)) /\ (\E k \in keys : RLess(t, k) \/ REqual(k, t))
    [] op \in {"<", "<=", ">", ">="} -> \E k \in keys : CmpReal(op, k, t)
    [] OTHER -> TRUE
MayMatch(b, i, op, t) == ZoneEscaped(b, i) \/ ZoneMayMatch(ZoneKeys(b, i), op, t)
EscapeFree(b, i) == NumericKind(b.schema[i].kind) /\ ~ZoneEscaped(b, i)

\* The dictionary of a string column, sorted without case and then by spelling;
\* kept when strings repeat.
DictLess(x, y) ==
  \/ CompareFold(x, y) < 0
  \/ CompareFold(x, y) = 0 /\ \E i \in DOMAIN x : (\A j \in 1..(i - 1) : x[j] = y[j]) /\ x[i] < y[i]
DictOf(b, uniq) ==
  IF uniq # {} /\ Cardinality(uniq) < MaxDict /\ Cardinality(uniq) * 2 <= Len(b.rows)
  THEN SetToSortSeq(uniq, DictLess) ELSE <<>>
StrDict(b, i) ==
  IF b.schema[i].kind = "string" THEN DictOf(b, {SlotValue(b, k, i).s : k \in InColumn(b, i)}) ELSE <<>>
NoEscape(b, i) == InColumn(b, i) = DOMAIN b.rows
\* A probe that no entry of the dictionary satisfies rules the block out.
RangePrunes(g, op, n) ==
  CASE op = "<" -> g.lo = 0
    [] op = "<=" -> g.hi = 0
    [] op = ">" -> g.hi = n
    [] op = ">=" -> g.lo = n
    [] OTHER -> g.lo = g.hi
ProbePrunes(dict, op, lits) ==
  \A j \in DOMAIN lits : IF op = "is" THEN lits[j] \notin ToSet(dict)
                         ELSE RangePrunes(DictRange(dict, lits[j]), op, Len(dict))
DictRulesOut(dict, b, i, op, lits) == dict # <<>> /\ NoEscape(b, i) /\ ProbePrunes(dict, op, lits)
DictPrunes(b, i, op, lits) == DictRulesOut(StrDict(b, i), b, i, op, lits)

\* The cold tail.  remap pairs the id an attribute has now with the one the tail
\* was written with.
Stored(b, id) ==
  IF \E p \in b.remap : p.now = id THEN (CHOOSE p \in b.remap : p.now = id).was ELSE id
Current(b, id) ==
  IF \E p \in b.remap : p.was = id THEN (CHOOSE p \in b.remap : p.was = id).now ELSE id
TailAt(cold, i) == IF i = 0 THEN <<>> ELSE <<cold[i].e>>
ColdAt(b, k, id) == TailAt(b.rows[k].cold, SelectInSeq(b.rows[k].cold, LAMBDA x : x.id = id))
EscapedNodeAsStored(b, k, id) == ColdAt(b, k, id)
EscapedNode(b, k, id) == ColdAt(b, k, Stored(b, id))
\* The numeric reading of a node; the scan of escaped numbers does not remap.
NodeColVal(e) == IF KindOf(e) \in {"bool", "int", "real"} THEN <<e.v>> ELSE <<>>
ColValOf(es) == IF es = <<>> THEN <<>> ELSE NodeColVal(es[1])
EscapedNumVal(b, k, id) == ColValOf(ColdAt(b, k, id))
NumColInSlot(b, k, i, id) == <<SlotValue(b, k, i)>>
NumCol(b, k, i, id) == IF Escaped(b, k, i) THEN EscapedNumVal(b, k, id) ELSE <<SlotValue(b, k, i)>>

\* What a block records of its escapes: which fields lack a value altogether in
\* an escaped record, told by the field ids the tail was written with.
EscapeIsMissing(b, k, was) == was \notin {b.rows[k].cold[j].id : j \in DOMAIN b.rows[k].cold}
FieldAbsentFromBlock(b, i, was) ==
  b.rows # <<>> /\ \A k \in DOMAIN b.rows : Escaped(b, k, i) /\ EscapeIsMissing(b, k, was)

-----------------------------------------------------------------------------
\* A cover: its kind ("none", "memory" for blocks beside the records, "native"
\* for a segment rewritten so that its literals live in the blocks only), the
\* schema and groups it was written with, the interner of that moment, the
\* segment's dictionary, and whether it was read back from a file since.
NoCover == [kind |-> "none", schema |-> <<>>, groups |-> <<>>, ids |-> <<>>, dict |-> <<>>, reread |-> FALSE]
Cover(kind, schema, groups, ids, dict) ==
  [kind |-> kind, schema |-> schema, groups |-> groups, ids |-> ids, dict |-> dict, reread |-> FALSE]

\* Only literals are moved to the columns of a native segment; the rest of the
\* record remains as it was.
AdOver(ad, ns) == Ad(ad.id, ns, [i \in DOMAIN ns |-> Lookup(ad, ns[i])])
Part(ad, literals) == AdOver(ad, SelectSeq(ad.ns, LAMBDA n : IsLiteral(Lookup(ad, n)) = literals))
Columnar(cov, ad) == IF cov.kind = "native" THEN Part(ad, TRUE) ELSE ad
Remnant(ad) == Part(ad, FALSE)

RemapOf(ids, cov, names) == {[now |-> IdOf(ids, n), was |-> TailKey(cov, n)] : n \in names}
\* Which ids the blocks of a cover translate.  Without a dictionary: none until
\* the cover has been written and read, then every name of a cold tail.  With
\* one: every name of the dictionary in a native segment; in memory the fields
\* of the schema, and nothing once read back.
BaseRemap(cov, cold, ids) ==
  IF cov.dict # <<>>
  THEN CASE cov.kind = "native" -> RemapOf(ids, cov, ToSet(cov.dict))
         [] cov.reread -> {}
         [] OTHER -> RemapOf(ids, cov, FieldNames(cov.schema) \cap ToSet(cov.dict))
  ELSE IF cov.kind = "native" \/ cov.reread THEN RemapOf(ids, cov, cold) ELSE {}
GroupRemap(cov, cold, ids) == IF cov.dict # <<>> THEN BaseRemap(cov, cold, ids) ELSE {}

\* A group within a block: its members in order, its exceptions, its own block.
GroupRows(cov, g, ads, ks) ==
  [j \in DOMAIN ks |-> EncodeRow(cov, g, ads[ks[j]], {})]
GroupBlockOf(cov, g, ads, ks, schema, remap) ==
  [members |-> ks, exceptions |-> {k \in DOMAIN ads : IsException(g, ads[k])},
   blk |-> Block(schema, GroupRows(cov, g, ads, ks), remap)]
GroupBlock(cov, g, ads, schema, remap) ==
  GroupBlockOf(cov, g, ads, SelectSeq([k \in DOMAIN ads |-> k], LAMBDA k : IsMember(g, ads[k])), schema, remap)
MemberIndex(gb, k) == SelectInSeq(gb.members, LAMBDA m : m = k)

\* A schema that is read back is laid out anew, by the ids of the reader.
ReadAdSchema(s, ids) == LayoutSchema(ToSet(s), ids)

\* The blocks of a cover over the ads of its segment.  Columns stay in the order
\* they were written in.
RowsFor(cov, ads) ==
  [o \in DOMAIN ads |-> EncodeRow(cov, cov.schema, ads[o], GroupSkipSet(cov.groups, ads[o]))]
TailIds(rows) == UNION {{rows[o].cold[j].id : j \in DOMAIN rows[o].cold} : o \in DOMAIN rows}
ColdNames(cov, ads, tails) == {n \in AllNames(ads) : TailKey(cov, n) \in tails}
GroupBlocks(cov, ads, cold, ids) ==
  [i \in DOMAIN cov.groups |->
     GroupBlock(cov, cov.groups[i], ads, ReadAdSchema(cov.groups[i], ids), GroupRemap(cov, cold, ids))]
CoverPart(cov, ads, rows, cold, ids, lo, hi) ==
  [from |-> lo, only |-> cov.kind = "native",
   blk |-> Block(ReadAdSchema(cov.schema, ids), SubSeq(rows, lo + 1, hi), BaseRemap(cov, cold, ids)),
   groups |-> GroupBlocks(cov, SubSeq(ads, lo + 1, hi), cold, ids)]
EndOf(sizes, j) == FoldLeft(LAMBDA s, n : s + n, 0, SubSeq(sizes, 1, j))
CoverParts(cov, ads, rows, cold, sizes, ids) ==
  [only |-> cov.kind = "native", dict |-> cov.dict,
   parts |-> [j \in DOMAIN sizes |->
      CoverPart(cov, ads, rows, cold, ids, EndOf(sizes, j - 1), EndOf(sizes, j))]]
CoverRows(cov, ads, rows, ids) ==
  CoverParts(cov, ads, rows, ColdNames(cov, ads, TailIds(rows)), BlockSizes(rows), ids)
CoverAds(cov, ads, ids) == CoverRows(cov, ads, RowsFor(cov, ads), ids)
Covering(cov, recs, ids) == CoverAds(cov, [o \in DOMAIN recs |-> Columnar(cov, recs[o])], ids)
=============================================================================
