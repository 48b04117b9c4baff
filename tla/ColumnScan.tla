----------------------------- MODULE ColumnScan ------------------------------
(***************************************************************************)
(* Aggregates and scans answered from columns (CountQuery, NumStatsQuery,  *)
(* GroupStatsQuery and the row scan over columnarized segments), while     *)
(* records are written, segments are covered by columns or rewritten into  *)
(* them, the schema is derived anew, and the store is closed and opened.   *)
(*                                                                         *)
(* An answer is computed a segment at a time.  The columns of a segment    *)
(* are a function of its records and of the cover they were built under,   *)
(* so the state holds covers and no columns.                               *)
(***************************************************************************)
EXTENDS ColumnRead

CONSTANTS Scenarios,    \* the scenarios
          SegRecs,      \* records a segment holds
          MinLive       \* a block with fewer than 1/MinLive of its rows live is read by rows (4)

VARIABLES sc,       \* the scenario
          segs,     \* the segments: records in order and the cover
          clock,    \* commit sequence of the shard
          intern,   \* the attribute interner
          st,       \* the columnar configuration: whether there is one, its schema, groups
          scan,     \* the question being answered
          spent     \* passes and restarts so far

vars == <<sc, segs, clock, intern, st, scan, spent>>

Live == 10 ^ 6      \* seqMax: not superseded
Rec(key, ad, seq) == [key |-> key, ad |-> ad, seq |-> seq, sup |-> Live]
Segment(recs) == [recs |-> recs, cover |-> NoCover]
Ads(seg) == [o \in DOMAIN seg.recs |-> seg.recs[o].ad]
NoState == [on |-> FALSE, schema |-> <<>>, groups |-> <<>>]
IdleScan == [st |-> "idle", ask |-> <<>>, route |-> "", schema |-> <<>>, s0 |-> 0, wins |-> <<>>,
             n |-> 0, out |-> <<>>, dicts |-> <<>>]

\* A write interns the names of its ad.
Visible(r, s0) == r.seq <= s0 /\ r.sup > s0
Superseded(ss, key, seq) ==
  [i \in DOMAIN ss |-> [ss[i] EXCEPT !.recs = [o \in DOMAIN @ |->
     IF @[o].key = key /\ @[o].sup = Live THEN [@[o] EXCEPT !.sup = seq] ELSE @[o]]]]
Appended(ss, r) ==
  IF Len(ss[Len(ss)].recs) < SegRecs THEN [ss EXCEPT ![Len(ss)].recs = Append(@, r)]
  ELSE Append(ss, Segment(<<r>>))
Loaded(s) ==
  FoldLeft(LAMBDA ss, r : Appended(Superseded(ss, r.key, r.seq), r), <<Segment(<<>>)>>,
           [i \in DOMAIN s.records |-> Rec(s.records[i].key, s.records[i].ad, i)])

Init ==
  /\ sc \in Scenarios
  /\ segs = Loaded(sc)
  /\ clock = Len(sc.records)
  /\ intern \in sc.orders
  /\ st = NoState
  /\ scan = IdleScan
  /\ spent = 0

Put(key, ad) ==
  /\ clock < Len(sc.records) + sc.writes
  /\ segs' = Appended(Superseded(segs, key, clock + 1), Rec(key, ad, clock + 1))
  /\ clock' = clock + 1
  /\ intern' = InternAll(intern, ad.ns)
  /\ UNCHANGED <<sc, st, scan, spent>>

-----------------------------------------------------------------------------
\* Columns over the segments.
Sealed(i) == i < Len(segs) /\ segs[i].recs # <<>>
\* The samples are drawn at random from the live records; a scenario says whose.
AdsOf(rs) == [i \in DOMAIN rs |-> rs[i].ad]
AllRecs == FlattenSeq([i \in DOMAIN segs |-> segs[i].recs])
Samples == AdsOf(SelectSeq(AllRecs, LAMBDA r : r.sup = Live /\ r.key \in sc.sampled))
\* deriveSchema: from the live records, with the hottest columns refitted.
SchemaFrom(ads, hot) == RefitHotIntWidths(BuildAdSchema(ads, intern), ads, hot, intern)
DeriveSchema(hot) == SchemaFrom(Samples, hot)
GroupsFor(schema, grouped) == IF grouped THEN DeriveGroupSchemas(Samples, schema, intern) ELSE <<>>
MayPass == spent < sc.passes

Enabled(schema, grouped) ==
  /\ schema # <<>>
  /\ st' = [on |-> TRUE, schema |-> schema, groups |-> GroupsFor(schema, grouped)]
EnableSchemaScan(hot, grouped) ==
  /\ MayPass /\ ~st.on
  /\ Enabled(DeriveSchema(hot), grouped)
  /\ spent' = spent + 1
  /\ UNCHANGED <<sc, segs, clock, intern, scan>>
\* Native segments keep their columns, the others lose theirs, and the new
\* schema covers them as the pass comes to them.
ReschemaScan(hot) ==
  /\ MayPass /\ st.on
  /\ Enabled(DeriveSchema(hot), FALSE)
  /\ segs' = [i \in DOMAIN segs |-> IF segs[i].cover.kind = "native" THEN segs[i]
                                    ELSE [segs[i] EXCEPT !.cover = NoCover]]
  /\ spent' = spent + 1
  /\ UNCHANGED <<sc, clock, intern, scan>>

CoverSealedSegment(i) ==
  /\ st.on /\ Sealed(i) /\ segs[i].cover.kind = "none"
  /\ segs' = [segs EXCEPT ![i].cover = Cover("memory", st.schema, st.groups, intern, <<>>)]
  /\ UNCHANGED <<sc, clock, intern, st, scan, spent>>
\* A persistent collection rewrites a sealed segment; a scan that holds the old
\* one goes on reading that.
SegDict(i) == IF sc.dicts THEN SelectSeq(intern, LAMBDA n : n \in AllNames(Ads(segs[i]))) ELSE <<>>
\* columnarizeSegment: the literals go to the columns and the rest stays.
Rewritten(i) == Cover("native", st.schema, st.groups, intern, SegDict(i))
Holding0(wins, i, old) ==
  [j \in DOMAIN wins |-> IF wins[j].seg = i /\ wins[j].old = <<>> THEN [wins[j] EXCEPT !.old = <<old>>] ELSE wins[j]]
ColumnarizeSealedSegment(i) ==
  /\ sc.native /\ st.on /\ Sealed(i) /\ segs[i].cover.kind # "native"
  /\ segs' = [segs EXCEPT ![i].cover = Rewritten(i)]
  /\ scan' = [scan EXCEPT !.wins = Holding0(@, i, segs[i].cover)]
  /\ UNCHANGED <<sc, clock, intern, st, spent>>

\* Closed and opened: the names of the new options are interned first, then
\* those of each file that is read, then the rest; the last covered segment gives the schema,
\* and the groups are forgotten.
ColdIn(i) == {n \in AllNames(Ads(segs[i])) : ~HasField(segs[i].cover.schema, n)}
NamesOf(schema) == [j \in DOMAIN schema |-> schema[j].name]
NamesUnder(cov, cold) ==
  IF cov.kind = "none" THEN <<>>
  ELSE NamesOf(cov.schema) \o SelectSeq(cov.ids, LAMBDA n : n \in cold)
       \o FlattenSeq([g \in DOMAIN cov.groups |-> NamesOf(cov.groups[g])])
NamesRead(i) == NamesUnder(segs[i].cover, ColdIn(i))
CoveredBy(kind) == SelectSeq([i \in DOMAIN segs |-> i], LAMBDA i : segs[i].cover.kind = kind)
NamesInFiles(files) == FlattenSeq([j \in DOMAIN files |-> NamesRead(files[j])])
Reopened(first) ==
  InternAll(<<>>, first \o NamesInFiles(CoveredBy("native") \o CoveredBy("memory")) \o intern)
LastSchema(covered) == segs[CHOOSE i \in covered : \A j \in covered : j <= i].cover.schema
StateFrom(covered, ids) ==
  IF covered = {} THEN NoState
  ELSE [on |-> TRUE, schema |-> ReadAdSchema(LastSchema(covered), ids), groups |-> <<>>]
ReopenWith(covered, ids) ==
  /\ intern' = ids
  /\ segs' = [i \in DOMAIN segs |-> [segs[i] EXCEPT !.cover.reread = @ \/ i \in covered]]
  /\ st' = StateFrom(covered, ids)
Restart(first) ==
  /\ MayPass /\ scan.st = "idle"
  /\ ReopenWith({i \in DOMAIN segs : segs[i].cover.kind # "none"}, Reopened(first))
  /\ spent' = spent + 1
  /\ UNCHANGED <<sc, clock, scan>>

-----------------------------------------------------------------------------
\* A window: the cover it reads, its blocks, the ads of the segment and the live
\* offsets.
CoverOf(w) == IF w.old = <<>> THEN segs[w.seg].cover ELSE w.old[1]
LiveIn(w) == {o \in DOMAIN segs[w.seg].recs : Visible(segs[w.seg].recs[o], scan.s0)}
Uncovered == [only |-> FALSE, dict |-> <<>>, parts |-> <<>>]
CoveringOf(cover, ads) == IF cover.kind = "none" THEN Uncovered ELSE Covering(cover, ads, intern)
WindowOf(w) ==
  [seg |-> w.seg, cover |-> CoverOf(w), cov |-> CoveringOf(CoverOf(w), Ads(segs[w.seg])),
   ads |-> Ads(segs[w.seg]), live |-> LiveIn(w)]
OffsetsOf(S) == SelectSeq([o \in 1..SegRecs |-> o], LAMBDA o : o \in S)
LiveRows(part, live) == {k \in DOMAIN part.blk.rows : part.from + k \in live}
PartAt(cov, o) ==
  cov.parts[CHOOSE j \in DOMAIN cov.parts : cov.parts[j].from < o /\ o <= cov.parts[j].from + Len(cov.parts[j].blk.rows)]
SchemaOf(cov) == IF cov.parts = <<>> THEN <<>> ELSE cov.parts[1].blk.schema

\* A record read whole, and the query evaluated on it.
SplicedAt(cov, p, o, ad) == Splice(cov, p, o - p.from, Remnant(ad), intern)
Whole(x, o) == IF x.cov.only THEN SplicedAt(x.cov, PartAt(x.cov, o), o, x.ads[o]) ELSE <<x.ads[o]>>
MatchesWhole(code, ad) == ad # <<>> /\ Matches(Matcher(code, Context(ad, <<>>)))
EvalOneRecord(code, x, o) == MatchesWhole(code, Whole(x, o))
\* Of records, the ones the program selects: by columns where it can be decided,
\* else on the record read whole.
ScopedOr(code, x, o, r) == IF r.fell THEN EvalOneRecord(code, x, o) ELSE Matches(r.v)
ScopedMatches(code, x, part, k) ==
  ScopedOr(code, x, part.from + k, RunScoped(code, part, k, intern, part.only))

\* The matching rows of a block: none if it is pruned, by rows when few are live
\* or a column is refused, else by vectors.  acc has the rows so far, as offsets,
\* and the dictionaries left in the vector slots.
Scratch(dicts) == [d \in DOMAIN dicts |-> Broadcast(Undef, dicts[d])]
Found(acc, part, ks, dicts) == [rows |-> acc.rows \cup {part.from + k : k \in ks}, dicts |-> dicts]
DictsLeft(m) == [d \in DOMAIN m.slots |-> m.slots[d].dict]
TooFew(part, rows) == Cardinality(rows) * MinLive < Len(part.blk.rows)
RowMatches(code, x, part, k, m) ==
  IF m.ok THEN CountTrue(ResultVec(m), {k - 1}) = 1 ELSE ScopedMatches(code, x, part, k)
MatchesBy(acc, part, code, x, rows, m) ==
  Found(acc, part, {k \in rows : RowMatches(code, x, part, k, m)}, DictsLeft(m))
VecRun(code, part, dicts, few) ==
  IF few THEN Refused(Started(code, Scratch(dicts)))
  ELSE VecEval(code, Len(part.blk.rows), Scratch(dicts), Columns0(code, part, intern))
BlockRows(acc, part, code, x, rows) ==
  MatchesBy(acc, part, code, x, rows, VecRun(code, part, acc.dicts, TooFew(part, rows)))
Pruned(q, b) == ZonePrunes(b, ZonePrunableTests(q, b.schema)) \/ StrPrunes(b, StrEqProbes(q, b.schema))
BlockMatches(acc, part, q, code, x, rows) ==
  IF Pruned(q, part.blk) \/ rows = {} THEN acc ELSE BlockRows(acc, part, code, x, rows)

NoRows == [rows |-> {}, dicts |-> scan.dicts]
\* The rows of a window that the query's program selects.  For grouping, group
\* columns are not bound, a name the columns lack is UNDEFINED, and a segment
\* without the columns asked for is read by records.
GroupBlind(parts) == [j \in DOMAIN parts |-> [parts[j] EXCEPT !.groups = <<>>, !.only = FALSE]]
VectorRows(x, q, code, parts) ==
  FoldLeft(LAMBDA acc, p : BlockMatches(acc, p, q, code, x, LiveRows(p, x.live)), NoRows, parts)
ByRecords(x, code) == [NoRows EXCEPT !.rows = {o \in x.live : EvalOneRecord(code, x, o)}]
SelectedBy(x, q, code, have, parts) == IF have THEN VectorRows(x, q, code, parts) ELSE ByRecords(x, code)
VectorEvalWindow(x, q, have, blind) ==
  SelectedBy(x, q, CompileProgram(Prepared(q)), have, IF blind THEN GroupBlind(x.cov.parts) ELSE x.cov.parts)

\* The rows that satisfy numeric tests, read from the columns where the segment
\* has them all, else from the records.
RowsIn(p, x, tests) ==
  IF ZonePrunes(p.blk, tests) THEN {}
  ELSE {p.from + k : k \in {k \in LiveRows(p, x.live) :
                             PassesAll(LAMBDA n : FieldVal(p.blk, k, n, intern), tests)}}
BrutePasses(ad, tests) == ad # <<>> /\ PassesAll(LAMBDA n : BruteVal(ad[1], n), tests)
HasColumns(x, need) == x.cov.parts # <<>> /\ \A n \in need : HasNumber(SchemaOf(x.cov), n)
NumRows(x, tests, have) ==
  IF have THEN UNION {RowsIn(x.cov.parts[j], x, tests) : j \in DOMAIN x.cov.parts}
  ELSE {o \in x.live : BrutePasses(Whole(x, o), tests)}
\* The value of a numeric attribute at a row found.
ColumnVal(p, o, name) == FieldVal(p.blk, o - p.from, name, intern)
WholeVal(ad, name) == IF ad = <<>> THEN <<>> ELSE BruteVal(ad[1], name)
ValueAt(x, o, name, columns) ==
  IF columns THEN ColumnVal(PartAt(x.cov, o), o, name) ELSE WholeVal(Whole(x, o), name)

-----------------------------------------------------------------------------
\* The question.  Which scan answers it is decided by the schema of the moment;
\* NoNode asks for every record.
TestsOf(q, schema) == IF q = NoNode THEN <<>> ELSE NumPredsOnFields(q, schema, intern)
Served(q, schema) == q = NoNode \/ TestsOf(q, schema) # <<>>
NativeCode(q) == Native(CompileProgram(Prepared(q)))
CountRoute(q, served) ==
  IF served THEN {"multi"}
  ELSE IF PresencePred(q, st.schema) # <<>> THEN {"presence"}
  ELSE IF NativeCode(q) THEN {"vector"} ELSE {}
NumbersOf(ask) == \A n \in ask.names : HasNumber(st.schema, n)
GroupRoute(q, served) == IF served THEN {"groups"} ELSE IF NativeCode(q) THEN {"vecgroups"} ELSE {}
RoutesFor(ask, served) ==
  CASE ask.what = "count" -> CountRoute(ask.q, served)
    [] ask.what = "stats" -> IF NumbersOf(ask) /\ served THEN {"stats"} ELSE {}
    [] ask.what = "groups" -> IF NumbersOf(ask) THEN GroupRoute(ask.q, served) ELSE {}
    [] ask.what = "rows" -> {"rows"}
Routes(ask) == RoutesFor(ask, Served(ask.q, st.schema))
Windows == [i \in DOMAIN segs |-> [seg |-> i, old |-> <<>>]]
Ask(ask) ==
  /\ scan.st = "idle" /\ (st.on \/ ask.what = "rows")
  /\ \E route \in Routes(ask) :
       scan' = [IdleScan EXCEPT !.st = "scanning", !.ask = <<ask>>, !.route = route, !.schema = st.schema,
                                !.s0 = clock, !.wins = Windows, !.dicts = scan.dicts]
  /\ UNCHANGED <<sc, segs, clock, intern, st, spent>>

\* Counting by presence meets an expression and gives up: the vector scan takes
\* over, on a snapshot of its own.
UndefinedWhole(ad, name) == IF ad = <<>> THEN "no" ELSE BruteUndefined(ad[1], name)
UndefinedPart(x, p, o, name) == UndefinedAt(p.blk, o - p.from, name, TailKey(x.cover, name), intern)
UndefinedIn(x, o, name) ==
  IF HasField(SchemaOf(x.cov), name) THEN UndefinedPart(x, PartAt(x.cov, o), o, name)
  ELSE UndefinedWhole(Whole(x, o), name)
PresenceOf(und, absent) ==
  [n |-> Cardinality({o \in DOMAIN und : und[o] = (IF absent THEN "yes" ELSE "no")}),
   decided |-> \A o \in DOMAIN und : und[o] # "?"]
PresenceWindow(x, pred) == PresenceOf([o \in x.live |-> UndefinedIn(x, o, pred.name)], pred.absent)

\* What a window adds: the values of the attributes asked for at the rows found;
\* a group must be an integer or a real.
ValuesAt(x, os, names, columns) ==
  [i \in DOMAIN os |-> [n \in names |-> ValueAt(x, os[i], n, columns)]]
Groupable(vals, name) == \A i \in DOMAIN vals : vals[i][name] # <<>> /\ NumericKind(vals[i][name][1].t)

\* The rows of a scan.  On a native segment a program whose names are all
\* fields decides by the columns if it can, and then only the wanted attributes
\* are read; any other record is put together, matched and given whole.
SeedsHeld(ns) == ns # {} /\ \A n \in ns : HasField(scan.schema, n)
Prefilters(q) ==
  q # NoNode /\ Native(CompileProgram(Prepared(q))) /\ PartialSafe(q) /\ scan.schema # <<>> /\ SeedsHeld(Seeds(q))
AsFunction(ad) == [n \in Names(ad) |-> Lookup(ad, n)]
OnlyWanted(ad, wants) == IF wants = {} THEN ad ELSE WantedPart(ad, wants)
IsConst(q) == q = NoNode \/ (PartialSafe(q) /\ Seeds(q) = {})
Projects(x, ask, decided) ==
  x.cov.only /\ scan.schema # <<>> /\ ask.names # {} /\ (IsConst(ask.q) \/ decided)
Projected(x, p, o, wants) == ProjectFromColumns(p, o - p.from, Remnant(x.ads[o]), wants, intern)
GivenWhole(code, q, ad) == IF (IF q = NoNode THEN ad # <<>> ELSE MatchesWhole(code, ad)) THEN ad ELSE <<>>
Undecided == [v |-> Undef, fell |-> TRUE]
DecideAt(code, p, o) == RunScoped(code, p, o - p.from, intern, p.only)
Decided(code, x, o, q) == IF x.cov.only /\ Prefilters(q) THEN DecideAt(code, PartAt(x.cov, o), o) ELSE Undecided
RowBy(code, x, o, ask, r) ==
  IF ~r.fell /\ ~Matches(r.v) THEN <<>>
  ELSE IF Projects(x, ask, ~r.fell) THEN Projected(x, PartAt(x.cov, o), o, ask.names)
  ELSE GivenWhole(code, ask.q, Whole(x, o))
ScanRow(code, x, o, ask) == RowBy(code, x, o, ask, Decided(code, x, o, ask.q))
Shown(r, ad, wants) == [key |-> r.key, ad |-> AsFunction(OnlyWanted(ad, wants))]
ShownIf(r, ads, wants) == IF ads = <<>> THEN <<>> ELSE <<Shown(r, ads[1], wants)>>
RowsAt(code, x, os, ask) ==
  FlattenSeq([i \in DOMAIN os |-> ShownIf(segs[x.seg].recs[os[i]], ScanRow(code, x, os[i], ask), ask.names)])
RowsOf(x, ask) == RowsAt(CompileProgram(Prepared(ask.q)), x, OffsetsOf(x.live), ask)

-----------------------------------------------------------------------------
\* One window of the scan in progress.
Asked == scan.ask[1]
Advanced == [scan EXCEPT !.wins = Tail(@)]
Counted(found) == [Advanced EXCEPT !.n = @ + Cardinality(found.rows), !.dicts = found.dicts]
\* Whether the segment has the columns that the tests and the answer need.
HaveNumbers(x, tests, need) == HasColumns(x, need \cup {tests[i].name : i \in DOMAIN tests})
NumFound(x, tests, have) == [rows |-> NumRows(x, tests, have), columns |-> have, dicts |-> scan.dicts]
NumWindow(x, tests, need) == NumFound(x, tests, HaveNumbers(x, tests, need))
VecFound(x, q, have, blind) ==
  [columns |-> have] @@ VectorEvalWindow(x, q, have, blind)
\* The rows of the window: by numeric tests, by the program, or by the program
\* for groups.
FoundIn(x, route, q, need) ==
  IF route \in {"vector", "vecgroups"} THEN VecFound(x, q, HasColumns(x, need), route = "vecgroups")
  ELSE NumWindow(x, TestsOf(q, scan.schema), need)
PresenceStep(p) ==
  scan' = IF p.decided THEN [Advanced EXCEPT !.n = @ + p.n]
          ELSE [scan EXCEPT !.route = "vector", !.n = 0, !.s0 = clock, !.wins = Windows]
Collected(vals, dicts) ==
  IF scan.route # "stats" /\ ~Groupable(vals, Asked.by) THEN [scan EXCEPT !.st = "refused", !.wins = <<>>]
  ELSE [Advanced EXCEPT !.out = @ \o vals, !.dicts = dicts]
CountOrCollect(x, found) ==
  scan' = IF scan.route \in {"multi", "vector"} THEN Counted(found)
          ELSE Collected(ValuesAt(x, OffsetsOf(found.rows), Asked.names, found.columns), found.dicts)
RowsWindow(x) == scan' = [Advanced EXCEPT !.out = @ \o RowsOf(x, Asked)]
Reading(x) ==
  \/ scan.route = "presence" /\ PresenceStep(PresenceWindow(x, PresencePred(Asked.q, scan.schema)[1]))
  \/ scan.route = "rows" /\ RowsWindow(x)
  \/ /\ scan.route \in {"multi", "vector", "stats", "groups", "vecgroups"}
     /\ CountOrCollect(x, FoundIn(x, scan.route, Asked.q, Asked.names))
Window ==
  /\ scan.st = "scanning" /\ scan.wins # <<>>
  /\ \E x \in {WindowOf(Head(scan.wins))} : Reading(x)
  /\ UNCHANGED <<sc, segs, clock, intern, st, spent>>
Finish ==
  /\ scan.st = "scanning" /\ scan.wins = <<>>
  /\ scan' = [scan EXCEPT !.st = "done"]
  /\ UNCHANGED <<sc, segs, clock, intern, st, spent>>
Forget ==
  /\ scan.st \in {"done", "refused"}
  /\ scan' = [IdleScan EXCEPT !.dicts = scan.dicts]
  /\ UNCHANGED <<sc, segs, clock, intern, st, spent>>

Next ==
  \/ \E key \in sc.keys : \E ad \in sc.ads : Put(key, ad)
  \/ \E hot \in sc.hots : EnableSchemaScan(hot, sc.grouped) \/ (sc.reschema /\ ReschemaScan(hot))
  \/ \E i \in DOMAIN segs : CoverSealedSegment(i) \/ ColumnarizeSealedSegment(i)
  \/ \E first \in sc.opens : Restart(first)
  \/ \E ask \in sc.asks : Ask(ask)
  \/ Window \/ Finish \/ Forget
Spec == Init /\ [][Next]_vars

-----------------------------------------------------------------------------
\* Shapes: only sealed segments have columns, and fields fit their names.
TypeOK ==
  /\ clock \in Nat /\ spent \in 0..sc.passes
  /\ \A i \in DOMAIN segs : segs[i].cover.kind \in {"none", "memory", "native"} /\ Len(segs[i].recs) <= SegRecs
  /\ segs[Len(segs)].cover.kind = "none"
  /\ scan.st \in {"idle", "scanning", "done", "refused"}

\* The records of the snapshot that the tree walker finds to satisfy the query.
Hit(r) == Visible(r, scan.s0) /\ (Asked.q = NoNode \/ Matches(Eval(Asked.q, <<r.ad>>, <<>>)))
Answer == SelectSeq(AllRecs, Hit)
Each(rs, f(_)) == [i \in DOMAIN rs |-> f(rs[i])]
Done(whats) == scan.st = "done" /\ Asked.what \in whats

\* A count answered from columns is the number of records of the snapshot that
\* satisfy the query, whichever scan answered it (CountQuery: multi-column,
\* presence, scoped or vectorised).
CountExact == Done({"count"}) => scan.n = Len(Answer)
\* Aggregates are over exactly the numeric values of the matching records, in
\* order, and groups are the values the records hold.
StatsExact ==
  Done({"stats", "groups"}) =>
    scan.out = Each(Answer, LAMBDA r : [n \in Asked.names |-> BruteVal(r.ad, n)])
\* A scan over native segments gives each matching record of the snapshot once,
\* with the attributes the record was stored with, projected or whole.
RowsExact ==
  Done({"rows"}) =>
    scan.out = Each(Answer, LAMBDA r : Shown(r, r.ad, Asked.names))
=============================================================================
