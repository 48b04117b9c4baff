------------------------------ MODULE QueryScan ------------------------------
(***************************************************************************)
(* A query over one shard (Collection.Query): the plan is made from the    *)
(* index configuration of the moment, the shard is snapshotted, and then   *)
(* its segments are visited one by one while writers append and supersede, *)
(* indexes are added and dropped, and a background pass rebuilds the index *)
(* of each segment.  A visited record is matched on its encoded form if    *)
(* that will do, else on the attributes the query reaches, else whole.     *)
(*                                                                         *)
(* A scenario fixes what a collection is opened with (whether records      *)
(* inherit from a parent, whether scans run newest first), the records it  *)
(* holds, and what may be written and asked.                               *)
(***************************************************************************)
EXTENDS Index

CONSTANTS Scenarios,    \* the scenarios
          SegRecs,      \* records a segment holds
          ParentKey     \* for each key its parent's key, or "" for none

VARIABLES sc,       \* the scenario
          segs,     \* the segments: records in order and the index
          clock,    \* commit sequence of the shard
          spec,     \* the configured indexes
          pass,     \* the index pass: its configuration and the work left
          scan      \* the query

vars == <<sc, segs, clock, spec, pass, scan>>

Live == 10 ^ 6      \* seqMax: not superseded
Rec(key, ad, seq) == [key |-> key, ad |-> ad, seq |-> seq, sup |-> Live]
Segment(recs) == [recs |-> recs, idx |-> NoIndex]
Ads(seg) == [o \in DOMAIN seg.recs |-> seg.recs[o].ad]

IdleScan == [st |-> "idle", q |-> NoNode, groups |-> <<>>, s0 |-> 0, wins |-> <<>>, todo |-> <<>>,
             out |-> <<>>, depth |-> 0]
IdlePass == [spec |-> Spec0, todo |-> <<>>]

Init ==
  /\ sc \in Scenarios
  /\ segs = <<Segment([i \in DOMAIN sc.records |-> Rec(sc.records[i].key, sc.records[i].ad, i)])>>
  /\ clock = Len(sc.records)
  /\ spec = Spec0
  /\ pass = IdlePass
  /\ scan = IdleScan

-----------------------------------------------------------------------------
\* Writes.
Visible(r, s0) == r.seq <= s0 /\ r.sup > s0
Superseded(ss, key, seq) ==
  [i \in DOMAIN ss |-> [ss[i] EXCEPT !.recs = [o \in DOMAIN @ |->
     IF @[o].key = key /\ @[o].sup = Live THEN [@[o] EXCEPT !.sup = seq] ELSE @[o]]]]
Appended(ss, r) ==
  IF Len(ss[Len(ss)].recs) < SegRecs THEN [ss EXCEPT ![Len(ss)].recs = Append(@, r)]
  ELSE Append(ss, Segment(<<r>>))

MayWrite == clock < Len(sc.records) + sc.writes
Put(key, ad) ==
  /\ MayWrite
  /\ segs' = Appended(Superseded(segs, key, clock + 1), Rec(key, ad, clock + 1))
  /\ clock' = clock + 1
  /\ UNCHANGED <<sc, spec, pass, scan>>
Delete(key) ==
  /\ MayWrite
  /\ \E i \in DOMAIN segs : \E o \in DOMAIN segs[i].recs :
       segs[i].recs[o].key = key /\ segs[i].recs[o].sup = Live
  /\ segs' = Superseded(segs, key, clock + 1)
  /\ clock' = clock + 1
  /\ UNCHANGED <<sc, spec, pass, scan>>

-----------------------------------------------------------------------------
\* The configuration.  A categorical index displaces a value index; a value
\* index on a categorical attribute is refused.
AddIndex(cat, val) ==
  LET next == [cat |-> spec.cat \cup cat, val |-> (spec.val \ cat) \cup (val \ (spec.cat \cup cat))]
  IN /\ next # spec
     /\ spec' = next
     /\ UNCHANGED <<sc, segs, clock, pass, scan>>
DropIndex(names) ==
  LET next == [cat |-> spec.cat \ names, val |-> spec.val \ names]
  IN /\ next # spec
     /\ spec' = next
     /\ UNCHANGED <<sc, segs, clock, pass, scan>>

\* Reindex: the segments whose index is short or of another configuration, with
\* the number of records they hold now; each is then rebuilt on its own.
Stale(seg, sp) ==
  IF ~AnyIndex(sp) THEN seg.idx # NoIndex
  ELSE seg.recs # <<>> /\ (seg.idx.upto < Len(seg.recs) \/ SegIndex(seg.idx.upto, sp) # seg.idx)
Reindex ==
  /\ pass.todo = <<>>
  /\ \E i \in DOMAIN segs : Stale(segs[i], spec)
  /\ pass' = [spec |-> spec,
              todo |-> SelectSeq([i \in DOMAIN segs |-> [seg |-> i, used |-> Len(segs[i].recs)]],
                                 LAMBDA t : Stale(segs[t.seg], spec))]
  /\ UNCHANGED <<sc, segs, clock, spec, scan>>
BuildSegIndex ==
  /\ pass.todo # <<>>
  /\ LET t == Head(pass.todo)
         ix == IF AnyIndex(pass.spec) THEN SegIndex(t.used, pass.spec) ELSE NoIndex
     IN segs' = [segs EXCEPT ![t.seg].idx = ix]
  /\ pass' = IF Tail(pass.todo) = <<>> THEN IdlePass ELSE [pass EXCEPT !.todo = Tail(@)]
  /\ UNCHANGED <<sc, clock, spec, scan>>

-----------------------------------------------------------------------------
\* The match test.  Read from its encoding, an attribute is a literal, missing,
\* or an expression that calls for another way; a name is sought in the record
\* and then in its parent.
Missing == [v |-> Undef, found |-> FALSE, fell |-> FALSE]
FoundIn(e) == [v |-> IF IsLiteral(e) THEN e.v ELSE Undef, found |-> TRUE, fell |-> ~IsLiteral(e)]
TryResolve(frame, name) == IF name \in Names(frame) THEN FoundIn(Lookup(frame, name)) ELSE Missing
ResolveAt(chain, i, name) == IF i <= Len(chain) THEN TryResolve(chain[i], name) ELSE Missing
FirstFound(own, up) == IF own.found THEN own ELSE up
WireResolve(scope, name, chain) ==
  CASE scope = "TARGET" -> Missing
    [] scope = "PARENT" -> ResolveAt(chain, 2, name)
    [] OTHER -> FirstFound(ResolveAt(chain, 1, name), ResolveAt(chain, 2, name))

\* partialDecodeWire: the part of an ad that the seeds reach.
AdOf(frame, ns) == Ad(frame.id, ns, [i \in DOMAIN ns |-> Lookup(frame, ns[i])])
KeptOf(frame, kept) == AdOf(frame, SelectSeq(frame.ns, LAMBDA n : n \in kept))
PartialAd(frame, seeds) == KeptOf(frame, Closure(frame, seeds))
\* The parent is decoded from the query's seeds too.
PartialChain(chain, seeds) == [i \in DOMAIN chain |-> PartialAd(chain[i], seeds)]

\* SetScope puts the matcher's evaluator back to depth 0.
SetScope(chain, depth) == [Context(chain, <<>>) EXCEPT !.depth = 0]
ResolvedBy(code, chain) == [p \in DOMAIN code |-> WireResolve(code[p].x, code[p].n, chain)]
FellBack(code, resolved, m) == \E p \in m.ran : code[p].op = "load" /\ resolved[p].fell
WireRun(code, resolved) == Exec(code, [p \in DOMAIN code |-> resolved[p].v])
Matched(m, depth) == [matches |-> Matches(ResultOf(m)), depth |-> depth]
MatchedAt(m, depth) == Matched(m, IF Panicked(m) THEN Top(m).n ELSE depth)
MatchIn(code, c) == MatchedAt(Exec(code, GivenBy(code, c)), c.depth)
MatchDecoded(code, q, chain, depth) ==
  MatchIn(code, SetScope(IF PartialSafe(q) THEN PartialChain(chain, Seeds(q)) ELSE chain, depth))
MatchEither(code, q, chain, depth, resolved, m) ==
  IF Native(code) /\ PartialSafe(q) /\ ~FellBack(code, resolved, m) THEN Matched(m, depth)
  ELSE MatchDecoded(code, q, chain, depth)
MatchResolved(code, q, chain, depth, resolved) ==
  MatchEither(code, q, chain, depth, resolved, WireRun(code, resolved))
MatchCode(code, q, chain, depth) == MatchResolved(code, q, chain, depth, ResolvedBy(code, chain))
MatchWire(q, chain, depth) == MatchCode(CompileProgram(Prepared(q)), q, chain, depth)

-----------------------------------------------------------------------------
\* The query.  Alternatives are planned apart when every one is answered by an
\* index and the plan is selective enough, which is up to the estimates;
\* otherwise the conjuncts of the whole query are.
OneGroup(us) == IF us = <<>> THEN <<>> ELSE <<us>>
Flat(q) == OneGroup(PlanIndex(spec, Probes(q)))
Grouped(gs) == IF Len(gs) > 1 THEN {gs} ELSE {}
Plans(q) == IF sc.chained THEN {<<>>} ELSE {Flat(q)} \cup Grouped(PlanIndexGroups(spec, ProbePlan(q)))
Query(q) ==
  /\ scan.st = "idle"
  /\ \E groups \in Plans(q) :
       scan' = [IdleScan EXCEPT !.st = "planned", !.q = q, !.groups = groups]
  /\ UNCHANGED <<sc, segs, clock, spec, pass>>

\* A plan that nothing can satisfy answers at once.
Hopeless(groups) == groups # <<>> /\ \A i \in DOMAIN groups : Unsatisfiable(groups[i])
InOrder(s) == IF sc.reverse THEN Reverse(s) ELSE s
WindowsNow == [i \in DOMAIN segs |-> [seg |-> i, used |-> Len(segs[i].recs)]]
Snapshot ==
  /\ scan.st = "planned"
  /\ scan' = [scan EXCEPT !.st = "scanning", !.s0 = clock,
                          !.groups = SelectSeq(@, LAMBDA us : ~Unsatisfiable(us)),
                          !.wins = IF Hopeless(scan.groups) THEN <<>> ELSE InOrder(WindowsNow)]
  /\ UNCHANGED <<sc, segs, clock, spec, pass>>

\* The records of a window to visit: the candidates of its index and the tail it
\* does not cover, or all of them when it does not answer the plan.
Ascending(i, S) == SelectSeq([o \in DOMAIN segs[i].recs |-> o], LAMBDA o : o \in S)
Candidates(ix, ads, groups, asked) ==
  IF Len(groups) = 1 /\ SkipsPrefix(ix, ads, groups[1]) THEN {} ELSE CandidateOffsetsGroups(ix, ads, groups, asked)
ToVisit(ix, ads, groups, used, asked) ==
  IF groups = <<>> \/ \E i \in DOMAIN groups : ~Covers(ix, groups[i]) THEN 1..used
  ELSE Candidates(ix, ads, groups, asked) \cup (ix.upto + 1)..used
Visits(w, asked) == ToVisit(segs[w.seg].idx, Ads(segs[w.seg]), scan.groups, w.used, asked)
PlacesOf(i, os) == [j \in DOMAIN os |-> <<i, os[j]>>]
VisitNow(w, asked) == InOrder(PlacesOf(w.seg, Ascending(w.seg, Visits(w, asked))))
Window ==
  /\ scan.st = "scanning" /\ scan.todo = <<>> /\ scan.wins # <<>>
  /\ \E asked \in {{}, {1, 2}} :
       scan' = [scan EXCEPT !.wins = Tail(@), !.todo = VisitNow(Head(scan.wins), asked)]
  /\ UNCHANGED <<sc, segs, clock, spec, pass>>

\* A record and the parent it inherits from, of the same snapshot.
ParentAt(key, s0) ==
  {r \in UNION {ToSet(segs[i].recs) : i \in DOMAIN segs} :
     r.key = ParentKey[key] /\ Visible(r, s0)}
Structural(key) == \E k \in DOMAIN ParentKey : ParentKey[k] = key
ChainWith(r, parents) == IF parents = {} THEN <<r.ad>> ELSE <<r.ad, (CHOOSE p \in parents : TRUE).ad>>
Chain(r, s0) == ChainWith(r, IF sc.chained THEN ParentAt(r.key, s0) ELSE {})
\* Structural records are there to inherit from and match nothing themselves.
Eligible(r, s0) == Visible(r, s0) /\ ~(sc.chained /\ Structural(r.key))

Passed(at, m) ==
  [scan EXCEPT !.todo = Tail(@), !.depth = m.depth, !.out = IF m.matches THEN Append(@, at) ELSE @]
VisitRec(at, r) ==
  IF Eligible(r, scan.s0) THEN Passed(at, MatchWire(scan.q, Chain(r, scan.s0), scan.depth))
  ELSE [scan EXCEPT !.todo = Tail(@)]
VisitAt(at) == VisitRec(at, segs[at[1]].recs[at[2]])
Visit ==
  /\ scan.st = "scanning" /\ scan.todo # <<>>
  /\ scan' = VisitAt(Head(scan.todo))
  /\ UNCHANGED <<sc, segs, clock, spec, pass>>
Finish ==
  /\ scan.st = "scanning" /\ scan.todo = <<>> /\ scan.wins = <<>>
  /\ scan' = [scan EXCEPT !.st = "done"]
  /\ UNCHANGED <<sc, segs, clock, spec, pass>>
Forget ==
  /\ scan.st = "done"
  /\ scan' = IdleScan
  /\ UNCHANGED <<sc, segs, clock, spec, pass>>

Next ==
  \/ \E key \in DOMAIN ParentKey : (\E ad \in sc.ads : Put(key, ad)) \/ Delete(key)
  \/ \E sp \in sc.specs : AddIndex(sp.cat, sp.val) \/ DropIndex(sp.cat \cup sp.val)
  \/ Reindex \/ BuildSegIndex
  \/ \E q \in sc.queries : Query(q)
  \/ Snapshot \/ Window \/ Visit \/ Finish \/ Forget

Spec == Init /\ [][Next]_vars

-----------------------------------------------------------------------------
\* Shapes: positions in order, an index never past its segment, one live
\* version per key.
TypeOK ==
  /\ clock \in Nat
  /\ spec.cat \cap spec.val = {}
  /\ \A i \in DOMAIN segs : segs[i].idx.upto \in 0..Len(segs[i].recs)
  /\ scan.st \in {"idle", "planned", "scanning", "done"}
  /\ scan.depth \in 0..MaxDepth

\* What a query is asked for: the records of its snapshot whose ad, evaluated
\* whole by the tree walker, makes it TRUE, in the order of the scan.
Places == FlattenSeq([i \in DOMAIN segs |-> PlacesOf(i, [o \in DOMAIN segs[i].recs |-> o])])
IsHit(r, q, s0) == Eligible(r, s0) /\ Matches(Eval(q, Chain(r, s0), <<>>))
Answer(q, s0) == InOrder(SelectSeq(Places, LAMBDA at : IsHit(segs[at[1]].recs[at[2]], q, s0)))

\* A finished query has returned exactly the matching records of its snapshot,
\* each once and in scan order, whatever was written, indexed or dropped while
\* it ran (Collection.Query: "the same scan-exactly-once guarantee as Scan").
QueryExact == scan.st = "done" => scan.out = Answer(scan.q, scan.s0)
=============================================================================
