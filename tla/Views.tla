------------------------------- MODULE Views -------------------------------
(***************************************************************************)
(* A materialised view (db/view.go) and its continuous form                *)
(* (db/viewcontinuous.go): contributions of base keys, groups, the         *)
(* in-memory backing table, sealing of aged buckets into an archive, the   *)
(* watermark file, and the life of the view in the catalog, with lagging   *)
(* streams, failing appends and crashes of the process.                    *)
(*                                                                         *)
(* The base table's stream is what module Watch establishes: an            *)
(* incremental or full catch-up followed by the changes in commit order.   *)
(***************************************************************************)
EXTENDS Integers, Sequences, FiniteSets, SequencesExt, FiniteSetsExt, Functions

CONSTANTS
  Keys,         \* keys of the base table
  Rows,         \* [label, time, val]: what an ad evaluates to; see contributionOf
  Width,        \* BucketWidth of the time column, 0 for a gauge view
  Grace,        \* ViewSpec.Grace
  Limit,        \* ViewSpec.Cardinality
  MaxChanges,   \* commits of the base table (bound)
  MaxClock,     \* the clock of nowFn (bound), which ticks by Width
  MaxFaults     \* lagging streams, failing appends, crashes (bound)

None == [label |-> "none", time |-> 0, val |-> 0]   \* no ad
NoKey == "nokey"
NoCursor == -1
NotNumeric == -1     \* time of an ad whose bucket attribute is not a number
Undefined == -1      \* val of an ad whose metric attribute is not defined

ASSUME WidthAssumption == Width \in Nat /\ Grace \in Nat /\ Limit \in Nat \ {0}
ASSUME RowsAssumption == None \notin Rows /\ \A r \in Rows : r.time \in Int /\ r.val \in Int

VARIABLES
  base,     \* the base table: key -> row or None
  log,      \* its commits in order: [key, row]
  defined,  \* the view's definition is on disk
  watch,    \* the stream: [pc, queue, pos]
  view,     \* the View structure
  disk,     \* state.json: the saved watermark
  archive,  \* rows of the view's archive
  clock,
  faults,
  torn      \* history: groups appended by a seal whose watermark a crash lost

vars == <<base, log, defined, watch, view, disk, archive, clock, faults, torn>>

-----------------------------------------------------------------------------
(* Contributions and groups. *)

\* bucketFloorInt
Floor(t) == IF Width = 0 THEN 0 ELSE (t \div Width) * Width

Invalid == [valid |-> FALSE, group |-> <<>>, val |-> 0, start |-> 0]

\* contributionOf: no bucket, no group; an absent label is a label of its own
Contribution(r) ==
  IF Width > 0 /\ r.time = NotNumeric THEN Invalid
  ELSE [valid |-> TRUE, group |-> <<Floor(r.time), r.label>>, val |-> r.val, start |-> Floor(r.time)]

ZeroAcc == [members |-> 0, rows |-> 0, defN |-> 0, sum |-> 0]

\* add and sub on a group's accumulator, n = 1 or -1
Shifted(acc, c, n) ==
  [members |-> acc.members + n, rows |-> acc.rows + n,
   defN |-> IF c.val = Undefined THEN acc.defN ELSE acc.defN + n,
   sum |-> IF c.val = Undefined THEN acc.sum ELSE acc.sum + n * c.val]

With(f, k, x) == [d \in DOMAIN f \cup {k} |-> IF d = k THEN x ELSE f[d]]

Fits(groups, c) == c.group \in DOMAIN groups \/ Cardinality(DOMAIN groups) < Limit

Add(groups, c) ==
  With(groups, c.group, Shifted(IF c.group \in DOMAIN groups THEN groups[c.group] ELSE ZeroAcc, c, 1))

\* sub: the group goes with its last member
Sub(groups, c) ==
  IF c.group \notin DOMAIN groups THEN groups
  ELSE LET acc == Shifted(groups[c.group], c, -1)
       IN  IF acc.members <= 0 THEN Restrict(groups, DOMAIN groups \ {c.group})
           ELSE With(groups, c.group, acc)

\* renderGroupAd: COUNT(*), COUNT(col), SUM, and AVG as a fraction (0 of none)
Rendered(acc) == [count |-> acc.rows, defs |-> acc.defN, sum |-> acc.sum,
                  avg |-> IF acc.defN > 0 THEN <<acc.sum, acc.defN>> ELSE <<0, 1>>]

\* renderGroup
Render(v, g) ==
  [v EXCEPT !.backing = IF g \in DOMAIN v.groups THEN With(@, g, Rendered(v.groups[g]))
                        ELSE Restrict(@, DOMAIN @ \ {g})]

-----------------------------------------------------------------------------
(* The updater: View.run's switch. *)

\* Mutant: a row of a sealed bucket opens the bucket again.
EffectiveLate(v, r) == Contribution(r)

\* applyUpsert: late data for a sealed bucket is dropped
Effective(v, r) ==
  LET c == Contribution(r)
  IN  IF c.valid /\ Width > 0 /\ c.start <= v.watermark THEN Invalid ELSE c

\* applyUpsert; a group too many rolls back and fails the view
ApplyUpsert(v, k, r) ==
  LET c == Effective(v, r)
      late == IF Contribution(r).valid /\ ~c.valid THEN 1 ELSE 0
      had == k \in DOMAIN v.contrib
      old == IF had THEN v.contrib[k] ELSE Invalid
      left == IF had THEN Sub(v.groups, old) ELSE v.groups
      gone == Restrict(v.contrib, DOMAIN v.contrib \ {k})
      counted == [v EXCEPT !.late = @ + late]
  IN  IF had /\ old = c THEN counted
      ELSE IF c.valid /\ ~Fits(left, c) THEN [counted EXCEPT !.state = "failed"]
      ELSE LET w == [counted EXCEPT !.groups = IF c.valid THEN Add(left, c) ELSE left,
                                    !.contrib = IF c.valid THEN With(gone, k, c) ELSE gone]
               o == IF had /\ old.group # c.group THEN Render(w, old.group) ELSE w
           IN  IF c.valid THEN Render(o, c.group) ELSE o

ApplyDelete(v, k) ==
  IF k \notin DOMAIN v.contrib THEN v
  ELSE LET old == v.contrib[k]
       IN  Render([v EXCEPT !.groups = Sub(@, old), !.contrib = Restrict(@, DOMAIN @ \ {k})], old.group)

\* Mutant: a rebuild starts over from what the view had.
ResetNot(v) == v

\* View.reset
Reset(v) == [v EXCEPT !.contrib = <<>>, !.groups = <<>>, !.backing = <<>>]

\* one event of the stream under v.mu
Handle(v, ev) ==
  CASE ev.kind = "reset" -> Reset(v)
    [] ev.kind = "synced" -> [v EXCEPT !.cursor = ev.pos, !.state = IF @ = "building" THEN "active" ELSE @]
    [] ev.row # None -> ApplyUpsert(v, ev.key, ev.row)
    [] OTHER -> ApplyDelete(v, ev.key)

-----------------------------------------------------------------------------
(* The base table and its stream. *)

\* A commit of the base table.
Change(k, r) ==
  /\ Len(log) < MaxChanges /\ base[k] # r
  /\ base' = [base EXCEPT ![k] = r]
  /\ log' = Append(log, [key |-> k, row |-> r])
  /\ UNCHANGED <<defined, watch, view, disk, archive, clock, faults, torn>>

Event(k, r) == [kind |-> "row", key |-> k, row |-> r, pos |-> 0]
Mark(kind) == [kind |-> kind, key |-> NoKey, row |-> None, pos |-> Len(log)]
Events(K) == [i \in DOMAIN SetToSeq(K) |-> Event(SetToSeq(K)[i], base[SetToSeq(K)[i]])]

Off == [pc |-> "off", queue |-> <<>>, pos |-> 0]

\* base.Watch: from the cursor, or in full when there is none or its history
\* is gone; a deleted key comes as its deletion
Connect ==
  /\ watch.pc = "off" /\ view.state \in {"building", "active"}
  /\ \E full \in {TRUE, view.cursor = NoCursor} :
       watch' = [pc |-> "on", pos |-> Len(log), queue |->
         IF full THEN <<Mark("reset")>> \o Events({k \in Keys : base[k] # None}) \o <<Mark("synced")>>
         ELSE Events({log[i].key : i \in view.cursor + 1 .. Len(log)}) \o <<Mark("synced")>>]
  /\ UNCHANGED <<base, log, defined, view, disk, archive, clock, faults, torn>>

\* The next event is applied; a failed view leaves the loop.
Apply ==
  /\ watch.pc = "on" /\ view.state \in {"building", "active"}
  /\ LET more == watch.queue # <<>>
         ev == IF more THEN Head(watch.queue) ELSE Event(log[watch.pos + 1].key, log[watch.pos + 1].row)
     IN  /\ more \/ watch.pos < Len(log)
         /\ view' = Handle(view, ev)
         /\ watch' = IF more THEN [watch EXCEPT !.queue = Tail(@)] ELSE [watch EXCEPT !.pos = @ + 1]
  /\ UNCHANGED <<base, log, defined, disk, archive, clock, faults, torn>>

\* A lagged watcher reports Resync: the loop reconnects from v.cursor.
Resync ==
  /\ watch.pc = "on" /\ watch.queue = <<>> /\ view.state = "active"
  /\ faults < MaxFaults /\ faults' = faults + 1
  /\ watch' = Off
  /\ UNCHANGED <<base, log, defined, view, disk, archive, clock, torn>>

-----------------------------------------------------------------------------
(* Sealing. *)

Tick ==
  /\ clock < MaxClock /\ clock' = clock + Width
  /\ UNCHANGED <<base, log, defined, watch, view, disk, archive, faults, torn>>

Start(g) == g[1]

\* sealAged's test: the window and the grace period are over
Aged(g) == Start(g) <= clock - Width - Grace

AgedGroups == {g \in DOMAIN view.groups : Aged(g)}

Sealed(g) == [group |-> g, ad |-> Rendered(view.groups[g])]

\* after the loop of sealAged: contributions of sealed buckets are forgotten
Forget(v) == [v EXCEPT !.contrib = Restrict(@, {k \in DOMAIN @ : @[k].start > v.watermark})]

\* sealAged: the aged groups but those whose append fails go to the archive
\* in the order of their buckets; then the watermark file.  crash: the process
\* dies before the file is written.
Seal(fail, crash) ==
  LET done == AgedGroups \ fail
      order == SetToSortSeq(done, LAMBDA a, b : Start(a) < Start(b))
      top == Max({view.watermark} \cup {Start(g) : g \in done})
      left == [view EXCEPT !.groups = Restrict(@, DOMAIN @ \ done),
                           !.backing = Restrict(@, DOMAIN @ \ done),
                           !.watermark = top]
  IN  /\ Width > 0 /\ view.state \in {"active", "failed"} /\ AgedGroups # {}
      /\ fail \subseteq AgedGroups
      /\ archive' = archive \o [i \in DOMAIN order |-> Sealed(order[i])]
      /\ LET cost == IF fail = {} /\ ~crash THEN 0 ELSE 1
         IN  faults + cost <= MaxFaults /\ faults' = faults + cost
      /\ IF crash
         THEN torn' = torn \cup done
         ELSE view' = IF top > view.watermark THEN Forget(left) ELSE left
      /\ ~crash => disk' = top /\ UNCHANGED <<torn, watch>>
      /\ UNCHANGED <<base, log, defined, clock>>

SealTick == \E fail \in SUBSET AgedGroups : Seal(fail, FALSE)

-----------------------------------------------------------------------------
(* The view in the catalog. *)

Absent == [state |-> "absent", contrib |-> <<>>, groups |-> <<>>, backing |-> <<>>,
           cursor |-> NoCursor, watermark |-> -1, late |-> 0]

\* newView and initContinuous
Fresh(w) == [Absent EXCEPT !.state = "building", !.watermark = IF Width > 0 THEN w ELSE -1]

\* CreateView starts the build; its caller waits
CreateView ==
  /\ view.state = "absent" /\ ~defined
  /\ view' = Fresh(disk) /\ watch' = Off
  /\ UNCHANGED <<base, log, defined, disk, archive, clock, faults, torn>>

\* ... the build succeeds and the definition is saved, or it fails and
\* nothing is registered
Created ==
  /\ ~defined /\ view.state \in {"active", "failed"}
  /\ IF view.state = "active" THEN defined' = TRUE /\ UNCHANGED <<view, watch>>
     ELSE view' = Absent /\ watch' = Off /\ UNCHANGED defined
  /\ UNCHANGED <<base, log, disk, archive, clock, faults, torn>>

DropView ==
  /\ defined /\ view.state # "absent"
  /\ defined' = FALSE /\ view' = Absent /\ watch' = Off
  /\ disk' = -1 /\ archive' = <<>>
  /\ faults < MaxFaults /\ faults' = faults + 1
  /\ torn' = {}
  /\ UNCHANGED <<base, log, clock>>

\* A crash and recoverViews: the view is built again over the saved watermark.
\* A failed rebuild stays registered as failed.
Restarted == view' = (IF defined THEN Fresh(disk) ELSE Absent) /\ watch' = Off
Crash ==
  /\ view.state # "absent"
  /\ faults < MaxFaults /\ faults' = faults + 1
  /\ Restarted
  /\ UNCHANGED <<base, log, defined, disk, archive, clock, torn>>
CrashInSeal ==
  /\ \E rest \in SUBSET AgedGroups : \* not appended yet
       /\ \A g \in rest, d \in AgedGroups \ rest : Start(d) <= Start(g)
       /\ Seal(rest, TRUE)
  /\ Restarted /\ UNCHANGED disk

-----------------------------------------------------------------------------
Init ==
  /\ base = [k \in Keys |-> None] /\ log = <<>>
  /\ defined = FALSE /\ watch = Off /\ view = Absent
  /\ disk = -1 /\ archive = <<>> /\ clock = 0 /\ faults = 0 /\ torn = {}

Next ==
  \/ \E k \in Keys, r \in Rows \cup {None} : Change(k, r)
  \/ Connect \/ Apply \/ Resync \/ Tick \/ SealTick
  \/ CreateView \/ Created \/ DropView \/ Crash \/ CrashInSeal

Spec == Init /\ [][Next]_vars

-----------------------------------------------------------------------------
\* The state is well formed, the groups stay within the limit and the saved
\* watermark is never ahead of the one in memory.
TypeOK ==
  /\ base \in [Keys -> Rows \cup {None}] /\ Len(log) <= MaxChanges
  /\ view.state \in {"absent", "building", "active", "failed"}
  /\ DOMAIN view.contrib \subseteq Keys
  /\ Cardinality(DOMAIN view.groups) <= Limit
  /\ disk <= view.watermark \/ view.state = "absent"

\* The aggregate of a set of contributions, computed from scratch.
Aggregate(C) == FoldFunctionOnSet(LAMBDA c, acc : Shifted(acc, c, 1), ZeroAcc, C, DOMAIN C)
Of(C, g) == Restrict(C, {k \in DOMAIN C : C[k].valid /\ C[k].group = g})

LiveStart(g) == Width > 0 => Start(g) > view.watermark

\* When its stream is drained an active view shows, for every group that is
\* not sealed, the aggregate of the base table: late rows, moved rows,
\* duplicated deliveries and rebuilds included.
ViewExact ==
  LET all == [k \in {x \in Keys : base[x] # None} |-> Contribution(base[k])]
  IN  view.state = "active" /\ watch.pc = "on" /\ watch.queue = <<>> /\ watch.pos = Len(log) =>
        \A k \in DOMAIN all : LET g == all[k].group IN
          all[k].valid /\ LiveStart(g) =>
            g \in DOMAIN view.groups /\ view.groups[g] = Aggregate(Of(all, g))

\* Aged buckets are "appended once to a per-view append-only archive": a group
\* is in the archive twice, or in the archive and in the live window that
\* ViewSealed is united with, only when a crash lost the watermark of its first
\* sealing.
SealedOnce ==
  /\ \A i, j \in DOMAIN archive :
       i # j /\ archive[i].group = archive[j].group => archive[i].group \in torn
  /\ \A i \in DOMAIN archive :
       archive[i].group \in DOMAIN view.groups => archive[i].group \in torn
=============================================================================
