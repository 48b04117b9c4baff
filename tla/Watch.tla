------------------------------- MODULE Watch -------------------------------
(***************************************************************************)
(* The change stream of a collection (collections/watch.go): committers    *)
(* that journal deletes and publish to the hub after they released the     *)
(* shard lock, the bounded buffer of a subscriber, catch-up from a cursor  *)
(* followed by live events, coalescing windows, the filter wrapper, the    *)
(* fan-out of a structural parent's change to its children, and the        *)
(* consumers: a view's updater (db/view.go), a replication sink fed over   *)
(* HTTP (changefeed, db/replicate) and the client that WATCH.md describes. *)
(*                                                                         *)
(* One shard, one subscription.  Versions of a key are those of Shard,     *)
(* which proves what a snapshot read returns; an ad is a member of Vals.   *)
(***************************************************************************)
EXTENDS Integers, Sequences, FiniteSets, SequencesExt

CONSTANTS
  Keys,          \* keys of the collection, structural ones included
  ParentOf,      \* parentKeyFor: Keys -> Keys \cup {NoKey}
  NoKey,         \* no parent: a structural or a root ad
  Vals,          \* contents of an ad
  Matching,      \* contents the filter's constraint accepts
  Writers,       \* goroutines that commit
  TxnWrites,     \* write sets of transactions (bound): sequences of keys
  MaxSeq,        \* commits (bound)
  HistCap,       \* Options.WatchHistory
  BufCap,        \* Options.WatchBuffer
  PipeCap,       \* events in flight to a remote sink (bound)
  Modes          \* how a behaviour is set up, see Init

None == "none"   \* no ad
NoCursor == [epoch |-> 0, seq |-> 0]
Current == 0     \* supersededBySeq of a current version

ASSUME KeysAssumption == ParentOf \in [Keys -> Keys \cup {NoKey}] /\ NoKey \notin Keys
ASSUME ValsAssumption == Matching \subseteq Vals /\ None \notin Vals
ASSUME CapAssumption == HistCap \in Nat \ {0} /\ BufCap \in Nat \ {0}

VARIABLES
  mode,       \* [race, batch, consumer, filter, coalesce], fixed at the start, with its bounds
              \*   on faults (crashes, disconnects, restarts) and on the contents written (vals)
  vers,       \* versions in the segments: [key, seq, sup, val]
  commitSeq,
  epoch,      \* hub.epoch
  dels,       \* delLog.entries
  horizon,    \* delLog.horizon
  pub,        \* writer -> events it has still to journal and publish
  sub,        \* the subscription: Collection.watchAs and its watcher
  filt,       \* WatchFilter: [matched, synced]
  pipe,       \* SSE events on their way to a sink
  con,        \* the consumer: [live, shadow, cursor, last]
  faults

hubVars == <<dels, horizon>>
vars == <<mode, vers, commitSeq, epoch, dels, horizon, pub, sub, filt, pipe, con, faults>>

-----------------------------------------------------------------------------
(* Ads. *)

Structural == {k \in Keys : \E c \in Keys : ParentOf[c] = k}

\* watchHidden
Hidden(k) == k \in Structural

LiveIn(V) == {v \in V : v.sup = Current}
ValIn(V, k) == LET c == {v \in LiveIn(V) : v.key = k}
               IN  IF c = {} THEN None ELSE (CHOOSE v \in c : TRUE).val
ValOf(k) == ValIn(vers, k)

\* watchAdAs: the ad of a child with its parent's current attributes merged in
Flattened(k, v) == [own |-> v, inh |-> IF ParentOf[k] = NoKey THEN None ELSE ValOf(ParentOf[k])]

ChildrenIn(V, p) == {v \in LiveIn(V) : ParentOf[v.key] = p}

Absent == [own |-> None, inh |-> None]
Empty == [k \in Keys |-> Absent]

-----------------------------------------------------------------------------
(* Cursors and the delete journal. *)

\* encodeCursor
Cursor(s) == [epoch |-> epoch, seq |-> s]

\* Mutant: the horizon stays behind the trimmed entries.
RecordedNoHorizon(key, seq) ==
  LET es == Append(dels, [key |-> key, seq |-> seq])
      drop == Len(es) - HistCap
  IN  /\ dels' = IF Len(es) >= 2 * HistCap THEN SubSeq(es, drop + 1, Len(es)) ELSE es
      /\ UNCHANGED horizon

\* deleteLog.record: between HistCap and 2*HistCap entries are kept
Recorded(key, seq) ==
  LET es == Append(dels, [key |-> key, seq |-> seq])
      drop == Len(es) - HistCap
  IN  IF Len(es) >= 2 * HistCap
      THEN dels' = SubSeq(es, drop + 1, Len(es)) /\ horizon' = es[drop].seq
      ELSE dels' = es /\ UNCHANGED horizon

\* deleteLog.since
Since(c) == SelectSeq(dels, LAMBDA e : e.seq > c)

-----------------------------------------------------------------------------
(* Committers: the shard lock orders the commits, what follows it does not. *)

CatchingUp == sub.pc \in {"reg", "horizon", "deletes", "upserts", "synced", "seed"}

\* Without races a commit is published before the next one and no commit is
\* between its lock and its publication while a subscription catches up.
MayCommit ==
  /\ commitSeq < MaxSeq
  /\ mode.race # "order" => \A w \in Writers : pub[w] = <<>>
  /\ mode.race = "none" => ~CatchingUp

\* A superseded version is kept while a catch-up may still look at it: it is
\* never visible at a head that is read later.
Ended(V, K) ==
  {v \in V : v.key \notin K \/ v.sup # Current} \cup
  {[v EXCEPT !.sup = commitSeq + 1] : v \in {u \in LiveIn(V) : u.key \in K /\ CatchingUp}}
Written(V, K, v) ==
  Ended(V, K) \cup {[key |-> k, seq |-> commitSeq + 1, sup |-> Current, val |-> v] : k \in K}

\* What a goroutine has still to do for a change it committed.
Step(do, k, v) == [do |-> do, key |-> k, seq |-> commitSeq + 1, val |-> v]
PutSteps(k, v) == <<Step("publish", k, v)>>
DelSteps(k) == <<Step("journal", k, None), Step("publish", k, None)>>

\* commit.go applyOne (applyWrites and applyBatch: several at one sequence)
Put(w, k, v) ==
  /\ MayCommit /\ pub[w] = <<>>
  /\ vers' = Written(vers, {k}, v)
  /\ commitSeq' = commitSeq + 1
  /\ pub' = [pub EXCEPT ![w] = PutSteps(k, v)]
  /\ UNCHANGED <<mode, epoch, hubVars, sub, filt, pipe, con, faults>>

\* Collection.Delete of a live key, up to the release of the lock; a parent
\* that lost its last child is deleted at the end (ClusterCleanup)
DeleteLocked(w, k) ==
  LET p == ParentOf[k]
      emptied == p # NoKey /\ ChildrenIn(Ended(vers, {k}), p) = {}
  IN  /\ ValOf(k) # None
      /\ vers' = Ended(vers, {k})
      /\ commitSeq' = commitSeq + 1
      /\ pub' = [pub EXCEPT ![w] = DelSteps(k) \o
                   (IF emptied THEN <<Step("cleanup", p, None)>> ELSE <<>>)]
      /\ UNCHANGED <<mode, epoch, hubVars, sub, filt, pipe, con, faults>>

Delete(w, k) == MayCommit /\ pub[w] = <<>> /\ DeleteLocked(w, k)

\* Txn.Commit of one write set: its live keys are deleted, the others written,
\* at one sequence; publishTxn then walks the set
TxnCommit(w, ks, v) ==
  LET gone == {k \in Range(ks) : ValOf(k) # None}
  IN  /\ MayCommit /\ pub[w] = <<>> /\ mode.batch
      /\ vers' = Written(Ended(vers, gone), Range(ks) \ gone, v)
      /\ commitSeq' = commitSeq + 1
      /\ pub' = [pub EXCEPT ![w] = FoldLeft(LAMBDA q, k :
                   q \o (IF k \in gone THEN DelSteps(k) ELSE PutSteps(k, v)), <<>>, ks)]
      /\ UNCHANGED <<mode, epoch, hubVars, sub, filt, pipe, con, faults>>

\* Mutant: an event that does not fit is dropped silently.
PublishedOrDropped(s, ev) ==
  IF s.pc = "off" \/ Len(s.ch) >= BufCap THEN s ELSE [s EXCEPT !.ch = Append(@, ev)]

\* watchHub.publish never blocks: a full buffer marks the watcher lagged
Published(s, ev) ==
  IF s.pc = "off" THEN s
  ELSE IF Len(s.ch) < BufCap THEN [s EXCEPT !.ch = Append(@, ev)]
  ELSE [s EXCEPT !.lagged = TRUE]

Next1(w, do) == pub[w] # <<>> /\ Head(pub[w]).do = do

\* after the lock and the sync: delLog.record ...
Journal(w) ==
  /\ Next1(w, "journal")
  /\ Recorded(Head(pub[w]).key, Head(pub[w]).seq)
  /\ pub' = [pub EXCEPT ![w] = Tail(@)]
  /\ UNCHANGED <<mode, vers, commitSeq, epoch, sub, filt, pipe, con, faults>>

\* ... and hub.publish
Publish(w) ==
  /\ Next1(w, "publish")
  /\ sub' = Published(sub, Head(pub[w]))
  /\ pub' = [pub EXCEPT ![w] = Tail(@)]
  /\ UNCHANGED <<mode, vers, commitSeq, epoch, hubVars, filt, pipe, con, faults>>

\* Delete of the emptied parent by the same goroutine, if it is still there
Cleanup(w) ==
  /\ Next1(w, "cleanup")
  /\ LET p == Head(pub[w]).key
     IN  IF p \in Structural /\ ValOf(p) # None
         THEN DeleteLocked(w, p)
         ELSE /\ pub' = [pub EXCEPT ![w] = Tail(@)]
              /\ UNCHANGED <<mode, vers, commitSeq, epoch, hubVars, sub, filt, pipe, con, faults>>

-----------------------------------------------------------------------------
(* Consumers. *)

Upsert(k, ad, c) == [kind |-> "upsert", key |-> k, ad |-> ad, cursor |-> c]
Deleted(k, c) == [kind |-> "delete", key |-> k, ad |-> Absent, cursor |-> c]
Control(kind, c) == [kind |-> kind, key |-> NoKey, ad |-> Absent, cursor |-> c]

Set(c, k, ad) == IF c.shadow = <<>> THEN [c EXCEPT !.live[k] = ad]
                 ELSE [c EXCEPT !.shadow = <<[c.shadow[1] EXCEPT ![k] = ad]>>]

\* View.run's switch: the mirror is the contribution of every key
ViewApply(c, ev) ==
  CASE ev.kind = "reset" -> [c EXCEPT !.live = Empty]
    [] ev.kind \in {"upsert", "delete"} -> Set(c, ev.key, ev.ad)
    [] ev.kind = "synced" -> [c EXCEPT !.cursor = ev.cursor]
    [] OTHER -> c

\* tableSink.Apply, then pullOnce: last holds the cursor the next ack commits;
\* a reset removes nothing
SinkApply(c, ev) ==
  LET applied == IF ev.kind \in {"upsert", "delete"} THEN Set(c, ev.key, ev.ad) ELSE c
      seen == IF ev.cursor # NoCursor THEN [applied EXCEPT !.last = ev.cursor] ELSE applied
  IN  IF ev.kind = "synced" THEN [seen EXCEPT !.cursor = ev.cursor] ELSE seen

\* the client of docs/WATCH.md: a shadow copy between Reset and Synced
ClientApply(c, ev) ==
  LET applied ==
        CASE ev.kind = "reset" -> [c EXCEPT !.shadow = <<Empty>>]
          [] ev.kind \in {"upsert", "delete"} -> Set(c, ev.key, ev.ad)
          [] ev.kind = "synced" /\ c.shadow # <<>> -> [c EXCEPT !.live = c.shadow[1], !.shadow = <<>>]
          [] ev.kind = "resync" /\ c.last # NoCursor -> [c EXCEPT !.cursor = c.last]
          [] OTHER -> c
  IN  IF ev.cursor # NoCursor THEN [applied EXCEPT !.last = ev.cursor] ELSE applied

Consume(c, ev) ==
  CASE mode.consumer = "view" -> ViewApply(c, ev)
    [] mode.consumer = "sink" -> SinkApply(c, ev)
    [] OTHER -> ClientApply(c, ev)

\* WatchFilter: the events it lets through and its next state
Filtered(f, ev) ==
  LET was == ev.key \in f.matched
      matches == ev.ad.own \in Matching
  IN  CASE ev.kind = "upsert" /\ matches ->
             [out |-> <<ev>>, f |-> [f EXCEPT !.matched = @ \cup {ev.key}]]
        [] ev.kind = "upsert" /\ ~matches ->
             [out |-> IF was THEN <<Deleted(ev.key, ev.cursor)>> ELSE <<>>,
              f |-> [f EXCEPT !.matched = @ \ {ev.key}]]
        [] ev.kind = "delete" ->
             [out |-> IF was \/ ~f.synced THEN <<ev>> ELSE <<>>,
              f |-> [f EXCEPT !.matched = @ \ {ev.key}]]
        [] ev.kind = "reset" -> [out |-> <<ev>>, f |-> [matched |-> {}, synced |-> FALSE]]
        [] ev.kind = "synced" -> [out |-> <<ev>>, f |-> [f EXCEPT !.synced = TRUE]]
        [] OTHER -> [out |-> <<ev>>, f |-> f]

\* yield: through the filter, then into the consumer or onto its connection
Yield(evs) ==
  LET pass(st, ev) == IF mode.filter
                      THEN LET r == Filtered(st.f, ev) IN [out |-> st.out \o r.out, f |-> r.f]
                      ELSE [st EXCEPT !.out = Append(@, ev)]
      res == FoldLeft(pass, [out |-> <<>>, f |-> filt], evs)
  IN  /\ filt' = res.f
      /\ IF mode.consumer = "sink"
         THEN /\ Len(pipe) + Len(res.out) <= PipeCap
              /\ pipe' = pipe \o res.out
              /\ UNCHANGED con
         ELSE con' = FoldLeft(Consume, con, res.out) /\ UNCHANGED pipe

-----------------------------------------------------------------------------
(* Collection.watchAs: register, read the head, choose incremental or full   *)
(* replay, replay, then stream.                                              *)

Off == [pc |-> "off", ch |-> <<>>, lagged |-> FALSE, cur |-> 0, full |-> FALSE,
        sReg |-> 0, vec |-> 0, pend |-> <<>>, sig |-> [p \in Structural |-> None], gone |-> {}]
Fresh == [matched |-> {}, synced |-> FALSE]

Start == [live |-> Empty, shadow |-> <<>>, cursor |-> NoCursor, last |-> NoCursor]

Watched == <<mode, vers, commitSeq, epoch, hubVars, pub>>

\* What a remote consumer keeps when it or its connection fails.
Survives(c) == [c EXCEPT !.shadow = <<>>, !.last = NoCursor]

\* Mutant: a cursor of an earlier run of the server is refused, not replayed
\* from the start.
RegisterKnown ==
  /\ sub.pc = "off" /\ pipe = <<>> /\ con.cursor.epoch \in {0, epoch}
  /\ mode.race = "none" => \A w \in Writers : pub[w] = <<>>
  /\ sub' = [Off EXCEPT !.pc = "reg", !.cur = con.cursor.seq, !.full = con.cursor = NoCursor]
  /\ filt' = Fresh
  /\ con' = Survives(con)
  /\ UNCHANGED <<Watched, pipe, faults>>

\* hub.register and the decoding of the cursor
Register ==
  /\ sub.pc = "off" /\ pipe = <<>>
  /\ mode.race = "none" => \A w \in Writers : pub[w] = <<>>
  /\ sub' = [Off EXCEPT !.pc = "reg", !.cur = con.cursor.seq,
                        !.full = con.cursor.epoch # epoch]
  /\ filt' = Fresh
  /\ con' = Survives(con)
  /\ UNCHANGED <<Watched, pipe, faults>>

ReadHead ==
  /\ sub.pc = "reg"
  /\ sub' = [sub EXCEPT !.pc = "horizon", !.sReg = commitSeq]
  /\ UNCHANGED <<Watched, filt, pipe, con, faults>>

\* the delete horizon decides last; a full replay starts with Reset
Decide ==
  LET full == sub.full \/ sub.cur < horizon
  IN  /\ sub.pc = "horizon"
      /\ sub' = [sub EXCEPT !.full = full, !.cur = IF full THEN 0 ELSE @,
                            !.pc = IF full THEN "upserts" ELSE "deletes"]
      /\ IF full THEN Yield(<<Control("reset", NoCursor)>>) ELSE UNCHANGED <<filt, pipe, con>>
      /\ UNCHANGED <<Watched, faults>>

\* Replayed events go out one by one: a client may be gone after any of them,
\* which ends the subscription.
Replay(evs, next) ==
  \/ /\ Yield(evs)
     /\ sub' = [sub EXCEPT !.pc = next]
     /\ UNCHANGED faults
  \/ /\ mode.consumer = "client"
     /\ faults < mode.faults /\ faults' = faults + 1
     /\ \E n \in 1 .. Len(evs) - 1 : con' = Survives(FoldLeft(ClientApply, con, SubSeq(evs, 1, n)))
     /\ sub' = Off
     /\ UNCHANGED <<filt, pipe>>

CatchupDeletes ==
  LET gone == SelectSeq(Since(sub.cur), LAMBDA e : ~Hidden(e.key))
  IN  /\ sub.pc = "deletes"
      /\ Replay([i \in DOMAIN gone |-> Deleted(gone[i].key, NoCursor)], "upserts")
      /\ UNCHANGED Watched

\* Mutant: a version that was superseded after the head was read is left out,
\* and so is one at the head itself.
CatchableBelow(v) == v.seq > sub.cur /\ v.seq < sub.sReg /\ v.sup = Current

\* catchupUpserts' test on a record
Catchable(v) == v.seq > sub.cur /\ v.seq <= sub.sReg /\ (v.sup = Current \/ v.sup > sub.sReg)

\* the scan; a version superseded since the head may have been reclaimed
CatchupUpserts ==
  LET found == {v \in vers : Catchable(v) /\ ~Hidden(v.key)}
  IN  /\ sub.pc = "upserts"
      /\ \E kept \in SUBSET found :
           /\ LiveIn(found) \subseteq kept
           /\ LET vs == SetToSortSeq(kept, LAMBDA a, b : a.seq < b.seq)
              IN  Replay([i \in DOMAIN vs |->
                            Upsert(vs[i].key, Flattened(vs[i].key, vs[i].val), NoCursor)], "synced")
      /\ UNCHANGED Watched

Synced ==
  /\ sub.pc = "synced"
  /\ Yield(<<Control("synced", Cursor(sub.sReg))>>)
  /\ sub' = [sub EXCEPT !.pc = "seed", !.vec = sub.sReg, !.cur = 0]
  /\ UNCHANGED <<Watched, faults>>

\* seedParentSig: the baseline of the fan-out
Seed ==
  /\ sub.pc = "seed"
  /\ sub' = [sub EXCEPT !.pc = "live", !.sig = [p \in Structural |-> ValOf(p)]]
  /\ UNCHANGED <<Watched, filt, pipe, con, faults>>

\* An event of a window or of the live stream as it is yielded; none for a
\* structural key.
Shown(e, c) ==
  IF Hidden(e.key) THEN <<>>
  ELSE IF e.val = None THEN <<Deleted(e.key, c)>>
  ELSE <<Upsert(e.key, Flattened(e.key, e.val), c)>>

\* flush of liveCoalesced: only the last event carries a cursor
Window ==
  LET evs == FoldLeft(LAMBDA q, e : q \o Shown(e, NoCursor), <<>>, sub.pend)
  IN  IF evs = <<>> THEN <<>>
      ELSE [evs EXCEPT ![Len(evs)].cursor = Cursor(sub.vec)]

\* top of the loop: a lagged watcher flushes, reports Resync and ends
LiveCheck ==
  /\ sub.pc = "live"
  /\ IF sub.lagged
     THEN sub' = Off /\ Yield(Window \o <<Control("resync", NoCursor)>>)
     ELSE sub' = [sub EXCEPT !.pc = "select"] /\ UNCHANGED <<filt, pipe, con>>
  /\ UNCHANGED <<Watched, faults>>

\* Mutant: the children are left alone.
NoFanout(e) == <<>>

\* fanoutChildren: the children of a parent whose attributes changed, as they
\* are now, at the parent's sequence
Fanout(e) ==
  IF sub.sig[e.key] = e.val THEN <<>>
  ELSE LET cs == SetToSeq(ChildrenIn(vers, e.key))
       IN  [i \in DOMAIN cs |-> [key |-> cs[i].key, val |-> cs[i].val]]

\* the newest event of a key replaces the pending one, in its place
Coalesced(q, e) ==
  IF \E i \in DOMAIN q : q[i].key = e.key
  THEN [i \in DOMAIN q |-> IF q[i].key = e.key THEN e ELSE q[i]]
  ELSE Append(q, e)

Receive ==
  LET raw == Head(sub.ch)
      parent == raw.val # None /\ Hidden(raw.key)
      evs == IF parent THEN Fanout(raw) ELSE <<[key |-> raw.key, val |-> raw.val]>>
      rest == [sub EXCEPT !.ch = Tail(@), !.pc = "live"]
      seen == [rest EXCEPT !.vec = raw.seq, \* gone: history, deleted parents
                           !.gone = IF Hidden(raw.key) /\ ~parent THEN @ \cup {raw.key} ELSE @,
                           !.sig = IF parent THEN [@ EXCEPT ![raw.key] = raw.val] ELSE @]
  IN  /\ sub.pc = "select" /\ sub.ch # <<>>
      /\ IF raw.seq <= sub.sReg
         THEN sub' = rest /\ UNCHANGED <<filt, pipe, con>>
         ELSE IF mode.coalesce
         THEN /\ sub' = [seen EXCEPT !.pend = FoldLeft(Coalesced, @, evs)]
              /\ UNCHANGED <<filt, pipe, con>>
         ELSE /\ sub' = seen
              /\ Yield(FoldLeft(LAMBDA q, e : q \o Shown(e, Cursor(raw.seq)), <<>>, evs))
      /\ UNCHANGED <<Watched, faults>>

\* the coalescing window closes
Tick ==
  /\ sub.pc = "select" /\ sub.pend # <<>>
  /\ Yield(Window)
  /\ sub' = [sub EXCEPT !.pend = <<>>, !.pc = "live"]
  /\ UNCHANGED <<Watched, faults>>

-----------------------------------------------------------------------------
(* The consumer's own steps, lost connections and restarts. *)

\* pullOnce reads the next event from the connection
SinkScan ==
  /\ pipe # <<>>
  /\ con' = SinkApply(con, Head(pipe))
  /\ pipe' = Tail(pipe)
  /\ UNCHANGED <<Watched, sub, filt, faults>>

\* commitAndAck, or the client's persist: the last cursor seen becomes durable
SaveCursor ==
  /\ con.last \notin {NoCursor, con.cursor}
  /\ con' = [con EXCEPT !.cursor = con.last]
  /\ UNCHANGED <<Watched, sub, filt, pipe, faults>>

\* The connection breaks or the remote consumer crashes: what is in flight,
\* the shadow copy and an unsaved cursor are gone.
Disconnect ==
  /\ mode.consumer # "view" /\ sub.pc # "off"
  /\ faults < mode.faults /\ faults' = faults + 1
  /\ sub' = Off
  /\ pipe' = <<>>
  /\ con' = Survives(con)
  /\ UNCHANGED <<Watched, filt>>

\* The process that holds the collection restarts: a new hub and journal, no
\* publication of what was committed; a view starts over with it.
Restart ==
  /\ faults < mode.faults /\ faults' = faults + 1
  /\ epoch' = epoch + 1
  /\ dels' = <<>> /\ horizon' = 0
  /\ pub' = [w \in Writers |-> <<>>]
  /\ sub' = Off
  /\ pipe' = <<>>
  /\ con' = IF mode.consumer = "view" THEN Start
            ELSE Survives(con)
  /\ UNCHANGED <<mode, vers, commitSeq, filt>>

-----------------------------------------------------------------------------
Init ==
  /\ mode \in Modes
  /\ vers = {} /\ commitSeq = 0 /\ epoch = 1
  /\ dels = <<>> /\ horizon = 0
  /\ pub = [w \in Writers |-> <<>>]
  /\ sub = Off /\ filt = Fresh /\ pipe = <<>> /\ con = Start
  /\ faults = 0

Finish(w) == Journal(w) \/ Publish(w) \/ Cleanup(w)
CatchUp == ReadHead \/ Decide \/ CatchupDeletes \/ CatchupUpserts \/ Synced \/ Seed
Stream == LiveCheck \/ Receive \/ Tick

Next ==
  \/ \E w \in Writers, k \in Keys, v \in mode.vals : Put(w, k, v)
  \/ \E w \in Writers, k \in Keys : Delete(w, k)
  \/ \E w \in Writers, ks \in TxnWrites, v \in mode.vals : TxnCommit(w, ks, v)
  \/ \E w \in Writers : Finish(w)
  \/ Register \/ CatchUp \/ Stream
  \/ SinkScan \/ SaveCursor \/ Disconnect \/ Restart

\* A goroutine that committed goes on, the subscription's goroutine runs, a
\* consumer reads and reconnects (Pull's and View.run's loops).
Fairness ==
  /\ \A w \in Writers : WF_vars(Finish(w))
  /\ WF_vars(Register \/ CatchUp \/ Stream) /\ WF_vars(SinkScan)

Spec == Init /\ [][Next]_vars /\ Fairness

-----------------------------------------------------------------------------
\* The state is well formed; the delete log, the buffer and the connection stay
\* within their limits (WatchHistory, WatchBuffer).
TypeOK ==
  /\ mode \in Modes
  /\ vers \subseteq [key : Keys, seq : 1 .. commitSeq, sup : 0 .. commitSeq, val : Vals]
  /\ commitSeq \in Nat /\ epoch \in 1 .. mode.faults + 1
  /\ dels \in Seq([key : Keys, seq : 1 .. commitSeq])
  /\ horizon \in 0 .. commitSeq
  /\ Len(dels) < 2 * HistCap /\ Len(sub.ch) <= BufCap /\ Len(pipe) <= PipeCap
  /\ con.live \in [Keys -> [own : Vals \cup {None}, inh : Vals \cup {None}]]

\* Nothing is on its way: every commit is published and the subscription is
\* live with an empty buffer, window and connection.
Quiescent ==
  /\ \A w \in Writers : pub[w] = <<>>
  /\ sub.pc \in {"live", "select"} /\ sub.ch = <<>> /\ sub.pend = <<>> /\ ~sub.lagged
  /\ pipe = <<>>

Shows(k, v) == con.live[k].own = v

\* A replication sink removes nothing on a reset, so only it may keep a key
\* that is gone.
Converged ==
  \A k \in Keys \ Structural :
    \/ Shows(k, ValOf(k))
    \/ ValOf(k) = None /\ mode.consumer = "sink"

\* "A net change is never missed" (watch.go): when nothing is on its way the
\* consumer holds the current ads, whatever was trimmed from the journal, lost
\* with a connection, dropped from a full buffer or coalesced.
NetChangeDelivered == Quiescent /\ ~mode.filter => Converged

\* Every event of a commit carries the cursor of the whole commit, so one that
\* saves it after the first of several loses the others with its connection; a
\* view saves a cursor only at Synced.
WholeCommits == mode.batch => mode.consumer = "view"

\* The same, for committers whose journalling and publication do not overlap
\* another commit or a catch-up.
NothingMissed == mode.race = "none" /\ WholeCommits => NetChangeDelivered

\* A live ad is never missed or stale even when commits race a catch-up (a
\* delete may be: the journal is written after the commit is visible).
UpsertsDelivered ==
  Quiescent /\ ~mode.filter /\ mode.race # "order" /\ WholeCommits =>
    \A k \in Keys \ Structural : ValOf(k) # None => Shows(k, ValOf(k))

\* WatchFilter over a stream that began with a Reset shows exactly the ads
\* that match, through ads that start and stop matching and deletes.
FilterExact ==
  Quiescent /\ mode.filter /\ mode.race = "none" /\ sub.full /\ WholeCommits =>
    \A k \in Keys \ Structural : Shows(k, IF ValOf(k) \in Matching THEN ValOf(k) ELSE None)

\* After a full replay, a parent's change reaches the children the consumer
\* holds (fanoutChildren, watchAdAs), unless the parent was deleted meanwhile:
\* its signature outlives it.  An incremental catch-up replays no parent.
InheritedFollows ==
  Quiescent /\ mode.race = "none" /\ ~mode.filter /\ sub.full =>
    \A k \in Keys \ Structural, v \in LiveIn(vers) :
      v.key = ParentOf[k] /\ v.key \notin sub.gone /\ ValOf(k) # None
        => con.live[k].inh = v.val

\* A subscriber that lagged, lost its connection or was restarted is live
\* again and drained once commits and faults stop.
CatchesUp == <>[]Quiescent
=============================================================================
