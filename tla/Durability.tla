----------------------------- MODULE Durability -----------------------------
(***************************************************************************)
(* A persistent shard and its files (collections/commit.go, mmapseg.go,    *)
(* persist.go, compact.go): what group commit has flushed when it answers  *)
(* a writer, and what Open makes of the files a crash leaves behind.       *)
(*                                                                         *)
(* A segment file is mapped MAP_SHARED: a store is on disk for certain     *)
(* only after an msync of its page, and may be there earlier. A power loss *)
(* keeps every flushed store and any of the others, except that a segment  *)
(* ends at its first torn record. A kill keeps all stores.                 *)
(*                                                                         *)
(* Abstracted: a put carries one ad, identified by its writer; chains and  *)
(* lookups are Shard's matter, here a key's current version is found among *)
(* the live segments; phase 2 of compaction copies in one step (Compaction *)
(* interleaves it record by record); there is no time-travel window.       *)
(***************************************************************************)
EXTENDS GroupCommit

CONSTANTS
  Keys,
  SegCap,         \* records that fit a segment
  MaxOps,         \* bound on the puts and deletes of a behaviour
  MaxCrashes,     \* bound on crashes; no calls follow the last one
  MaxSegs,        \* bound: no compaction starts once so many files were created
  Maintenance,    \* reclaim and compaction run
  PowerLoss,      \* unflushed stores may be lost; FALSE: the process is killed
  CrashInCopy     \* a crash may hit phase 2 of a compaction

ASSUME BoundsAssumption == MaxOps \in Nat
ASSUME WritersAssumption == IsFiniteSet(Writers)

Inf == MaxOps + 1   \* seqMax: not superseded
NoSeg == 0

VARIABLES
  mem,       \* the shard: log, segs, act, next, fresh, dirtySup
  commitSeq,
  evicted,   \* sealed segments whose keys have left the directory
  files,     \* segment files on disk, retired ones not unlinked yet included
  interned,  \* destinations of compactions, whose dictionary is their last record
  torn,      \* destinations a crash left without it: their ads cannot be read
  flushed,   \* records known to be on disk
  dsup,      \* supersededBySeq of each record as known to be on disk
  syncedSeq, \* sh.syncedSeq
  pass,      \* what the pass in flight captured
  req,       \* each writer's call: key, sequence, sequence it waits for
  comp,      \* the compaction in progress
  status,    \* "up", "down" after a crash, "open" after recovery
  evs,       \* history: per key, the last acknowledged event and later ones
  moved,     \* history: keys whose records maintenance has copied or dropped
  ops,       \* operations so far
  crashes    \* crashes so far

store == <<mem, commitSeq, evicted>>
disk == <<files, interned, torn, flushed, dsup>>
bounds == <<ops, crashes>>
vars == <<gvars, store, disk, syncedSeq, pass, req, comp, status, evs, moved, bounds>>

Locs == DOMAIN mem.log
Rec(l) == mem.log[l]
RecsOf(g) == {l \in Locs : Rec(l).seg = g}
Current(l) == Rec(l).seg \in mem.segs /\ Rec(l).sup = Inf
CurrentOf(k) == {l \in Locs : Rec(l).key = k /\ Current(l)}
SegsOf(L) == {Rec(l).seg : l \in L}
\* A record whose bytes are lost.
Gone == [key |-> "none", seq |-> 0, sup |-> 0, seg |-> NoSeg, by |-> "nobody"]
NoPass == [covered |-> 0, recs |-> {}, sups |-> {}]
NoComp == [phase |-> "off", srcs |-> {}, retain |-> 0, dst |-> {}, copies |-> {}]
NoReq == [key |-> "none", seq |-> 0, need |-> 0]
NoEvent == [seq |-> 0, op |-> "del", by |-> "nobody"]

-----------------------------------------------------------------------------
(* Writes. *)

\* put of key k by w at sequence s in the memory image m: append the record,
\* supersede the current version; only a version found through the sealed
\* index is queued for a flush of its stamp.
Put(m, k, s, w) ==
  LET roll == m.act = NoSeg \/ Cardinality({l \in DOMAIN m.log : m.log[l].seg = m.act}) >= SegCap
      g == IF roll THEN m.next ELSE m.act
      old == {l \in DOMAIN m.log : m.log[l].key = k /\ m.log[l].seg \in m.segs /\ m.log[l].sup = Inf}
      ended == [l \in DOMAIN m.log |-> IF l \in old THEN [m.log[l] EXCEPT !.sup = s] ELSE m.log[l]]
  IN  [log |-> Append(ended, [key |-> k, seq |-> s, sup |-> Inf, seg |-> g, by |-> w]),
       segs |-> m.segs \cup {g},
       act |-> g,
       next |-> IF roll THEN m.next + 1 ELSE m.next,
       fresh |-> m.fresh \cup {Len(m.log) + 1},
       dirtySup |-> m.dirtySup \cup {l \in old : m.log[l].seg \in evicted}]

\* The memory image after the batch has been applied at sequence s.
AfterBatch(s) ==
  LET F[i \in 0 .. Len(batch)] ==
        IF i = 0 THEN mem ELSE Put(F[i - 1], req[batch[i]].key, s, batch[i])
  IN  F[Len(batch)]

\* The disk image of records that have just been appended: nothing known.
Grown(d, m) == [l \in DOMAIN m.log |-> IF l \in DOMAIN d THEN d[l] ELSE Inf]

Happened(k, e) == [evs EXCEPT ![k] = Append(@, e)]

Call(w, k) ==
  /\ status = "up"
  /\ ops < MaxOps
  /\ crashes < MaxCrashes
  /\ ops' = ops + 1
  /\ req' = [req EXCEPT ![w] = [NoReq EXCEPT !.key = k]]
  /\ UNCHANGED <<store, disk, syncedSeq, pass, comp, status, evs, moved, crashes>>

CallPut(w, k) == Call(w, k) /\ (CommitFast(w) \/ CommitQueued(w))
CallDelete(w, k) == Call(w, k) /\ DeleteCalled(w)

Lead(w) ==
  /\ TakeQueue(w)
  /\ UNCHANGED <<store, disk, syncedSeq, pass, req, comp, status, evs, moved, bounds>>

\* applyWrites, applyOne, applyBatch up to the sync.
Apply(w) ==
  LET s == commitSeq + 1
      m == AfterBatch(s)
  IN  /\ ApplyRequests(w)
      /\ mem' = m
      /\ commitSeq' = s
      /\ files' = files \cup m.segs
      /\ dsup' = Grown(dsup, m)
      /\ req' = [x \in Writers |-> IF x \in Range(batch) THEN [req[x] EXCEPT !.seq = s, !.need = s] ELSE req[x]]
      /\ LET E[i \in 0 .. Len(batch)] ==
               IF i = 0 THEN evs
               ELSE [E[i - 1] EXCEPT ![req[batch[i]].key] =
                       Append(@, [seq |-> s, op |-> "put", by |-> batch[i]])]
         IN  evs' = E[Len(batch)]
      /\ UNCHANGED <<evicted, interned, torn, flushed, syncedSeq, pass, comp, status, moved, bounds>>

\* Collection.Delete of a live key: stamp its version and queue the stamp.
DeleteLive(w) ==
  LET k == req[w].key
      s == commitSeq + 1
  IN  /\ CurrentOf(k) # {}
      /\ DeleteApplied(w)
      /\ mem' = [mem EXCEPT !.log = [l \in Locs |-> IF l \in CurrentOf(k) THEN [Rec(l) EXCEPT !.sup = s] ELSE Rec(l)],
                            !.dirtySup = @ \cup CurrentOf(k)]
      /\ commitSeq' = s
      /\ req' = [req EXCEPT ![w].seq = s]
      /\ evs' = Happened(k, [seq |-> s, op |-> "del", by |-> w])
      /\ UNCHANGED <<evicted, disk, syncedSeq, pass, comp, status, moved, bounds>>

\* Delete of an absent key: nothing to make durable.
DeleteAbsent(w) ==
  /\ At(w) = "del"
  /\ CurrentOf(req[w].key) = {}
  /\ Go(w, "idle")
  /\ rounds' = [rounds EXCEPT ![w] = 1]
  /\ req' = [req EXCEPT ![w] = NoReq]
  /\ UNCHANGED <<flushing, queue, batch, syncing>>
  /\ UNCHANGED <<store, disk, syncedSeq, pass, comp, status, evs, moved, bounds>>

-----------------------------------------------------------------------------
(* Durability passes and answers. *)

\* The events of key k once the one at sequence s has been acknowledged.
AckedEvents(k, s) ==
  LET known == {i \in DOMAIN evs[k] : evs[k][i].seq <= s}
      last == CHOOSE i \in known : \A j \in known : j <= i
  IN  IF known = {} THEN evs[k] ELSE SubSeq(evs[k], last, Len(evs[k]))

\* The caller w has its answer.
Acknowledge(w) ==
  /\ evs' = [evs EXCEPT ![req[w].key] = AckedEvents(req[w].key, req[w].seq)]
  /\ req' = [req EXCEPT ![w] = NoReq]

\* sync waits for all that has been applied.
SyncAll(w) ==
  /\ SyncCalled(w)
  /\ req' = [req EXCEPT ![w].need = commitSeq]
  /\ UNCHANGED <<store, disk, syncedSeq, pass, comp, status, evs, moved, bounds>>

Covered(w) == req[w].need <= syncedSeq

\* syncFor finds its sequence covered by a completed pass.
SyncCovered(w) ==
  /\ Covered(w)
  /\ SyncReturn(w)
  /\ IF Flusher(w) THEN UNCHANGED <<evs, req>> ELSE Acknowledge(w)
  /\ UNCHANGED <<store, disk, syncedSeq, pass, comp, status, moved, bounds>>

\* syncFor waits for the pass in flight, or leads the next one.
SyncUncovered(w) ==
  /\ ~Covered(w)
  /\ SyncWait(w) \/ SyncLead(w)
  /\ UNCHANGED <<store, disk, syncedSeq, pass, req, comp, status, evs, moved, bounds>>

\* syncPass under the lock: the sequence covered, the dirty ranges and stamps.
Capture(w) ==
  /\ PassCaptured(w)
  /\ pass' = [covered |-> commitSeq, recs |-> mem.fresh, sups |-> mem.dirtySup]
  /\ mem' = [mem EXCEPT !.fresh = {}, !.dirtySup = {}]
  /\ UNCHANGED <<commitSeq, evicted, disk, syncedSeq, req, comp, status, evs, moved, bounds>>

\* syncPass without it: msync the ranges and the stamps, then publish.
Msync(w) ==
  /\ PassDone(w)
  /\ flushed' = flushed \cup pass.recs
  /\ dsup' = [l \in DOMAIN dsup |-> IF l \in pass.recs \cup pass.sups THEN Rec(l).sup ELSE dsup[l]]
  /\ syncedSeq' = IF pass.covered > syncedSeq THEN pass.covered ELSE syncedSeq
  /\ pass' = NoPass
  /\ UNCHANGED <<store, files, interned, torn, req, comp, status, evs, moved, bounds>>

\* The flusher answers one request of its batch.
Answer(w) ==
  /\ SignalDone(w)
  /\ IF Head(batch) = w THEN UNCHANGED <<evs, req>> ELSE Acknowledge(Head(batch))
  /\ UNCHANGED <<store, disk, syncedSeq, pass, comp, status, moved, bounds>>

\* The flusher's own call returns.
Finish(w) ==
  /\ FinishFlush(w)
  /\ Acknowledge(w)
  /\ UNCHANGED <<store, disk, syncedSeq, pass, comp, status, moved, bounds>>

-----------------------------------------------------------------------------
(* Maintenance: maintMu serialises reclaim and compaction, not the sealing pass. *)

\* The sealing pass: all segments but the active one leave the directory.
Evict ==
  /\ status = "up"
  /\ evicted # mem.segs \ {mem.act}
  /\ evicted' = mem.segs \ {mem.act}
  /\ UNCHANGED <<gvars, mem, commitSeq, disk, syncedSeq, pass, req, comp, status, evs, moved, bounds>>

\* Segments G leave the live set and the pending-sync lists.
Without(m, G) ==
  [m EXCEPT !.segs = @ \ G,
            !.fresh = {l \in @ : m.log[l].seg \notin G},
            !.dirtySup = {l \in @ : m.log[l].seg \notin G}]

KeysOf(G) == {Rec(l).key : l \in {m \in Locs : Rec(m).seg \in G}}

\* reclaimDeadShard: retire every sealed segment without a current record.
Reclaim ==
  LET dead == {g \in mem.segs \ {mem.act} : RecsOf(g) # {} /\ \A l \in RecsOf(g) : Rec(l).sup <= commitSeq}
  IN  /\ status = "up"
      /\ Maintenance
      /\ comp.phase = "off"
      /\ dead # {}
      /\ mem' = Without(mem, dead)
      /\ evicted' = evicted \ dead
      /\ moved' = moved \cup KeysOf(dead)
      /\ UNCHANGED <<gvars, commitSeq, disk, syncedSeq, pass, req, comp, status, evs, bounds>>

\* reap: a retired file nobody has pinned is unlinked; a pass pins what it captured.
Unlink(g) ==
  /\ status = "up"
  /\ g \in files \ (mem.segs \cup comp.dst)
  /\ g \notin SegsOf(pass.recs \cup pass.sups)
  /\ files' = files \ {g}
  /\ mem' = [mem EXCEPT !.log = [l \in Locs |-> IF l \in RecsOf(g) THEN Gone ELSE Rec(l)]]
  /\ flushed' = flushed \ RecsOf(g)
  /\ dsup' = [l \in Locs |-> IF l \in RecsOf(g) THEN 0 ELSE dsup[l]]
  /\ interned' = interned \ {g} /\ torn' = torn \ {g}
  /\ UNCHANGED <<gvars, commitSeq, evicted, syncedSeq, pass, req, comp, status, evs, moved, bounds>>

\* Phase 1 of compactShard: every segment that holds a record is a source.
CompactBegin ==
  /\ status = "up"
  /\ Maintenance
  /\ comp = NoComp
  /\ mem.segs # {}
  /\ mem.next <= MaxSegs
  /\ comp' = [NoComp EXCEPT !.phase = "copy", !.srcs = SegsOf(Locs) \cap mem.segs, !.retain = commitSeq]
  /\ mem' = [mem EXCEPT !.act = NoSeg]
  /\ UNCHANGED <<gvars, commitSeq, evicted, disk, syncedSeq, pass, req, status, evs, moved, bounds>>

\* The records of S in the order of the log, moved to segment g.
Copies(S, g) ==
  LET at == [i \in 1 .. Cardinality(S) |-> CHOOSE l \in S : Cardinality({m \in S : m < l}) = i - 1]
  IN  [i \in DOMAIN at |-> [src |-> at[i], rec |-> [Rec(at[i]) EXCEPT !.seg = g]]]

\* Phase 2: current versions to one destination, versions superseded since
\* phase 1 to another, each ending with its dictionary; nothing is flushed.
CompactCopy ==
  LET live == {l \in Locs : Rec(l).seg \in comp.srcs /\ Rec(l).sup = Inf}
      past == {l \in Locs : Rec(l).seg \in comp.srcs /\ Rec(l).sup # Inf /\ Rec(l).sup > comp.retain}
      new == Copies(live, mem.next) \o Copies(past, mem.next + 1)
      dst == {new[i].rec.seg : i \in DOMAIN new}
      log == mem.log \o [i \in DOMAIN new |-> new[i].rec]
  IN  /\ comp.phase = "copy"
      /\ mem' = [mem EXCEPT !.log = log, !.next = @ + 2]
      /\ comp' = [comp EXCEPT !.phase = "flush", !.dst = dst,
                    !.copies = {<<new[i].src, Len(mem.log) + i>> : i \in 1 .. Cardinality(live)}]
      /\ files' = files \cup dst
      /\ interned' = interned \cup dst
      /\ dsup' = Grown(dsup, mem')
      /\ moved' = moved \cup KeysOf(comp.srcs)
      /\ UNCHANGED <<gvars, commitSeq, evicted, torn, flushed, syncedSeq, pass, req, status, evs, bounds>>

DstRecs == {l \in Locs : Rec(l).seg \in comp.dst}

\* The destinations are flushed before any source is retired.
CompactFlush ==
  /\ comp.phase = "flush"
  /\ comp' = [comp EXCEPT !.phase = "install"]
  /\ flushed' = flushed \cup DstRecs
  /\ dsup' = [l \in DOMAIN dsup |-> IF l \in DstRecs THEN Rec(l).sup ELSE dsup[l]]
  /\ UNCHANGED <<gvars, store, files, interned, torn, syncedSeq, pass, req, status, evs, moved, bounds>>

\* Phase 3: stamps that landed on a source since the copy go to the copy, the
\* directory takes in every current record, and the sources are retired and
\* dropped from the pending-sync lists.
CompactInstall ==
  LET ended == [l \in Locs |-> IF \E c \in comp.copies : c[2] = l
                               THEN [Rec(l) EXCEPT !.sup = Rec((CHOOSE c \in comp.copies : c[2] = l)[1]).sup]
                               ELSE Rec(l)]
  IN  /\ comp.phase = "install"
      /\ mem' = [Without(mem, comp.srcs) EXCEPT !.log = ended, !.segs = @ \cup comp.dst]
      /\ evicted' = {}
      /\ comp' = NoComp
      /\ UNCHANGED <<gvars, commitSeq, disk, syncedSeq, pass, req, status, evs, moved, bounds>>

-----------------------------------------------------------------------------
(* Crash and recovery. *)

\* Destinations still being written end anywhere, with or without dictionary.
Unfinished == IF comp.phase = "flush" THEN comp.dst ELSE {}

\* The sets of records a crash may leave, when the destinations T are torn.
Survivors(T) ==
  LET here == {l \in Locs : Rec(l).seg \in files}
      sure == {l \in here : Rec(l).seg \notin T /\ (l \in flushed \/ ~PowerLoss \/ Rec(l).seg \in Unfinished)}
  IN  {K \in SUBSET here : sure \subseteq K
         /\ \A l \in K, m \in here : Rec(m).seg = Rec(l).seg /\ m < l => m \in K}

\* The sets of stamps not known to be on disk that a crash may leave there.
Stamps(K) ==
  LET open == {l \in K : Rec(l).sup # dsup[l]}
  IN  IF PowerLoss THEN SUBSET open ELSE {open}

Crash ==
  /\ status = "up"
  /\ crashes < MaxCrashes
  /\ CrashInCopy \/ comp.phase # "flush"
  /\ \E T \in SUBSET Unfinished :
     \E K \in Survivors(T) :
     \E st \in Stamps(K) :
       LET log == [l \in Locs |-> IF l \in K THEN [Rec(l) EXCEPT !.sup = IF l \in st THEN @ ELSE dsup[l]]
                                  ELSE Gone]
       IN  /\ mem' = [mem EXCEPT !.log = log, !.segs = files, !.act = NoSeg, !.fresh = {}, !.dirtySup = {}]
           /\ dsup' = [l \in Locs |-> log[l].sup]
           /\ flushed' = K
           /\ torn' = torn \cup T
           /\ interned' = interned \ T
  /\ status' = "down"
  /\ crashes' = crashes + 1
  /\ flushing' = FALSE /\ queue' = <<>> /\ batch' = <<>> /\ syncing' = FALSE
  /\ pc' = [w \in Writers |-> [at |-> "idle", flusher |-> FALSE]]
  /\ rounds' = [w \in Writers |-> 1]
  /\ syncedSeq' = 0 /\ pass' = NoPass /\ comp' = NoComp
  /\ req' = [w \in Writers |-> NoReq]
  /\ UNCHANGED <<commitSeq, evicted, files, evs, moved, ops>>

\* loadShard orders the files by their first record, empty ones last.
FirstSeq(g) == IF RecsOf(g) = {} THEN Inf ELSE Rec(CHOOSE l \in RecsOf(g) : \A m \in RecsOf(g) : l <= m).seq
Before(f, g) == FirstSeq(f) < FirstSeq(g) \/ (FirstSeq(f) = FirstSeq(g) /\ f < g)

\* rebuildDir with a strict comparison: the first of two equal sequences wins.
BeatsFirst(l, m) ==
  \/ Rec(l).seq > Rec(m).seq
  \/ /\ Rec(l).seq = Rec(m).seq
     /\ Before(Rec(l).seg, Rec(m).seg) \/ (Rec(l).seg = Rec(m).seg /\ l < m)

\* rebuildDir: the greatest sequence wins, the last one met among equals.
Beats(l, m) ==
  \/ Rec(l).seq > Rec(m).seq
  \/ /\ Rec(l).seq = Rec(m).seq
     /\ Before(Rec(m).seg, Rec(l).seg) \/ (Rec(l).seg = Rec(m).seg /\ m < l)

Found == {l \in Locs : Rec(l).seg \in mem.segs}
Winner(l) == \A m \in Found : Rec(m).key = Rec(l).key => m = l \/ Beats(l, m)

\* rebuildDir without the pass that ends every current version but the winner.
RebuiltAsFound == mem.log

\* rebuildDir ends every current version but the winner at its own sequence.
Rebuilt ==
  [l \in Locs |-> IF l \in Found /\ Rec(l).sup = Inf /\ ~Winner(l)
                  THEN [Rec(l) EXCEPT !.sup = Rec(l).seq] ELSE Rec(l)]

\* commitSeq covers every sequence found, the ends of versions included.
RecoveredSeq ==
  LET seen == {0} \cup {Rec(l).seq : l \in Found} \cup ({Rec(l).sup : l \in Found} \ {Inf})
  IN  CHOOSE s \in seen : \A t \in seen : t <= s

\* Open: loadShard and rebuildDir. The last segment takes new records unless
\* it is interned.
Recover ==
  LET last == CHOOSE g \in mem.segs : \A f \in mem.segs : f = g \/ Before(f, g)
      act == IF mem.segs = {} \/ last \in interned THEN NoSeg ELSE last
  IN  /\ status = "down"
      /\ mem' = [mem EXCEPT !.log = Rebuilt, !.act = act]
      /\ commitSeq' = RecoveredSeq
      /\ evicted' = (evicted \cap mem.segs) \ {act}
      /\ status' = "open"
      /\ UNCHANGED <<gvars, disk, syncedSeq, pass, req, comp, evs, moved, bounds>>

Serve ==
  /\ status = "open"
  /\ status' = "up"
  /\ evs' = [k \in Keys |->
               IF CurrentOf(k) = {} THEN <<NoEvent>>
               ELSE LET r == Rec(CHOOSE l \in CurrentOf(k) : TRUE)
                    IN  <<[seq |-> r.seq, op |-> "put", by |-> r.by]>>]
  /\ moved' = {}
  /\ UNCHANGED <<gvars, store, disk, syncedSeq, pass, req, comp, bounds>>

-----------------------------------------------------------------------------
Init ==
  /\ GInit
  /\ mem = [log |-> <<>>, segs |-> {}, act |-> NoSeg, next |-> 1, fresh |-> {}, dirtySup |-> {}]
  /\ commitSeq = 0 /\ evicted = {}
  /\ files = {} /\ interned = {} /\ torn = {} /\ flushed = {} /\ dsup = <<>>
  /\ syncedSeq = 0 /\ pass = NoPass
  /\ req = [w \in Writers |-> NoReq]
  /\ comp = NoComp
  /\ status = "up"
  /\ evs = [k \in Keys |-> <<NoEvent>>]
  /\ moved = {}
  /\ ops = 0 /\ crashes = 0

\* What writer w does next inside a call; exactly one is enabled unless w waits.
Step(w) ==
  \/ Lead(w) \/ Apply(w) \/ DeleteLive(w) \/ DeleteAbsent(w)
  \/ SyncAll(w) \/ SyncCovered(w) \/ SyncUncovered(w) \/ Capture(w) \/ Msync(w)
  \/ Answer(w) \/ Finish(w)

Compact == CompactBegin \/ CompactCopy \/ CompactFlush \/ CompactInstall

Next ==
  \/ \E w \in Writers, k \in Keys : CallPut(w, k) \/ CallDelete(w, k)
  \/ \E w \in Writers : Step(w)
  \/ Evict \/ Reclaim \/ Compact \/ (\E g \in files : Unlink(g))
  \/ Crash \/ Recover \/ Serve

\* A goroutine that can run does so eventually, also when it has to get a mutex.
Spec == Init /\ [][Next]_vars /\ \A w \in Writers : WF_vars(Step(w))

-----------------------------------------------------------------------------
(* Properties. *)

TypeOK ==
  /\ pc \in [Writers -> [at : Places, flusher : BOOLEAN]]
  /\ mem.segs \subseteq files
  /\ comp.phase # "off" => comp.srcs \subseteq mem.segs

\* What a reader finds under key k, and what event e leaves there.
Outcome(k) == {<<Rec(l).seq, Rec(l).by>> : l \in {m \in CurrentOf(k) : Rec(m).seg \notin torn}}
Result(e) == IF e.op = "del" THEN {} ELSE {<<e.seq, e.by>>}

\* After a crash and Open every key whose last operation had been acknowledged
\* is as that operation left it; for a deleted key as long as maintenance has
\* not touched its records.
SettledSurvives ==
  status = "open" =>
    \A k \in Keys :
      Len(evs[k]) = 1 /\ (evs[k][1].op = "put" \/ k \notin moved)
        => Outcome(k) = Result(evs[k][1])

\* After Open every key is as its last acknowledged operation or a later one
\* left it: an acknowledged put is not lost by operations still in flight.
AckedSurvives ==
  status = "open" => \A k \in Keys : \E i \in DOMAIN evs[k] : Outcome(k) = Result(evs[k][i])

\* An acknowledged delete survives a crash, whatever maintenance has done.
DeletesSurvive ==
  status = "open" =>
    \A k \in Keys : Len(evs[k]) = 1 /\ evs[k][1].op = "del" => Outcome(k) = {}

\* After Open scans and lookups agree: a key has at most one current record and
\* no record is newer, or ended later, than the recovered commit sequence.
RecoveredUnique ==
  status = "open" =>
    /\ \A k \in Keys : \A l, m \in CurrentOf(k) : l = m
    /\ \A l \in Locs : Rec(l).seg \in mem.segs
         => Rec(l).seq <= commitSeq /\ (Rec(l).sup # Inf => Rec(l).sup <= commitSeq)

\* Every call returns: the flusher role is always handed on, every sleeper in
\* syncFor is woken, and a pass that covers it is eventually led.
CallsReturn == \A w \in Writers : At(w) # "idle" ~> At(w) = "idle"
=============================================================================
