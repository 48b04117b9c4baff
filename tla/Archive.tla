------------------------------ MODULE Archive ------------------------------
(***************************************************************************)
(* An append-only collection (collections/archive.go) over segment files:  *)
(* one appender, scanning readers, and the maintenance passes that replace *)
(* or drop whole sealed segments (merge, reseal, intern, codec upgrade,    *)
(* rotation), with the process killed at any moment and reopened.          *)
(*                                                                         *)
(* A segment is its file: file n is "seg-n" or "tmp-merge-n" on disk, and  *)
(* its records are the mapping's, which outlive the process.  A record is  *)
(* its commit sequence and the value of the age attribute (Absent when the *)
(* ad has none); every record takes one unit of its segment.               *)
(***************************************************************************)
EXTENDS Integers, Sequences, FiniteSets, FiniteSetsExt

CONSTANTS
  Readers,        \* scanning clients
  Ages(_),        \* the age attributes the n-th record may come with
  SegCap(_),      \* records that fit the f-th segment before the next one is started
  MaxSeq,         \* bound: records appended
  MaxFiles,       \* bound: file numbers
  MaxCodecs,      \* bound: dictionaries trained
  Nows,           \* clock readings Rotate is called with
  MaxPasses,      \* bound: maintenance passes
  MaxTunes,       \* bound: changes of retention and of the watermark
  MaxCrashes,     \* bound: times the process dies
  Configured,     \* the retention the archive is opened with
  Retentions,     \* retention settings SetRetention may install
  Floors,         \* watermarks SetGCFloor may install
  Asks,           \* queries: [op, v, limit], limit 0 for none
  Merge           \* MergeOptions: target, trigger, maxBytes, minBytes, maxRun,
                  \*   keepRecent, maxMerges, passBytes

ASSUME FilesAssumption == MaxFiles \in Nat

ASSUME ArchiveAssumption ==
  /\ MaxSeq \in Nat
  /\ MaxCodecs \in Nat /\ Nows \subseteq Nat /\ MaxPasses \in Nat
  /\ MaxTunes \in Nat /\ MaxCrashes \in Nat /\ \A n \in 1 .. MaxSeq : Ages(n) \subseteq Nat
  /\ Merge.target > 0 /\ Merge.trigger >= Merge.target

VARIABLES
  file,       \* what every file number holds
  life,       \* refs, retired, closing, reaped of the segment mapping it
  segs,       \* sh.segs: a file number per slot, None where a slot was dropped
  act,        \* sh.act: the segment being appended to, or None
  commitSeq, count,
  counter,    \* the last file number handed out
  codec,      \* the current write codec
  dicts,      \* dictionaries registered and on disk (0 is the base codec)
  disk,       \* names in the shard directory
  w,          \* the appender
  rd,         \* the readers
  m,          \* the maintenance pass holding maintMu
  budget,     \* merges made and records moved by a merge pass
  ret, floor,
  proc,       \* "up", "closed" or "down"
  log,        \* what the archive promises to hold: appended, not yet dropped
  clean,      \* every reopening so far recovered exactly that
  tidy,       \* what the last death of the process left was Tidy
  spent       \* passes, tunes and crashes so far

mem == <<segs, act, commitSeq, count, counter>>
store == <<file, life, mem>>
names == <<codec, dicts, disk>>
policy == <<ret, floor>>
vars == <<store, names, w, rd, m, budget, policy, proc, log, clean, tidy, spent>>

None == 0
Absent == 0
Files == 1 .. MaxFiles
NoZone == [has |-> FALSE, min |-> 0, max |-> 0]
NoFile == [recs |-> <<>>, codec |-> 0, named |-> 0, enc |-> 0, zone |-> NoZone,
           interned |-> FALSE]
Mapped == [pins |-> {}, retired |-> FALSE, closing |-> FALSE, reaped |-> FALSE]
Idle == [op |-> "idle", at |-> "rest", todo |-> {}, src |-> None, run |-> {}, out |-> None,
         reap |-> {}, changed |-> FALSE]
NoBudget == [merges |-> 0, moved |-> 0]
Resting == [at |-> "idle", age |-> 0, codec |-> 0]
NotReading == [at |-> "idle", ask |-> [op |-> "all", v |-> 0, limit |-> 0],
               wins |-> {}, got |-> <<>>, due |-> <<>>]

Used(f) == Len(file[f].recs)
Bytes(s) == MapThenSumSet(LAMBDA i : Used(s[i]), DOMAIN s)
Live == SelectSeq(segs, LAMBDA f : f # None)
InSlot == {f \in Files : \E i \in 1 .. Len(segs) : segs[i] = f}
SealedSet == {f \in InSlot : f # act /\ Used(f) > 0}
Sealed == SelectSeq(segs, LAMBDA f : f \in SealedSet)
RecsOf(s) ==
  LET upTo[i \in 0 .. Len(s)] == IF i = 0 THEN <<>> ELSE upTo[i - 1] \o file[s[i]].recs
  IN upTo[Len(s)]

\* computeSegZones: the span of the age attribute, records without it ignored
ZoneOf(recs) ==
  LET ages == {recs[i].age : i \in 1 .. Len(recs)} \ {Absent}
  IN IF ages = {} THEN NoZone
     ELSE [has |-> TRUE, min |-> Min(ages), max |-> Max(ages)]

----------------------------------------------------------------------------
(* Segment life: pin, unpin, retire, closeUnmap.  refs is the number of    *)
(* readers in pins; reaped marks the mapping torn down.                    *)

Pin(s, r) == [s EXCEPT !.pins = @ \cup {r}]

Unpin(s, r) ==
  LET p == s.pins \ {r}
  IN [s EXCEPT !.pins = p,
               !.reaped = @ \/ (p = {} /\ (s.retired \/ s.closing))]

\* a mutant: a segment closed but not retired would be reaped, this one never
UnlinkNever(s, r) == FALSE

\* the file is unlinked by the unpin that reaps a retired segment
UnlinkedBy(s, r) == s.pins \ {r} = {} /\ s.retired /\ ~s.reaped

\* a mutant: the mapping goes although a scan holds it
RetirePinned(s) == [s EXCEPT !.retired = TRUE, !.reaped = TRUE]

Retire(s) == [s EXCEPT !.retired = TRUE, !.reaped = @ \/ s.pins = {}]

ReapNow(s) == s.pins = {} /\ ~s.reaped

CloseUnmap(s) ==
  IF s.reaped THEN s
  ELSE IF s.pins = {} THEN [s EXCEPT !.reaped = TRUE]
  ELSE [s EXCEPT !.closing = TRUE]

----------------------------------------------------------------------------
(* The appender: Put encodes under the current codec, then commits.        *)

Encode(a) ==
  /\ proc = "up" /\ w.at = "idle" /\ commitSeq < MaxSeq
  /\ w' = [at |-> "encoded", age |-> a, codec |-> codec]
  /\ UNCHANGED <<store, names, rd, m, budget, policy, proc, log, clean, tidy, spent>>

\* allocNamed: a codec no longer registered is written under the base name
Named(c) == IF c \in dicts THEN c ELSE 0

Fresh(recs, c) == [NoFile EXCEPT !.recs = recs, !.codec = c, !.enc = c,
                                 !.named = Named(c)]

SealZones(f) == IF f = None THEN file
                ELSE [file EXCEPT ![f].zone = IF @.has THEN @ ELSE ZoneOf(file[f].recs)]

Rolls == act = None \/ (act # None /\ (file[act].codec # w.codec \/ Used(act) >= SegCap(act)))

Commit ==
  LET rec == [seq |-> commitSeq + 1, age |-> w.age]
  IN /\ proc = "up" /\ w.at = "encoded"
     /\ IF Rolls
        THEN /\ counter < MaxFiles
             /\ counter' = counter + 1
             /\ file' = [SealZones(act) EXCEPT ![counter + 1] = Fresh(<<rec>>, w.codec)]
             /\ life' = [life EXCEPT ![counter + 1] = Mapped]
             /\ segs' = Append(segs, counter + 1)
             /\ act' = counter + 1
             /\ disk' = [disk EXCEPT !.seg = @ \cup {counter + 1}]
        ELSE /\ file' = [file EXCEPT ![act].recs = Append(@, rec)]
             /\ UNCHANGED <<life, counter, segs, act, disk>>
     /\ commitSeq' = commitSeq + 1
     /\ count' = count + 1
     /\ log' = Append(log, rec)
     /\ w' = Resting
     /\ UNCHANGED <<codec, dicts, rd, m, budget, policy, proc, clean, tidy, spent>>

----------------------------------------------------------------------------
(* QueryLimit: windows pinned under the read lock, walked newest first.    *)

Satisfies(rec, ask) ==
  \/ ask.op = "all"
  \/ rec.age # Absent /\ ask.op = "<" /\ rec.age < ask.v
  \/ rec.age # Absent /\ ask.op = ">=" /\ rec.age >= ask.v

\* zonePrune with zoneMayMatch: a segment without a zone is always scanned
ZonePrunes(z, ask) ==
  /\ z.has
  /\ \/ ask.op = "<" /\ ~(z.min < ask.v)
     \/ ask.op = ">=" /\ ~(z.max >= ask.v)

Limited(s, ask) == IF ask.limit > 0 /\ Len(s) > ask.limit
                   THEN SubSeq(s, 1, ask.limit) ELSE s

Answer(recs, ask) ==
  LET newestFirst == [i \in 1 .. Len(recs) |-> recs[Len(recs) + 1 - i]]
  IN SelectSeq(newestFirst, LAMBDA rec : Satisfies(rec, ask))

Begin(r, ask) ==
  LET walked == {i \in 1 .. Len(segs) : segs[i] # None /\ Used(segs[i]) > 0}
  IN /\ proc = "up" /\ rd[r].at = "idle"
     /\ rd' = [rd EXCEPT ![r] = [at |-> "scan", ask |-> ask,
                 wins |-> {[slot |-> i, f |-> segs[i], used |-> Used(segs[i]),
                            zone |-> file[segs[i]].zone] : i \in walked},
                 got |-> <<>>, due |-> Limited(Answer(log, ask), ask)]]
     /\ life' = [f \in Files |-> IF \E i \in walked : segs[i] = f THEN Pin(life[f], r) ELSE life[f]]
     /\ UNCHANGED <<file, mem, names, w, m, budget, policy, proc, log, clean, tidy, spent>>

\* the newest window not yet walked; a limit reached ends the walk
Visit(r) ==
  LET s == rd[r]
  IN \E win \in s.wins :
     LET recs == SubSeq(file[win.f].recs, 1, win.used)
         got == IF ZonePrunes(win.zone, s.ask) THEN s.got
                ELSE Limited(s.got \o Answer(recs, s.ask), s.ask)
         stop == s.ask.limit > 0 /\ Len(got) >= s.ask.limit
     IN /\ s.at = "scan"
        /\ \A other \in s.wins : other.slot <= win.slot
        /\ rd' = [rd EXCEPT ![r] =
                     [at |-> IF stop \/ s.wins = {win} THEN "done" ELSE "scan", ask |-> s.ask,
                      wins |-> s.wins \ {win}, got |-> got, due |-> s.due]]
        /\ UNCHANGED <<store, names, w, m, budget, policy, proc, log, clean, tidy, spent>>

Held(r) == {f \in Files : r \in life[f].pins}

\* releaseWindows: a segment retired meanwhile is unmapped and unlinked here
Release(r) ==
  /\ rd[r].at = "done" \/ (rd[r].at = "scan" /\ rd[r].wins = {})
  /\ rd' = [rd EXCEPT ![r] = NotReading]
  /\ life' = [f \in Files |-> IF f \in Held(r) THEN Unpin(life[f], r) ELSE life[f]]
  /\ disk' = [disk EXCEPT !.seg = @ \ {f \in Held(r) : UnlinkedBy(life[f], r)}]
  /\ UNCHANGED <<file, mem, codec, dicts, w, m, budget, policy, proc, log, clean, tidy, spent>>

----------------------------------------------------------------------------
(* Rotate, SetRetention, SetGCFloor.                                       *)

Expired(r, f, now) == /\ r.maxAge > 0
                 /\ file[f].zone.has /\ file[f].zone.max < now - r.maxAge

\* a mutant: a consumed segment goes however young it is
ConsumedYoung(r, f, now) == floor > 0 /\ file[f].zone.has /\ file[f].zone.max < floor

Consumed(r, f, now) == /\ floor > 0 /\ file[f].zone.has /\ file[f].zone.max < floor
                  /\ (r.minAge <= 0 \/ file[f].zone.max < now - r.minAge)

\* overRetention with the oldest k segments already dropped
OverRetention(s, k, now) ==
  \/ ret.maxSegs > 0 /\ Len(s) - k > ret.maxSegs
  \/ ret.maxBytes > 0 /\ Bytes(SubSeq(s, k + 1, Len(s))) > ret.maxBytes
  \/ Expired(ret, s[k + 1], now)
  \/ Consumed(ret, s[k + 1], now)

NoRetention == [maxSegs |-> 0, maxBytes |-> 0, maxAge |-> 0, minAge |-> 0]

\* how many of the oldest segments one Rotate drops, and which
Drops(s, now) ==
  IF ret = NoRetention THEN 0
  ELSE Min({k \in 0 .. Len(s) : k = Len(s) \/ s[k + 1] = act \/ ~OverRetention(s, k, now)})

Gone(now) == {f \in InSlot : \E i \in 1 .. Drops(Live, now) : Live[i] = f}

GoneRecords(now) == Bytes(SubSeq(Live, 1, Drops(Live, now)))

Rotate(now) ==
  /\ proc = "up" /\ m.op = "idle" /\ spent.passes < MaxPasses /\ Gone(now) # {}
  /\ segs' = [i \in 1 .. Len(segs) |-> IF segs[i] \in Gone(now) THEN None ELSE segs[i]]
  /\ count' = IF GoneRecords(now) <= count THEN count - GoneRecords(now) ELSE 0
  /\ m' = [Idle EXCEPT !.op = "rotate", !.at = "reap",
                       !.reap = {f \in Gone(now) : ReapNow(life[f])}]
  /\ life' = [f \in Files |-> IF f \in Gone(now) THEN Retire(life[f]) ELSE life[f]]
  /\ log' = SubSeq(log, GoneRecords(now) + 1, Len(log))
  /\ spent' = [spent EXCEPT !.passes = @ + 1]
  /\ UNCHANGED <<file, act, commitSeq, counter, names, w, rd, budget, policy, proc, clean, tidy>>

SetRetention(r) ==
  /\ proc = "up" /\ m.op = "idle" /\ ret # r /\ spent.tunes < MaxTunes
  /\ ret' = r
  /\ spent' = [spent EXCEPT !.tunes = @ + 1]
  /\ UNCHANGED <<store, names, w, rd, m, budget, floor, proc, log, clean, tidy>>

SetGCFloor(v) ==
  /\ proc = "up" /\ m.op = "idle" /\ floor # v /\ spent.tunes < MaxTunes
  /\ floor' = v
  /\ spent' = [spent EXCEPT !.tunes = @ + 1]
  /\ UNCHANGED <<store, names, w, rd, m, budget, ret, proc, log, clean, tidy>>

\* reapAndHook of the segments to reap, one at a time outside the shard lock
Reap ==
  /\ proc = "up" /\ m.at = "reap"
  /\ \E f \in m.reap :
       /\ disk' = [disk EXCEPT !.seg = @ \ {f}]
       /\ m' = [m EXCEPT !.reap = @ \ {f}]
  /\ UNCHANGED <<store, codec, dicts, w, rd, budget, policy, proc, log, clean, tidy, spent>>

\* pruneDicts keeps the dictionaries of the segments in the slots
Pruned == {0, codec} \cup {file[f].codec : f \in InSlot}

----------------------------------------------------------------------------
(* MergePass: nextMergeRun, mergeSegments, commitSegmentRewrite.           *)

Clamp(v, lo, hi) == IF v < lo THEN IF lo > hi THEN hi ELSE lo
                    ELSE IF v > hi THEN hi ELSE v

\* the file of a set that comes first in append order
Oldest(set) == segs[Min({i \in 1 .. Len(segs) : segs[i] \in set})]

MergeRun(remaining) ==
  LET all == Sealed
      e == SubSeq(all, 1, Len(all) - Merge.keepRecent)
      cap == IF remaining > 0 /\ remaining < Merge.maxBytes THEN remaining ELSE Merge.maxBytes
      want == Clamp(Clamp(Bytes(all) \div Merge.target, Merge.minBytes, Merge.maxBytes), 0, cap)
      small == {i \in 1 .. Len(e) : Used(e[i]) < want}
      from == Min(small)
      upto(j) == Bytes(SubSeq(e, from, j))
      to == Min({j \in from .. Len(e) :
                   \/ j = Len(e) \/ upto(j + 1) > cap \/ j - from + 1 >= Merge.maxRun
                   \/ (upto(j) >= want /\ j > from)})
  IN IF Len(all) <= Merge.target \/ Merge.keepRecent >= Len(all) \/ Len(e) < 2 \/ small = {}
     THEN <<>>
     ELSE IF to = from THEN <<>> ELSE SubSeq(e, from, to)

NextMergeRun(remaining) == SealedSet \cap Range(MergeRun(remaining))

MergePass ==
  /\ proc = "up" /\ m.op = "idle" /\ spent.passes < MaxPasses
  /\ Len(Sealed) >= Merge.trigger
  /\ m' = [Idle EXCEPT !.op = "merge", !.at = "pick"]
  /\ budget' = NoBudget
  /\ spent' = [spent EXCEPT !.passes = @ + 1]
  /\ UNCHANGED <<store, names, w, rd, policy, proc, log, clean, tidy>>

\* the next run, staged whole under a name that recovery does not load
Stage ==
  LET run == NextMergeRun(Merge.passBytes - budget.moved)
      out == counter + 1
      recs == RecsOf(SelectSeq(segs, LAMBDA f : f \in run))
  IN /\ proc = "up" /\ m.op = "merge" /\ m.at = "pick"
     /\ budget.merges < Merge.maxMerges /\ budget.moved < Merge.passBytes
     /\ run # {} /\ counter < MaxFiles
     /\ counter' = out
     /\ file' = [file EXCEPT ![out] = [Fresh(recs, codec) EXCEPT !.interned = TRUE]]
     /\ life' = [life EXCEPT ![out] = Mapped]
     /\ disk' = [disk EXCEPT !.tmp = @ \cup {out}]
     /\ m' = [m EXCEPT !.at = "staged", !.run = run, !.out = out]
     /\ UNCHANGED <<segs, act, commitSeq, count, codec, dicts, w, rd, budget, policy, proc, log, clean, tidy, spent>>

\* nothing (more) to merge: Reindex, which leaves what is modelled alone
MergeDone ==
  /\ proc = "up" /\ m.op = "merge" /\ m.at = "pick"
  /\ \/ budget.merges >= Merge.maxMerges \/ budget.moved >= Merge.passBytes
     \/ NextMergeRun(Merge.passBytes - budget.moved) = {}
  /\ m' = Idle /\ budget' = NoBudget
  /\ UNCHANGED <<store, names, w, rd, policy, proc, log, clean, tidy, spent>>

\* writeFileSync of the marker: created empty, then written
CreateMarker ==
  /\ proc = "up" /\ m.at = "staged"
  /\ disk' = [disk EXCEPT !.marker = @ \cup {[out |-> m.out, srcs |-> {}]}]
  /\ m' = [m EXCEPT !.at = "marking"]
  /\ UNCHANGED <<store, codec, dicts, w, rd, budget, policy, proc, log, clean, tidy, spent>>

\* a mutant: the first source is left out, its slot being taken over
WriteMarkerRest ==
  /\ proc = "up" /\ m.at = "marking"
  /\ disk' = [disk EXCEPT !.marker = {k \in @ : k.out # m.out}
                             \cup {[out |-> m.out, srcs |-> m.run \ {Oldest(m.run)}]}]
  /\ m' = [m EXCEPT !.at = "marked"]
  /\ UNCHANGED <<store, codec, dicts, w, rd, budget, policy, proc, log, clean, tidy, spent>>

WriteMarker ==
  /\ proc = "up" /\ m.at = "marking"
  /\ disk' = [disk EXCEPT !.marker = {k \in @ : k.out # m.out}
                             \cup {[out |-> m.out, srcs |-> m.run]}]
  /\ m' = [m EXCEPT !.at = "marked"]
  /\ UNCHANGED <<store, codec, dicts, w, rd, budget, policy, proc, log, clean, tidy, spent>>

\* flush, the marker or the rename fails: the staged file goes, the sources
\* stay, the pass ends.  A marker whose write failed is left as it is.
MergeAborts ==
  /\ proc = "up" /\ m.at \in {"staged", "marking", "marked"}
  /\ disk' = [disk EXCEPT !.tmp = @ \ {m.out},
                !.marker = IF m.at = "marked" THEN {k \in @ : k.out # m.out} ELSE @]
  /\ life' = [life EXCEPT ![m.out] = Retire(@)]
  /\ m' = Idle /\ budget' = NoBudget
  /\ UNCHANGED <<file, mem, codec, dicts, w, rd, policy, proc, log, clean, tidy, spent>>

RenameOut ==
  /\ proc = "up" /\ m.at = "marked"
  /\ disk' = [disk EXCEPT !.tmp = @ \ {m.out}, !.seg = @ \cup {m.out}]
  /\ m' = [m EXCEPT !.at = "renamed"]
  /\ UNCHANGED <<store, codec, dicts, w, rd, budget, policy, proc, log, clean, tidy, spent>>

\* the output takes the slot of the first source; no slot has moved, for
\* maintMu is held and Truncate is not called during a pass
PublishOut ==
  /\ proc = "up" /\ m.at = "renamed"
  /\ segs' = [i \in 1 .. Len(segs) |-> IF segs[i] \notin m.run THEN segs[i]
                                       ELSE IF segs[i] = Oldest(m.run) THEN m.out ELSE None]
  /\ life' = [f \in Files |-> IF f \in m.run THEN Retire(life[f]) ELSE life[f]]
  /\ m' = [m EXCEPT !.at = "reap", !.reap = {f \in m.run : ReapNow(life[f])}]
  /\ UNCHANGED <<file, act, commitSeq, count, counter, names, w, rd, budget, policy, proc, log, clean, tidy, spent>>

\* the marker goes although a pinned source may still be on disk
RemoveMarker ==
  /\ proc = "up" /\ m.op = "merge" /\ m.at = "reap" /\ m.reap = {}
  /\ disk' = [disk EXCEPT !.marker = {k \in @ : k.out # m.out}]
  /\ m' = [m EXCEPT !.at = "pick", !.run = {}, !.out = None]
  /\ budget' = [merges |-> budget.merges + 1, moved |-> budget.moved + Used(m.out)]
  /\ UNCHANGED <<store, codec, dicts, w, rd, policy, proc, log, clean, tidy, spent>>

----------------------------------------------------------------------------
(* Reseal in place: Rewrite (resealAppendOnly), InternSealed, RetrainDict  *)
(* (a new codec, then InternSealed) and UpgradeCodecPass (recodeSegment).  *)
(* The output is written under its final name, with no marker.             *)

Pass(op, todo) ==
  /\ proc = "up" /\ m.op = "idle" /\ spent.passes < MaxPasses
  /\ m' = [Idle EXCEPT !.op = op, !.at = "next", !.todo = todo]
  /\ spent' = [spent EXCEPT !.passes = @ + 1]
  /\ UNCHANGED <<file, life, segs, commitSeq, count, counter, disk, w, rd, budget,
                 policy, proc, log, clean, tidy>>

Inline == {f \in SealedSet : ~file[f].interned}

Rewrite == Pass("rewrite", InSlot) /\ InSlot # {} /\ act' = None /\ UNCHANGED <<codec, dicts>>

InternSealed == Pass("intern", Inline) /\ Inline # {} /\ UNCHANGED <<act, codec, dicts>>

RetrainDict ==
  /\ Pass("intern", Inline) /\ Max(dicts) < MaxCodecs
  /\ codec' = Max(dicts) + 1
  /\ dicts' = dicts \cup {codec'}
  /\ UNCHANGED act

UpgradeCodecPass ==
  LET cand == {f \in SealedSet : file[f].codec # codec}
  IN Pass("upgrade", cand) /\ cand # {} /\ UNCHANGED <<act, codec, dicts>>

\* projectRecodeGain says no, or the reseal fails: the source stays
SkipSource ==
  /\ proc = "up" /\ m.at = "next" /\ m.todo # {}
  /\ m' = [m EXCEPT !.todo = @ \ {Oldest(@)}]
  /\ UNCHANGED <<store, names, w, rd, budget, policy, proc, log, clean, tidy, spent>>

Build ==
  LET out == counter + 1
  IN \E src \in m.todo :
     /\ proc = "up" /\ m.at = "next" /\ src = Oldest(m.todo)
     /\ Used(src) > 0 /\ counter < MaxFiles
     /\ counter' = out
     /\ file' = [file EXCEPT ![out] = [Fresh(file[src].recs, codec) EXCEPT !.interned = TRUE]]
     /\ life' = [life EXCEPT ![out] = Mapped]
     /\ disk' = [disk EXCEPT !.seg = @ \cup {out}]
     /\ m' = [m EXCEPT !.at = "built", !.out = out, !.src = src, !.todo = @ \ {src}]
     /\ UNCHANGED <<segs, act, commitSeq, count, codec, dicts, w, rd, budget, policy, proc, log, clean, tidy, spent>>

\* the build fails after the file was made: nothing removes the file
BuildFails ==
  /\ proc = "up" /\ m.at = "built"
  /\ m' = [m EXCEPT !.at = "next", !.out = None, !.src = None]
  /\ UNCHANGED <<store, names, w, rd, budget, policy, proc, log, clean, tidy, spent>>

\* a mutant: the output goes to the end, where its file number is
SwapAtEnd ==
  /\ proc = "up" /\ m.at = "built"
  /\ segs' = Append([i \in 1 .. Len(segs) |-> IF segs[i] = m.src THEN None ELSE segs[i]], m.out)
  /\ life' = [life EXCEPT ![m.src] = Retire(@)]
  /\ m' = [m EXCEPT !.out = None, !.src = None, !.changed = TRUE, !.at = "next",
                    !.reap = IF ReapNow(life[m.src]) THEN @ \cup {m.src} ELSE @]
  /\ UNCHANGED <<file, act, commitSeq, count, counter, names, w, rd, budget, policy, proc, log, clean, tidy, spent>>

\* recodeSegment reaps at once, the other two at the end of their list
Swap ==
  /\ proc = "up" /\ m.at = "built"
  /\ segs' = [i \in 1 .. Len(segs) |-> IF segs[i] = m.src THEN m.out ELSE segs[i]]
  /\ life' = [life EXCEPT ![m.src] = Retire(@)]
  /\ m' = [m EXCEPT !.out = None, !.src = None, !.changed = TRUE,
                    !.at = IF m.op = "upgrade" THEN "reap" ELSE "next",
                    !.reap = IF ReapNow(life[m.src]) THEN @ \cup {m.src} ELSE @]
  /\ UNCHANGED <<file, act, commitSeq, count, counter, names, w, rd, budget, policy, proc, log, clean, tidy, spent>>

EndReap ==
  /\ proc = "up" /\ m.at = "next" /\ m.todo = {} /\ m.reap # {}
  /\ m' = [m EXCEPT !.at = "reap"]
  /\ UNCHANGED <<store, names, w, rd, budget, policy, proc, log, clean, tidy, spent>>

\* everything reaped: Reindex and pruneDicts, or the next source
EndPass ==
  /\ proc = "up" /\ m.op # "merge" /\ m.op # "idle" /\ m.reap = {}
  /\ \/ m.at = "reap" \/ (m.at = "next" /\ m.todo = {})
  /\ IF m.op = "upgrade" /\ m.todo # {}
     THEN m' = [m EXCEPT !.at = "next"] /\ UNCHANGED dicts
     ELSE /\ m' = Idle
          /\ dicts' = IF m.op = "rewrite" \/ m.changed THEN dicts \cap Pruned ELSE dicts
  /\ UNCHANGED <<store, codec, disk, w, rd, budget, policy, proc, log, clean, tidy, spent>>

----------------------------------------------------------------------------
(* Truncate, Close, the death of the process, and Open.                    *)

\* Truncate takes no maintMu; callers keep it away from the appender, and
\* here it is kept away from a pass as well
Truncate ==
  /\ proc = "up" /\ m.op = "idle" /\ w.at = "idle" /\ InSlot # {}
  /\ commitSeq < MaxSeq
  /\ life' = [f \in Files |-> IF f \in InSlot THEN Retire(life[f]) ELSE life[f]]
  /\ m' = [Idle EXCEPT !.op = "truncate", !.at = "reap",
                       !.reap = {f \in InSlot : ReapNow(life[f])}]
  /\ segs' = <<>> /\ act' = None /\ count' = 0
  /\ commitSeq' = commitSeq + 1
  /\ log' = <<>>
  /\ UNCHANGED <<file, counter, names, w, rd, budget, policy, proc, clean, tidy, spent>>

Close ==
  /\ proc = "up" /\ m.op = "idle" /\ w.at = "idle" /\ spent.crashes < MaxCrashes
  /\ proc' = "closed"
  /\ life' = [f \in Files |-> IF f \in InSlot THEN CloseUnmap(life[f]) ELSE life[f]]
  /\ spent' = [spent EXCEPT !.crashes = @ + 1]
  /\ UNCHANGED <<file, mem, names, w, rd, m, budget, policy, log, clean, tidy>>

\* no file but those of the slots and of a written marker would be loaded
Tidy == LET marked == UNION {k.srcs \cup {k.out} : k \in disk.marker}
        IN m.at # "marking" /\ disk.seg \subseteq Range(segs) \cup marked

Lost == /\ segs' = <<>> /\ act' = None /\ commitSeq' = 0 /\ count' = 0 /\ counter' = 0
        /\ codec' = 0 /\ w' = Resting /\ m' = Idle
        /\ budget' = NoBudget /\ floor' = 0
        /\ rd' = [r \in Readers |-> NotReading]

\* the files stay as the mappings left them; a reseal's output may hold any
\* part of its records, of which the dictionary that makes it interned is last
Crash ==
  /\ \/ proc = "up" /\ spent.crashes < MaxCrashes /\ spent' = [spent EXCEPT !.crashes = @ + 1]
     \/ proc = "closed" /\ UNCHANGED spent
  /\ proc' = "down"
  /\ \E k \in IF m.at = "built" THEN 0 .. Used(m.out) + 1 ELSE {0} :
       file' = [f \in Files |->
                  [file[f] EXCEPT !.recs = IF m.at = "built" /\ f = m.out THEN SubSeq(@, 1, Min({k, Used(f)})) ELSE @,
                                  !.interned = @ /\ (m.at = "built" /\ f = m.out => k > Used(f)),
                                  !.zone = NoZone]]
  /\ life' = [f \in Files |-> Mapped]
  /\ Lost
  /\ tidy' = Tidy
  /\ UNCHANGED <<dicts, disk, ret, log, clean>>

\* finishPendingMerges, a file operation at a time; a death in between
\* leaves the directory for the next Open to go on with
FinishMerge ==
  /\ proc = "down"
  /\ \E k \in disk.marker :
       LET left == (k.srcs \ {k.out}) \cap disk.seg
       IN disk' = IF k.out \notin disk.seg /\ k.out \in disk.tmp
                  THEN [disk EXCEPT !.tmp = @ \ {k.out}, !.seg = @ \cup {k.out}]
                  ELSE IF k.out \in disk.seg /\ left # {}
                  THEN [disk EXCEPT !.seg = @ \ {Min(left)}]
                  ELSE [disk EXCEPT !.marker = @ \ {k}]
  /\ UNCHANGED <<store, codec, dicts, w, rd, m, budget, policy, proc, log, clean, tidy, spent>>

DropStaged ==
  /\ proc = "down" /\ disk.marker = {} /\ disk.tmp # {}
  /\ disk' = [disk EXCEPT !.tmp = {}]
  /\ UNCHANGED <<store, codec, dicts, w, rd, m, budget, policy, proc, log, clean, tidy, spent>>

\* append order is the order of first records, empty segments last
Before(f, g) ==
  LET rank(x) == IF Used(x) = 0 THEN MaxSeq + 1 ELSE file[x].recs[1].seq
  IN rank(f) < rank(g) \/ (rank(f) = rank(g) /\ f < g)

Loaded(set) == [i \in 1 .. Cardinality(set) |->
                  CHOOSE f \in set : Cardinality({g \in set : Before(g, f)}) = i - 1]

InOrder(s) == \A i, j \in 1 .. Len(s) : i < j => Before(s[i], s[j])

Openable == \A f \in disk.seg : file[f].named \in dicts

Open ==
  /\ proc = "down" /\ disk.marker = {} /\ disk.tmp = {} /\ Openable
  /\ \E n \in disk.seg \cup {0} : (\A f \in disk.seg : f <= n) /\ counter' = n
  /\ \E s \in {t \in [1 .. Cardinality(disk.seg) -> disk.seg] : InOrder(t)} :
       LET recs == RecsOf(s)
           a == IF s = <<>> THEN None ELSE IF file[s[Len(s)]].interned THEN None ELSE s[Len(s)]
       IN /\ segs' = s /\ act' = a
          /\ commitSeq' = IF recs = <<>> THEN 0 ELSE Max({recs[i].seq : i \in 1 .. Len(recs)})
          /\ count' = Len(recs)
          /\ file' = [f \in Files |-> IF f \in disk.seg
                THEN [file[f] EXCEPT !.codec = file[f].named,
                                     !.zone = IF f = a THEN NoZone ELSE ZoneOf(file[f].recs)]
                ELSE NoFile]
          /\ clean' = (clean /\ recs = log /\ \A f \in disk.seg : file[f].named = file[f].enc)
  /\ proc' = "up"
  /\ codec' = Max(dicts)
  /\ dicts' = dicts \cap ({0, codec'} \cup {file[f].named : f \in disk.seg})
  /\ UNCHANGED <<life, disk, w, rd, m, budget, policy, log, tidy, spent>>

\* a segment names a dictionary that is gone: Open returns the error
OpenFails ==
  /\ proc = "down" /\ disk.marker = {} /\ disk.tmp = {} /\ ~Openable
  /\ UNCHANGED vars

Init ==
  /\ file = [f \in Files |-> NoFile] /\ life = [f \in Files |-> Mapped]
  /\ segs = <<>> /\ act = None /\ commitSeq = 0 /\ count = 0 /\ counter = 0
  /\ codec = 0 /\ dicts = {0} /\ disk = [seg |-> {}, tmp |-> {}, marker |-> {}]
  /\ w = Resting /\ rd = [r \in Readers |-> NotReading] /\ m = Idle /\ budget = NoBudget
  /\ ret = Configured /\ floor = 0
  /\ proc = "up" /\ log = <<>> /\ clean = TRUE /\ tidy = TRUE
  /\ spent = [passes |-> 0, tunes |-> 0, crashes |-> 0]

Appending == (\E a \in Ages(commitSeq + 1) : Encode(a)) \/ Commit
Reading == \E r \in Readers : (\E ask \in Asks : Begin(r, ask)) \/ Visit(r) \/ Release(r)
Keeping == (\E n \in Nows : Rotate(n)) \/ (\E r \in Retentions : SetRetention(r)) \/ (\E v \in Floors : SetGCFloor(v))
Merging == MergePass \/ Stage \/ MergeDone \/ CreateMarker \/ WriteMarker \/ MergeAborts \/ RenameOut
           \/ PublishOut \/ RemoveMarker
Resealing == Rewrite \/ InternSealed \/ RetrainDict \/ UpgradeCodecPass \/ SkipSource
             \/ Build \/ BuildFails \/ Swap \/ EndReap \/ EndPass
Stopping == Truncate \/ Close \/ Crash \/ FinishMerge \/ DropStaged \/ Open \/ OpenFails

Next == Appending \/ Reading \/ Keeping \/ Merging \/ Resealing \/ Reap \/ Stopping

Spec == Init /\ [][Next]_vars
----------------------------------------------------------------------------
(* Properties.                                                             *)

\* A scan never touches a mapping that is gone: rotation, merging, reseal and
\* Close retire the segments it walks, and the last unpin tears them down.
PinnedMapped ==
  \A r \in Readers : \A win \in rd[r].wins :
    r \in life[win.f].pins /\ ~life[win.f].reaped

\* A finished scan delivered exactly the newest matching records the archive
\* held when it began, each once and newest first, whatever was rotated,
\* merged or resealed meanwhile, and after every clean reopening.
ScanExact ==
  \A r \in Readers : (clean /\ rd[r].at = "done") => rd[r].got = rd[r].due

\* What Open would recover from the directory as it is: the files left once
\* the pending merges are finished, in order.
Recovered ==
  LET fin == {k \in disk.marker : k.out \in disk.seg \cup disk.tmp}
      set == (disk.seg \cup {k.out : k \in fin}) \ UNION {k.srcs \ {k.out} : k \in fin}
  IN RecsOf(Loaded(set))

\* A process that dies in the middle of a merge, a rotation, an append or the
\* recovery itself leaves a directory from which Open recovers every record
\* the archive holds, each once and in append order, provided no stray file
\* is there (an unlinked-later source or a reseal's output).
RecoveryExact ==
  (clean /\ IF proc = "down" THEN tidy ELSE Tidy) => Recovered = log

\* A retired segment does not keep its file: it waits for a reader's unpin or
\* for the pass that retired it.
RetiredUnlinked ==
  \A f \in disk.seg : life[f].retired => life[f].pins # {} \/ f \in m.reap

\* Rotation by age drops no record the bounds protect: with no size ceiling,
\* a dropped record is past MaxAge, or consumed and past MinAge.
YoungKept ==
  [][\A now \in Nows : (clean /\ ret.maxSegs = 0 /\ ret.maxBytes = 0 /\ log' # log /\ Rotate(now)) =>
       \A i \in 1 .. Len(log) - Len(log') :
         \/ log[i].age = Absent
         \/ ret.maxAge > 0 /\ log[i].age < now - ret.maxAge
         \/ floor > 0 /\ log[i].age < floor
            /\ (ret.minAge = 0 \/ log[i].age < now - ret.minAge)]_vars
=============================================================================
