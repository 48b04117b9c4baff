----------------------------- MODULE Compaction -----------------------------
(***************************************************************************)
(* A shard under full compaction (collections/compact.go compactShard):    *)
(* phase 1 picks the sources under the lock, phase 2 copies their records  *)
(* into private segments without it, phase 3 installs the copies under it. *)
(* Clients and the sealing pass run between any two of these steps; other  *)
(* reclaim does not (maintMu).                                             *)
(***************************************************************************)
EXTENDS Shard

CONSTANT MaxCompactions   \* bound on the compactions of a behaviour

ASSUME MaxCompactionsAssumption == MaxCompactions \in Nat

VARIABLES
  cpc,      \* "idle" or "copy"
  cretain,  \* retain, as captured in phase 1
  csrc,     \* source segments
  corig,    \* segments that existed in phase 1 (ids below origLen)
  cleft,    \* source records not copied yet
  moved,    \* <<source, copy>> of the current versions copied
  clive,    \* destination segments of the live stream
  chist,    \* destination segments of the history stream
  ccur,     \* live segment being filled, or NoSeg
  chcur,    \* history segment being filled, or NoSeg
  cruns     \* compactions started

cvars == <<cpc, cretain, csrc, corig, cleft, moved, clive, chist, ccur, chcur, cruns>>
allvars == <<vars, cvars>>

\* A pure-history segment still inside the travel window is left in place.
InWindowHistory(g, retain) ==
  /\ \A l \in RecsOf(g) : ~IsCurrent(l)
  /\ \E l \in RecsOf(g) : log[l].sup > retain

\* Phase 1.
CompactBegin ==
  /\ cpc = "idle"
  /\ cruns < MaxCompactions
  /\ lock = Free
  /\ \E retain \in RetainFloors :
       LET sources == {g \in segs : RecsOf(g) # {} /\ ~InWindowHistory(g, retain)}
       IN  /\ cretain' = retain
           /\ csrc' = sources
           /\ cleft' = {l \in Locs : log[l].seg \in sources}
  /\ corig' = segs
  /\ act' = NoSeg
  /\ cpc' = "copy"
  /\ cruns' = cruns + 1
  /\ UNCHANGED <<moved, clive, chist, ccur, chcur>>
  /\ UNCHANGED <<log, bucket, head, segs, nextSeg, count, seal, commitSeq, gcFloor,
                 section, txn, scan, hist>>

Full(g) == g = NoSeg \/ Cardinality(RecsOf(g)) >= SegCap

\* Append a copy of record l to the segment cur of a stream.
CopyTo(l, cur) ==
  LET g == IF Full(cur) THEN nextSeg ELSE cur
  IN  /\ log' = Append(log, [log[l] EXCEPT !.seg = g])
      /\ nextSeg' = IF Full(cur) THEN nextSeg + 1 ELSE nextSeg

\* A current version goes to the live stream...
CopyLive(l) ==
  /\ IsCurrent(l)
  /\ CopyTo(l, ccur)
  /\ moved' = moved \cup {<<l, Len(log) + 1>>}
  /\ ccur' = IF Full(ccur) THEN nextSeg ELSE ccur
  /\ clive' = clive \cup {ccur'}
  /\ UNCHANGED <<chist, chcur>>

\* ...one superseded inside the window to the history stream...
CopyHistory(l) ==
  /\ ~IsCurrent(l)
  /\ log[l].sup > cretain
  /\ CopyTo(l, chcur)
  /\ chcur' = IF Full(chcur) THEN nextSeg ELSE chcur
  /\ chist' = chist \cup {chcur'}
  /\ UNCHANGED <<moved, clive, ccur>>

\* ...and an older one is dropped.
CopyNothing(l) ==
  /\ ~IsCurrent(l)
  /\ log[l].sup <= cretain
  /\ UNCHANGED <<log, nextSeg, moved, clive, chist, ccur, chcur>>

\* Phase 2, one source record, read as it is now, without the lock.
CompactCopy ==
  /\ cpc = "copy"
  /\ \E l \in cleft :
       /\ \A m \in cleft : l <= m
       /\ CopyLive(l) \/ CopyHistory(l) \/ CopyNothing(l)
       /\ cleft' = cleft \ {l}
  /\ UNCHANGED <<cpc, cretain, csrc, corig, cruns>>
  /\ UNCHANGED <<bucket, head, segs, act, count, seal, commitSeq, gcFloor,
                 section, txn, scan, hist>>

CompactReset ==
  /\ cpc' = "idle" /\ cretain' = 0 /\ csrc' = {} /\ corig' = {} /\ cleft' = {}
  /\ moved' = {} /\ clive' = {} /\ chist' = {} /\ ccur' = NoSeg /\ chcur' = NoSeg
  /\ UNCHANGED cruns

\* A record that cannot be decoded: the private copies are thrown away.
CompactAbort ==
  /\ cpc = "copy"
  /\ CompactReset
  /\ UNCHANGED vars

\* Mutant: supersessions during the copy are not transferred.
Untransferred == log

\* Mutant: transferred at the sequence of the install, also to ended versions.
TransferredNow ==
  [d \in Locs |-> IF \E x \in moved : ~IsCurrent(x[1]) /\ d \in {x[1], x[2]}
                  THEN [log[d] EXCEPT !.sup = commitSeq] ELSE log[d]]

\* Phase 3: supersessions that happened during the copy reach the copies
Transferred ==
  LET copyOf(d) == {m[1] : m \in {x \in moved : x[2] = d}}
  IN  [d \in Locs |-> IF \E l \in copyOf(d) : ~IsCurrent(l)
                      THEN [log[d] EXCEPT !.sup = log[CHOOSE l \in copyOf(d) : ~IsCurrent(l)].sup]
                      ELSE log[d]]

\* Mutant: the segments written during the copy are forgotten.
NoneSince(post) == {}

\* Current copies, and current records of the segments written meanwhile.
CurrentCopies == {m[2] : m \in {x \in moved : IsCurrent(x[1])}}
CurrentSince(post) == {l \in Locs : log[l].seg \in post /\ IsCurrent(l)}

\* The rebuilt chains: copies in the order they were made, later writes in front.
RebuiltHead(h, copies, later) ==
  LET mine == {l \in (IF \E l \in later : Hash[log[l].key] = h THEN later ELSE copies) :
                 Hash[log[l].key] = h}
  IN  IF mine = {} THEN {NoLoc} ELSE {l \in mine : \A m \in mine : m <= l}

\* Mutant: the directory is patched, not rebuilt, and the count kept.
InstallPatched(post) ==
  LET copies == CurrentCopies
  IN  /\ log' = Transferred
      /\ bucket' = [h \in Buckets |-> bucket[h] \cup {l \in copies : Hash[log[l].key] = h}]
      /\ UNCHANGED <<head, act>>
      /\ segs' = (segs \ csrc) \cup clive \cup chist
      /\ count' = count + Cardinality(copies)
      /\ gcFloor' = Max2(gcFloor, cretain)

\* Mutant: every segment of phase 1 is retired, kept history too.
InstallRetiringAll(post) ==
  LET copies == CurrentCopies
      later == CurrentSince(post)
  IN  /\ log' = Transferred
      /\ bucket' = [h \in Buckets |-> {l \in copies \cup later : Hash[log[l].key] = h}]
      /\ head' \in {hd \in [Buckets -> Locs \cup {NoLoc}] :
                    \A h \in Buckets : hd[h] \in RebuiltHead(h, copies, later)}
      /\ segs' = (segs \ corig) \cup clive \cup chist
      /\ count' = Cardinality(copies \cup later)
      /\ act' = IF ~Persistent /\ ccur # NoSeg THEN ccur ELSE act
      /\ gcFloor' = Max2(gcFloor, cretain)

Install(post) ==
  LET copies == CurrentCopies
      later == CurrentSince(post)
  IN  /\ log' = Transferred
      /\ bucket' = [h \in Buckets |-> {l \in copies \cup later : Hash[log[l].key] = h}]
      /\ head' \in {hd \in [Buckets -> Locs \cup {NoLoc}] :
                    \A h \in Buckets : hd[h] \in RebuiltHead(h, copies, later)}
      /\ segs' = (segs \ csrc) \cup clive \cup chist
      /\ count' = Cardinality(copies \cup later)
      /\ act' = IF ~Persistent /\ ccur # NoSeg THEN ccur ELSE act
      /\ gcFloor' = Max2(gcFloor, cretain)

CompactInstall ==
  /\ cpc = "copy"
  /\ cleft = {}
  /\ lock = Free
  /\ Install(segs \ corig)
  /\ CompactReset
  /\ UNCHANGED <<nextSeg, seal, commitSeq, section, txn, scan, hist>>

-----------------------------------------------------------------------------
CInit ==
  /\ Init
  /\ cpc = "idle" /\ cretain = 0 /\ csrc = {} /\ corig = {} /\ cleft = {}
  /\ moved = {} /\ clive = {} /\ chist = {} /\ ccur = NoSeg /\ chcur = NoSeg
  /\ cruns = 0

Compacting == CompactBegin \/ CompactCopy \/ CompactAbort \/ CompactInstall

CNext ==
  \/ (Traffic \/ Sealing) /\ UNCHANGED cvars
  \/ cpc = "idle" /\ Reclaim /\ UNCHANGED cvars
  \/ Compacting

CSpec == CInit /\ [][CNext]_allvars

-----------------------------------------------------------------------------
(* Properties. The invariants of Shard are checked of this specification     *)
(* too; FirstCommitterWins holds of it only in the weaker form below.        *)

\* A write accepted on a key that is live was decided exactly: nobody changed
\* the key after the transaction's snapshot, compaction notwithstanding
\* (conflictSince: "a key with a live record is always decided exactly").
NoLostUpdate ==
  \A t \in Txns, k \in Keys :
    lock = t /\ out[t][k] = "ok" /\ VersionAt(k, commitSeq) # {} => ~ChangedSince(k, snap[t])
=============================================================================
