------------------------------- MODULE Shard -------------------------------
(***************************************************************************)
(* One shard of a collection (collections/shard.go, txn.go, commit.go):    *)
(* versioned records appended to segments, the resident directory of hash  *)
(* buckets, the key index of sealed segments that replaces evicted buckets,*)
(* the group-commit batch and the optimistic transactions that write it,   *)
(* the scans that read it without a lock, and the maintenance that runs    *)
(* under one lock: unlinking dead segments, eviction and Truncate.         *)
(* Full compaction, which drops the lock in the middle, is in Compaction.  *)
(*                                                                         *)
(* Abstracted data: an ad is identified by its key and commit sequence; a  *)
(* location is an index of `log', the arena of all records ever written; a *)
(* segment holds SegCap records; a bucket's chain is the set of its        *)
(* records with its head, the only position the code tells apart.          *)
(* Time-checkpoint markers hold no ad and are left to the time index.      *)
(***************************************************************************)
EXTENDS Integers, FiniteSets, Sequences

CONSTANTS
  Keys,            \* keys of this shard
  Buckets,         \* values of the hash
  Hash,            \* the Hasher: Keys -> Buckets, possibly with collisions
  Txns,            \* transactions that may be open at once
  Scanners,        \* concurrent scans
  Batches,         \* key lists a flusher may be handed (bound on a batch)
  SegCap,          \* records that fit a segment
  SeqMax,          \* seqMax: "not superseded"; sequences stay below it (bound)
  Persistent,      \* the shard has a directory (alloc # nil)
  TimeTravel,      \* a TimeTravel window is configured
  AllocMayFail,    \* creating a segment file may fail
  SidecarMayFail,  \* writing a key sidecar may fail
  TruncateRaces    \* a caller may Truncate while a sealing pass is in flight

NoSeg == 0         \* nil segment
NoLoc == 0         \* noLoc
NoSnap == -1       \* snapshot not captured yet
Free == "free"     \* nobody holds the write lock
Batch == "batch"   \* the flusher holds it

ASSUME SeqMaxAssumption == SeqMax \in Nat \ {0}
ASSUME SegCapAssumption == SegCap \in Nat \ {0}
ASSUME HashAssumption == Hash \in [Keys -> Buckets]
ASSUME BatchesAssumption == Batches \subseteq Seq(Keys)
ASSUME HolderAssumption == Free \notin Txns /\ Batch \notin Txns
ASSUME FlagsAssumption ==
  /\ Persistent \in BOOLEAN /\ TimeTravel \in BOOLEAN
  /\ AllocMayFail \in BOOLEAN /\ SidecarMayFail \in BOOLEAN
  /\ TruncateRaces \in BOOLEAN

VARIABLES
  log,        \* location -> [key, seq, sup, seg]
  bucket,     \* bucket -> locations on its chain
  head,       \* bucket -> first location of its chain (sh.dir), or NoLoc
  segs,       \* live segments (non-nil slots of sh.segs)
  act,        \* append target, or NoSeg
  nextSeg,    \* next segment identity
  indexed,    \* segments that carry a key index (keyIdx # nil)
  sealing,    \* segments pinned by a sealAndEvictShard in flight
  base,       \* segments made before the last Truncate: ids count from there
  sealBase,   \* base when the segments of `sealing' were pinned
  commitSeq, gcFloor, count,
  lock,       \* write-lock holder across the writes of one commit
  todo,       \* keys the flusher has still to put
  changed,    \* applyTxn's changed
  pend,       \* what the commit in progress has done to each key
  fast,       \* applyTxn's fast
  phase, snap, buf, out,   \* transactions: state, snapshot, writes, outcomes
  scan,       \* scans in flight
  hist        \* history variable: commit sequence -> what it did to each key

arena == <<log, bucket, head, segs, act, nextSeg, count>>
seal == <<indexed, sealing, base, sealBase>>
section == <<lock, todo, changed, pend, fast>>
txn == <<phase, snap, buf, out>>
vars == <<log, bucket, head, segs, act, nextSeg, count, indexed, sealing,
          base, sealBase, commitSeq, gcFloor, lock, todo, changed, pend, fast,
          phase, snap, buf, out, scan, hist>>

Locs == DOMAIN log
Ops == {"none", "put", "del"}
Outcomes == {"none", "ok", "conflict"}
Quiet == [k \in Keys |-> "none"]
Max2(a, b) == IF a > b THEN a ELSE b

-----------------------------------------------------------------------------
(* Records and segments. *)

Record(k, s, g) == [key |-> k, seq |-> s, sup |-> SeqMax, seg |-> g]

\* recSuperseded(...) == seqMax
IsCurrent(l) == log[l].sup = SeqMax

\* Mutant: the version current now instead of at s.
VisibleNow(l, s) == log[l].seq <= s /\ IsCurrent(l)

\* forEachVisible's test: seq <= s0 < supersededBySeq
VisibleAt(l, s) == log[l].seq <= s /\ s < log[l].sup

RecsOf(g) == {l \in Locs : log[l].seg = g}

\* writeRecord: the active segment is missing or too full for one more record.
NeedsSegment == act = NoSeg \/ Cardinality(RecsOf(act)) >= SegCap

\* dead >= used and maxSup <= s
DeadBy(g, s) == \A l \in RecsOf(g) : log[l].sup <= s

\* segment.visibleAt: some record might be visible at s.
SegVisibleAt(g, s) == (\E l \in RecsOf(g) : log[l].seq <= s) /\ ~DeadBy(g, s)

-----------------------------------------------------------------------------
(* Lookups: the bucket chain first, then the sealed segments' key indexes. *)

ChainOf(k) == {l \in bucket[Hash[k]] : log[l].key = k}

\* forEachSealedRecord
SealedOf(k) ==
  {l \in Locs : log[l].key = k /\ log[l].seg \in (segs \cap indexed) \ {act}}

\* Mutant: the sealed segments are forgotten.
FindCurrentOnChain(k) == {l \in ChainOf(k) : IsCurrent(l)}

\* findCurrent, else lookupSealed
FindCurrent(k) ==
  LET onChain == {l \in ChainOf(k) : IsCurrent(l)}
  IN  IF onChain # {} THEN onChain ELSE {l \in SealedOf(k) : IsCurrent(l)}

\* Mutant: the sealed segments are forgotten.
FindVisibleOnChain(k, s) == {l \in ChainOf(k) : VisibleAt(l, s)}

\* findVisible, else lookupSealedAt
FindVisible(k, s) ==
  LET onChain == {l \in ChainOf(k) : VisibleAt(l, s)}
  IN  IF onChain # {} THEN onChain ELSE {l \in SealedOf(k) : VisibleAt(l, s)}

\* Mutant: a version written after the snapshot is not looked for.
SupersededAfter(l, s) == ~IsCurrent(l) /\ log[l].sup > s

\* Mutant: off by one at the snapshot.
ChangedAtOrAfter(l, s) == log[l].seq >= s \/ (~IsCurrent(l) /\ log[l].sup > s)

ChangedAfter(l, s) == log[l].seq > s \/ (~IsCurrent(l) /\ log[l].sup > s)

\* Mutant: gcFloor is not consulted.
ConflictInChain(k, s) == \E l \in ChainOf(k) \cup SealedOf(k) : ChangedAfter(l, s)

ConflictSince(k, s) ==
  LET found == ChainOf(k) \cup SealedOf(k)
  IN  \/ \E l \in found : ChangedAfter(l, s)
      \/ (\A l \in found : ~IsCurrent(l)) /\ s < gcFloor

\* The first record a lookup finds, as a set of at most one location.
First(S) == IF S = {} THEN {{}} ELSE {{l} : l \in S}

-----------------------------------------------------------------------------
(* What the holder of the write lock does to the arena. *)

Superseded(lg, S, s) ==
  [l \in DOMAIN lg |-> IF l \in S THEN [lg[l] EXCEPT !.sup = s] ELSE lg[l]]

\* shard.put, the record written to segment g
PutIn(k, s, g) ==
  LET l == Len(log) + 1
      h == Hash[k]
  IN  \E old \in First(FindCurrent(k)) :
        /\ log' = Append(Superseded(log, old, s), Record(k, s, g))
        /\ bucket' = [bucket EXCEPT ![h] = @ \cup {l}]
        /\ head' = [head EXCEPT ![h] = l]
        /\ count' = IF old = {} THEN count + 1 ELSE count

\* writeRecord: into the active segment, or into a fresh one
PutWritten(k, s) ==
  \/ /\ ~NeedsSegment
     /\ PutIn(k, s, act)
     /\ UNCHANGED <<segs, act, nextSeg>>
  \/ /\ NeedsSegment
     /\ PutIn(k, s, nextSeg)
     /\ segs' = segs \cup {nextSeg}
     /\ act' = nextSeg
     /\ nextSeg' = nextSeg + 1

\* allocSeg failed: writeErr is set and the key is left as it was
PutFailed == Persistent /\ AllocMayFail /\ NeedsSegment /\ UNCHANGED arena

\* shard.put under the lock, with what it did to the key
ShardPut(k, s) ==
  \/ PutWritten(k, s) /\ pend' = [pend EXCEPT ![k] = "put"]
  \/ PutFailed /\ UNCHANGED pend

\* shard.del found a live version in S
DelFound(k, s) ==
  \E l \in FindCurrent(k) :
    /\ log' = Superseded(log, {l}, s)
    /\ count' = count - 1
    /\ UNCHANGED <<bucket, head, segs, act, nextSeg>>

Commit(did) ==
  /\ commitSeq' = commitSeq + 1
  /\ hist' = Append(hist, did)

-----------------------------------------------------------------------------
(* The flusher (commit.go applyWrites / applyOne / applyBatch): all the     *)
(* writes of a batch under one lock, at one fresh sequence.                 *)

LockBatch ==
  /\ lock = Free
  /\ commitSeq + 1 < SeqMax
  /\ \E b \in Batches : b # <<>> /\ todo' = b
  /\ lock' = Batch
  /\ pend' = Quiet
  /\ UNCHANGED <<arena, seal, commitSeq, gcFloor, changed, fast, txn, scan, hist>>

ApplyBatch ==
  /\ lock = Batch
  /\ todo # <<>>
  /\ ShardPut(Head(todo), commitSeq + 1)
  /\ todo' = Tail(todo)
  /\ UNCHANGED <<seal, commitSeq, gcFloor, lock, changed, fast, txn, scan, hist>>

UnlockBatch ==
  /\ lock = Batch
  /\ todo = <<>>
  /\ Commit(pend)
  /\ lock' = Free
  /\ pend' = Quiet
  /\ UNCHANGED <<arena, seal, gcFloor, todo, changed, fast, txn, scan>>

\* Collection.Delete: nothing happens unless the key is live
Delete(k) ==
  /\ lock = Free
  /\ commitSeq + 1 < SeqMax
  /\ DelFound(k, commitSeq + 1)
  /\ Commit([Quiet EXCEPT ![k] = "del"])
  /\ UNCHANGED <<seal, gcFloor, section, txn, scan>>

-----------------------------------------------------------------------------
(* Transactions (txn.go). *)

Begin(t) ==
  /\ phase[t] = "idle"
  /\ phase' = [phase EXCEPT ![t] = "open"]
  /\ UNCHANGED <<arena, seal, commitSeq, gcFloor, section, snap, buf, out, scan, hist>>

\* snapOf: captured by the first Get, Put or Delete, under the read lock
SnapOf(t) == IF snap[t] = NoSnap THEN commitSeq ELSE snap[t]

Touch(t) ==
  /\ snap[t] = NoSnap => lock = Free
  /\ snap' = [snap EXCEPT ![t] = SnapOf(t)]

\* Txn.Get of a key with no buffered write; what it returns is FindVisible
TxnGet(t) ==
  /\ phase[t] = "open"
  /\ snap[t] = NoSnap
  /\ Touch(t)
  /\ UNCHANGED <<arena, seal, commitSeq, gcFloor, section, phase, buf, out, scan, hist>>

\* Txn.Put and Txn.Delete: the last write to a key wins; one goroutine uses a
\* Txn, so there are none during its Commit
TxnWrite(t, k, op) ==
  /\ phase[t] = "open" /\ lock # t
  /\ Touch(t)
  /\ buf' = [buf EXCEPT ![t][k] = op]
  /\ UNCHANGED <<arena, seal, commitSeq, gcFloor, section, phase, out, scan, hist>>

\* applyTxn takes the lock
LockTxn(t) ==
  /\ phase[t] = "open"
  /\ buf[t] # Quiet
  /\ lock = Free
  /\ commitSeq + 1 < SeqMax
  /\ lock' = t
  /\ fast' = (commitSeq = snap[t])
  /\ changed' = FALSE
  /\ pend' = Quiet
  /\ UNCHANGED <<arena, seal, commitSeq, gcFloor, todo, txn, scan, hist>>

Decide(t, k, o) == out' = [out EXCEPT ![t][k] = o]

\* applyTxn's loop body for the write of key k, in the map's arbitrary order
ApplyTxn(t, k) ==
  /\ lock = t
  /\ buf[t][k] # "none"
  /\ out[t][k] = "none"
  /\ \/ /\ ~fast /\ ConflictSince(k, snap[t])
        /\ Decide(t, k, "conflict")
        /\ UNCHANGED <<arena, changed, pend>>
     \/ /\ fast \/ ~ConflictSince(k, snap[t])
        /\ Decide(t, k, "ok")
        /\ \/ /\ buf[t][k] = "put"
              /\ ShardPut(k, commitSeq + 1)
              /\ changed' = TRUE
           \/ /\ buf[t][k] = "del"
              /\ DelFound(k, commitSeq + 1)
              /\ changed' = TRUE
              /\ pend' = [pend EXCEPT ![k] = "del"]
           \/ /\ buf[t][k] = "del"
              /\ FindCurrent(k) = {}
              /\ UNCHANGED <<arena, changed, pend>>
  /\ UNCHANGED <<seal, commitSeq, gcFloor, lock, todo, fast, phase, snap, buf, scan, hist>>

\* the lock is released, the outcomes are returned and the Txn is used no more
UnlockTxn(t) ==
  /\ lock = t
  /\ \A k \in Keys : buf[t][k] # "none" => out[t][k] # "none"
  /\ IF changed THEN Commit(pend) ELSE UNCHANGED <<commitSeq, hist>>
  /\ lock' = Free
  /\ pend' = Quiet
  /\ changed' = FALSE
  /\ fast' = FALSE
  /\ phase' = [phase EXCEPT ![t] = "idle"]
  /\ snap' = [snap EXCEPT ![t] = NoSnap]
  /\ buf' = [buf EXCEPT ![t] = Quiet]
  /\ out' = [out EXCEPT ![t] = Quiet]
  /\ UNCHANGED <<arena, seal, gcFloor, todo, scan>>

-----------------------------------------------------------------------------
(* Scans: shard.snapshot / snapshotAt freeze the segments, forEachVisible   *)
(* then reads their records without the lock.                               *)

Idle == [s0 |-> NoSnap, left |-> {}, seen |-> {}]

\* The sequences a scan may ask for: the current one, or one of the window.
ScanSeqs == IF TimeTravel THEN gcFloor .. commitSeq ELSE {commitSeq}

\* buildWindowsLocked: every segment that might hold a visible record
ScanBegin(p) ==
  /\ lock = Free
  /\ scan[p].s0 = NoSnap
  /\ \E s \in ScanSeqs :
       LET wins == {g \in segs : SegVisibleAt(g, s)}
       IN  scan' = [scan EXCEPT ![p] =
             [s0 |-> s, left |-> {l \in Locs : log[l].seg \in wins}, seen |-> {}]]
  /\ UNCHANGED <<arena, seal, commitSeq, gcFloor, section, txn, hist>>

\* forEachVisible tests the next record with the superseded field as it is now
ScanVisit(p) ==
  \E l \in scan[p].left :
    /\ \A m \in scan[p].left : l <= m
    /\ scan' = [scan EXCEPT ![p].left = @ \ {l},
                            ![p].seen = IF VisibleAt(l, scan[p].s0) THEN @ \cup {l} ELSE @]
    /\ UNCHANGED <<arena, seal, commitSeq, gcFloor, section, txn, hist>>

\* releaseWindows
ScanEnd(p) ==
  /\ scan[p].s0 # NoSnap
  /\ scan[p].left = {}
  /\ scan' = [scan EXCEPT ![p] = Idle]
  /\ UNCHANGED <<arena, seal, commitSeq, gcFloor, section, txn, hist>>

-----------------------------------------------------------------------------
(* Maintenance that holds the lock throughout. *)

\* retainFloorLocked: with a window, the sequence current at its far edge
RetainFloors == IF TimeTravel THEN 0 .. commitSeq ELSE {commitSeq}

\* Chains are in commit order: put links a new record in front.
Newer(l, m) == log[l].seq > log[m].seq \/ (log[l].seq = log[m].seq /\ l > m)
Newest(S) == {l \in S : \A m \in S : m = l \/ Newer(l, m)}

\* The head of a chain of which only the records of S stay: the old one, or
\* the next that stays.
SplicedHead(h, S) ==
  IF head[h] \in S THEN {head[h]} ELSE IF S = {} THEN {NoLoc} ELSE Newest(S)

\* reclaimDeadShard: splice the dead segments out of every chain and unlink them
Reclaim ==
  /\ lock = Free
  /\ \E retain \in RetainFloors :
       LET dead == {g \in segs \ {act} : RecsOf(g) # {} /\ DeadBy(g, retain)}
           rest == [h \in Buckets |-> {l \in bucket[h] : log[l].seg \notin dead}]
       IN  /\ dead # {}
           /\ segs' = segs \ dead
           /\ bucket' = rest
           /\ head' \in {hd \in [Buckets -> Locs \cup {NoLoc}] :
                         \A h \in Buckets : hd[h] \in SplicedHead(h, rest[h])}
           /\ gcFloor' = Max2(gcFloor, retain)
  /\ UNCHANGED <<log, act, nextSeg, count, seal, commitSeq, section, txn, scan, hist>>

\* sealAndEvictShard, phase A: pinSealed
SealBegin ==
  /\ Persistent
  /\ lock = Free
  /\ sealing = {}
  /\ segs \ {act} # {}
  /\ sealing' = segs \ {act}
  /\ sealBase' = base
  /\ UNCHANGED <<arena, indexed, base, commitSeq, gcFloor, section, txn, scan, hist>>

\* phase B: sealSegmentIndex of a pinned segment, off the lock
SealIndex(g) ==
  /\ g \in sealing \ indexed
  /\ indexed' = indexed \cup {g}
  /\ UNCHANGED <<arena, sealing, base, sealBase, commitSeq, gcFloor, section, txn, scan, hist>>

\* evictSegKeys over the pinned segments G: the bucket of one of their keys, if
\* its head has the id of the segment. The id is the slot in sh.segs.
EvictedBy(h, G) ==
  /\ head[h] # NoLoc
  /\ \E g \in G :
       /\ log[head[h]].seg - base = g - sealBase
       /\ \E l \in RecsOf(g) : Hash[log[l].key] = h

\* phase C: evictSegKeys of the pinned segments that have their index
Evict ==
  /\ sealing # {}
  /\ lock = Free
  /\ SidecarMayFail \/ sealing \subseteq indexed
  /\ LET gone == {h \in Buckets : EvictedBy(h, sealing \cap indexed)}
     IN  /\ bucket' = [h \in Buckets |-> IF h \in gone THEN {} ELSE bucket[h]]
         /\ head' = [h \in Buckets |-> IF h \in gone THEN NoLoc ELSE head[h]]
  /\ sealing' = {}
  /\ UNCHANGED <<log, segs, act, nextSeg, count, indexed, base, sealBase, commitSeq,
                 gcFloor, section, txn, scan, hist>>

\* Collection.Truncate on this shard. It empties sh.segs, so ids start over.
Truncate ==
  /\ lock = Free
  /\ TruncateRaces \/ sealing = {}
  /\ commitSeq + 1 < SeqMax
  /\ segs' = {}
  /\ act' = NoSeg
  /\ bucket' = [h \in Buckets |-> {}]
  /\ head' = [h \in Buckets |-> NoLoc]
  /\ count' = 0
  /\ gcFloor' = commitSeq + 1
  /\ base' = nextSeg - 1
  /\ Commit([k \in Keys |-> "del"])
  /\ UNCHANGED <<log, nextSeg, indexed, sealing, sealBase, section, txn, scan>>

-----------------------------------------------------------------------------
Init ==
  /\ log = <<>>
  /\ bucket = [h \in Buckets |-> {}]
  /\ head = [h \in Buckets |-> NoLoc]
  /\ segs = {} /\ act = NoSeg /\ nextSeg = 1 /\ count = 0
  /\ indexed = {} /\ sealing = {} /\ base = 0 /\ sealBase = 0
  /\ commitSeq = 0 /\ gcFloor = 0
  /\ lock = Free /\ todo = <<>> /\ changed = FALSE /\ pend = Quiet /\ fast = FALSE
  /\ phase = [t \in Txns |-> "idle"]
  /\ snap = [t \in Txns |-> NoSnap]
  /\ buf = [t \in Txns |-> Quiet]
  /\ out = [t \in Txns |-> Quiet]
  /\ scan = [p \in Scanners |-> Idle]
  /\ hist = <<>>

\* What clients do: batches, deletes, transactions and scans.
Traffic ==
  \/ LockBatch \/ ApplyBatch \/ UnlockBatch
  \/ \E k \in Keys : Delete(k)
  \/ \E t \in Txns :
       \/ Begin(t) \/ TxnGet(t) \/ LockTxn(t) \/ UnlockTxn(t)
       \/ \E k \in Keys : ApplyTxn(t, k) \/ \E op \in {"put", "del"} : TxnWrite(t, k, op)
  \/ \E p \in Scanners : ScanBegin(p) \/ ScanVisit(p) \/ ScanEnd(p)

\* Reindex's key-sidecar pass, which no other maintenance excludes.
Sealing == SealBegin \/ (\E g \in sealing : SealIndex(g)) \/ Evict

Next == Traffic \/ Sealing \/ Reclaim \/ Truncate

Spec == Init /\ [][Next]_vars

-----------------------------------------------------------------------------
(* What the history says. *)

\* The version of k current at sequence s: the last commit that touched k put it.
VersionAt(k, s) ==
  {i \in 1 .. s : hist[i][k] = "put" /\ \A j \in (i + 1) .. s : hist[j][k] = "none"}

ChangedSince(k, s) == \E j \in (s + 1) .. commitSeq : hist[j][k] # "none"

\* The records of k that a scan at s yields.
Stored(k, s) == {l \in Locs : log[l].key = k /\ log[l].seg \in segs /\ VisibleAt(l, s)}

SeqsOf(S) == {log[l].seq : l \in S}
AtMostOne(S) == \A l, m \in S : l = m

-----------------------------------------------------------------------------
(* Properties. *)

RecordType == [key : Keys, seq : 1 .. SeqMax, sup : 1 .. SeqMax, seg : Nat \ {0}]

ArenaType ==
  /\ log \in Seq(RecordType)
  /\ bucket \in [Buckets -> SUBSET Locs]
  /\ head \in [Buckets -> Locs \cup {NoLoc}]
  /\ nextSeg \in Nat \ {0}
  /\ segs \subseteq 1 .. (nextSeg - 1)
  /\ act \in segs \cup {NoSeg}
  /\ count \in Int

SealType ==
  /\ indexed \subseteq 1 .. (nextSeg - 1) /\ sealing \subseteq 1 .. (nextSeg - 1)
  /\ base \in Nat /\ sealBase \in Nat

ClockType ==
  /\ commitSeq \in 0 .. (SeqMax - 1)
  /\ gcFloor \in 0 .. commitSeq
  /\ hist \in Seq([Keys -> Ops])
  /\ Len(hist) = commitSeq

SectionType ==
  /\ lock \in {Free, Batch} \cup Txns
  /\ todo \in Seq(Keys)
  /\ changed \in BOOLEAN /\ fast \in BOOLEAN
  /\ pend \in [Keys -> Ops]

TxnType ==
  /\ phase \in [Txns -> {"idle", "open"}]
  /\ snap \in [Txns -> -1 .. commitSeq]
  /\ buf \in [Txns -> [Keys -> Ops]]
  /\ out \in [Txns -> [Keys -> Outcomes]]

ScanType ==
  scan \in [Scanners -> [s0 : -1 .. commitSeq, left : SUBSET Locs, seen : SUBSET Locs]]

\* The shard's fields have the types of the Go struct, sequences stay below
\* seqMax, and the commit history has one entry per sequence (shard.go).
TypeOK == ArenaType /\ SealType /\ ClockType /\ SectionType /\ TxnType /\ ScanType

\* At any moment at most one record of a key is current among the live
\* segments: put supersedes the version it replaces wherever it lives, on a
\* chain or in a sealed segment (shard.put, shard.del).
OneCurrentVersion ==
  \A k \in Keys : AtMostOne({l \in Locs : log[l].key = k /\ log[l].seg \in segs /\ IsCurrent(l)})

\* Whenever the lock is free, a point lookup returns exactly the version the
\* commits so far left current, eviction and reclaim notwithstanding (shard.get).
GetExact ==
  lock = Free => \A k \in Keys : SeqsOf(FindCurrent(k)) = VersionAt(k, commitSeq)

\* At every sequence from gcFloor on, the live segments hold exactly the
\* version of each key that was current then, once: what reclaim drops no
\* retained snapshot needs (reclaimDeadShard's retain floor).
SnapshotExact ==
  \A k \in Keys : \A s \in gcFloor .. commitSeq :
    SeqsOf(Stored(k, s)) = VersionAt(k, s) /\ AtMostOne(Stored(k, s))

\* No chain links to a segment that was unlinked: reclaim splices every record
\* of a dead segment out of its bucket (spliceDeadFromChain; corruptChainLinks
\* stays zero).
NoDanglingLink ==
  \A h \in Buckets : \A l \in bucket[h] : log[l].seg \in segs

\* sh.count is the number of live keys, whatever path a key was superseded on
\* (Len and the COUNT fast path rely on it).
CountExact ==
  lock = Free => count = Cardinality({k \in Keys : VersionAt(k, commitSeq) # {}})

\* A transaction's write is accepted only if nobody changed its key after the
\* transaction's snapshot, though reclaim may have dropped the evidence
\* (conflictSince, the fast path, gcFloor).
FirstCommitterWins ==
  \A t \in Txns, k \in Keys :
    lock = t /\ out[t][k] = "ok" => ~ChangedSince(k, snap[t])

\* A write is refused only for a change to its key after the snapshot, unless
\* the snapshot predates gcFloor (conflictSince is exact above the floor).
NoSpuriousConflict ==
  \A t \in Txns, k \in Keys :
    lock = t /\ out[t][k] = "conflict" => ChangedSince(k, snap[t]) \/ snap[t] < gcFloor

\* A put the transaction will report as committed has replaced the key's
\* current version (Txn.Commit: "The other buffered writes committed").
CommittedTookEffect ==
  \A t \in Txns, k \in Keys :
    lock = t /\ out[t][k] = "ok" /\ buf[t][k] = "put" => SeqsOf(FindCurrent(k)) = {commitSeq + 1}

\* A transaction whose snapshot no reclaim has overtaken reads, for every key,
\* the version current at its snapshot (getAt), also after its bucket was evicted.
RetainedReads ==
  \A t \in Txns, k \in Keys :
    phase[t] = "open" /\ snap[t] >= gcFloor
      => SeqsOf(FindVisible(k, snap[t])) = VersionAt(k, snap[t])

\* A finished scan has yielded each key live at its sequence exactly once, at
\* the version current then, whatever was committed, reclaimed or truncated
\* meanwhile (forEachVisible, Scan's exactly-once promise).
ScanExactlyOnce ==
  \A p \in Scanners : scan[p].s0 # NoSnap /\ scan[p].left = {} =>
    \A k \in Keys :
      LET got == {l \in scan[p].seen : log[l].key = k}
      IN  SeqsOf(got) = VersionAt(k, scan[p].s0) /\ AtMostOne(got)

\* A superseded record is never superseded again nor revived, so a version's
\* interval of visibility is fixed once it ends (supersedeRec).
VersionEndsOnce ==
  [][\A l \in Locs : ~IsCurrent(l) => log'[l] = log[l]]_vars

=============================================================================
