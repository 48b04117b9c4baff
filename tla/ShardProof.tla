----------------------------- MODULE ShardProof -----------------------------
(* What the steps of Shard do, whether or not a compaction runs beside them: *)
(* types, the log after a put and a delete, the write lock, what lookups     *)
(* find, and the scans.                                                      *)
EXTENDS ShardInvariant, TLAPS

\* A larger upper bound admits all that a smaller one does.
LEMMA Intervals == \A a, b \in Int : a <= b => 1 .. (a - 1) \subseteq 1 .. (b - 1)
OBVIOUS

\* The empty commit has the type of a commit and of an outcome.
LEMMA QuietType == Quiet \in [Keys -> Ops] /\ Quiet \in [Keys -> Outcomes]
BY Zenon DEF Quiet, Ops, Outcomes

\* A lookup returns locations of the log (findCurrent, lookupSealed).
LEMMA FindCurrentLocs ==
  ASSUME TypeOK, NEW k \in Keys
  PROVE  /\ FindCurrent(k) \subseteq Locs
         /\ \A l \in FindCurrent(k) : IsCurrent(l) /\ log[l].key = k
         /\ \A old \in First(FindCurrent(k)) : old \subseteq FindCurrent(k)
<1>1. bucket[Hash[k]] \subseteq Locs
  BY Zenon, HashAssumption DEF TypeOK, ArenaType
<1>2. QED
  BY Zenon, <1>1 DEF FindCurrent, ChainOf, SealedOf, First

\* Locations are the indices of the log, and a record there has its type.
LEMMA LocsAre ==
  ASSUME TypeOK
  PROVE  /\ Len(log) \in Nat
         /\ Locs = 1 .. Len(log)
         /\ \A l \in Locs : log[l] \in RecordType
BY DEF TypeOK, ArenaType, Locs

\* Superseding some records changes their superseded field and nothing else.
LEMMA SupersededLog ==
  ASSUME TypeOK, NEW S, NEW s \in 1 .. SeqMax
  PROVE  /\ Superseded(log, S, s) \in Seq(RecordType)
         /\ Len(Superseded(log, S, s)) = Len(log)
         /\ DOMAIN Superseded(log, S, s) = Locs
         /\ \A l \in Locs : Superseded(log, S, s)[l]
              = IF l \in S THEN [log[l] EXCEPT !.sup = s] ELSE log[l]
<1> DEFINE T == Superseded(log, S, s)
<1>1. /\ Len(log) \in Nat /\ Locs = 1 .. Len(log)
      /\ \A l \in Locs : log[l] \in RecordType
  BY Zenon, LocsAre
<1>2. T = [l \in Locs |-> IF l \in S THEN [log[l] EXCEPT !.sup = s] ELSE log[l]]
  BY Zenon DEF Superseded, Locs
<1>3. \A l \in Locs : [log[l] EXCEPT !.sup = s] \in RecordType
  BY Zenon, <1>1 DEF RecordType
<1>4. T \in [1 .. Len(log) -> RecordType]
  BY Zenon, <1>1, <1>2, <1>3
<1>5. T \in Seq(RecordType) /\ Len(T) = Len(log)
  BY <1>1, <1>4
<1>6. QED
  BY Zenon, <1>1, <1>2, <1>5

\* The log after a put: the records found are superseded, one is appended.
LEMMA PutLog ==
  ASSUME TypeOK, NEW k \in Keys, NEW s \in 1 .. SeqMax, NEW g \in Nat \ {0}, NEW S,
         log' = Append(Superseded(log, S, s), Record(k, s, g))
  PROVE  /\ log' \in Seq(RecordType)
         /\ Len(log') = Len(log) + 1
         /\ Locs' = Locs \cup {Len(log) + 1}
         /\ Len(log) + 1 \notin Locs
         /\ \A l \in Locs : log'[l] = IF l \in S THEN [log[l] EXCEPT !.sup = s] ELSE log[l]
         /\ log'[Len(log) + 1] = Record(k, s, g)
<1> DEFINE T == Superseded(log, S, s)
<1>1. T \in Seq(RecordType) /\ Len(T) = Len(log) /\ DOMAIN T = Locs
  BY Zenon, SupersededLog
<1>2. \A l \in Locs : T[l] = IF l \in S THEN [log[l] EXCEPT !.sup = s] ELSE log[l]
  BY SupersededLog
<1>3. Len(log) \in Nat /\ Locs = 1 .. Len(log)
  BY Zenon, LocsAre
<1>4. Record(k, s, g) \in RecordType
  BY SeqMaxAssumption DEF Record, RecordType
<1> HIDE DEF T
<1> DEFINE r == Record(k, s, g)
<1>5. log' = Append(T, r) /\ r \in RecordType
  BY Zenon, <1>4 DEF T
<1> HIDE DEF r
<1>6. /\ log' \in Seq(RecordType)
      /\ Len(log') = Len(log) + 1
      /\ \A l \in 1 .. Len(log) : log'[l] = T[l]
      /\ log'[Len(log) + 1] = r
  BY <1>1, <1>3, <1>5
<1>7. Locs' = 1 .. Len(log) + 1
  BY <1>6 DEF Locs
<1>8. Locs' = Locs \cup {Len(log) + 1} /\ Len(log) + 1 \notin Locs
  BY <1>3, <1>7
<1>9. \A l \in Locs : log'[l] = IF l \in S THEN [log[l] EXCEPT !.sup = s] ELSE log[l]
  BY Zenon, <1>2, <1>3, <1>6
<1>10. QED
  BY Zenon, <1>6, <1>8, <1>9 DEF r

-----------------------------------------------------------------------------
(* Types of the arena after a put, a failed put and a delete. *)

\* A put into a given segment keeps the types (shard.put).
LEMMA PutInType ==
  ASSUME TypeOK, NEW k \in Keys, NEW s \in 1 .. SeqMax, NEW g \in Nat \ {0}, PutIn(k, s, g)
  PROVE  /\ log' \in Seq(RecordType)
         /\ Locs \subseteq Locs'
         /\ bucket' \in [Buckets -> SUBSET Locs']
         /\ head' \in [Buckets -> Locs' \cup {NoLoc}]
         /\ count' \in Int
<1> DEFINE n == Len(log) + 1
<1>1. PICK old \in First(FindCurrent(k)) :
        /\ log' = Append(Superseded(log, old, s), Record(k, s, g))
        /\ bucket' = [bucket EXCEPT ![Hash[k]] = @ \cup {n}]
        /\ head' = [head EXCEPT ![Hash[k]] = n]
        /\ count' = IF old = {} THEN count + 1 ELSE count
  BY Zenon DEF PutIn
<1>2. log' \in Seq(RecordType) /\ Locs' = Locs \cup {n}
  BY Zenon, <1>1, PutLog
<1>3. Hash[k] \in Buckets
  BY Zenon, HashAssumption
<1> HIDE DEF n
<1>4. bucket' \in [Buckets -> SUBSET Locs']
  BY Zenon, <1>1, <1>2, <1>3 DEF TypeOK, ArenaType
<1>5. head' \in [Buckets -> Locs' \cup {NoLoc}]
  BY Zenon, <1>1, <1>2, <1>3 DEF TypeOK, ArenaType
<1>6. count' \in Int
  BY <1>1 DEF TypeOK, ArenaType
<1>7. QED
  BY Zenon, <1>2, <1>4, <1>5, <1>6

\* A put, written or failed, keeps the types (writeRecord, allocSeg).
LEMMA ShardPutType ==
  ASSUME TypeOK, NEW k \in Keys, NEW s \in 1 .. SeqMax, ShardPut(k, s)
  PROVE  ArenaType' /\ Locs \subseteq Locs' /\ nextSeg <= nextSeg' /\ pend' \in [Keys -> Ops]
<1>1. pend' \in [Keys -> Ops]
  BY Zenon DEF ShardPut, TypeOK, SectionType, Ops
<1>2. CASE PutWritten(k, s)
  <2>1. CASE ~NeedsSegment /\ PutIn(k, s, act) /\ UNCHANGED <<segs, act, nextSeg>>
    <3>1. act \in Nat \ {0}
      BY <2>1 DEF NeedsSegment, TypeOK, ArenaType, NoSeg
    <3>2. QED
      BY <1>1, <2>1, <3>1, PutInType DEF ArenaType, TypeOK
  <2>2. CASE /\ PutIn(k, s, nextSeg) /\ segs' = segs \cup {nextSeg}
             /\ act' = nextSeg /\ nextSeg' = nextSeg + 1
    <3>1. nextSeg \in Nat \ {0}
      BY Zenon DEF TypeOK, ArenaType
    <3>2. QED
      BY <1>1, <2>2, <3>1, PutInType DEF ArenaType, TypeOK
  <2>3. QED
    BY Zenon, <1>1, <1>2, <2>1, <2>2 DEF PutWritten
<1>3. CASE PutFailed
  BY <1>1, <1>3 DEF PutFailed, arena, TypeOK, ArenaType, Locs
<1>4. QED
  BY Zenon, <1>2, <1>3 DEF ShardPut

\* A delete of a live version keeps the types (shard.del).
LEMMA DelFoundType ==
  ASSUME TypeOK, NEW k \in Keys, NEW s \in 1 .. SeqMax, DelFound(k, s)
  PROVE  ArenaType' /\ Locs' = Locs /\ nextSeg' = nextSeg
<1>1. PICK l \in FindCurrent(k) :
        /\ log' = Superseded(log, {l}, s)
        /\ count' = count - 1
        /\ UNCHANGED <<bucket, head, segs, act, nextSeg>>
  BY Zenon DEF DelFound
<1>2. log' \in Seq(RecordType) /\ Locs' = Locs
  BY Zenon, <1>1, SupersededLog DEF Locs
<1>3. QED
  BY <1>1, <1>2 DEF TypeOK, ArenaType

-----------------------------------------------------------------------------
(* The parts a step leaves alone keep their types as the clock and log grow. *)

\* The transactions keep their types when they are left alone.
LEMMA TxnTypeKept ==
  ASSUME TypeOK, UNCHANGED txn, commitSeq' \in Nat, commitSeq <= commitSeq'
  PROVE  TxnType'
BY DEF TypeOK, TxnType, ClockType, txn

\* The scans keep their types when they are left alone.
LEMMA ScanTypeKept ==
  ASSUME TypeOK, UNCHANGED scan, commitSeq' \in Nat, commitSeq <= commitSeq', Locs \subseteq Locs'
  PROVE  ScanType'
<1>1. -1 .. commitSeq \subseteq -1 .. commitSeq'
  BY DEF TypeOK, ClockType
<1>2. \A p \in Scanners :
        scan[p] \in [s0 : -1 .. commitSeq', left : SUBSET Locs', seen : SUBSET Locs']
  BY Zenon, <1>1 DEF TypeOK, ScanType
<1>3. QED
  BY Zenon, <1>2 DEF TypeOK, ScanType

\* The sealing pass keeps its types when segments are only added.
LEMMA SealTypeKept ==
  ASSUME TypeOK, UNCHANGED seal, nextSeg' \in Nat, nextSeg <= nextSeg'
  PROVE  SealType'
<1>1. /\ nextSeg \in Nat /\ indexed' = indexed /\ sealing' = sealing
      /\ base' = base /\ sealBase' = sealBase
  BY Zenon DEF TypeOK, ArenaType, seal
<1>2. nextSeg \in Int /\ nextSeg' \in Int
  BY <1>1
<1>3. 1 .. (nextSeg - 1) \subseteq 1 .. (nextSeg' - 1)
  BY Zenon, <1>2, Intervals, Zenon
<1>4. QED
  BY Zenon, <1>1, <1>3 DEF TypeOK, SealType

\* The arena keeps its types when it is left alone.
LEMMA ArenaTypeKept == ASSUME TypeOK, UNCHANGED arena
                       PROVE  ArenaType' /\ Locs' = Locs /\ nextSeg' = nextSeg
BY Zenon DEF TypeOK, ArenaType, arena, Locs

\* A commit adds one entry to the history and keeps the others.
LEMMA CommitClock ==
  ASSUME TypeOK, NEW did \in [Keys -> Ops], commitSeq + 1 < SeqMax, Commit(did)
  PROVE  /\ commitSeq' = commitSeq + 1
         /\ commitSeq' \in 0 .. (SeqMax - 1)
         /\ hist' \in Seq([Keys -> Ops])
         /\ Len(hist') = commitSeq'
         /\ \A j \in 1 .. commitSeq : hist'[j] = hist[j]
         /\ hist'[commitSeq + 1] = did
BY SeqMaxAssumption DEF TypeOK, ClockType, Commit

\* Publishing a commit advances the clock by one (unlockWrite's commitSeq).
LEMMA CommitType ==
  ASSUME TypeOK, NEW did \in [Keys -> Ops], commitSeq + 1 < SeqMax, Commit(did),
         gcFloor' \in 0 .. (commitSeq + 1)
  PROVE  ClockType' /\ commitSeq' \in Nat /\ commitSeq <= commitSeq'
<1>1. ClockType'
  BY Zenon, CommitClock, SeqMaxAssumption DEF ClockType
<1>2. commitSeq' = commitSeq + 1 /\ commitSeq \in Nat
  BY CommitClock DEF TypeOK, ClockType
<1>3. QED
  BY <1>1, <1>2

-----------------------------------------------------------------------------
(* The type invariant. *)

\* An empty shard has the right types (newShard).
LEMMA TypeInit == ASSUME Init PROVE TypeOK
<1>1. ArenaType /\ SealType /\ ClockType
  BY SeqMaxAssumption DEF Init, ArenaType, SealType, ClockType, NoSeg, Locs, NoLoc
<1>2. SectionType
  <2>1. todo \in Seq(Keys)
    BY DEF Init
  <2>2. lock \in {Free, Batch} \cup Txns /\ changed \in BOOLEAN /\ fast \in BOOLEAN
    BY Zenon DEF Init
  <2>3. pend \in [Keys -> Ops]
    BY Zenon, QuietType DEF Init
  <2>4. QED
    BY Zenon, <2>1, <2>2, <2>3 DEF SectionType
<1>x. snap \in [Txns -> -1 .. commitSeq]
  BY DEF Init, NoSnap
<1>y. TxnType
  BY Zenon, <1>x, QuietType DEF Init, TxnType
<1>3. ScanType
  BY DEF Init, ScanType, Idle, NoSnap, ClockType
<1>4. QED
  BY Zenon, <1>1, <1>2, <1>y, <1>3 DEF TypeOK

\* The flusher's steps keep the types (applyBatch).
LEMMA TypeBatch ==
  ASSUME TypeOK, LockSound, LockBatch \/ ApplyBatch \/ UnlockBatch
  PROVE  TypeOK'
<1>1. CASE LockBatch
  <2>1. SectionType'
    BY Zenon, <1>1, QuietType, BatchesAssumption DEF LockBatch, TypeOK, SectionType
  <2>2. UNCHANGED <<arena, seal, commitSeq, gcFloor, txn, scan, hist>>
    BY Zenon, <1>1 DEF LockBatch
  <2>3. ClockType' /\ commitSeq' \in Nat /\ commitSeq <= commitSeq'
    BY <2>2 DEF TypeOK, ClockType
  <2>4. ArenaType' /\ Locs' = Locs /\ nextSeg' = nextSeg
    BY Zenon, <2>2, ArenaTypeKept
  <2>5. nextSeg' \in Nat
    BY Zenon, <2>4 DEF ArenaType
  <2>6. QED
    BY <2>1, <2>2, <2>3, <2>4, <2>5, TxnTypeKept, ScanTypeKept, SealTypeKept DEF TypeOK
<1>2. CASE ApplyBatch
  <2>1. /\ Head(todo) \in Keys /\ todo' \in Seq(Keys) /\ commitSeq + 1 \in 1 .. SeqMax
        /\ ShardPut(Head(todo), commitSeq + 1)
    BY <1>2, SeqMaxAssumption DEF ApplyBatch, TypeOK, SectionType, ClockType
  <2>2. ArenaType' /\ Locs \subseteq Locs' /\ nextSeg <= nextSeg' /\ pend' \in [Keys -> Ops]
    BY Zenon, <2>1, ShardPutType
  <2>3. UNCHANGED <<seal, commitSeq, gcFloor, lock, changed, fast, txn, scan, hist>>
    BY Zenon, <1>2 DEF ApplyBatch
  <2>4. SectionType'
    BY Zenon, <2>1, <2>2, <2>3 DEF TypeOK, SectionType
  <2>5. ClockType' /\ commitSeq' \in Nat /\ commitSeq <= commitSeq'
    BY <2>3 DEF TypeOK, ClockType
  <2>6. nextSeg' \in Nat
    BY Zenon, <2>2 DEF ArenaType
  <2>7. QED
    BY Zenon, <2>2, <2>3, <2>4, <2>5, <2>6, TxnTypeKept, ScanTypeKept, SealTypeKept DEF TypeOK
<1>3. CASE UnlockBatch
  <2>1. UNCHANGED <<arena, seal, gcFloor, todo, changed, fast, txn, scan>>
    BY Zenon, <1>3 DEF UnlockBatch
  <2>2. commitSeq + 1 < SeqMax /\ Commit(pend) /\ pend \in [Keys -> Ops]
    BY Zenon, <1>3 DEF UnlockBatch, LockSound, TypeOK, SectionType, Free, Batch
  <2>3. SectionType'
    BY Zenon, <1>3, <2>1, QuietType DEF UnlockBatch, TypeOK, SectionType
  <2>4. ClockType' /\ commitSeq' \in Nat /\ commitSeq <= commitSeq'
    <3>1. gcFloor' \in 0 .. (commitSeq + 1)
      BY <2>1 DEF TypeOK, ClockType
    <3>2. QED
      BY Zenon, <2>2, <3>1, CommitType
  <2>5. ArenaType' /\ Locs' = Locs /\ nextSeg' = nextSeg
    BY Zenon, <2>1, ArenaTypeKept
  <2>6. nextSeg' \in Nat
    BY Zenon, <2>5 DEF ArenaType
  <2>7. QED
    BY <2>1, <2>3, <2>4, <2>5, <2>6, TxnTypeKept, ScanTypeKept, SealTypeKept DEF TypeOK
<1>4. QED
  BY Zenon, <1>1, <1>2, <1>3

\* Collection.Delete keeps the types.
LEMMA TypeDelete == ASSUME TypeOK, NEW k \in Keys, Delete(k) PROVE TypeOK'
<1>1. UNCHANGED <<seal, gcFloor, section, txn, scan>>
  BY Zenon DEF Delete
<1>2. [Quiet EXCEPT ![k] = "del"] \in [Keys -> Ops]
  BY Zenon, QuietType DEF Ops
<1>3. commitSeq + 1 < SeqMax /\ Commit([Quiet EXCEPT ![k] = "del"])
  BY Zenon DEF Delete
<1>4. gcFloor' \in 0 .. (commitSeq + 1) /\ commitSeq + 1 \in 1 .. SeqMax
  BY <1>1, <1>3, SeqMaxAssumption DEF TypeOK, ClockType
<1>5. ClockType' /\ commitSeq' \in Nat /\ commitSeq <= commitSeq'
  BY Zenon, <1>2, <1>3, <1>4, CommitType
<1>6. ArenaType' /\ Locs' = Locs /\ nextSeg' = nextSeg /\ nextSeg' \in Nat
  <2>1. DelFound(k, commitSeq + 1)
    BY Zenon DEF Delete
  <2>2. ArenaType' /\ Locs' = Locs /\ nextSeg' = nextSeg
    BY Zenon, <1>4, <2>1, DelFoundType
  <2>3. QED
    BY Zenon, <2>2 DEF ArenaType, TypeOK
<1>7. SectionType'
  BY Zenon, <1>1 DEF TypeOK, SectionType, section
<1>8. QED
  BY <1>1, <1>5, <1>6, <1>7, TxnTypeKept, ScanTypeKept, SealTypeKept DEF TypeOK, ArenaType

\* Begin, TxnGet, TxnWrite and LockTxn touch the transactions and the lock only.
LEMMA TypeTxnOpen ==
  ASSUME TypeOK, NEW t \in Txns,
         \/ Begin(t) \/ TxnGet(t) \/ LockTxn(t)
         \/ \E k \in Keys : \E op \in {"put", "del"} : TxnWrite(t, k, op)
  PROVE  TypeOK'
<1>1. UNCHANGED <<arena, seal, commitSeq, gcFloor, scan, hist>>
  BY Zenon DEF Begin, TxnGet, TxnWrite, LockTxn
<1>2. ClockType' /\ commitSeq' \in Nat /\ commitSeq <= commitSeq'
  BY <1>1 DEF TypeOK, ClockType
<1>3. ArenaType' /\ Locs' = Locs /\ nextSeg' = nextSeg /\ nextSeg' \in Nat
  BY Zenon, <1>1, ArenaTypeKept DEF ArenaType
<1>4. SectionType'
  <2>1. CASE ~LockTxn(t)
    BY Zenon, <2>1 DEF Begin, TxnGet, TxnWrite, TypeOK, SectionType, section
  <2>2. CASE LockTxn(t)
    <3>1. lock' \in {Free, Batch} \cup Txns /\ todo' \in Seq(Keys) /\ pend' \in [Keys -> Ops]
      BY Zenon, <2>2, QuietType DEF LockTxn, TypeOK, SectionType
    <3>2. changed' \in BOOLEAN /\ fast' \in BOOLEAN
      BY Zenon, <2>2, Zenon DEF LockTxn
    <3>3. QED
      BY Zenon, <3>1, <3>2 DEF SectionType
  <2>3. QED
    BY Zenon, <2>1, <2>2
<1>5. TxnType'
  <2>1. phase' \in [Txns -> {"idle", "open"}]
    BY Zenon DEF Begin, TxnGet, TxnWrite, LockTxn, TypeOK, TxnType, txn
  <2>2. SnapOf(t) \in -1 .. commitSeq
    BY DEF SnapOf, TypeOK, TxnType, ClockType, NoSnap
  <2>3. snap' \in [Txns -> -1 .. commitSeq']
    BY Zenon, <1>1, <2>2 DEF Begin, TxnGet, TxnWrite, LockTxn, Touch, TypeOK, TxnType, txn
  <2>4. buf' \in [Txns -> [Keys -> Ops]]
    <3>1. CASE UNCHANGED buf
      BY Zenon, <3>1 DEF TypeOK, TxnType
    <3>2. ASSUME NEW k \in Keys, NEW op \in {"put", "del"}, TxnWrite(t, k, op)
          PROVE  buf' \in [Txns -> [Keys -> Ops]]
      BY Zenon, <3>2 DEF TxnWrite, TypeOK, TxnType, Ops
    <3>3. QED
      BY Zenon, <3>1, <3>2 DEF Begin, TxnGet, LockTxn, txn
  <2>5. out' \in [Txns -> [Keys -> Outcomes]]
    BY Zenon DEF Begin, TxnGet, TxnWrite, LockTxn, TypeOK, TxnType, txn
  <2>6. QED
    BY Zenon, <2>1, <2>3, <2>4, <2>5 DEF TxnType
<1>6. QED
  BY <1>1, <1>2, <1>3, <1>4, <1>5, ScanTypeKept, SealTypeKept DEF TypeOK, ArenaType

\* The write of one key of a transaction keeps the types (applyTxn).
LEMMA TypeApplyTxn ==
  ASSUME TypeOK, LockSound, NEW t \in Txns, NEW k \in Keys, ApplyTxn(t, k)
  PROVE  TypeOK'
<1>1. UNCHANGED <<seal, commitSeq, gcFloor, lock, todo, fast, phase, snap, buf, scan, hist>>
  BY Zenon DEF ApplyTxn
<1>2. ClockType' /\ commitSeq' \in Nat /\ commitSeq <= commitSeq' /\ commitSeq + 1 \in 1 .. SeqMax
  BY <1>1, SeqMaxAssumption DEF TypeOK, ClockType
<1>3. \E o \in {"ok", "conflict"} : Decide(t, k, o)
  BY Zenon DEF ApplyTxn
<1>4. TxnType'
  BY <1>1, <1>3 DEF Decide, TypeOK, TxnType, Outcomes
<1>5. /\ ArenaType' /\ Locs \subseteq Locs' /\ nextSeg <= nextSeg'
      /\ pend' \in [Keys -> Ops] /\ (changed' = TRUE \/ changed' = changed)
  <2>1. CASE UNCHANGED <<arena, changed, pend>>
    <3>1. ArenaType' /\ Locs' = Locs /\ nextSeg' = nextSeg
      BY Zenon, <2>1, ArenaTypeKept
    <3>2. QED
      BY <2>1, <3>1 DEF TypeOK, SectionType, ArenaType
  <2>2. CASE ShardPut(k, commitSeq + 1) /\ changed' = TRUE
    BY Zenon, <1>2, <2>2, ShardPutType
  <2>3. CASE DelFound(k, commitSeq + 1) /\ changed' = TRUE /\ pend' = [pend EXCEPT ![k] = "del"]
    <3>1. ArenaType' /\ Locs' = Locs /\ nextSeg' = nextSeg
      BY Zenon, <1>2, <2>3, DelFoundType
    <3>2. pend' \in [Keys -> Ops]
      BY Zenon, <2>3 DEF TypeOK, SectionType, Ops
    <3>3. QED
      BY <2>3, <3>1, <3>2 DEF TypeOK, ArenaType
  <2>4. QED
    BY Zenon, <2>1, <2>2, <2>3 DEF ApplyTxn
<1>6. SectionType'
  <2>1. changed' \in BOOLEAN
    BY Zenon, <1>5, Zenon DEF TypeOK, SectionType
  <2>2. QED
    BY Zenon, <1>1, <1>5, <2>1 DEF TypeOK, SectionType
<1>7. nextSeg' \in Nat
  BY Zenon, <1>5 DEF ArenaType
<1>8. QED
  BY Zenon, <1>1, <1>2, <1>4, <1>5, <1>6, <1>7, ScanTypeKept, SealTypeKept DEF TypeOK

\* The end of a transaction's commit keeps the types.
LEMMA TypeUnlockTxn ==
  ASSUME TypeOK, LockSound, NEW t \in Txns, UnlockTxn(t)
  PROVE  TypeOK'
<1>1. UNCHANGED <<arena, seal, gcFloor, todo, scan>>
  BY Zenon DEF UnlockTxn
<1>2. ArenaType' /\ Locs' = Locs /\ nextSeg' = nextSeg
  BY Zenon, <1>1, ArenaTypeKept
<1>3. ClockType' /\ commitSeq' \in Nat /\ commitSeq <= commitSeq'
  <2>1. CASE changed
    <3>1. commitSeq + 1 < SeqMax /\ pend \in [Keys -> Ops] /\ Commit(pend)
      BY Zenon, <2>1, HolderAssumption DEF UnlockTxn, LockSound, TypeOK, SectionType
    <3>2. gcFloor' \in 0 .. (commitSeq + 1)
      BY <1>1 DEF TypeOK, ClockType
    <3>3. QED
      BY Zenon, <3>1, <3>2, CommitType
  <2>2. CASE ~changed
    BY <1>1, <2>2 DEF UnlockTxn, TypeOK, ClockType
  <2>3. QED
    BY Zenon, <2>1, <2>2
<1>4. SectionType'
  <2>1. lock' \in {Free, Batch} \cup Txns /\ changed' \in BOOLEAN /\ fast' \in BOOLEAN
    BY Zenon DEF UnlockTxn
  <2>2. todo' \in Seq(Keys) /\ pend' \in [Keys -> Ops]
    BY Zenon, <1>1, QuietType DEF UnlockTxn, TypeOK, SectionType
  <2>3. QED
    BY Zenon, <2>1, <2>2 DEF SectionType
<1>5. TxnType'
  <2>1. phase' \in [Txns -> {"idle", "open"}]
    BY Zenon DEF UnlockTxn, TypeOK, TxnType
  <2>2. snap \in [Txns -> -1 .. commitSeq']
    BY <1>3 DEF TypeOK, TxnType, ClockType
  <2>3. NoSnap \in -1 .. commitSeq'
    BY <1>3 DEF NoSnap
  <2>4. snap' \in [Txns -> -1 .. commitSeq']
    BY Zenon, <2>2, <2>3 DEF UnlockTxn
  <2>5. buf' \in [Txns -> [Keys -> Ops]] /\ out' \in [Txns -> [Keys -> Outcomes]]
    BY Zenon, QuietType DEF UnlockTxn, TypeOK, TxnType
  <2>6. QED
    BY Zenon, <2>1, <2>4, <2>5 DEF TxnType
<1>6. nextSeg' \in Nat
  BY Zenon, <1>2 DEF ArenaType
<1>7. QED
  BY <1>1, <1>2, <1>3, <1>4, <1>5, <1>6, ScanTypeKept, SealTypeKept DEF TypeOK

\* The steps of a scan keep the types (snapshot, forEachVisible).
LEMMA TypeScan ==
  ASSUME TypeOK, NEW p \in Scanners, ScanBegin(p) \/ ScanVisit(p) \/ ScanEnd(p)
  PROVE  TypeOK'
<1>1. UNCHANGED <<arena, seal, commitSeq, gcFloor, section, txn, hist>>
  BY Zenon DEF ScanBegin, ScanVisit, ScanEnd
<1>2. ClockType' /\ commitSeq' \in Nat /\ commitSeq <= commitSeq'
  BY <1>1 DEF TypeOK, ClockType
<1>3. ArenaType' /\ Locs' = Locs /\ nextSeg' = nextSeg
  BY Zenon, <1>1, ArenaTypeKept
<1>4. SectionType'
  BY Zenon, <1>1 DEF TypeOK, SectionType, section
<1>5. scan' \in [Scanners -> [s0 : -1 .. commitSeq, left : SUBSET Locs, seen : SUBSET Locs]]
  <2> DEFINE SType == [s0 : -1 .. commitSeq, left : SUBSET Locs, seen : SUBSET Locs]
  <2>1. scan \in [Scanners -> SType]
    BY Zenon DEF TypeOK, ScanType
  <2>2. CASE ScanBegin(p)
    <3>1. PICK s \in ScanSeqs :
            scan' = [scan EXCEPT ![p] =
              [s0 |-> s, left |-> {l \in Locs : log[l].seg \in {g \in segs : SegVisibleAt(g, s)}},
               seen |-> {}]]
      BY Zenon, <2>2 DEF ScanBegin
    <3>2. s \in -1 .. commitSeq
      BY DEF ScanSeqs, TypeOK, ClockType
    <3> DEFINE L == {l \in Locs : log[l].seg \in {g \in segs : SegVisibleAt(g, s)}}
    <3>3. [s0 |-> s, left |-> L, seen |-> {}] \in SType
      BY Zenon, <3>2
    <3> HIDE DEF L, SType
    <3>4. QED
      BY Zenon, <2>1, <3>1, <3>3 DEF L, SType
  <2>3. CASE ScanVisit(p)
    <3>1. PICK l \in scan[p].left :
            scan' = [scan EXCEPT ![p].left = @ \ {l},
                       ![p].seen = IF VisibleAt(l, scan[p].s0) THEN @ \cup {l} ELSE @]
      BY Zenon, <2>3 DEF ScanVisit
    <3>2. scan[p] \in SType /\ l \in Locs
      BY Zenon, <2>1
    <3> DEFINE S == IF VisibleAt(l, scan[p].s0) THEN scan[p].seen \cup {l} ELSE scan[p].seen
               r == [scan[p] EXCEPT !.left = @ \ {l}, !.seen = S]
    <3>3. r \in SType
      BY Zenon, <3>2
    <3>4. scan' = [scan EXCEPT ![p] = r]
      BY Zenon, <2>1, <3>1
    <3> HIDE DEF SType, r
    <3>5. QED
      BY Zenon, <2>1, <3>3, <3>4 DEF SType
  <2>4. CASE ScanEnd(p)
    <3>1. Idle \in SType
      BY DEF Idle, NoSnap, TypeOK, ClockType
    <3>2. QED
      BY Zenon, <2>1, <2>4, <3>1 DEF ScanEnd
  <2>5. QED
    BY Zenon, <2>2, <2>3, <2>4
<1>6. ScanType'
  BY Zenon, <1>1, <1>3, <1>5 DEF ScanType
<1>7. nextSeg' \in Nat
  BY Zenon, <1>3 DEF ArenaType
<1>8. QED
  BY <1>1, <1>2, <1>3, <1>4, <1>6, <1>7, TxnTypeKept, SealTypeKept DEF TypeOK

\* Unlinking dead segments keeps the types (reclaimDeadShard).
LEMMA TypeReclaim == ASSUME TypeOK, Reclaim PROVE TypeOK'
<1>1. UNCHANGED <<log, act, nextSeg, count, seal, commitSeq, section, txn, scan, hist>>
  BY Zenon DEF Reclaim
<1>2. Locs' = Locs
  BY Zenon, <1>1 DEF Locs
<1>3. PICK retain \in RetainFloors :
        LET dead == {g \in segs \ {act} : RecsOf(g) # {} /\ DeadBy(g, retain)}
            rest == [h \in Buckets |-> {l \in bucket[h] : log[l].seg \notin dead}]
        IN  /\ segs' = segs \ dead
            /\ bucket' = rest
            /\ head' \in [Buckets -> Locs \cup {NoLoc}]
            /\ gcFloor' = Max2(gcFloor, retain)
  BY Zenon DEF Reclaim
<1>4. bucket' \in [Buckets -> SUBSET Locs']
  BY Zenon, <1>2, <1>3 DEF TypeOK, ArenaType
<1>5. segs' \subseteq 1 .. (nextSeg - 1) /\ act \in segs' \cup {NoSeg}
  BY Zenon, <1>3 DEF TypeOK, ArenaType
<1>6. ArenaType'
  BY Zenon, <1>1, <1>2, <1>3, <1>4, <1>5 DEF TypeOK, ArenaType
<1>7. retain \in 0 .. commitSeq
  BY DEF RetainFloors, TypeOK, ClockType
<1>8. ClockType' /\ commitSeq' \in Nat /\ commitSeq <= commitSeq'
  BY <1>1, <1>3, <1>7 DEF TypeOK, ClockType, Max2
<1>9. SectionType'
  BY Zenon, <1>1 DEF TypeOK, SectionType, section
<1>10. nextSeg' \in Nat /\ nextSeg <= nextSeg'
  BY <1>1 DEF TypeOK, ArenaType
<1>11. QED
  BY Zenon, <1>1, <1>2, <1>6, <1>8, <1>9, <1>10, TxnTypeKept, ScanTypeKept, SealTypeKept DEF TypeOK

\* The sealing pass keeps the types (sealAndEvictShard).
LEMMA TypeSealing ==
  ASSUME TypeOK, SealBegin \/ (\E g \in sealing : SealIndex(g)) \/ Evict
  PROVE  TypeOK'
<1>1. UNCHANGED <<log, segs, act, nextSeg, count, commitSeq, gcFloor, section, txn, scan, hist>>
  BY Zenon DEF SealBegin, SealIndex, Evict, arena
<1>2. Locs' = Locs
  BY Zenon, <1>1 DEF Locs
<1>3. bucket' \in [Buckets -> SUBSET Locs] /\ head' \in [Buckets -> Locs \cup {NoLoc}]
  <2>1. CASE Evict
    BY Zenon, <2>1 DEF Evict, TypeOK, ArenaType
  <2>2. CASE SealBegin \/ (\E g \in sealing : SealIndex(g))
    BY Zenon, <2>2 DEF SealBegin, SealIndex, arena, TypeOK, ArenaType
  <2>3. QED
    BY Zenon, <2>1, <2>2
<1>4. ArenaType'
  BY Zenon, <1>1, <1>2, <1>3 DEF TypeOK, ArenaType
<1>5. SealType'
  BY Zenon, <1>1 DEF SealBegin, SealIndex, Evict, TypeOK, ArenaType, SealType
<1>6. ClockType' /\ commitSeq' \in Nat /\ commitSeq <= commitSeq'
  BY <1>1 DEF TypeOK, ClockType
<1>7. SectionType'
  BY Zenon, <1>1 DEF TypeOK, SectionType, section
<1>8. QED
  BY Zenon, <1>1, <1>2, <1>4, <1>5, <1>6, <1>7, TxnTypeKept, ScanTypeKept DEF TypeOK

\* Truncate keeps the types.
LEMMA TypeTruncate == ASSUME TypeOK, Truncate PROVE TypeOK'
<1>1. UNCHANGED <<log, nextSeg, indexed, sealing, sealBase, section, txn, scan>>
  BY Zenon DEF Truncate
<1>2. Locs' = Locs
  BY Zenon, <1>1 DEF Locs
<1>3. ArenaType'
  BY <1>1, <1>2 DEF Truncate, TypeOK, ArenaType
<1>4. /\ [k \in Keys |-> "del"] \in [Keys -> Ops] /\ Commit([k \in Keys |-> "del"])
      /\ commitSeq + 1 < SeqMax
  BY Zenon DEF Truncate, Ops
<1>5. gcFloor' \in 0 .. (commitSeq + 1)
  BY DEF Truncate, TypeOK, ClockType
<1>6. ClockType' /\ commitSeq' \in Nat /\ commitSeq <= commitSeq'
  BY Zenon, <1>4, <1>5, CommitType
<1>7. SectionType'
  BY Zenon, <1>1 DEF TypeOK, SectionType, section
<1>8. SealType'
  <2>1. base' = nextSeg - 1 /\ nextSeg \in Nat \ {0}
    BY Zenon DEF Truncate, TypeOK, ArenaType
  <2>2. base' \in Nat
    BY <2>1
  <2>3. QED
    BY Zenon, <1>1, <2>2 DEF TypeOK, SealType
<1>9. QED
  BY Zenon, <1>1, <1>2, <1>3, <1>6, <1>7, <1>8, TxnTypeKept, ScanTypeKept DEF TypeOK

\* Every step of the shard preserves the types, given what the holder of the
\* lock knows (a commit in progress has room for its sequence).
LEMMA TypeNext == ASSUME TypeOK, LockSound, [Next]_vars PROVE TypeOK'
<1>1. CASE UNCHANGED vars
  BY Zenon, <1>1 DEF vars, TypeOK, ArenaType, SealType, ClockType, SectionType, TxnType, ScanType, Locs
<1>2. CASE Traffic
  BY Zenon, <1>2, TypeBatch, TypeDelete, TypeTxnOpen, TypeApplyTxn, TypeUnlockTxn, TypeScan DEF Traffic
<1>3. CASE Sealing
  BY Zenon, <1>3, TypeSealing DEF Sealing
<1>4. CASE Reclaim
  BY Zenon, <1>4, TypeReclaim
<1>5. CASE Truncate
  BY Zenon, <1>5, TypeTruncate
<1>6. QED
  BY Zenon, <1>1, <1>2, <1>3, <1>4, <1>5 DEF Next

-----------------------------------------------------------------------------
(* The records of a key: at most one is current, and findCurrent finds it. *)

CurrentOf(k) == {l \in Locs : Live(l) /\ log[l].key = k /\ IsCurrent(l)}

\* The record fields of a location, and the numbers they are compared with.
LEMMA RecordFacts ==
  ASSUME TypeOK
  PROVE  /\ commitSeq \in Nat /\ gcFloor \in Nat /\ gcFloor <= commitSeq /\ commitSeq < SeqMax
         /\ SeqMax \in Nat
         /\ \A l \in Locs : /\ l \in Nat \ {0}
                            /\ log[l].key \in Keys
                            /\ log[l].seq \in Nat \ {0} /\ log[l].seq <= SeqMax
                            /\ log[l].sup \in Nat \ {0} /\ log[l].sup <= SeqMax
                            /\ log[l].seg \in Nat \ {0}
<1>1. /\ Len(log) \in Nat /\ Locs = 1 .. Len(log)
      /\ \A l \in Locs : log[l] \in RecordType
  BY Zenon, LocsAre
<1>2. \A l \in Locs : /\ log[l].key \in Keys
                      /\ log[l].seq \in 1 .. SeqMax
                      /\ log[l].sup \in 1 .. SeqMax
                      /\ log[l].seg \in Nat \ {0}
  BY Zenon, <1>1 DEF RecordType
<1>3. QED
  BY <1>1, <1>2, SeqMaxAssumption DEF TypeOK, ClockType

\* A current record that fits still does once the commit in progress ends it.
LEMMA EndedFits ==
  ASSUME NEW r, NEW q, NEW c \in Nat, NEW H, NEW p, NEW w, Fits(r, c, H, p), c + 1 < SeqMax,
         r.seq \in Nat, r.seq <= c + 1, r.sup = SeqMax,
         q.key = r.key, q.seq = r.seq, q.sup = c + 1,
         w[r.key] # "none", p[r.key] = "put" => w[r.key] = "put"
  PROVE  Fits(q, c, H, w)
  BY SeqMaxAssumption DEF Fits

\* A record that is left alone fits what the commit in progress does, unless
\* it is the current one of a key that is changed.
LEMMA KeptFits ==
  ASSUME NEW r, NEW q, NEW c, NEW H, NEW p, NEW w, Fits(r, c, H, p),
         q.key = r.key, q.seq = r.seq, q.sup = r.sup,
         \/ w[r.key] = p[r.key]
         \/ r.sup # SeqMax /\ w[r.key] # "none" /\ (p[r.key] = "put" => w[r.key] = "put")
  PROVE  Fits(q, c, H, w)
  BY Zenon DEF Fits

\* The part of the core that lookups and scans rest on (ShardInvariant).
LEMMA CoreBase == ASSUME Core PROVE Base
<1>1. LogBounded /\ ChainsLive
  BY Zenon DEF Core, LogOrdered, ChainsSound, LogBounded, ChainsLive
<1>2. CurrentReachable
  BY Zenon DEF Core, Reachable, CurrentReachable
<1>3. QED
  BY Zenon, <1>1, <1>2 DEF Core, Base

\* At most one live record of a key is current (OneCurrentVersion).
LEMMA CurrentUnique ==
  ASSUME TypeOK, LockSound, Base, NEW k \in Keys
  PROVE  \A l, m \in CurrentOf(k) : l = m
<1>1. SUFFICES ASSUME NEW l \in CurrentOf(k), NEW m \in CurrentOf(k), log[l].seq <= log[m].seq
               PROVE  l = m
  <2>1. \A l \in CurrentOf(k) : log[l].seq \in Nat
    BY Zenon, RecordFacts DEF CurrentOf
  <2>2. QED
    BY <1>1, <2>1
<1>2. /\ l \in Locs /\ Live(l) /\ log[l].key = k /\ log[l].sup = SeqMax
      /\ m \in Locs /\ Live(m) /\ log[m].key = k /\ log[m].sup = SeqMax
  BY Zenon DEF CurrentOf, IsCurrent
<1>3. /\ log[l].seq \in Nat /\ log[m].seq \in Nat /\ commitSeq \in Nat /\ commitSeq < SeqMax
      /\ SeqMax \in Nat /\ log[m].seq <= commitSeq + 1
  BY Zenon, <1>2, RecordFacts DEF Base, LogBounded
<1>4. log[m].seq = commitSeq + 1 => pend[k] = "put" /\ commitSeq + 1 < SeqMax
  <2>1. log[m].seq = commitSeq + 1 => pend[k] = "put"
    BY Zenon, <1>2 DEF Base, RecordsMatchHistory, Fits
  <2>2. pend[k] = "put" => pend # Quiet
    BY Zenon DEF Quiet
  <2>3. QED
    BY Zenon, <2>1, <2>2 DEF LockSound
<1>5. CASE log[l].seq < log[m].seq
  <2>1. log[l].seq <= commitSeq /\ pend[k] = "none"
    BY <1>2, <1>3, <1>5 DEF Base, RecordsMatchHistory, Fits
  <2>2. log[m].seq <= commitSeq /\ hist[log[m].seq][k] = "put"
    BY <1>2, <1>3, <1>4, <2>1 DEF Base, RecordsMatchHistory, Fits
  <2>3. log[m].seq \in (log[l].seq + 1) .. commitSeq /\ log[m].seq < log[l].sup
    BY <1>2, <1>3, <1>5, <2>2
  <2>4. hist[log[m].seq][k] = "none"
    BY Zenon, <1>2, <2>3 DEF Base, RecordsMatchHistory, Fits
  <2>5. QED
    BY Zenon, <2>2, <2>4
<1>6. CASE log[l].seq = log[m].seq
  <2>1. log[l].sup > log[l].seq /\ log[m].sup > log[m].seq
    BY <1>2, <1>3, <1>4, <1>6
  <2>2. QED
    BY Zenon, <1>2, <1>6, <2>1 DEF Base, VersionsDistinct
<1>7. QED
  BY <1>1, <1>3, <1>5, <1>6

\* A lookup finds exactly the live current record (findCurrent, lookupSealed).
LEMMA FindCurrentExact ==
  ASSUME TypeOK, LockSound, Base, NEW k \in Keys
  PROVE  /\ FindCurrent(k) = CurrentOf(k)
         /\ First(FindCurrent(k)) = {CurrentOf(k)}
<1>1. Hash[k] \in Buckets
  BY Zenon, HashAssumption
<1>2. ChainOf(k) \subseteq {l \in Locs : Live(l) /\ log[l].key = k}
  BY Zenon, <1>1 DEF ChainOf, Base, ChainsLive, TypeOK, ArenaType
<1>3. SealedOf(k) \subseteq {l \in Locs : Live(l) /\ log[l].key = k}
  BY Zenon DEF SealedOf, Live
<1>4. FindCurrent(k) \subseteq CurrentOf(k)
  BY Zenon, <1>2, <1>3 DEF FindCurrent, CurrentOf
<1>5. \A l \in CurrentOf(k) : l \in ChainOf(k) \/ l \in SealedOf(k)
  BY Zenon DEF CurrentOf, Base, CurrentReachable, ChainOf, SealedOf, Live
<1>6. \A l, m \in CurrentOf(k) : l = m
  BY Zenon, CurrentUnique
<1>7. CurrentOf(k) \subseteq FindCurrent(k)
  BY Zenon, <1>2, <1>5, <1>6 DEF FindCurrent, CurrentOf
<1>8. FindCurrent(k) = CurrentOf(k)
  BY Zenon, <1>4, <1>7
<1>9. First(CurrentOf(k)) = {CurrentOf(k)}
  BY <1>6 DEF First
<1>10. QED
  BY Zenon, <1>8, <1>9

-----------------------------------------------------------------------------
(* A delete and a commit, on the records alone. *)

DelEffect(k) ==
  /\ CurrentOf(k) # {}
  /\ Locs' = Locs
  /\ \A l \in Locs : /\ log'[l].key = log[l].key /\ log'[l].seq = log[l].seq
                     /\ log'[l].seg = log[l].seg
                     /\ l \in CurrentOf(k) => log'[l].sup = commitSeq + 1
                     /\ l \notin CurrentOf(k) => log'[l].sup = log[l].sup
  /\ UNCHANGED <<bucket, head, segs, act, nextSeg>>

\* shard.del has the effect described by DelEffect.
LEMMA DelHasEffect ==
  ASSUME TypeOK, LockSound, Base, NEW k \in Keys, DelFound(k, commitSeq + 1)
  PROVE  DelEffect(k)
<1>1. commitSeq + 1 \in 1 .. SeqMax
  BY SeqMaxAssumption DEF TypeOK, ClockType
<1>2. FindCurrent(k) = CurrentOf(k) /\ \A l, m \in CurrentOf(k) : l = m
  BY Zenon, FindCurrentExact, CurrentUnique
<1>3. PICK x \in CurrentOf(k) :
        /\ log' = Superseded(log, {x}, commitSeq + 1)
        /\ UNCHANGED <<bucket, head, segs, act, nextSeg>>
  BY Zenon, <1>2 DEF DelFound
<1>4. PICK S, s : S = CurrentOf(k) /\ s = commitSeq + 1
  BY Zenon
<1>5. S = {x}
  BY Zenon, <1>2, <1>3, <1>4
<1>6. s \in 1 .. SeqMax /\ log' = Superseded(log, S, s)
  BY Zenon, <1>1, <1>3, <1>4, <1>5
<1>7. /\ Locs' = Locs
      /\ \A l \in Locs : log'[l] = IF l \in S THEN [log[l] EXCEPT !.sup = s] ELSE log[l]
  BY <1>6, SupersededLog DEF Locs
<1>8. \A l \in Locs : log[l] \in RecordType
  BY Zenon, LocsAre
<1>9. \A l \in Locs : /\ log'[l].key = log[l].key /\ log'[l].seq = log[l].seq
                      /\ log'[l].seg = log[l].seg
                      /\ l \in S => log'[l].sup = s
                      /\ l \notin S => log'[l].sup = log[l].sup
  BY Zenon, <1>7, <1>8 DEF RecordType
<1>10. QED
  BY Zenon, <1>3, <1>4, <1>7, <1>9 DEF DelEffect

\* Superseding cannot make two records the same version.
LEMMA DelKeepsDistinct ==
  ASSUME TypeOK, Base, NEW k \in Keys, DelEffect(k), commitSeq + 1 < SeqMax
  PROVE  VersionsDistinct'
<1>1. \A l \in Locs : Live(l)' <=> Live(l)
  BY Zenon DEF DelEffect, Live
<1>2. \A l \in Locs : log'[l].sup > log'[l].seq => log[l].sup > log[l].seq
  <2>1. \A l \in CurrentOf(k) : log[l].sup = SeqMax
    BY Zenon DEF CurrentOf, IsCurrent
  <2>2. QED
    BY <2>1, RecordFacts DEF DelEffect, Base, LogBounded
<1>3. QED
  BY <1>1, <1>2 DEF DelEffect, Base, VersionsDistinct

\* After a delete the records fit a commit in progress w that deletes the key.
LEMMA DelFits ==
  ASSUME TypeOK, Base, NEW k \in Keys, DelEffect(k), commitSeq + 1 < SeqMax, pend[k] = "none",
         NEW w, w[k] = "del", \A x \in Keys : x # k => w[x] = pend[x]
  PROVE  \A l \in Locs : Live(l) => Fits(log'[l], commitSeq, hist, w)
<1>1. SUFFICES ASSUME NEW l \in Locs, Live(l)
               PROVE  Fits(log'[l], commitSeq, hist, w)
  OBVIOUS
<1>2. /\ Fits(log[l], commitSeq, hist, pend)
      /\ log[l].seq \in Nat /\ log[l].sup \in Nat /\ log[l].seq <= commitSeq + 1
      /\ log[l].key \in Keys /\ commitSeq \in Nat
  BY Zenon, <1>1, RecordFacts DEF Base, RecordsMatchHistory, LogBounded
<1>3. CASE l \in CurrentOf(k)
  BY Zenon, <1>2, <1>3, EndedFits DEF DelEffect, CurrentOf, IsCurrent
<1>4. CASE l \notin CurrentOf(k)
  BY Zenon, <1>1, <1>2, <1>4, KeptFits DEF DelEffect, CurrentOf, IsCurrent
<1>5. QED
  BY Zenon, <1>3, <1>4

corevars == <<log, bucket, head, segs, act, nextSeg, indexed, sealing, base, sealBase,
              commitSeq, gcFloor, hist, pend>>

\* A record that fits still does when the commit in progress enters the history.
LEMMA CommittedFits ==
  ASSUME NEW r, NEW c \in Nat, NEW H, NEW G, NEW p, NEW w, Fits(r, c, H, p), c + 1 < SeqMax,
         r.seq \in Nat \ {0}, r.seq <= c + 1, r.sup \in Nat \ {0},
         G[c + 1] = p, \A j \in 1 .. c : G[j] = H[j], w[r.key] = "none"
  PROVE  Fits(r, c + 1, G, w)
<1>1. \A j \in (r.seq + 1) .. (c + 1) : j < r.sup => G[j][r.key] = "none"
  <2>1. SUFFICES ASSUME NEW j \in (r.seq + 1) .. (c + 1), j < r.sup
                 PROVE  G[j][r.key] = "none"
    OBVIOUS
  <2>2. CASE j = c + 1
    BY <2>1, <2>2, SeqMaxAssumption DEF Fits
  <2>3. CASE j # c + 1
    <3>1. j \in (r.seq + 1) .. c /\ j \in 1 .. c
      BY <2>3
    <3>2. QED
      BY Zenon, <2>1, <3>1 DEF Fits
  <2>4. QED
    BY Zenon, <2>2, <2>3
<1>2. r.seq <= c + 1 => G[r.seq][r.key] = "put"
  BY DEF Fits
<1>3. r.sup # SeqMax /\ r.sup <= c + 1 => G[r.sup][r.key] # "none"
  BY DEF Fits
<1>4. QED
  BY <1>1, <1>2, <1>3, SeqMaxAssumption DEF Fits

-----------------------------------------------------------------------------
(* The write lock, and what a transaction was told. *)

lockvars == <<lock, pend, changed, fast, snap, buf, out>>

\* Steps of the shard's maintenance and scans leave the lock's state alone.
LEMMA LockKept ==
  ASSUME LockSound, UNCHANGED lockvars, commitSeq' = commitSeq \/ lock = Free
  PROVE  LockSound'
<1>1. lock = Free => lock \notin Txns
  BY Zenon, HolderAssumption
<1>2. QED
  BY Zenon, <1>1 DEF LockSound, lockvars

\* The flusher's steps keep what is known of the lock (applyBatch).
LEMMA LockBatchStep ==
  ASSUME TypeOK, LockSound, LockBatch \/ ApplyBatch \/ UnlockBatch
  PROVE  LockSound'
<1>1. UNCHANGED <<snap, buf, out>>
  BY Zenon DEF LockBatch, ApplyBatch, UnlockBatch, txn
<1>2. lock \notin Txns /\ lock' \in {Free, Batch} /\ lock' \notin Txns
  BY Zenon, HolderAssumption DEF LockBatch, ApplyBatch, UnlockBatch
<1>3. lock' = Free => pend' = Quiet
  BY Zenon DEF LockBatch, ApplyBatch, UnlockBatch, Free, Batch
<1>4. lock' # Free => commitSeq' + 1 < SeqMax
  BY Zenon DEF LockBatch, ApplyBatch, UnlockBatch, LockSound, Free, Batch
<1>5. QED
  BY Zenon, <1>1, <1>2, <1>3, <1>4 DEF LockSound

\* Steps of a transaction before its commit, and taking the lock (applyTxn).
LEMMA LockTxnOpen ==
  ASSUME TypeOK, LockSound, NEW t \in Txns,
         \/ Begin(t) \/ TxnGet(t) \/ LockTxn(t)
         \/ \E k \in Keys : \E op \in {"put", "del"} : TxnWrite(t, k, op)
  PROVE  LockSound'
<1>1. CASE Begin(t)
  BY Zenon, <1>1, LockKept DEF Begin, lockvars, section
<1>2. ASSUME Touch(t), UNCHANGED <<commitSeq, section, out>>, lock # t,
             \A x \in Txns : x # t => buf'[x] = buf[x]
      PROVE  LockSound'
  <2>1. /\ \A x \in Txns : x # t => snap'[x] = snap[x]
        /\ snap'[t] # NoSnap
    BY SMTT(30), <1>2 DEF Touch, SnapOf, TypeOK, TxnType, ClockType, NoSnap
  <2>2. UNCHANGED <<lock, pend, changed, fast, out, commitSeq>>
    BY Zenon, <1>2 DEF section
  <2>3. QED
    BY Zenon, <1>2, <2>1, <2>2 DEF LockSound
<1>3. CASE TxnGet(t)
  <2>1. lock = Free /\ Free # t
    BY Zenon, <1>3, HolderAssumption DEF TxnGet, Touch
  <2>2. QED
    BY Zenon, <1>2, <1>3, <2>1 DEF TxnGet
<1>4. CASE \E k \in Keys : \E op \in {"put", "del"} : TxnWrite(t, k, op)
  <2>1. \A x \in Txns : x # t => buf'[x] = buf[x]
    BY Zenon, <1>4 DEF TxnWrite, TypeOK, TxnType
  <2>2. QED
    BY Zenon, <1>2, <1>4, <2>1 DEF TxnWrite
<1>5. CASE LockTxn(t)
  <2>1. /\ lock = Free /\ lock' = t /\ pend' = Quiet /\ buf[t] # Quiet
        /\ commitSeq + 1 < SeqMax /\ fast' = (commitSeq = snap[t])
        /\ UNCHANGED <<commitSeq, snap, buf, out>>
    BY Zenon, <1>5 DEF LockTxn, txn
  <2>2. \A x \in Txns : out[x] = Quiet
    BY Zenon, <2>1, HolderAssumption DEF LockSound
  <2>3. lock' # Free
    BY Zenon, <2>1, HolderAssumption
  <2>4. \A k \in Keys : pend'[k] = "none"
    BY Zenon, <2>1 DEF Quiet
  <2>5. QED
    BY Zenon, <2>1, <2>2, <2>3, <2>4 DEF LockSound
<1>6. QED
  BY Zenon, <1>1, <1>3, <1>4, <1>5

\* The write of one key of a transaction (applyTxn's loop body).
LEMMA LockApplyTxn ==
  ASSUME TypeOK, LockSound, NEW t \in Txns, NEW k \in Keys, ApplyTxn(t, k)
  PROVE  LockSound'
<1>1. lock = t /\ UNCHANGED <<commitSeq, lock, fast, snap, buf>>
  BY Zenon DEF ApplyTxn
<1>2. /\ \A x \in Txns : x # t => out'[x] = out[x]
      /\ \A x \in Keys : x # k => out'[t][x] = out[t][x]
      /\ out'[t][k] # "none"
  BY SMTT(30) DEF ApplyTxn, Decide, TypeOK, TxnType
<1>3. \/ pend' = pend /\ changed' = changed
      \/ changed' = TRUE /\ \A x \in Keys : x # k => pend'[x] = pend[x]
  BY Zenon DEF ApplyTxn, ShardPut, TypeOK, SectionType
<1>4. \A x \in Keys : x # k => pend'[x] = pend[x]
  BY Zenon, <1>3
<1>5. ~changed' => pend' = pend /\ ~changed
  BY Zenon, <1>3, Zenon
<1>6. t # Free
  BY Zenon, HolderAssumption
<1>7. QED
  BY Zenon, <1>1, <1>2, <1>4, <1>5, <1>6 DEF LockSound

\* A transaction releases the lock and forgets its buffer (Txn.Commit).
LEMMA LockUnlockTxn ==
  ASSUME TypeOK, LockSound, NEW t \in Txns, UnlockTxn(t)
  PROVE  LockSound'
<1>1. lock = t /\ lock' = Free /\ pend' = Quiet
  BY Zenon DEF UnlockTxn
<1>2. /\ \A x \in Txns : x # t => out'[x] = out[x] /\ buf'[x] = buf[x] /\ snap'[x] = snap[x]
      /\ out'[t] = Quiet /\ buf'[t] = Quiet
  BY Zenon DEF UnlockTxn, TypeOK, TxnType
<1>3. QED
  BY Zenon, <1>1, <1>2, HolderAssumption DEF LockSound

-----------------------------------------------------------------------------
(* What holds of a state whose records and history agree. *)

\* An empty shard satisfies the invariant (newShard).
LEMMA InvInit == ASSUME Init PROVE Inv
<1>1. TypeOK
  BY Zenon, TypeInit
<1>2. LockSound /\ FirstCommitterWins /\ NoSpuriousConflict
  BY Zenon, HolderAssumption DEF Init, LockSound, FirstCommitterWins, NoSpuriousConflict
<1>3. Locs = {}
  BY DEF Init, Locs
<1>4. LogOrdered /\ SealOrdered /\ ChainsSound /\ Reachable
  BY Zenon, <1>3 DEF Init, LogOrdered, SealOrdered, ChainsSound, Reachable
<1>5. RecordsMatchHistory /\ VersionsDistinct /\ PutsStored /\ DeletesStored
  BY SMTT(30), <1>3 DEF Init, RecordsMatchHistory, Fits, VersionsDistinct, PutsStored, DeletesStored
<1>6. PendingStored
  BY Zenon DEF Init, PendingStored, Quiet
<1>7. QED
  BY Zenon, <1>1, <1>2, <1>4, <1>5, <1>6 DEF Inv, Core

\* The last put before s, if nothing followed it, is unique.
LEMMA VersionAtUnique ==
  ASSUME TypeOK, NEW k \in Keys, NEW s \in Nat
  PROVE  \A i, j \in VersionAt(k, s) : i = j
<1>1. SUFFICES ASSUME NEW i \in VersionAt(k, s), NEW j \in VersionAt(k, s), i < j PROVE FALSE
  <2>1. \A i \in VersionAt(k, s) : i \in Nat
    BY DEF VersionAt
  <2>2. QED
    BY <1>1, <2>1
<1>2. j \in (i + 1) .. s /\ hist[j][k] = "put"
  BY <1>1 DEF VersionAt
<1>3. QED
  BY Zenon, <1>2 DEF VersionAt

\* Above gcFloor the live segments hold exactly the history's versions.
LEMMA StoredExact ==
  ASSUME TypeOK, Base, NEW k \in Keys, NEW s \in gcFloor .. commitSeq
  PROVE  SeqsOf(Stored(k, s)) = VersionAt(k, s) /\ AtMostOne(Stored(k, s))
<1>1. /\ commitSeq \in Nat /\ gcFloor \in Nat /\ gcFloor <= commitSeq /\ commitSeq < SeqMax
      /\ SeqMax \in Nat /\ s \in Nat /\ s <= commitSeq /\ gcFloor <= s
  BY RecordFacts
<1>2. \A l \in Stored(k, s) :
        /\ l \in Locs /\ Live(l) /\ log[l].key = k /\ log[l].seq <= s /\ s < log[l].sup
        /\ log[l].seq \in Nat \ {0} /\ log[l].sup \in Nat
  BY Zenon, RecordFacts DEF Stored, VisibleAt, Live
<1>3. ASSUME NEW l \in Stored(k, s) PROVE log[l].seq \in VersionAt(k, s)
  <2>1. hist[log[l].seq][k] = "put"
    BY SMTT(30), <1>1, <1>2 DEF Base, RecordsMatchHistory, Fits
  <2>2. ASSUME NEW j \in (log[l].seq + 1) .. s PROVE hist[j][k] = "none"
    <3>1. j \in (log[l].seq + 1) .. commitSeq /\ j < log[l].sup
      BY <1>1, <1>2
    <3>2. QED
      BY SMTT(30), <1>2, <3>1 DEF Base, RecordsMatchHistory, Fits
  <2>3. log[l].seq \in 1 .. s
    BY <1>1, <1>2
  <2>4. QED
    BY Zenon, <2>1, <2>2, <2>3 DEF VersionAt
<1>4. ASSUME NEW i \in VersionAt(k, s) PROVE \E l \in Stored(k, s) : log[l].seq = i
  <2>1. i \in 1 .. s /\ hist[i][k] = "put" /\ \A j \in (i + 1) .. s : hist[j][k] = "none"
    BY Zenon DEF VersionAt
  <2>2. i \in 1 .. commitSeq /\ \A j \in (i + 1) .. gcFloor : hist[j][k] = "none"
    BY SMTT(30), <1>1, <2>1
  <2>3. PICK l \in Locs : Live(l) /\ log[l].key = k /\ log[l].seq = i /\ log[l].sup > i
    BY Zenon, <2>1, <2>2 DEF Base, PutsStored
  <2>4. log[l].sup \in Nat
    BY Zenon, RecordFacts
  <2>5. ASSUME log[l].sup <= s PROVE FALSE
    <3>1. log[l].sup # SeqMax /\ log[l].sup <= commitSeq /\ log[l].sup \in (i + 1) .. s
      BY SMTT(30), <1>1, <2>1, <2>3, <2>4, <2>5
    <3>2. hist[log[l].sup][k] # "none"
      BY Zenon, <2>3, <3>1 DEF Base, RecordsMatchHistory, Fits
    <3>3. QED
      BY Zenon, <2>1, <3>1, <3>2
  <2>6. log[l].seq <= s /\ s < log[l].sup
    BY <1>1, <2>1, <2>3, <2>4, <2>5
  <2>7. log[l].seg \in segs /\ VisibleAt(l, s)
    BY Zenon, <2>3, <2>6 DEF VisibleAt, Live
  <2>8. l \in Stored(k, s)
    BY Zenon, <2>3, <2>7 DEF Stored
  <2>9. QED
    BY Zenon, <2>3, <2>8
<1>5. SeqsOf(Stored(k, s)) = VersionAt(k, s)
  BY Zenon, <1>3, <1>4 DEF SeqsOf
<1>6. ASSUME NEW l \in Stored(k, s), NEW m \in Stored(k, s) PROVE l = m
  <2>1. log[l].seq = log[m].seq
    BY Zenon, <1>1, <1>3, VersionAtUnique
  <2>2. log[l].sup > log[l].seq /\ log[m].sup > log[m].seq
    BY <1>1, <1>2
  <2>3. QED
    BY Zenon, <1>2, <2>1, <2>2 DEF Base, VersionsDistinct
<1>7. QED
  BY Zenon, <1>5, <1>6 DEF AtMostOne

\* While no commit is in progress, the current records are the ones visible now.
LEMMA CurrentIsStored ==
  ASSUME TypeOK, LockSound, Base, lock = Free, NEW k \in Keys
  PROVE  FindCurrent(k) = Stored(k, commitSeq)
<1>1. FindCurrent(k) = CurrentOf(k)
  BY Zenon, FindCurrentExact
<1>2. ASSUME NEW l \in Locs, Live(l), log[l].key = k
      PROVE  log[l].sup = SeqMax <=> VisibleAt(l, commitSeq)
  <2>1. /\ commitSeq \in Nat /\ commitSeq < SeqMax /\ SeqMax \in Nat
        /\ log[l].seq \in Nat /\ log[l].sup \in Nat /\ log[l].seq <= commitSeq + 1
    BY Zenon, RecordFacts DEF Base, LogBounded
  <2>2. pend[k] = "none"
    BY Zenon DEF LockSound, Quiet
  <2>3. log[l].seq # commitSeq + 1
    BY Zenon, <1>2, <2>2 DEF Base, RecordsMatchHistory, Fits
  <2>4. log[l].sup # SeqMax => log[l].sup <= commitSeq + 1 /\ log[l].sup # commitSeq + 1
    BY Zenon, <1>2, <2>2 DEF Base, RecordsMatchHistory, Fits
  <2>5. QED
    BY SMTT(30), <2>1, <2>3, <2>4 DEF VisibleAt
<1>3. QED
  BY Zenon, <1>1, <1>2 DEF CurrentOf, Stored, IsCurrent, Live

\* The properties of lookups, snapshots and chains that need no more than Base.
LEMMA BaseImplies ==
  ASSUME TypeOK, LockSound, Base
  PROVE  OneCurrentVersion /\ GetExact /\ SnapshotExact /\ NoDanglingLink
<1>1. OneCurrentVersion
  BY Zenon, CurrentUnique DEF OneCurrentVersion, AtMostOne, CurrentOf, Live
<1>2. SnapshotExact
  BY Zenon, StoredExact DEF SnapshotExact
<1>3. GetExact
  <2>1. commitSeq \in gcFloor .. commitSeq
    BY RecordFacts
  <2>2. PICK s : s = commitSeq
    BY Zenon
  <2>3. \A k \in Keys : SeqsOf(Stored(k, s)) = VersionAt(k, s)
    BY Zenon, <2>1, <2>2, StoredExact
  <2>4. QED
    BY Zenon, <2>2, <2>3, CurrentIsStored DEF GetExact
<1>4. NoDanglingLink
  BY Zenon DEF Base, ChainsLive, NoDanglingLink, Live
<1>5. QED
  BY Zenon, <1>1, <1>2, <1>3, <1>4

\* Only a current record is ever superseded.
LEMMA SupersedeCurrent ==
  ASSUME TypeOK, [Next]_vars
  PROVE  \A l \in Locs : ~IsCurrent(l) => log'[l] = log[l]
<1>1. TypeOK
  OBVIOUS
<1>2. commitSeq + 1 \in 1 .. SeqMax
  BY SMTT(30), <1>1, SeqMaxAssumption DEF TypeOK, ClockType
<1>3. ASSUME NEW k \in Keys, PutWritten(k, commitSeq + 1)
      PROVE  \A l \in Locs : ~IsCurrent(l) => log'[l] = log[l]
  <2>1. PICK g : PutIn(k, commitSeq + 1, g)
    BY Zenon, <1>3 DEF PutWritten
  <2>2. PICK old \in First(FindCurrent(k)) :
          log' = Append(Superseded(log, old, commitSeq + 1), Record(k, commitSeq + 1, g))
    BY Zenon, <2>1 DEF PutIn
  <2>3. \A l \in old : IsCurrent(l)
    BY Zenon, <1>1, FindCurrentLocs
  <2>4. PICK lg : lg = Superseded(log, old, commitSeq + 1)
    BY Zenon
  <2>5. /\ lg \in Seq(RecordType) /\ DOMAIN lg = Locs
        /\ \A l \in Locs : l \notin old => lg[l] = log[l]
    <3>1. PICK S, s : S = old /\ s = commitSeq + 1
      BY Zenon
    <3>2. Superseded(log, S, s) \in Seq(RecordType) /\ DOMAIN Superseded(log, S, s) = Locs
      BY Zenon, <1>1, <1>2, <3>1, SupersededLog
    <3>3. lg = Superseded(log, S, s)
      BY Zenon, <2>4, <3>1
    <3>4. \A l \in Locs : l \notin old => lg[l] = log[l]
      BY Zenon, <2>4 DEF Superseded, Locs
    <3>5. QED
      BY Zenon, <3>2, <3>3, <3>4
  <2>6. \A l \in Locs : log'[l] = lg[l]
    BY <2>2, <2>4, <2>5
  <2>7. QED
    BY Zenon, <2>3, <2>5, <2>6
<1>4. ASSUME NEW k \in Keys, DelFound(k, commitSeq + 1)
      PROVE  \A l \in Locs : ~IsCurrent(l) => log'[l] = log[l]
  <2>1. PICK x \in FindCurrent(k) : log' = Superseded(log, {x}, commitSeq + 1)
    BY Zenon, <1>4 DEF DelFound
  <2>2. IsCurrent(x)
    BY Zenon, <1>1, FindCurrentLocs
  <2>3. QED
    BY Zenon, <2>1, <2>2 DEF Superseded, Locs
<1>5. CASE log' = log
  BY Zenon, <1>5
<1>6. CASE ApplyBatch
  <2>1. Head(todo) \in Keys
    BY <1>1, <1>6 DEF ApplyBatch, TypeOK, SectionType
  <2>2. QED
    BY Zenon, <1>3, <1>5, <1>6, <2>1 DEF ApplyBatch, ShardPut, PutFailed, arena
<1>7. CASE \E k \in Keys : Delete(k)
  BY Zenon, <1>4, <1>7 DEF Delete
<1>8. ASSUME NEW t \in Txns, NEW k \in Keys, ApplyTxn(t, k)
      PROVE  \A l \in Locs : ~IsCurrent(l) => log'[l] = log[l]
  <2>1. PutWritten(k, commitSeq + 1) \/ DelFound(k, commitSeq + 1) \/ log' = log
    BY Zenon, <1>8 DEF ApplyTxn, ShardPut, PutFailed, arena
  <2>2. QED
    BY Zenon, <1>3, <1>4, <1>5, <2>1
<1>9. CASE \/ UNCHANGED vars \/ LockBatch \/ UnlockBatch
           \/ \E p \in Scanners : ScanBegin(p) \/ ScanVisit(p) \/ ScanEnd(p)
           \/ Sealing \/ Reclaim \/ Truncate
  BY Zenon, <1>5, <1>9 DEF vars, LockBatch, UnlockBatch, ScanBegin, ScanVisit, ScanEnd,
                    Sealing, SealBegin, SealIndex, Evict, Reclaim, Truncate, arena
<1>10. CASE \E t \in Txns :
              \/ Begin(t) \/ TxnGet(t) \/ LockTxn(t) \/ UnlockTxn(t)
              \/ \E k \in Keys, op \in {"put", "del"} : TxnWrite(t, k, op)
  BY Zenon, <1>5, <1>10 DEF Begin, TxnGet, LockTxn, UnlockTxn, TxnWrite, arena
<1>11. QED
  BY Zenon, <1>6, <1>7, <1>8, <1>9, <1>10 DEF Next, Traffic

-----------------------------------------------------------------------------
(* What a put, a delete and any other step may do to the records and to the *)
(* history. It takes the part of the invariant that compaction keeps too.    *)

Basics == TypeOK /\ LockSound /\ Base /\ act \notin indexed /\ act \notin sealing

\* What shard.put does, read off record by record: n is the new location, g
\* its segment. Private segments may have taken ids above the active one.
PutAdds(k, n, g) ==
  /\ n \notin Locs /\ n \in Nat \ {0} /\ Locs' = Locs \cup {n}
  /\ g \in Nat \ {0} /\ g \notin indexed /\ g \notin sealing
  /\ (g = act /\ act \in segs) \/ g = nextSeg
  /\ segs' = segs \cup {g} /\ act' = g
  /\ nextSeg' \in Nat /\ nextSeg <= nextSeg' /\ g < nextSeg'
  /\ log'[n].key = k /\ log'[n].seq = commitSeq + 1 /\ log'[n].sup = SeqMax /\ log'[n].seg = g
  /\ \A l \in Locs : /\ log'[l].key = log[l].key /\ log'[l].seq = log[l].seq
                     /\ log'[l].seg = log[l].seg
                     /\ l \in CurrentOf(k) => log'[l].sup = commitSeq + 1
                     /\ l \notin CurrentOf(k) => log'[l].sup = log[l].sup
  /\ bucket' = [bucket EXCEPT ![Hash[k]] = @ \cup {n}]
  /\ head' = [head EXCEPT ![Hash[k]] = n]

\* shard.put has the effect described by PutAdds, whichever segment it writes to.
LEMMA PutDoes ==
  ASSUME Basics, NEW k \in Keys, PutWritten(k, commitSeq + 1)
  PROVE  \E n, g : PutAdds(k, n, g)
<1>1. TypeOK /\ LockSound /\ Base
  BY Zenon DEF Basics
<1>2. commitSeq + 1 \in 1 .. SeqMax
  BY <1>1, SeqMaxAssumption DEF TypeOK, ClockType
<1>3. PICK g \in Nat \ {0} :
        /\ PutIn(k, commitSeq + 1, g)
        /\ segs' = segs \cup {g} /\ act' = g
        /\ (g = act /\ act \in segs) \/ g = nextSeg
        /\ nextSeg' \in Nat /\ nextSeg <= nextSeg' /\ g < nextSeg'
  <2>1. CASE ~NeedsSegment /\ PutIn(k, commitSeq + 1, act) /\ UNCHANGED <<segs, act, nextSeg>>
    <3>1. act \in segs /\ act \in Nat \ {0} /\ act < nextSeg /\ nextSeg \in Nat
      BY <1>1, <2>1 DEF NeedsSegment, TypeOK, ArenaType, NoSeg
    <3>2. segs' = segs \cup {act} /\ act' = act /\ nextSeg' = nextSeg
      BY Zenon, <2>1, <3>1
    <3>3. QED
      BY <2>1, <3>1, <3>2
  <2>2. CASE /\ PutIn(k, commitSeq + 1, nextSeg)
             /\ segs' = segs \cup {nextSeg} /\ act' = nextSeg /\ nextSeg' = nextSeg + 1
    BY <1>1, <2>2 DEF TypeOK, ArenaType
  <2>3. QED
    BY Zenon, <2>1, <2>2 DEF PutWritten
<1> DEFINE n == Len(log) + 1
<1>4. First(FindCurrent(k)) = {CurrentOf(k)}
  BY Zenon, <1>1, FindCurrentExact
<1>5. /\ log' = Append(Superseded(log, CurrentOf(k), commitSeq + 1), Record(k, commitSeq + 1, g))
      /\ bucket' = [bucket EXCEPT ![Hash[k]] = @ \cup {n}]
      /\ head' = [head EXCEPT ![Hash[k]] = n]
  BY Zenon, <1>3, <1>4 DEF PutIn
<1>6. PICK S, s : S = CurrentOf(k) /\ s = commitSeq + 1
  BY Zenon
<1>7. s \in 1 .. SeqMax /\ log' = Append(Superseded(log, S, s), Record(k, s, g))
  BY Zenon, <1>2, <1>5, <1>6
<1>8. /\ Locs' = Locs \cup {n} /\ n \notin Locs
      /\ log'[n].key = k /\ log'[n].seq = commitSeq + 1
      /\ log'[n].sup = SeqMax /\ log'[n].seg = g
  <2>1. Locs' = Locs \cup {n} /\ n \notin Locs /\ log'[n] = Record(k, s, g)
    BY <1>1, <1>7, PutLog
  <2>2. QED
    BY <1>6, <2>1 DEF Record
<1>9. \A l \in Locs : /\ log'[l].key = log[l].key /\ log'[l].seq = log[l].seq
                      /\ log'[l].seg = log[l].seg
                      /\ l \in CurrentOf(k) => log'[l].sup = commitSeq + 1
                      /\ l \notin CurrentOf(k) => log'[l].sup = log[l].sup
  <2>1. \A l \in Locs : log'[l] = IF l \in S THEN [log[l] EXCEPT !.sup = s] ELSE log[l]
    BY Zenon, <1>1, <1>7, PutLog
  <2>2. \A l \in Locs : log[l] \in RecordType
    BY Zenon, <1>1, LocsAre
  <2>3. \A l \in Locs : /\ log'[l].key = log[l].key /\ log'[l].seq = log[l].seq
                        /\ log'[l].seg = log[l].seg
                        /\ l \in S => log'[l].sup = s
                        /\ l \notin S => log'[l].sup = log[l].sup
    BY Zenon, <2>1, <2>2 DEF RecordType
  <2>4. QED
    BY Zenon, <1>6, <2>3
<1>10. g \notin indexed /\ g \notin sealing
  BY <1>1, <1>3 DEF TypeOK, ArenaType, SealType, Basics
<1>11. n \in Nat \ {0}
  BY <1>1, LocsAre
<1>12. PutAdds(k, n, g)
  BY Zenon, <1>3, <1>5, <1>8, <1>9, <1>10, <1>11 DEF PutAdds
<1>13. QED
  BY Zenon, <1>12

\* Records stay, with their key, sequence and segment; only a current one may
\* end, at the sequence of the commit in progress.
GrowsAt(l) ==
  /\ l \in Locs'
  /\ log'[l].key = log[l].key /\ log'[l].seq = log[l].seq /\ log'[l].seg = log[l].seg
  /\ log'[l].sup = log[l].sup \/ (log[l].sup = SeqMax /\ log'[l].sup = commitSeq + 1)

LogGrows == \A l \in Locs : GrowsAt(l)

\* A put and a delete do no more than that to the log (supersedeRec).
LEMMA PutGrows ==
  ASSUME Basics, NEW k \in Keys, PutWritten(k, commitSeq + 1) \/ DelFound(k, commitSeq + 1)
  PROVE  LogGrows
<1>1. \A l \in CurrentOf(k) : log[l].sup = SeqMax
  BY Zenon DEF CurrentOf, IsCurrent
<1>2. CASE PutWritten(k, commitSeq + 1)
  <2>1. PICK n, g : PutAdds(k, n, g)
    BY Zenon, <1>2, PutDoes
  <2>2. QED
    BY Zenon, <1>1, <2>1 DEF PutAdds, LogGrows, GrowsAt
<1>3. CASE DelFound(k, commitSeq + 1)
  <2>1. DelEffect(k)
    BY Zenon, <1>3, DelHasEffect DEF Basics
  <2>2. QED
    BY Zenon, <1>1, <2>1 DEF DelEffect, LogGrows, GrowsAt
<1>4. QED
  BY Zenon, <1>2, <1>3

\* Every step: either the history stays, or one commit joins it.
HistGrows ==
  \/ UNCHANGED <<commitSeq, hist>>
  \/ commitSeq + 1 < SeqMax /\ \E did \in [Keys -> Ops] : Commit(did)

\* What a step may do to the log and the history (shard.go, txn.go, compact.go).
LEMMA StepGrows ==
  ASSUME Basics, [Next]_vars
  PROVE  LogGrows /\ HistGrows
<1>1. TypeOK /\ LockSound /\ Base
  BY Zenon DEF Basics
<1>2. log' = log => LogGrows
  BY Zenon DEF LogGrows, GrowsAt, Locs
<1>3. CASE LockBatch \/ UnlockBatch
  <2>1. log' = log
    BY Zenon, <1>3 DEF LockBatch, UnlockBatch, arena
  <2>2. HistGrows
    BY Zenon, <1>1, <1>3 DEF LockBatch, UnlockBatch, HistGrows, TypeOK, SectionType, LockSound, Batch, Free
  <2>3. QED
    BY Zenon, <1>2, <2>1, <2>2
<1>4. CASE ApplyBatch
  <2>1. Head(todo) \in Keys
    BY <1>1, <1>4 DEF ApplyBatch, TypeOK, SectionType
  <2>2. PutWritten(Head(todo), commitSeq + 1) \/ log' = log
    BY Zenon, <1>4 DEF ApplyBatch, ShardPut, PutFailed, arena
  <2>3. LogGrows
    BY Zenon, <1>1, <1>2, <2>1, <2>2, PutGrows
  <2>4. QED
    BY Zenon, <1>4, <2>3 DEF ApplyBatch, HistGrows
<1>5. ASSUME NEW k \in Keys, Delete(k) PROVE LogGrows /\ HistGrows
  <2>1. LogGrows
    BY Zenon, <1>1, <1>5, PutGrows DEF Delete
  <2>2. [Quiet EXCEPT ![k] = "del"] \in [Keys -> Ops]
    BY Zenon DEF Quiet, Ops
  <2>3. QED
    BY Zenon, <1>5, <2>1, <2>2 DEF Delete, HistGrows
<1>6. ASSUME NEW t \in Txns, NEW k \in Keys, ApplyTxn(t, k) PROVE LogGrows /\ HistGrows
  <2>1. \/ PutWritten(k, commitSeq + 1) \/ DelFound(k, commitSeq + 1)
        \/ log' = log
    BY Zenon, <1>6 DEF ApplyTxn, ShardPut, PutFailed, arena
  <2>2. LogGrows
    BY Zenon, <1>1, <1>2, <2>1, PutGrows
  <2>3. QED
    BY Zenon, <1>6, <2>2 DEF ApplyTxn, HistGrows
<1>7. ASSUME NEW t \in Txns, UnlockTxn(t) PROVE LogGrows /\ HistGrows
  <2>1. log' = log
    BY Zenon, <1>7 DEF UnlockTxn, arena
  <2>2. lock # Free /\ pend \in [Keys -> Ops]
    BY Zenon, <1>1, <1>7, HolderAssumption DEF UnlockTxn, TypeOK, SectionType
  <2>3. HistGrows
    BY Zenon, <1>1, <1>7, <2>2 DEF UnlockTxn, LockSound, HistGrows
  <2>4. QED
    BY Zenon, <1>2, <2>1, <2>3
<1>8. CASE \E t \in Txns :
              \/ Begin(t) \/ TxnGet(t) \/ LockTxn(t)
              \/ \E k \in Keys, op \in {"put", "del"} : TxnWrite(t, k, op)
  BY Zenon, <1>2, <1>8 DEF Begin, TxnGet, LockTxn, TxnWrite, arena, HistGrows
<1>9. CASE \/ UNCHANGED vars \/ Sealing \/ Reclaim
           \/ \E p \in Scanners : ScanBegin(p) \/ ScanVisit(p) \/ ScanEnd(p)
  <2>1. log' = log /\ UNCHANGED <<commitSeq, hist>>
    BY Zenon, <1>9 DEF vars, ScanBegin, ScanVisit, ScanEnd,
                       Sealing, SealBegin, SealIndex, Evict, Reclaim, arena
  <2>2. QED
    BY Zenon, <1>2, <2>1 DEF HistGrows
<1>10. CASE Truncate
  <2>1. [k \in Keys |-> "del"] \in [Keys -> Ops]
    BY Zenon DEF Ops
  <2>2. QED
    BY Zenon, <1>2, <1>10, <2>1 DEF Truncate, HistGrows
<1>11. QED
  BY Zenon, <1>3, <1>4, <1>5, <1>6, <1>7, <1>8, <1>9, <1>10 DEF Next, Traffic

-----------------------------------------------------------------------------
(* Scans. *)

\* What a scan at s has yielded or will: the records of k visible at s.
InView(L, k, s) == {l \in L : log[l].key = k /\ VisibleAt(l, s)}

\* A scan has yielded only records visible at its sequence, and together with
\* what it has still to read they are the versions current then, each once.
Promised(s, left, seen) ==
  /\ s \in 0 .. commitSeq
  /\ \A l \in seen : VisibleAt(l, s)
  /\ \A k \in Keys : LET V == InView(left \cup seen, k, s)
                     IN  SeqsOf(V) = VersionAt(k, s) /\ AtMostOne(V)

ScansSound ==
  \A p \in Scanners :
    scan[p].s0 # NoSnap => Promised(scan[p].s0, scan[p].left, scan[p].seen)

\* The history up to s never changes.
LEMMA PastIsFixed ==
  ASSUME TypeOK, HistGrows, NEW k \in Keys, NEW s \in 0 .. commitSeq
  PROVE  VersionAt(k, s)' = VersionAt(k, s) /\ s \in 0 .. commitSeq'
<1>1. commitSeq \in Nat
  BY DEF TypeOK, ClockType
<1>2. /\ commitSeq' \in Nat /\ commitSeq <= commitSeq'
      /\ \A j \in 1 .. commitSeq : hist'[j] = hist[j]
  BY <1>1, CommitClock DEF HistGrows
<1>3. \A j \in 1 .. s : hist'[j] = hist[j]
  BY <1>1, <1>2
<1>4. \A i \in 1 .. s : \A j \in (i + 1) .. s : j \in 1 .. s
  OBVIOUS
<1>5. VersionAt(k, s)' = VersionAt(k, s)
  BY Zenon, <1>3, <1>4 DEF VersionAt
<1>6. QED
  BY <1>1, <1>2, <1>5

\* Nor does it change which records are visible at s.
LEMMA ViewIsFixed ==
  ASSUME TypeOK, NEW L \in SUBSET Locs, \A l \in L : GrowsAt(l), NEW s \in 0 .. commitSeq
  PROVE  /\ \A l \in L : VisibleAt(l, s)' <=> VisibleAt(l, s)
         /\ \A k \in Keys : /\ InView(L, k, s)' = InView(L, k, s)
                            /\ SeqsOf(InView(L, k, s))' = SeqsOf(InView(L, k, s))
<1>1. \A l \in L : VisibleAt(l, s)' <=> VisibleAt(l, s)
  BY RecordFacts DEF VisibleAt, GrowsAt
<1>2. ASSUME NEW k \in Keys
      PROVE  InView(L, k, s)' = InView(L, k, s)
  BY Zenon, <1>1 DEF InView, GrowsAt
<1>3. ASSUME NEW k \in Keys
      PROVE  SeqsOf(InView(L, k, s))' = SeqsOf(InView(L, k, s))
  <2>1. PICK V : V = InView(L, k, s)
    BY Zenon
  <2>2. V \subseteq L
    BY Zenon, <2>1 DEF InView
  <2>3. SeqsOf(V)' = SeqsOf(V)
    BY Zenon, <2>2 DEF SeqsOf, GrowsAt
  <2>4. QED
    BY Zenon, <1>2, <2>1, <2>3 DEF SeqsOf
<1>4. QED
  BY Zenon, <1>1, <1>2, <1>3

\* A scan that begins at a retained sequence has before it all the versions
\* current then: the segments it leaves out hold none (buildWindowsLocked).
LEMMA ScanBeginSound ==
  ASSUME TypeOK, Base, NEW k \in Keys, NEW s \in gcFloor .. commitSeq,
         NEW L, L = {l \in Locs : log[l].seg \in {g \in segs : SegVisibleAt(g, s)}}
  PROVE  SeqsOf(InView(L, k, s)) = VersionAt(k, s) /\ AtMostOne(InView(L, k, s))
<1>1. \A l \in Locs : log[l].seq \in Nat /\ log[l].sup \in Nat
  BY Zenon, RecordFacts
<1>2. \A l \in Stored(k, s) : SegVisibleAt(log[l].seg, s)
  BY <1>1 DEF Stored, VisibleAt, SegVisibleAt, DeadBy, RecsOf
<1>3. InView(L, k, s) = Stored(k, s)
  BY Zenon, <1>2 DEF InView, Stored
<1>4. QED
  BY Zenon, <1>3, StoredExact

\* Every step keeps what a scan in flight has promised.
LEMMA PromiseKept ==
  ASSUME TypeOK, HistGrows, NEW s, NEW left \in SUBSET Locs, NEW seen \in SUBSET Locs,
         \A l \in left \cup seen : GrowsAt(l), Promised(s, left, seen)
  PROVE  Promised(s, left, seen)'
<1>1. s \in 0 .. commitSeq /\ \A l \in seen : VisibleAt(l, s)
  BY Zenon DEF Promised
<1>2. s \in 0 .. commitSeq'
  <2>1. commitSeq \in Nat /\ commitSeq' \in Nat /\ commitSeq <= commitSeq'
    BY CommitClock DEF TypeOK, ClockType, HistGrows
  <2>2. QED
    BY <1>1, <2>1
<1>3. \A l \in seen : VisibleAt(l, s)'
  <2>1. PICK L \in SUBSET Locs : L = left \cup seen
    BY Zenon
  <2>2. \A l \in L : VisibleAt(l, s)' <=> VisibleAt(l, s)
    BY Zenon, <1>1, <2>1, ViewIsFixed
  <2>3. QED
    BY Zenon, <1>1, <2>1, <2>2
<1>4. ASSUME NEW k \in Keys
      PROVE  LET V == InView(left \cup seen, k, s)
             IN  SeqsOf(V)' = VersionAt(k, s)' /\ AtMostOne(V)'
  <2>1. PICK L \in SUBSET Locs : L = left \cup seen
    BY Zenon
  <2>2. SeqsOf(InView(L, k, s)) = VersionAt(k, s) /\ AtMostOne(InView(L, k, s))
    BY Zenon, <2>1 DEF Promised
  <2>3. SeqsOf(InView(L, k, s))' = VersionAt(k, s)' /\ AtMostOne(InView(L, k, s))'
    BY <1>1, <2>1, <2>2, ViewIsFixed, PastIsFixed DEF AtMostOne
  <2>4. QED
    BY Zenon, <2>1, <2>3
<1>5. QED
  BY Zenon, <1>2, <1>3, <1>4 DEF Promised

\* What a scan reads of its next record goes from what is left to what is
\* seen, if it is visible, so that the scan's own steps keep its promise
\* (buildWindowsLocked, forEachVisible).
LEMMA ScanActs ==
  ASSUME TypeOK, Base, ScansSound, NEW p \in Scanners, scan'[p].s0 # NoSnap,
         scan'[p] = scan[p] \/ ScanBegin(p) \/ ScanVisit(p) \/ ScanEnd(p)
  PROVE  \E s : \E left, seen \in SUBSET Locs :
           /\ Promised(s, left, seen)
           /\ s = scan'[p].s0 /\ left = scan'[p].left /\ seen = scan'[p].seen
<1>1. scan \in [Scanners -> [s0 : -1 .. commitSeq, left : SUBSET Locs, seen : SUBSET Locs]]
  BY Zenon DEF TypeOK, ScanType
<1>2. CASE scan'[p] = scan[p]
  BY Zenon, <1>1, <1>2 DEF ScansSound
<1>3. CASE ScanBegin(p)
  <2>1. PICK s \in ScanSeqs :
          scan'[p] = [s0 |-> s, left |-> {l \in Locs : log[l].seg \in {g \in segs : SegVisibleAt(g, s)}},
                      seen |-> {}]
    BY Zenon, <1>1, <1>3 DEF ScanBegin
  <2>2. PICK L \in SUBSET Locs : L = {l \in Locs : log[l].seg \in {g \in segs : SegVisibleAt(g, s)}}
    BY Zenon
  <2>3. s \in gcFloor .. commitSeq /\ s \in 0 .. commitSeq
    BY RecordFacts DEF ScanSeqs
  <2>4. \A k \in Keys : SeqsOf(InView(L, k, s)) = VersionAt(k, s) /\ AtMostOne(InView(L, k, s))
    BY Zenon, <2>2, <2>3, ScanBeginSound
  <2>5. L \cup {} = L
    OBVIOUS
  <2>6. Promised(s, L, {})
    BY Zenon, <2>3, <2>4, <2>5 DEF Promised
  <2>7. QED
    BY <2>1, <2>2, <2>6
<1>4. CASE ScanVisit(p)
  <2>1. PICK x \in scan[p].left :
          scan' = [scan EXCEPT ![p].left = @ \ {x},
                               ![p].seen = IF VisibleAt(x, scan[p].s0) THEN @ \cup {x} ELSE @]
    BY Zenon, <1>4 DEF ScanVisit
  <2>2. PICK s, left, seen : s = scan[p].s0 /\ left = scan[p].left /\ seen = scan[p].seen
    BY Zenon
  <2>3. PICK more : more = IF VisibleAt(x, s) THEN seen \cup {x} ELSE seen
    BY Zenon
  <2>4. scan'[p].s0 = s /\ scan'[p].left = left \ {x} /\ scan'[p].seen = more
    BY Zenon, <1>1, <2>1, <2>2, <2>3
  <2>5. Promised(s, left, seen)
    BY Zenon, <2>2, <2>4 DEF ScansSound
  <2>6. \A k \in Keys : InView((left \ {x}) \cup more, k, s) = InView(left \cup seen, k, s)
    BY Zenon, <2>1, <2>2, <2>3 DEF InView
  <2>7. Promised(s, left \ {x}, more)
    BY Zenon, <2>3, <2>5, <2>6 DEF Promised
  <2>8. left \in SUBSET Locs /\ seen \in SUBSET Locs
    BY Zenon, <1>1, <2>2
  <2>9. left \ {x} \in SUBSET Locs /\ more \in SUBSET Locs
    BY Zenon, <2>1, <2>2, <2>3, <2>8
  <2>10. QED
    BY Zenon, <2>4, <2>7, <2>9
<1>5. CASE ScanEnd(p)
  BY Zenon, <1>1, <1>5 DEF ScanEnd, Idle
<1>6. QED
  BY Zenon, <1>2, <1>3, <1>4, <1>5

\* What a scan will have yielded once the step is taken is what it had
\* promised before it (Promised reads the log and the history only).
LEMMA PromiseMoves ==
  ASSUME NEW p, NEW s, NEW left, NEW seen, Promised(s, left, seen)',
         s = scan'[p].s0, left = scan'[p].left, seen = scan'[p].seen
  PROVE  Promised(scan[p].s0, scan[p].left, scan[p].seen)'
BY DEF Promised, InView, VisibleAt, SeqsOf, VersionAt, AtMostOne

\* A scan keeps its promise over every step of others.
LEMMA ScanStep ==
  ASSUME Basics, ScansSound, [Next]_vars PROVE ScansSound'
<1>1. TypeOK /\ LockSound /\ Base
  BY Zenon DEF Basics
<1>2. LogGrows /\ HistGrows
  BY Zenon, StepGrows
<1>3. SUFFICES ASSUME NEW p \in Scanners, scan'[p].s0 # NoSnap
               PROVE  Promised(scan[p].s0, scan[p].left, scan[p].seen)'
  BY Zenon DEF ScansSound
<1>4. scan'[p] = scan[p] \/ ScanBegin(p) \/ ScanVisit(p) \/ ScanEnd(p)
  <2>1. ASSUME NEW q \in Scanners, ScanBegin(q) \/ ScanVisit(q) \/ ScanEnd(q), q # p
        PROVE  scan'[p] = scan[p]
    BY Zenon, <1>1, <2>1 DEF TypeOK, ScanType, ScanBegin, ScanVisit, ScanEnd
  <2>2. CASE \E q \in Scanners : ScanBegin(q) \/ ScanVisit(q) \/ ScanEnd(q)
    BY Zenon, <2>1, <2>2
  <2>3. CASE ~ \E q \in Scanners : ScanBegin(q) \/ ScanVisit(q) \/ ScanEnd(q)
    <3>1. UNCHANGED scan
      BY Zenon, <2>3 DEF Next, Traffic, vars, LockBatch, ApplyBatch, UnlockBatch, Delete, Begin,
         TxnGet, LockTxn, UnlockTxn, ApplyTxn, TxnWrite, Sealing, SealBegin, SealIndex, Evict,
         Reclaim, Truncate
    <3>2. QED
      BY Zenon, <3>1
  <2>4. QED
    BY Zenon, <2>2, <2>3
<1>5. PICK s, left, seen :
        /\ left \in SUBSET Locs /\ seen \in SUBSET Locs /\ Promised(s, left, seen)
        /\ s = scan'[p].s0 /\ left = scan'[p].left /\ seen = scan'[p].seen
  BY Zenon, <1>1, <1>3, <1>4, ScanActs
<1>6. \A l \in left \cup seen : GrowsAt(l)
  BY Zenon, <1>2, <1>5 DEF LogGrows
<1>7. Promised(s, left, seen)'
  BY Zenon, <1>1, <1>2, <1>5, <1>6, PromiseKept
<1>8. QED
  BY Zenon, <1>5, <1>7, PromiseMoves

\* Scans that keep their promise have yielded every key live at their sequence
\* exactly once when they finish.
LEMMA PromisesSuffice == ASSUME ScansSound PROVE ScanExactlyOnce
<1>1. SUFFICES ASSUME NEW p \in Scanners, scan[p].s0 # NoSnap, scan[p].left = {},
                      NEW k \in Keys
               PROVE  LET got == {l \in scan[p].seen : log[l].key = k}
                      IN  SeqsOf(got) = VersionAt(k, scan[p].s0) /\ AtMostOne(got)
  BY Zenon DEF ScanExactlyOnce
<1>2. Promised(scan[p].s0, scan[p].left, scan[p].seen)
  BY Zenon, <1>1 DEF ScansSound
<1>3. {l \in scan[p].seen : log[l].key = k} = InView(scan[p].left \cup scan[p].seen, k, scan[p].s0)
  BY Zenon, <1>1, <1>2 DEF Promised, InView
<1>4. QED
  BY Zenon, <1>2, <1>3 DEF Promised
=============================================================================
