---------------------------- MODULE ShardClients ----------------------------
(* What clients rely on over several steps: the number of live keys, and the *)
(* atomic snapshots of SnapshotStore; and everything they rely on while a    *)
(* compaction runs beside them.                                              *)
EXTENDS ShardTheorems, CompactionProof, FiniteSetTheorems, WellFoundedInduction

-----------------------------------------------------------------------------
(* The number of live keys. *)

\* sh.count counts the keys with a current record, also while a commit is in
\* progress.
CurKeys == {k \in Keys : CurrentOf(k) # {}}
CountSound == IsFiniteSet(CurKeys) /\ count = Cardinality(CurKeys)

\* A put makes its key live, and counts it if it was not.
LEMMA CountPut ==
  ASSUME Basics, CountSound, NEW k \in Keys, PutWritten(k, commitSeq + 1)
  PROVE  CountSound'
<1>1. PICK n, g : PutAdds(k, n, g)
  BY Zenon, PutDoes
<1>2. ASSUME NEW j \in Keys, j # k PROVE CurrentOf(j)' = CurrentOf(j)
  <2>1. \A l \in Locs : Live(l)' <=> Live(l)
    <3>1. \A l \in Locs : log[l].seg # nextSeg
      BY RecordFacts DEF Basics, Base, LogBounded, TypeOK, ArenaType
    <3>2. QED
      BY Zenon, <1>1, <3>1 DEF PutAdds, Live
  <2>2. \A l \in Locs : log[l].key = j => l \notin CurrentOf(k)
    BY Zenon, <1>2 DEF CurrentOf
  <2>3. \A l \in Locs' : log'[l].key = j => l \in Locs
    BY Zenon, <1>1, <1>2 DEF PutAdds
  <2>4. \A l \in Locs : log[l].key = j => log'[l].sup = log[l].sup /\ log'[l].key = log[l].key
    BY Zenon, <1>1, <2>2 DEF PutAdds
  <2>5. Locs \subseteq Locs' /\ \A l \in Locs : log'[l].key = log[l].key
    BY Zenon, <1>1 DEF PutAdds
  <2>6. QED
    BY Zenon, <2>1, <2>3, <2>4, <2>5 DEF CurrentOf, IsCurrent
<1>3. CurrentOf(k)' # {}
  <2>1. n \in Locs' /\ log'[n].key = k /\ log'[n].sup = SeqMax /\ log'[n].seg \in segs'
    BY Zenon, <1>1 DEF PutAdds
  <2>2. n \in CurrentOf(k)'
    BY Zenon, <2>1 DEF CurrentOf, IsCurrent, Live
  <2>3. QED
    BY Zenon, <2>2
<1>4. CurKeys' = CurKeys \cup {k}
  BY Zenon, <1>2, <1>3 DEF CurKeys
<1>5. count' = IF k \in CurKeys THEN count ELSE count + 1
  <2>1. First(FindCurrent(k)) = {CurrentOf(k)}
    BY Zenon, FindCurrentExact DEF Basics
  <2>2. PICK f : PutIn(k, commitSeq + 1, f)
    BY Zenon DEF PutWritten
  <2>3. count' = IF CurrentOf(k) = {} THEN count + 1 ELSE count
    BY Zenon, <2>1, <2>2 DEF PutIn
  <2>4. QED
    BY Zenon, <2>3 DEF CurKeys
<1>6. QED
  BY Zenon, <1>4, <1>5, FS_AddElement DEF CountSound

\* A delete takes a live key away, and counts it out.
LEMMA CountDel ==
  ASSUME Basics, CountSound, NEW k \in Keys, DelFound(k, commitSeq + 1),
         commitSeq + 1 < SeqMax
  PROVE  CountSound'
<1>1. DelEffect(k)
  BY Zenon, DelHasEffect DEF Basics
<1>2. \A l \in Locs : Live(l)' <=> Live(l)
  BY Zenon, <1>1 DEF DelEffect, Live
<1>3. ASSUME NEW j \in Keys, j # k PROVE CurrentOf(j)' = CurrentOf(j)
  <2>1. \A l \in Locs : log[l].key = j => l \notin CurrentOf(k)
    BY Zenon, <1>3 DEF CurrentOf
  <2>2. QED
    BY Zenon, <1>1, <1>2, <2>1 DEF DelEffect, CurrentOf, IsCurrent
<1>4. CurrentOf(k)' = {}
  <2>1. commitSeq + 1 # SeqMax
    BY SeqMaxAssumption
  <2>2. QED
    BY Zenon, <1>1, <1>2, <2>1 DEF DelEffect, CurrentOf, IsCurrent
<1>5. CurKeys' = CurKeys \ {k} /\ k \in CurKeys
  BY Zenon, <1>1, <1>3, <1>4 DEF CurKeys, DelEffect
<1>6. count' = count - 1
  BY Zenon DEF DelFound
<1>7. QED
  BY Zenon, <1>5, <1>6, FS_RemoveElement DEF CountSound

\* Every step keeps the count: reclaim drops no current record, Truncate all.
LEMMA CountStep ==
  ASSUME Basics, CountSound, [Next]_vars PROVE CountSound'
<1>1. TypeOK /\ LockSound /\ Base
  BY Zenon DEF Basics
<1>2. ASSUME UNCHANGED <<log, segs, count>> PROVE CountSound'
  <2>1. \A k \in Keys : CurrentOf(k)' = CurrentOf(k)
    BY Zenon, <1>2 DEF CurrentOf, IsCurrent, Live, Locs
  <2>2. CurKeys' = CurKeys
    BY Zenon, <2>1 DEF CurKeys
  <2>3. QED
    BY Zenon, <1>2, <2>2 DEF CountSound
<1>3. CASE ApplyBatch
  <2>1. Head(todo) \in Keys
    BY <1>1, <1>3 DEF ApplyBatch, TypeOK, SectionType
  <2>2. PutWritten(Head(todo), commitSeq + 1) \/ UNCHANGED <<log, segs, count>>
    BY Zenon, <1>3 DEF ApplyBatch, ShardPut, PutFailed, arena
  <2>3. QED
    BY Zenon, <1>1, <1>2, <2>1, <2>2, CountPut
<1>4. ASSUME NEW k \in Keys, Delete(k) PROVE CountSound'
  BY Zenon, <1>1, <1>4, CountDel DEF Delete
<1>5. ASSUME NEW t \in Txns, NEW k \in Keys, ApplyTxn(t, k) PROVE CountSound'
  <2>1. commitSeq + 1 < SeqMax
    BY Zenon, <1>1, <1>5, HolderAssumption DEF ApplyTxn, LockSound
  <2>2. \/ PutWritten(k, commitSeq + 1) \/ DelFound(k, commitSeq + 1)
        \/ UNCHANGED <<log, segs, count>>
    BY Zenon, <1>5 DEF ApplyTxn, ShardPut, PutFailed, arena
  <2>3. QED
    BY Zenon, <1>1, <1>2, <2>1, <2>2, CountPut, CountDel
<1>6. CASE \/ UNCHANGED vars \/ LockBatch \/ UnlockBatch \/ Sealing
           \/ \E p \in Scanners : ScanBegin(p) \/ ScanVisit(p) \/ ScanEnd(p)
  <2>1. UNCHANGED <<log, segs, count>>
    BY Zenon, <1>6 DEF vars, LockBatch, UnlockBatch, ScanBegin, ScanVisit, ScanEnd,
                       Sealing, SealBegin, SealIndex, Evict, arena
  <2>2. QED
    BY Zenon, <1>2, <2>1
<1>7. CASE \E t \in Txns :
             \/ Begin(t) \/ TxnGet(t) \/ LockTxn(t) \/ UnlockTxn(t)
             \/ \E k \in Keys, op \in {"put", "del"} : TxnWrite(t, k, op)
  BY Zenon, <1>2, <1>7 DEF Begin, TxnGet, LockTxn, UnlockTxn, TxnWrite, arena
<1>8. CASE Reclaim
  <2>1. PICK retain \in RetainFloors, dead \in SUBSET segs :
          segs' = segs \ dead /\ \A g \in dead : DeadBy(g, retain)
    BY Zenon, <1>8 DEF Reclaim
  <2>2. UNCHANGED <<log, count>>
    BY Zenon, <1>8 DEF Reclaim
  <2>3. retain < SeqMax
    BY <1>1, RecordFacts DEF RetainFloors
  <2>4. \A l \in Locs : log[l].sup = SeqMax => log[l].seg \notin dead
    BY <1>1, <2>1, <2>3, RecordFacts DEF DeadBy, RecsOf, RetainFloors
  <2>5. \A k \in Keys : CurrentOf(k)' = CurrentOf(k)
    BY Zenon, <2>1, <2>2, <2>4 DEF CurrentOf, IsCurrent, Live, Locs
  <2>6. CurKeys' = CurKeys
    BY Zenon, <2>5 DEF CurKeys
  <2>7. QED
    BY Zenon, <2>2, <2>6 DEF CountSound
<1>9. CASE Truncate
  <2>1. count' = 0 /\ segs' = {}
    BY Zenon, <1>9 DEF Truncate
  <2>2. CurKeys' = {}
    BY Zenon, <2>1 DEF CurKeys, CurrentOf, Live
  <2>3. QED
    BY Zenon, <2>1, <2>2, FS_EmptySet DEF CountSound
<1>10. QED
  BY Zenon, <1>3, <1>4, <1>5, <1>6, <1>7, <1>8, <1>9 DEF Next, Traffic

\* While no commit is in progress the keys with a current record are the live
\* ones, so the count of the former is exact.
LEMMA CountSuffices ==
  ASSUME TypeOK, LockSound, Base, CountSound PROVE CountExact
<1>1. SUFFICES ASSUME lock = Free
               PROVE  count = Cardinality({k \in Keys : VersionAt(k, commitSeq) # {}})
  BY Zenon DEF CountExact
<1>2. \A k \in Keys : FindCurrent(k) = CurrentOf(k)
  BY Zenon, FindCurrentExact
<1>3. \A k \in Keys : SeqsOf(CurrentOf(k)) = VersionAt(k, commitSeq)
  BY Zenon, <1>1, <1>2, BaseImplies DEF GetExact
<1>4. \A k \in Keys : SeqsOf(CurrentOf(k)) = {} <=> CurrentOf(k) = {}
  BY Zenon DEF SeqsOf
<1>5. CurKeys = {k \in Keys : VersionAt(k, commitSeq) # {}}
  BY Zenon, <1>3, <1>4 DEF CurKeys
<1>6. QED
  BY Zenon, <1>5 DEF CountSound

\* Len and the COUNT fast path are exact whenever no commit is in progress
\* (sh.count in shard.put, shard.del and Truncate).
THEOREM CountsExact ==
  ASSUME ~SidecarMayFail, ~TruncateRaces PROVE Spec => []CountExact
<1>1. Init => CountSound
  <2>1. Init => CurKeys = {}
    BY DEF Init, CurKeys, CurrentOf, Locs
  <2>2. QED
    BY Zenon, <2>1, FS_EmptySet DEF Init, CountSound
<1>2. Inv /\ CountSound /\ [Next]_vars => CountSound'
  BY Zenon, InvBasics, CountStep
<1>3. Inv /\ CountSound => CountExact
  BY Zenon, CoreBase, CountSuffices DEF Inv
<1>4. QED
  BY <1>1, <1>2, <1>3, ShardInvariance, PTL DEF Spec

-----------------------------------------------------------------------------
(* The refinement of SnapshotStore. *)

\* Every non-empty set of naturals has a least element.
LEMMA LeastNat ==
  ASSUME NEW T, T \subseteq Nat, T # {}
  PROVE  \E x \in T : \A y \in T : x <= y
<1>1. PICK R : R = OpToRel(<, Nat)
  BY Zenon
<1>2. IsWellFoundedOn(R, Nat)
  BY Zenon, <1>1, NatLessThanWellFounded
<1>3. PICK x \in T : \A y \in T : ~ (<<y, x>> \in R)
  BY Zenon, <1>2, WFMin
<1>4. \A a, b \in Nat : a < b => <<a, b>> \in R
  BY Zenon, <1>1 DEF OpToRel
<1>5. \A y \in T : ~(y < x)
  BY Zenon, <1>3, <1>4
<1>6. \A y \in T : y \in Nat
  OBVIOUS
<1>7. QED
  BY <1>5, <1>6

\* The last commit that touched a key is one that did, if there is any.
LEMMA LastTouchIs ==
  ASSUME TypeOK, NEW k \in Keys, Touches(k) # {}
  PROVE  LastTouch(k) \in Touches(k) /\ \A j \in Touches(k) : j <= LastTouch(k)
<1> DEFINE U == {m \in Nat : \A y \in Touches(k) : y <= m}
<1>1. commitSeq \in Nat /\ \A y \in Touches(k) : y \in Nat /\ y <= commitSeq
  BY DEF TypeOK, ClockType, Touches
<1>2. commitSeq \in U
  BY Zenon, <1>1
<1>3. PICK m \in U : \A y \in U : m <= y
  BY Zenon, <1>2, LeastNat
<1>4. m \in Touches(k)
  <2>1. SUFFICES ASSUME m \notin Touches(k) PROVE FALSE
    OBVIOUS
  <2>2. \A y \in Touches(k) : y <= m - 1
    BY <1>1, <2>1
  <2>3. m - 1 \in Nat
    <3>1. PICK y \in Touches(k) : TRUE
      OBVIOUS
    <3>2. QED
      BY <1>1, <2>2, <3>1
  <2>4. m - 1 \in U
    BY Zenon, <2>2, <2>3
  <2>5. QED
    BY <1>3, <2>4
<1>5. QED
  BY Zenon, <1>4 DEF LastTouch

\* The records visible now are the versions of the history.
LEMMA CurrentAtIs == Inv => \A k \in Keys : CurrentAt(k) = VersionAt(k, commitSeq)
<1>1. SUFFICES ASSUME Inv, NEW k \in Keys PROVE CurrentAt(k) = VersionAt(k, commitSeq)
  OBVIOUS
<1>2. PICK s : s = commitSeq
  BY Zenon
<1>3. s \in gcFloor .. commitSeq
  BY <1>1, <1>2, RecordFacts DEF Inv
<1>4. QED
  BY Zenon, <1>1, <1>2, <1>3, CoreBase, StoredExact DEF CurrentAt, Inv

\* A commit gives the keys it put its own sequence, leaves nothing of those it
\* removed and touches no other.
LEMMA CommitMaps ==
  ASSUME TypeOK, NEW did \in [Keys -> Ops], commitSeq + 1 < SeqMax, Commit(did), NEW k \in Keys
  PROVE  /\ VersionAt(k, commitSeq)' = IF did[k] = "put" THEN {commitSeq + 1}
                                       ELSE IF did[k] = "del" THEN {} ELSE VersionAt(k, commitSeq)
         /\ LastTouch(k)' = IF did[k] # "none" THEN commitSeq + 1 ELSE LastTouch(k)
<1>1. /\ commitSeq \in Nat /\ commitSeq' = commitSeq + 1
      /\ \A j \in 1 .. commitSeq : hist'[j] = hist[j]
      /\ hist'[commitSeq + 1] = did
  BY CommitClock DEF TypeOK, ClockType
<1>2. did[k] \in {"put", "del", "none"}
  BY Zenon DEF Ops
<1>3. VersionAt(k, commitSeq)' = IF did[k] = "put" THEN {commitSeq + 1}
                                 ELSE IF did[k] = "del" THEN {} ELSE VersionAt(k, commitSeq)
  <2>1. VersionAt(k, commitSeq)' = {i \in 1 .. (commitSeq + 1) :
          hist'[i][k] = "put" /\ \A j \in (i + 1) .. (commitSeq + 1) : hist'[j][k] = "none"}
    BY Zenon, <1>1 DEF VersionAt
  <2>2. CASE did[k] # "none"
    <3>1. \A i \in 1 .. commitSeq : commitSeq + 1 \in (i + 1) .. (commitSeq + 1)
      BY <1>1
    <3>2. \A i \in 1 .. commitSeq : i \notin VersionAt(k, commitSeq)'
      BY Zenon, <1>1, <2>1, <2>2, <3>1
    <3>3. commitSeq + 1 \in VersionAt(k, commitSeq)' <=> did[k] = "put"
      BY <1>1, <2>1
    <3>4. VersionAt(k, commitSeq)' \subseteq 1 .. (commitSeq + 1)
      BY Zenon, <2>1
    <3>5. \A i \in VersionAt(k, commitSeq)' : i = commitSeq + 1
      BY <1>1, <3>2, <3>4
    <3>6. QED
      BY Zenon, <1>2, <2>2, <3>3, <3>5
  <2>3. CASE did[k] = "none"
    <3>1. \A i \in VersionAt(k, commitSeq)' : i \in 1 .. commitSeq
      BY <1>1, <2>1, <2>3
    <3>2. \A i \in 1 .. commitSeq :
            i \in VersionAt(k, commitSeq)' <=>
              hist[i][k] = "put" /\ \A j \in (i + 1) .. commitSeq : hist[j][k] = "none"
      BY <1>1, <2>1, <2>3
    <3>3. VersionAt(k, commitSeq)' = VersionAt(k, commitSeq)
      BY Zenon, <3>1, <3>2 DEF VersionAt
    <3>4. QED
      BY Zenon, <2>3, <3>3
  <2>4. QED
    BY Zenon, <2>2, <2>3
<1>4. Touches(k)' = IF did[k] # "none" THEN Touches(k) \cup {commitSeq + 1} ELSE Touches(k)
  BY <1>1 DEF Touches
<1>5. LastTouch(k)' = IF did[k] # "none" THEN commitSeq + 1 ELSE LastTouch(k)
  <2>1. CASE did[k] = "none"
    BY <1>4, <2>1 DEF LastTouch
  <2>2. CASE did[k] # "none"
    <3>1. \A j \in Touches(k) : j \in Nat /\ j <= commitSeq
      BY <1>1 DEF Touches
    <3>2. commitSeq + 1 \in Touches(k)' /\ \A j \in Touches(k)' : j \in Nat /\ j <= commitSeq + 1
      BY <1>1, <1>4, <2>2, <3>1
    <3>3. LastTouch(k)' \in Touches(k)' /\ \A j \in Touches(k)' : j <= LastTouch(k)'
      BY Zenon, <3>2 DEF LastTouch
    <3>4. QED
      BY <1>1, <2>2, <3>2, <3>3
  <2>3. QED
    BY Zenon, <2>1, <2>2
<1>6. QED
  BY Zenon, <1>3, <1>5

\* What a transaction's commit in progress has done, it was told is accepted.
PendingAccepted ==
  \A t \in Txns : lock = t => \A k \in Keys : pend[k] # "none" => out[t][k] = "ok"

\* applyTxn writes a key exactly when it accepts the write.
LEMMA AcceptedStep ==
  ASSUME TypeOK, PendingAccepted, [Next]_vars PROVE PendingAccepted'
<1>1. CASE UNCHANGED <<lock, pend, out>>
  BY Zenon, <1>1 DEF PendingAccepted
<1>2. CASE LockBatch \/ ApplyBatch \/ UnlockBatch \/ \E t \in Txns : UnlockTxn(t)
  <2>1. lock' \notin Txns
    BY Zenon, <1>2, HolderAssumption DEF LockBatch, ApplyBatch, UnlockBatch, UnlockTxn
  <2>2. QED
    BY Zenon, <2>1 DEF PendingAccepted
<1>3. CASE \E t \in Txns : LockTxn(t)
  <2>1. \A k \in Keys : pend'[k] = "none"
    BY Zenon, <1>3 DEF LockTxn, Quiet
  <2>2. QED
    BY Zenon, <2>1 DEF PendingAccepted
<1>4. ASSUME NEW t \in Txns, NEW k \in Keys, ApplyTxn(t, k) PROVE PendingAccepted'
  <2>1. lock = t /\ lock' = t
    BY Zenon, <1>4 DEF ApplyTxn
  <2>2. out \in [Txns -> [Keys -> Outcomes]] /\ pend \in [Keys -> Ops]
    BY Zenon DEF TypeOK, TxnType, SectionType
  <2>3. \/ UNCHANGED pend /\ \E o : out' = [out EXCEPT ![t][k] = o]
        \/ /\ out' = [out EXCEPT ![t][k] = "ok"]
           /\ \E o : pend' = [pend EXCEPT ![k] = o]
    BY Zenon, <1>4 DEF ApplyTxn, Decide, ShardPut
  <2>4. out[t][k] = "none"
    BY Zenon, <1>4 DEF ApplyTxn
  <2>5. pend[k] = "none"
    BY Zenon, <2>1, <2>4 DEF PendingAccepted
  <2>6. ASSUME NEW j \in Keys, pend'[j] # "none" PROVE out'[t][j] = "ok"
    <3>1. CASE j = k
      BY <2>2, <2>3, <2>5, <2>6, <3>1
    <3>2. CASE j # k
      BY <2>1, <2>2, <2>3, <2>6, <3>2 DEF PendingAccepted
    <3>3. QED
      BY Zenon, <3>1, <3>2
  <2>7. QED
    BY Zenon, <2>1, <2>6 DEF PendingAccepted
<1>5. CASE \/ UNCHANGED vars \/ Sealing \/ Reclaim \/ Truncate
           \/ \E k \in Keys : Delete(k)
           \/ \E p \in Scanners : ScanBegin(p) \/ ScanVisit(p) \/ ScanEnd(p)
  <2>1. UNCHANGED <<lock, pend, out>>
    BY Zenon, <1>5 DEF vars, ScanBegin, ScanVisit, ScanEnd, Sealing, SealBegin, SealIndex, Evict,
                       Reclaim, Truncate, Delete, section, txn
  <2>2. QED
    BY Zenon, <1>1, <2>1
<1>6. CASE \E t \in Txns : \/ Begin(t) \/ TxnGet(t)
                           \/ \E k \in Keys, op \in {"put", "del"} : TxnWrite(t, k, op)
  <2>1. UNCHANGED <<lock, pend, out>>
    BY Zenon, <1>6 DEF Begin, TxnGet, TxnWrite, section
  <2>2. QED
    BY Zenon, <1>1, <2>1
<1>7. QED
  BY Zenon, <1>2, <1>3, <1>4, <1>5, <1>6 DEF Next, Traffic

\* A commit of the shard is one Apply of the store.
LEMMA CommitApplies ==
  ASSUME Inv, Inv', NEW did \in [Keys -> Ops], commitSeq + 1 < SeqMax, Commit(did)
  PROVE  \E P, D \in SUBSET Keys :
           P \cup D = {k \in Keys : did[k] # "none"} /\ Store!Apply(P, D)
<1> DEFINE P == {k \in Keys : did[k] = "put"}
           D == {k \in Keys : did[k] = "del"}
<1>1. TypeOK
  BY Zenon DEF Inv
<1>2. \A k \in Keys : did[k] \in {"put", "del", "none"}
  BY Zenon DEF Ops
<1>3. P \cap D = {} /\ P \cup D = {k \in Keys : did[k] # "none"}
  BY Zenon, <1>2
<1>4. \A k \in Keys : CurrentAt(k) = VersionAt(k, commitSeq)
  BY Zenon, CurrentAtIs
<1>5. (\A k \in Keys : CurrentAt(k) = VersionAt(k, commitSeq))'
  BY CurrentAtIs, PTL
<1>6. \A k \in Keys : CurrentAt(k)' = IF k \in P THEN {commitSeq + 1}
                                      ELSE IF k \in D THEN {} ELSE CurrentAt(k)
  BY Zenon, <1>1, <1>4, <1>5, CommitMaps
<1>7. \A k \in Keys : LastTouch(k)' = IF k \in P \cup D THEN commitSeq + 1 ELSE LastTouch(k)
  BY Zenon, <1>1, <1>2, CommitMaps
<1>8. Store!Apply(P, D)
  BY Zenon, <1>3, <1>6, <1>7 DEF Store!Apply
<1>9. QED
  BY Zenon, <1>3, <1>8

\* The mapped state changes when the history or a snapshot does.
LEMMA MappedKept ==
  ASSUME Inv, Inv', UNCHANGED <<commitSeq, hist>>
  PROVE  /\ [k \in Keys |-> CurrentAt(k)]' = [k \in Keys |-> CurrentAt(k)]
         /\ [k \in Keys |-> LastTouch(k)]' = [k \in Keys |-> LastTouch(k)]
<1>1. \A k \in Keys : CurrentAt(k) = VersionAt(k, commitSeq)
  BY Zenon, CurrentAtIs
<1>2. (\A k \in Keys : CurrentAt(k) = VersionAt(k, commitSeq))'
  BY CurrentAtIs, PTL
<1>3. \A k \in Keys : VersionAt(k, commitSeq)' = VersionAt(k, commitSeq)
  BY Zenon DEF VersionAt
<1>4. \A k \in Keys : LastTouch(k)' = LastTouch(k)
  BY DEF LastTouch, Touches
<1>5. QED
  BY Zenon, <1>1, <1>2, <1>3, <1>4

\* Every step of the shard is a step of the store, or invisible in it.
LEMMA StoreStep ==
  ASSUME Inv, Inv', PendingAccepted, [Next]_vars PROVE [Store!SNext]_(Store!svars)
<1>1. TypeOK /\ LockSound
  BY Zenon DEF Inv
<1>2. snap \in [Txns -> -1 .. commitSeq] /\ commitSeq \in Nat
  BY <1>1 DEF TypeOK, TxnType, ClockType
<1>3. ASSUME UNCHANGED <<commitSeq, hist, snap>> PROVE UNCHANGED Store!svars
  BY Zenon, <1>3, MappedKept DEF Store!svars
<1>4. ASSUME NEW did \in [Keys -> Ops], commitSeq + 1 < SeqMax, Commit(did), UNCHANGED snap
      PROVE  Store!SNext
  <2>1. PICK P, D \in SUBSET Keys : Store!Apply(P, D)
    BY Zenon, <1>4, CommitApplies
  <2>2. Store!Write
    BY Zenon, <1>4, <2>1 DEF Store!Write, Commit
  <2>3. QED
    BY Zenon, <2>2 DEF Store!SNext
<1>5. CASE \/ UNCHANGED vars \/ LockBatch \/ ApplyBatch \/ Sealing \/ Reclaim
           \/ \E p \in Scanners : ScanBegin(p) \/ ScanVisit(p) \/ ScanEnd(p)
  <2>1. UNCHANGED <<commitSeq, hist, snap>>
    BY Zenon, <1>5 DEF vars, LockBatch, ApplyBatch, ScanBegin, ScanVisit, ScanEnd, Sealing,
                       SealBegin, SealIndex, Evict, Reclaim, txn
  <2>2. QED
    BY Zenon, <1>3, <2>1
<1>6. CASE \E t \in Txns : Begin(t) \/ LockTxn(t) \/ \E k \in Keys : ApplyTxn(t, k)
  <2>1. UNCHANGED <<commitSeq, hist, snap>>
    BY Zenon, <1>6 DEF Begin, LockTxn, ApplyTxn, txn
  <2>2. QED
    BY Zenon, <1>3, <2>1
<1>7. CASE UnlockBatch
  <2>1. pend \in [Keys -> Ops] /\ commitSeq + 1 < SeqMax
    BY <1>1, <1>7 DEF UnlockBatch, TypeOK, SectionType, LockSound, Batch, Free
  <2>2. QED
    BY Zenon, <1>4, <1>7, <2>1 DEF UnlockBatch, txn
<1>8. ASSUME NEW k \in Keys, Delete(k) PROVE Store!SNext
  <2>1. [Quiet EXCEPT ![k] = "del"] \in [Keys -> Ops]
    BY Zenon DEF Quiet, Ops
  <2>2. QED
    BY Zenon, <1>4, <1>8, <2>1 DEF Delete, txn
<1>9. CASE Truncate
  <2>1. [k \in Keys |-> "del"] \in [Keys -> Ops]
    BY Zenon DEF Ops
  <2>2. QED
    BY Zenon, <1>4, <1>9, <2>1 DEF Truncate, txn
<1>10. ASSUME NEW t \in Txns, TxnGet(t) \/ \E k \in Keys, op \in {"put", "del"} : TxnWrite(t, k, op)
       PROVE  [Store!SNext]_(Store!svars)
  <2>1. UNCHANGED <<commitSeq, hist>> /\ snap' = [snap EXCEPT ![t] = SnapOf(t)]
    BY Zenon, <1>10 DEF TxnGet, TxnWrite, Touch
  <2>2. CASE snap[t] = NoSnap
    <3>1. Store!Take(t)
      BY Zenon, <2>1, <2>2, MappedKept DEF Store!Take, SnapOf, NoSnap
    <3>2. QED
      BY Zenon, <3>1 DEF Store!SNext
  <2>3. CASE snap[t] # NoSnap
    BY Zenon, <1>2, <1>3, <2>1, <2>3 DEF SnapOf
  <2>4. QED
    BY Zenon, <2>2, <2>3
<1>11. ASSUME NEW t \in Txns, UnlockTxn(t) PROVE Store!SNext
  <2>1. lock = t /\ snap' = [snap EXCEPT ![t] = -1]
    BY Zenon, <1>11 DEF UnlockTxn, NoSnap
  <2>2. CASE ~changed
    <3>1. Store!EndTxn(t)
      BY Zenon, <1>11, <2>1, <2>2, MappedKept DEF UnlockTxn, Store!EndTxn
    <3>2. QED
      BY Zenon, <3>1 DEF Store!SNext
  <2>3. CASE changed
    <3>1. pend \in [Keys -> Ops] /\ commitSeq + 1 < SeqMax /\ Commit(pend) /\ snap[t] \in Nat
      <4>1. pend \in [Keys -> Ops] /\ Commit(pend)
        BY Zenon, <1>1, <1>11, <2>3 DEF UnlockTxn, TypeOK, SectionType
      <4>2. commitSeq + 1 < SeqMax /\ snap[t] # NoSnap
        BY Zenon, <1>1, <2>1, HolderAssumption DEF LockSound
      <4>3. QED
        BY <1>2, <4>1, <4>2 DEF NoSnap
    <3>2. PICK P, D \in SUBSET Keys :
            P \cup D = {k \in Keys : pend[k] # "none"} /\ Store!Apply(P, D)
      BY Zenon, <3>1, CommitApplies
    <3>3. ASSUME NEW k \in P \cup D PROVE LastTouch(k) <= snap[t]
      <4>1. k \in Keys /\ out[t][k] = "ok"
        BY Zenon, <2>1, <3>2 DEF PendingAccepted
      <4>2. ~ChangedSince(k, snap[t])
        BY Zenon, <2>1, <4>1 DEF Inv, FirstCommitterWins
      <4>3. \A i \in Touches(k) : i <= snap[t]
        BY <1>2, <3>1, <4>2 DEF ChangedSince, Touches
      <4>4. Touches(k) # {} => LastTouch(k) \in Touches(k)
        BY Zenon, <1>1, <4>1, LastTouchIs
      <4>5. Touches(k) = {} => LastTouch(k) = 0
        BY Zenon DEF LastTouch
      <4>6. QED
        BY <3>1, <4>3, <4>4, <4>5
    <3>4. Store!CommitTxn(t)
      BY Zenon, <2>1, <3>1, <3>2, <3>3 DEF Store!CommitTxn, Commit
    <3>5. QED
      BY Zenon, <3>4 DEF Store!SNext
  <2>4. QED
    BY Zenon, <2>2, <2>3
<1>12. QED
  BY Zenon, <1>5, <1>6, <1>7, <1>8, <1>9, <1>10, <1>11 DEF Next, Traffic

\* Every execution of the shard is one of a versioned map with atomic commits
\* and first-committer-wins transactions: segments, chains, sealing, eviction
\* and reclaim never show through (shard.put, del, applyTxn, reclaimDeadShard).
THEOREM ShardRefinesStore ==
  ASSUME ~SidecarMayFail, ~TruncateRaces PROVE Spec => AtomicSnapshots
<1>1. Init => PendingAccepted /\ Store!SInit
  <2>1. Init => PendingAccepted
    BY Zenon DEF Init, PendingAccepted, Quiet
  <2>2. Init => \A k \in Keys : CurrentAt(k) = {} /\ LastTouch(k) = 0
    <3>1. Init => Locs = {}
      BY DEF Init, Locs
    <3>2. Init => \A k \in Keys : Touches(k) = {}
      BY DEF Init, Touches
    <3>3. QED
      BY Zenon, <3>1, <3>2 DEF CurrentAt, SeqsOf, Stored, LastTouch
  <2>3. QED
    BY Zenon, <2>1, <2>2 DEF Init, Store!SInit, NoSnap
<1>2. Inv /\ PendingAccepted /\ [Next]_vars => PendingAccepted'
  BY Zenon, AcceptedStep DEF Inv
<1>3. Inv /\ Inv' /\ PendingAccepted /\ [Next]_vars => [Store!SNext]_(Store!svars)
  BY Zenon, StoreStep
<1>4. QED
  BY <1>1, <1>2, <1>3, ShardInvariance, PTL DEF Spec, AtomicSnapshots, Store!SSpec

-----------------------------------------------------------------------------
(* The number of live keys across an install. *)

\* The keys installed are counted: the shard's count stays a number.
LEMMA InstallCounts ==
  ASSUME CInv, CompactInstall
  PROVE  IsFiniteSet(Installed) /\ count' = Cardinality(Installed) /\ count' \in Int
<1>1. Installing /\ count' = Cardinality(Installed)
  BY Zenon DEF CInv, CompactInstall, Install, Installing, Installed
<1>2. Installed \subseteq 1 .. Len(log)
  BY Zenon, <1>1, InstalledIsCurrent, LocsAre DEF CInv
<1>3. IsFiniteSet(1 .. Len(log))
  BY LocsAre, FS_Interval DEF CInv
<1>4. IsFiniteSet(Installed)
  BY Zenon, <1>2, <1>3, FS_Subset
<1>5. QED
  BY <1>1, <1>4, FS_CardinalityType

\* Every step of clients, sealing, reclaim and compaction preserves the
\* invariant (compactShard).
LEMMA CInvNext == ASSUME EvictionsSafe, CInv, [CNext]_allvars PROVE CInv'
BY Zenon, InstallCounts, CInvStutter, CInvBeside, CInvReclaim, CInvBegin, CInvCopy, CInvAbort,
   CInvInstall DEF CNext, Compacting

\* The install counts one record for each live key (sh.count in compactShard).
LEMMA CountInstall == ASSUME CInv, CompactInstall PROVE CountSound'
<1>1. Installing /\ count' = Cardinality(Installed) /\ IsFiniteSet(Installed)
  BY Zenon, InstallCounts DEF CInv, CompactInstall, Install, Installing, Installed
<1>2. /\ Locs' = Locs
      /\ \A d \in Locs : log'[d].key = log[d].key
  BY Zenon, <1>1, TransferDoes DEF Installing, Copying
<1>3. Installed \subseteq Locs /\ \A l \in Locs : l \in Installed <=> Live(l)' /\ IsCurrent(l)'
  BY Zenon, <1>1, InstalledIsCurrent
<1>5. CurKeys' = {log[l].key : l \in Installed}
  <2>1. \A l \in Installed : log[l].key \in Keys
    BY Zenon, <1>3, RecordFacts DEF CInv
  <2>2. \A k \in Keys : CurrentOf(k)' = {l \in Installed : log[l].key = k}
    BY Zenon, <1>2, <1>3 DEF CurrentOf
  <2>3. QED
    BY Zenon, <2>1, <2>2 DEF CurKeys
<1>6. PICK f : f = [l \in Installed |-> log[l].key]
  BY Zenon
<1>7. f \in Bijection(Installed, CurKeys')
  <2>1. f \in [Installed -> CurKeys']
    BY Zenon, <1>5, <1>6
  <2>2. \A a, b \in Installed : f[a] = f[b] => a = b
    BY Zenon, <1>1, <1>6, InstalledUnique
  <2>3. \A k \in CurKeys' : \E l \in Installed : f[l] = k
    BY Zenon, <1>5, <1>6
  <2>4. f \in Injection(Installed, CurKeys')
    BY Zenon, <2>1, <2>2 DEF Injection, IsInjective
  <2>5. f \in Surjection(Installed, CurKeys')
    BY Zenon, <2>1, <2>3 DEF Surjection
  <2>6. QED
    BY Zenon, <2>4, <2>5 DEF Bijection
<1>8. IsFiniteSet(CurKeys') /\ Cardinality(CurKeys') = Cardinality(Installed)
  BY Zenon, <1>1, <1>7, FS_Bijection DEF ExistsBijection
<1>9. QED
  BY Zenon, <1>1, <1>8 DEF CountSound

\* Every step keeps the count, those of a compaction included.
LEMMA CountBeside ==
  ASSUME CInv, CountSound, [CNext]_allvars PROVE CountSound'
<1>1. CASE UNCHANGED allvars \/ Traffic \/ Sealing \/ Reclaim
  BY Zenon, <1>1, CInvBasics, CountStep DEF Next, allvars
<1>2. CASE CompactInstall
  BY Zenon, <1>2, CountInstall
<1>3. CASE UNCHANGED <<log, segs, count>>
  <2>1. CurKeys' = CurKeys
    BY Zenon, <1>3 DEF CurKeys, CurrentOf, Locs, Live, IsCurrent
  <2>2. QED
    BY Zenon, <1>3, <2>1 DEF CountSound
<1>4. CASE CompactCopy
  <2>1. /\ nextSeg \in Nat \ {0} /\ segs \subseteq 1 .. (nextSeg - 1) /\ Dest \cap segs = {}
        /\ ccur \in Dest \cup {NoSeg} /\ chcur \in Dest \cup {NoSeg}
        /\ Dest \subseteq 1 .. (nextSeg - 1) /\ \A l \in cleft : l \in Locs
    BY Zenon DEF CInv, Copying, SegmentsSound, SourcesSound, Source, Dest, TypeOK, ArenaType
  <2>2. UNCHANGED <<segs, count>>
    BY Zenon, <1>4 DEF CompactCopy
  <2>3. SUFFICES ASSUME NEW l \in cleft, NEW cur \in {ccur, chcur}, CopyTo(l, cur)
                 PROVE  CurKeys' = CurKeys
    BY Zenon, <1>3, <1>4, <2>2 DEF CompactCopy, CopyLive, CopyHistory, CopyNothing, CountSound
  <2>4. PICK d, g : CopyAdds(l, d, g) /\ (g = nextSeg \/ (g = cur /\ g # NoSeg))
    <3>1. cur \in 0 .. (nextSeg - 1) /\ l \in Locs /\ TypeOK
      BY <2>1, <2>3 DEF NoSeg, CInv
    <3>2. PICK g : g = IF Full(cur) THEN nextSeg ELSE cur
      BY Zenon
    <3>3. CopyAdds(l, Len(log) + 1, g)
      BY Zenon, <2>3, <3>1, <3>2, CopyDoes
    <3>4. g = nextSeg \/ (g = cur /\ g # NoSeg)
      BY Zenon, <3>2 DEF Full
    <3>5. QED
      BY Zenon, <3>3, <3>4
  <2>5. g \notin segs
    <3>1. nextSeg \notin segs
      BY <2>1
    <3>2. QED
      BY Zenon, <2>1, <2>4, <3>1
  <2>6. \A k \in Keys : CurrentOf(k)' = CurrentOf(k)
    BY Zenon, <2>2, <2>4, <2>5 DEF CopyAdds, CurrentOf, Live, IsCurrent
  <2>7. QED
    BY Zenon, <2>6 DEF CurKeys
<1>5. QED
  BY Zenon, <1>1, <1>2, <1>3, <1>4 DEF CNext, Compacting, CompactBegin, CompactAbort, vars

-----------------------------------------------------------------------------
(* The theorems. They hold of every number of compactions, keys, segments,  *)
(* transactions and scans, on a shard in memory, and on one with a          *)
(* directory whose hash tells its keys apart.                               *)

\* The inductive invariant of compaction (compactShard).
THEOREM CompactionInvariance == ASSUME EvictionsSafe PROVE CSpec => []CInv
<1>1. CInit => CInv
  BY Zenon, CInvInit
<1>2. CInv /\ [CNext]_allvars => CInv'
  BY Zenon, CInvNext
<1>3. QED
  BY <1>1, <1>2, PTL DEF CSpec

\* Across an install too there is never a second current version of a key: the
\* sources retire as their copies go live (compactShard phase 3).
THEOREM CompactionUniqueCurrent == ASSUME EvictionsSafe PROVE CSpec => []OneCurrentVersion
<1>1. CInv => OneCurrentVersion
  BY Zenon, BaseImplies DEF CInv, Kept
<1>2. QED
  BY <1>1, CompactionInvariance, PTL

\* Lookups stay exact while records move: the rebuilt directory leads to every
\* key that is live, written before, during or after the copy (dir rebuild in
\* compactShard).
THEOREM CompactionLookupsExact == ASSUME EvictionsSafe PROVE CSpec => []GetExact
<1>1. CInv => GetExact
  BY Zenon, BaseImplies DEF CInv, Kept
<1>2. QED
  BY <1>1, CompactionInvariance, PTL

\* What compaction drops no retained snapshot needs, and what was superseded
\* during the copy is transferred at its own sequence (compactShard's retain).
THEOREM CompactionSnapshotsExact == ASSUME EvictionsSafe PROVE CSpec => []SnapshotExact
<1>1. CInv => SnapshotExact
  BY Zenon, BaseImplies DEF CInv, Kept
<1>2. QED
  BY <1>1, CompactionInvariance, PTL

\* The rebuilt chains hold no record of a retired source (compactShard phase 3).
THEOREM CompactionChainsIntact == ASSUME EvictionsSafe PROVE CSpec => []NoDanglingLink
<1>1. CInv => NoDanglingLink
  BY Zenon, BaseImplies DEF CInv, Kept
<1>2. QED
  BY <1>1, CompactionInvariance, PTL

\* No transaction overwrites a change it has not seen of a key that is live,
\* though compaction drops superseded records (conflictSince, compactShard).
THEOREM NoUpdateLost == ASSUME EvictionsSafe PROVE CSpec => []NoLostUpdate
<1>1. CInv => NoLostUpdate
  BY Zenon DEF CInv
<1>2. QED
  BY <1>1, CompactionInvariance, PTL

\* A scan that runs across any number of compactions yields every key live at
\* its sequence exactly once: it reads the sources it froze, retired or not
\* (forEachVisible, retire).
THEOREM CompactionScansExact == ASSUME EvictionsSafe PROVE CSpec => []ScanExactlyOnce
<1>1. CInit => ScansSound /\ ScansApart
  BY DEF CInit, Init, ScansSound, ScansApart, Idle
<1>2. CInv /\ ScansSound /\ ScansApart /\ [CNext]_allvars => ScansSound' /\ ScansApart'
  BY Zenon, ScansBeside
<1>3. ScansSound => ScanExactlyOnce
  BY Zenon, PromisesSuffice
<1>4. QED
  BY <1>1, <1>2, <1>3, CompactionInvariance, PTL DEF CSpec

\* The count the install computes is the number of live keys, as is the one the
\* writes maintain (sh.count in shard.put, shard.del, compactShard).
THEOREM CompactionCountsExact == ASSUME EvictionsSafe PROVE CSpec => []CountExact
<1>1. CInit => CountSound
  <2>1. CInit => CurKeys = {}
    BY DEF CInit, Init, CurKeys, CurrentOf, Locs
  <2>2. QED
    BY Zenon, <2>1, FS_EmptySet DEF CInit, Init, CountSound
<1>2. CInv /\ CountSound /\ [CNext]_allvars => CountSound'
  BY Zenon, CountBeside
<1>3. CInv /\ CountSound => CountExact
  BY Zenon, CountSuffices DEF CInv, Kept
<1>4. QED
  BY <1>1, <1>2, <1>3, CompactionInvariance, PTL DEF CSpec

\* An install ends versions on their copies once, and revives none
\* (phase 3's supersede of a copy).
THEOREM CompactionEndsOnce == ASSUME EvictionsSafe PROVE CSpec => VersionEndsOnce
<1>1. ASSUME CInv, [CNext]_allvars
      PROVE  [\A l \in Locs : ~IsCurrent(l) => log'[l] = log[l]]_vars
  <2>1. CASE Compacting
    BY Zenon, <1>1, <2>1, CompactingKeeps
  <2>2. CASE UNCHANGED allvars
    BY Zenon, <2>2 DEF allvars
  <2>3. CASE Traffic \/ Sealing \/ Reclaim
    BY Zenon, <1>1, <2>3, SupersedeCurrent DEF CInv, Next
  <2>4. QED
    BY Zenon, <1>1, <2>1, <2>2, <2>3 DEF CNext
<1>2. QED
  BY <1>1, CompactionInvariance, PTL DEF CSpec, VersionEndsOnce
=============================================================================
