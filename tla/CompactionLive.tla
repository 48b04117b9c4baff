--------------------------- MODULE CompactionLive ---------------------------
(* Every step of clients, sealing, reclaim and compaction keeps the records, *)
(* chains and history of the live segments in step.                          *)
EXTENDS CompactionInvariant, ShardProof

-----------------------------------------------------------------------------
(* A put. *)

\* A put keeps the records, chains and history in step (shard.put).
LEMMA KeptPut ==
  ASSUME TypeOK, LockSound, Kept, NEW k \in Keys, lock # Free,
         PutWritten(k, commitSeq + 1), pend' = [pend EXCEPT ![k] = "put"],
         UNCHANGED <<indexed, sealing, base, sealBase, commitSeq, gcFloor, hist>>
  PROVE  Kept'
<1>1. PICK n, g : PutAdds(k, n, g)
  BY Zenon, PutDoes DEF Kept, SealSound, Basics
<1>2. commitSeq + 1 < SeqMax /\ commitSeq \in Nat /\ SeqMax \in Nat /\ gcFloor \in Nat
  BY Zenon, RecordFacts DEF LockSound
<1>3. /\ pend'[k] = "put"
      /\ \A x \in Keys : x # k => pend'[x] = pend[x]
  BY Zenon DEF TypeOK, SectionType
<1>4. \A l \in Locs : log[l].seg < nextSeg /\ log[l].seq <= commitSeq + 1
  BY Zenon DEF Kept, Base, LogBounded
<1>5. /\ \A l \in Locs : Live(l)' <=> Live(l)
      /\ Live(n)'
  <2>1. nextSeg \in Nat
    BY Zenon DEF TypeOK, ArenaType
  <2>2. \A l \in Locs : log[l].seg \in Nat /\ (log[l].seg = g => g \in segs)
    BY <1>1, <1>4, <2>1, RecordFacts DEF PutAdds
  <2>3. QED
    BY Zenon, <1>1, <2>2 DEF PutAdds, Live
<1>6. \A l \in CurrentOf(k) : l \in Locs /\ Live(l) /\ log[l].key = k /\ log[l].sup = SeqMax
  BY Zenon DEF CurrentOf, IsCurrent
<1>7. \A l \in Locs : Live(l) /\ log[l].key = k /\ log[l].sup = SeqMax => l \in CurrentOf(k)
  BY Zenon DEF CurrentOf, IsCurrent
<1>8. LogBounded'
  <2>1. ASSUME NEW l \in Locs'
        PROVE  log'[l].seg < nextSeg' /\ log'[l].seq <= commitSeq + 1
    <3>1. CASE l = n
      BY <1>1, <1>2, <3>1 DEF PutAdds
    <3>2. CASE l \in Locs
      BY <1>1, <1>4, <3>2, RecordFacts DEF PutAdds, TypeOK, ArenaType
    <3>3. QED
      BY Zenon, <1>1, <3>1, <3>2 DEF PutAdds
  <2>2. QED
    BY Zenon, <2>1 DEF LogBounded
<1>9. SealSound'
  <2>1. act' \notin indexed /\ act' \notin sealing
    BY Zenon, <1>1 DEF PutAdds
  <2>2. QED
    BY Zenon, <2>1 DEF Kept, SealSound
<1>10. Hash[k] \in Buckets
  BY Zenon, HashAssumption
<1>11. \A h \in Buckets : /\ bucket'[h] = IF h = Hash[k] THEN bucket[h] \cup {n} ELSE bucket[h]
                          /\ head'[h] = IF h = Hash[k] THEN n ELSE head[h]
                          /\ \A l \in bucket[h] : l \in Locs
  BY Zenon, <1>1, <1>10 DEF PutAdds, TypeOK, ArenaType
<1>12. ChainsLive'
  <2>1. SUFFICES ASSUME NEW h \in Buckets, NEW l \in bucket'[h]
                 PROVE  Hash[log'[l].key] = h /\ Live(l)'
    BY Zenon DEF ChainsLive
  <2>2. CASE l = n /\ h = Hash[k]
    BY Zenon, <1>1, <1>5, <2>2 DEF PutAdds
  <2>3. CASE l \in bucket[h]
    <3>1. l \in Locs /\ Hash[log[l].key] = h /\ Live(l)
      BY Zenon, <1>11, <2>3 DEF Kept, Base, ChainsLive
    <3>2. QED
      BY Zenon, <1>1, <1>5, <3>1 DEF PutAdds
  <2>4. QED
    BY Zenon, <1>11, <2>2, <2>3
<1>13. HeadsCurrent'
  <2>1. SUFFICES ASSUME NoCollisions, NEW h \in Buckets, NEW l \in bucket'[h], log'[l].sup = SeqMax
                 PROVE  head'[h] = l
    BY Zenon DEF HeadsCurrent, IsCurrent, NoCollisions
  <2>2. CASE h = Hash[k]
    <3>1. CASE l = n
      BY Zenon, <1>11, <2>2, <3>1
    <3>2. CASE l \in bucket[h]
      <4>1. l \in Locs /\ Hash[log[l].key] = h /\ Live(l) /\ log[l].key \in Keys
        BY Zenon, <1>11, <3>2, RecordFacts DEF Kept, Base, ChainsLive
      <4>2. log[l].key = k
        BY Zenon, <2>1, <2>2, <4>1 DEF NoCollisions
      <4>3. l \in CurrentOf(k) => log'[l].sup = commitSeq + 1
        BY Zenon, <1>1, <4>1 DEF PutAdds
      <4>4. l \notin CurrentOf(k) => log'[l].sup # SeqMax
        BY Zenon, <1>1, <1>7, <4>1, <4>2 DEF PutAdds
      <4>5. QED
        BY <1>2, <2>1, <4>3, <4>4
    <3>3. QED
      BY Zenon, <1>11, <2>1, <2>2, <3>1, <3>2
  <2>3. CASE h # Hash[k]
    <3>1. l \in bucket[h] /\ l \in Locs /\ head'[h] = head[h]
      BY Zenon, <1>11, <2>1, <2>3
    <3>2. log[l].sup = SeqMax
      BY Zenon, <1>1, <1>6, <2>1, <3>1 DEF PutAdds
    <3>3. QED
      BY Zenon, <2>1, <3>1, <3>2 DEF Kept, HeadsCurrent, IsCurrent
  <2>4. QED
    BY Zenon, <2>2, <2>3
<1>14. CurrentReachable'
  <2>1. SUFFICES ASSUME NEW l \in Locs', Live(l)', log'[l].sup = SeqMax
                 PROVE  \/ l \in bucket'[Hash[log'[l].key]]
                        \/ log'[l].seg \in indexed /\ log'[l].seg # act'
    BY Zenon DEF CurrentReachable, IsCurrent
  <2>2. CASE l = n
    <3>1. log'[n].key = k
      BY Zenon, <1>1 DEF PutAdds
    <3>2. n \in bucket'[Hash[k]]
      BY Zenon, <1>10, <1>11
    <3>3. QED
      BY Zenon, <2>2, <3>1, <3>2
  <2>3. CASE l \in Locs
    <3>1. log[l].sup = SeqMax /\ log'[l].key = log[l].key /\ log'[l].seg = log[l].seg
      BY Zenon, <1>1, <1>6, <2>1, <2>3 DEF PutAdds
    <3>2. l \in bucket[Hash[log[l].key]] \/ log[l].seg \in indexed
      BY Zenon, <1>5, <2>1, <2>3, <3>1 DEF Kept, Base, CurrentReachable, IsCurrent
    <3>3. Hash[log[l].key] \in Buckets
      BY Zenon, <2>3, RecordFacts, HashAssumption
    <3>4. act' \notin indexed
      BY Zenon, <1>1 DEF PutAdds
    <3>5. QED
      BY Zenon, <1>11, <3>1, <3>2, <3>3, <3>4
  <2>4. QED
    BY Zenon, <1>1, <2>2, <2>3 DEF PutAdds
<1>15. RecordsMatchHistory'
  <2>1. SUFFICES ASSUME NEW l \in Locs', Live(l)'
                 PROVE  Fits(log'[l], commitSeq, hist, pend')
    BY Zenon DEF RecordsMatchHistory
  <2>2. CASE l = n
    BY <1>1, <1>2, <1>3, <2>2 DEF PutAdds, Fits
  <2>3. CASE l \in Locs
    <3>1. /\ Fits(log[l], commitSeq, hist, pend)
          /\ log[l].seq \in Nat /\ log[l].sup \in Nat /\ log[l].seq <= commitSeq + 1
          /\ log[l].key \in Keys
      BY Zenon, <1>4, <1>5, <2>1, <2>3, RecordFacts DEF Kept, Base, RecordsMatchHistory
    <3>2. /\ log'[l].key = log[l].key /\ log'[l].seq = log[l].seq
          /\ pend'[log[l].key] = pend[log[l].key] \/ log[l].key = k
      BY Zenon, <1>1, <1>3, <2>3, <3>1 DEF PutAdds
    <3>3. CASE l \in CurrentOf(k)
      <4>1. /\ pend'[log[l].key] = "put"
            /\ log[l].sup = SeqMax /\ log'[l].sup = commitSeq + 1
        BY Zenon, <1>1, <1>3, <1>6, <2>3, <3>3 DEF PutAdds
      <4>2. QED
        BY Zenon, <1>2, <3>1, <3>2, <4>1, EndedFits
    <3>4. CASE l \notin CurrentOf(k)
      <4>1. log'[l].sup = log[l].sup
        BY Zenon, <1>1, <2>3, <3>4 DEF PutAdds
      <4>2. \/ pend'[log[l].key] = pend[log[l].key]
            \/ log[l].sup # SeqMax /\ pend'[log[l].key] = "put"
        BY Zenon, <1>3, <1>5, <1>7, <2>1, <2>3, <3>2, <3>4
      <4>3. QED
        BY Zenon, <3>1, <3>2, <4>1, <4>2 DEF Fits
    <3>5. QED
      BY Zenon, <3>3, <3>4
  <2>4. QED
    BY Zenon, <1>1, <2>2, <2>3 DEF PutAdds
<1>16. VersionsDistinct'
  <2>1. SUFFICES ASSUME NEW l \in Locs', NEW m \in Locs', Live(l)', Live(m)',
                        log'[l].key = log'[m].key, log'[l].seq = log'[m].seq,
                        log'[l].sup > log'[l].seq, log'[m].sup > log'[m].seq
                 PROVE  l = m
    BY Zenon DEF VersionsDistinct
  <2>2. ASSUME NEW x \in Locs, Live(x), log[x].key = k, log[x].seq = commitSeq + 1
        PROVE  ~(log'[x].sup > log'[x].seq)
    <3>1. x \notin CurrentOf(k) => log[x].sup <= commitSeq + 1 /\ log[x].sup \in Nat
      BY Zenon, <1>7, <2>2, RecordFacts DEF Kept, Base, RecordsMatchHistory, Fits
    <3>2. QED
      BY <1>1, <1>2, <2>2, <3>1 DEF PutAdds
  <2>3. CASE l \in Locs /\ m \in Locs
    <3>1. \A x \in Locs : log'[x].sup > log'[x].seq => log[x].sup > log[x].seq
      BY SMTT(30), <1>1, <1>2, <1>6, RecordFacts DEF PutAdds
    <3>2. QED
      BY Zenon, <1>1, <1>5, <2>1, <2>3, <3>1 DEF PutAdds, Kept, Base, VersionsDistinct
  <2>4. CASE l = n /\ m \in Locs
    BY Zenon, <1>1, <1>5, <2>1, <2>2, <2>4 DEF PutAdds
  <2>5. CASE l \in Locs /\ m = n
    BY Zenon, <1>1, <1>5, <2>1, <2>2, <2>5 DEF PutAdds
  <2>6. QED
    BY Zenon, <1>1, <2>3, <2>4, <2>5 DEF PutAdds
<1>17. PutsStored'
  <2>1. SUFFICES ASSUME NEW x \in Keys, NEW i \in 1 .. commitSeq, hist[i][x] = "put",
                        \A j \in (i + 1) .. gcFloor : hist[j][x] = "none"
                 PROVE  \E l \in Locs' : /\ Live(l)' /\ log'[l].key = x
                                         /\ log'[l].seq = i /\ log'[l].sup > i
    BY DEF PutsStored
  <2>2. PICK l \in Locs : Live(l) /\ log[l].key = x /\ log[l].seq = i /\ log[l].sup > i
    BY Zenon, <2>1 DEF Kept, Base, PutsStored
  <2>3. log'[l].sup > i
    BY <1>1, <1>2, <2>2, RecordFacts DEF PutAdds
  <2>4. QED
    BY Zenon, <1>1, <1>5, <2>2, <2>3 DEF PutAdds
<1>18. PendingPutsStored'
  <2>1. SUFFICES ASSUME NEW x \in Keys, pend'[x] = "put"
                 PROVE  \E l \in Locs' : /\ Live(l)' /\ log'[l].key = x
                                         /\ log'[l].seq = commitSeq + 1 /\ log'[l].sup = SeqMax
    BY Zenon DEF PendingPutsStored, IsCurrent
  <2>2. CASE x = k
    BY Zenon, <1>1, <1>5, <2>2 DEF PutAdds
  <2>3. CASE x # k
    <3>1. PICK l \in Locs : /\ Live(l) /\ log[l].key = x
                            /\ log[l].seq = commitSeq + 1 /\ log[l].sup = SeqMax
      BY Zenon, <1>3, <2>1, <2>3 DEF Kept, PendingPutsStored, IsCurrent
    <3>2. l \notin CurrentOf(k)
      BY Zenon, <1>6, <2>3, <3>1
    <3>3. QED
      BY Zenon, <1>1, <1>5, <3>1, <3>2 DEF PutAdds
  <2>4. QED
    BY Zenon, <2>2, <2>3
<1>19. QED
  BY Zenon, <1>8, <1>9, <1>12, <1>13, <1>14, <1>15, <1>16, <1>17, <1>18 DEF Kept, Base

-----------------------------------------------------------------------------
(* A delete, and a commit. *)

\* Superseding the current version of a key makes nothing harder to find.
LEMMA KeptDelChains ==
  ASSUME TypeOK, Kept, NEW k \in Keys, DelEffect(k), UNCHANGED seal, commitSeq + 1 < SeqMax,
         commitSeq' = commitSeq \/ commitSeq' = commitSeq + 1
  PROVE  LogBounded' /\ SealSound' /\ ChainsLive' /\ CurrentReachable' /\ HeadsCurrent'
<1>1. \A l \in Locs : Live(l)' <=> Live(l)
  BY Zenon DEF DelEffect, Live
<1>2. \A l \in Locs : IsCurrent(l)' => IsCurrent(l)
  <2>1. commitSeq + 1 # SeqMax
    BY RecordFacts
  <2>2. QED
    BY Zenon, <2>1 DEF DelEffect, IsCurrent
<1>3. LogBounded'
  <2>1. \A l \in Locs : log[l].seq <= commitSeq' + 1
    BY RecordFacts DEF Kept, Base, LogBounded
  <2>2. QED
    BY Zenon, <2>1 DEF DelEffect, Kept, Base, LogBounded
<1>4. SealSound'
  BY Zenon DEF DelEffect, Kept, SealSound, seal
<1>5. \A h \in Buckets : \A l \in bucket[h] : l \in Locs
  BY Zenon DEF TypeOK, ArenaType
<1>6. ChainsLive'
  BY <1>1, <1>5 DEF DelEffect, Kept, Base, ChainsLive
<1>7. CurrentReachable'
  BY Zenon, <1>1, <1>2 DEF DelEffect, Kept, Base, CurrentReachable, seal
<1>8. HeadsCurrent'
  BY Zenon, <1>2, <1>5 DEF DelEffect, Kept, HeadsCurrent, NoCollisions
<1>9. QED
  BY Zenon, <1>3, <1>4, <1>6, <1>7, <1>8

\* A version that ends at the commit in progress is still stored.
LEMMA KeptDelPuts ==
  ASSUME TypeOK, Kept, NEW k \in Keys, DelEffect(k), NEW x \in Keys, NEW i \in 1 .. commitSeq,
         hist[i][x] = "put", \A j \in (i + 1) .. gcFloor : hist[j][x] = "none"
  PROVE  \E l \in Locs' : Live(l)' /\ log'[l].key = x /\ log'[l].seq = i /\ log'[l].sup > i
<1>1. PICK l \in Locs : Live(l) /\ log[l].key = x /\ log[l].seq = i /\ log[l].sup > i
  BY Zenon DEF Kept, Base, PutsStored
<1>2. log'[l].sup > i
  BY <1>1, RecordFacts DEF DelEffect
<1>3. QED
  BY Zenon, <1>1, <1>2 DEF DelEffect, Live

\* A transaction's delete: recorded in pend until the lock is released.
LEMMA KeptDel ==
  ASSUME TypeOK, LockSound, Kept, NEW k \in Keys, lock # Free, pend[k] = "none",
         DelFound(k, commitSeq + 1), pend' = [pend EXCEPT ![k] = "del"],
         UNCHANGED <<seal, commitSeq, gcFloor, hist>>
  PROVE  Kept'
<1>1. DelEffect(k)
  BY Zenon, DelHasEffect DEF Kept
<1>2. commitSeq + 1 < SeqMax /\ commitSeq \in Nat /\ SeqMax \in Nat /\ gcFloor \in Nat
  BY Zenon, RecordFacts DEF LockSound
<1>3. /\ pend'[k] = "del"
      /\ \A x \in Keys : x # k => pend'[x] = pend[x]
  BY Zenon DEF TypeOK, SectionType
<1>4. \A l \in Locs : Live(l)' <=> Live(l)
  BY Zenon, <1>1 DEF DelEffect, Live
<1>5. LogBounded' /\ SealSound' /\ ChainsLive' /\ CurrentReachable' /\ HeadsCurrent'
  BY Zenon, <1>1, <1>2, KeptDelChains
<1>6. RecordsMatchHistory'
  BY Zenon, <1>1, <1>2, <1>3, <1>4, DelFits DEF DelEffect, RecordsMatchHistory, Kept
<1>7. VersionsDistinct'
  BY Zenon, <1>1, <1>2, DelKeepsDistinct DEF Kept
<1>8. PutsStored'
  BY <1>1, KeptDelPuts DEF PutsStored
<1>9. PendingPutsStored'
  <2>1. SUFFICES ASSUME NEW x \in Keys, pend'[x] = "put"
                 PROVE  \E l \in Locs' : /\ Live(l)' /\ log'[l].key = x
                                         /\ log'[l].seq = commitSeq + 1 /\ log'[l].sup = SeqMax
    BY Zenon DEF PendingPutsStored, IsCurrent
  <2>2. x # k
    BY Zenon, <1>3, <2>1
  <2>3. PICK l \in Locs : /\ Live(l) /\ log[l].key = x
                          /\ log[l].seq = commitSeq + 1 /\ log[l].sup = SeqMax
    BY Zenon, <1>3, <2>1, <2>2 DEF Kept, PendingPutsStored, IsCurrent
  <2>4. l \notin CurrentOf(k)
    BY Zenon, <2>2, <2>3 DEF CurrentOf
  <2>5. QED
    BY Zenon, <1>1, <1>4, <2>3, <2>4 DEF DelEffect
<1>10. QED
  BY Zenon, <1>5, <1>6, <1>7, <1>8, <1>9 DEF Kept, Base

\* Collection.Delete: a delete and its commit under one lock.
LEMMA KeptDelete == ASSUME TypeOK, LockSound, Kept, NEW k \in Keys, Delete(k) PROVE Kept'
<1> DEFINE did == [Quiet EXCEPT ![k] = "del"]
<1>1. /\ DelFound(k, commitSeq + 1) /\ commitSeq + 1 < SeqMax /\ Commit(did)
      /\ UNCHANGED <<seal, gcFloor, pend>>
  BY Zenon DEF Delete, section
<1>2. DelEffect(k)
  BY Zenon, <1>1, DelHasEffect DEF Kept
<1>3. did \in [Keys -> Ops] /\ did[k] = "del" /\ \A x \in Keys : x # k => did[x] = "none"
  BY Zenon DEF Quiet, Ops
<1> HIDE DEF did
<1>4. /\ commitSeq' = commitSeq + 1 /\ commitSeq \in Nat /\ SeqMax \in Nat
      /\ gcFloor \in Nat /\ gcFloor <= commitSeq
      /\ hist'[commitSeq + 1] = did
      /\ \A j \in 1 .. commitSeq : hist'[j] = hist[j]
  BY Zenon, <1>1, <1>3, RecordFacts, CommitClock
<1>5. pend' = pend /\ \A x \in Keys : pend[x] = "none"
  BY Zenon, <1>1 DEF Delete, LockSound, Quiet
<1>6. \A l \in Locs : Live(l)' <=> Live(l)
  BY Zenon, <1>2 DEF DelEffect, Live
<1>7. LogBounded' /\ SealSound' /\ ChainsLive' /\ CurrentReachable' /\ HeadsCurrent'
  BY Zenon, <1>1, <1>2, <1>4, KeptDelChains
<1>8. RecordsMatchHistory'
  <2>1. ASSUME NEW l \in Locs, Live(l)
        PROVE  Fits(log'[l], commitSeq + 1, hist', pend')
    <3>1. Fits(log'[l], commitSeq, hist, did)
      BY Zenon, <1>1, <1>2, <1>3, <1>5, <2>1, DelFits DEF Kept
    <3>2. /\ log'[l].seq \in Nat \ {0} /\ log'[l].sup \in Nat \ {0}
          /\ log'[l].seq <= commitSeq + 1 /\ pend'[log'[l].key] = "none"
      <4>1. /\ log[l].seq \in Nat \ {0} /\ log[l].sup \in Nat \ {0} /\ log[l].key \in Keys
            /\ commitSeq \in Nat
        BY Zenon, <1>1, <2>1, RecordFacts
      <4>2. log[l].seq <= commitSeq + 1
        BY Zenon, <1>1, <2>1 DEF Kept, Base, LogBounded
      <4>3. /\ log'[l].seq = log[l].seq /\ log'[l].key = log[l].key
            /\ log'[l].sup \in {log[l].sup, commitSeq + 1}
        BY Zenon, <1>2, <2>1 DEF DelEffect
      <4>4. QED
        BY <1>5, <4>1, <4>2, <4>3
    <3>3. QED
      BY Zenon, <1>1, <1>4, <3>1, <3>2, CommittedFits
  <2>2. QED
    BY Zenon, <1>2, <1>4, <1>6, <2>1 DEF DelEffect, RecordsMatchHistory
<1>9. VersionsDistinct'
  BY Zenon, <1>1, <1>2, DelKeepsDistinct DEF Kept
<1>10. PutsStored'
  <2>1. SUFFICES ASSUME NEW x \in Keys, NEW i \in 1 .. (commitSeq + 1), hist'[i][x] = "put",
                        \A j \in (i + 1) .. gcFloor : hist'[j][x] = "none"
                 PROVE  \E l \in Locs' : /\ Live(l)' /\ log'[l].key = x
                                         /\ log'[l].seq = i /\ log'[l].sup > i
    BY Zenon, <1>1, <1>4 DEF PutsStored
  <2>2. i \in 1 .. commitSeq
    BY <1>3, <1>4, <2>1
  <2>3. hist[i][x] = "put" /\ \A j \in (i + 1) .. gcFloor : hist[j][x] = "none"
    BY <1>4, <2>1, <2>2
  <2>4. QED
    BY Zenon, <1>2, <2>2, <2>3, KeptDelPuts
<1>11. PendingPutsStored'
  BY Zenon, <1>5 DEF PendingPutsStored
<1>12. QED
  BY Zenon, <1>7, <1>8, <1>9, <1>10, <1>11 DEF Kept, Base

\* Steps that touch neither records nor chains nor history keep them.
LEMMA KeptSame == ASSUME Kept, UNCHANGED corevars PROVE Kept'
<1>1. Locs' = Locs /\ \A l : (Live(l)' <=> Live(l)) /\ (IsCurrent(l)' <=> IsCurrent(l))
  BY Zenon DEF corevars, Locs, Live, IsCurrent
<1>2. LogBounded' /\ SealSound' /\ ChainsLive'
  BY Zenon, <1>1 DEF Kept, Base, corevars, LogBounded, SealSound, ChainsLive
<1>3. CurrentReachable' /\ HeadsCurrent'
  BY Zenon, <1>1 DEF Kept, Base, corevars, CurrentReachable, HeadsCurrent, NoCollisions
<1>4. RecordsMatchHistory' /\ VersionsDistinct'
  BY Zenon, <1>1 DEF Kept, Base, corevars, RecordsMatchHistory, VersionsDistinct
<1>5. PutsStored' /\ PendingPutsStored'
  BY <1>1 DEF Kept, Base, corevars, PutsStored, PendingPutsStored
<1>6. QED
  BY Zenon, <1>2, <1>3, <1>4, <1>5 DEF Kept, Base

\* The lock is released and what was done becomes the event commitSeq + 1.
LEMMA KeptCommit ==
  ASSUME TypeOK, LockSound, Kept, commitSeq + 1 < SeqMax, Commit(pend), pend' = Quiet,
         UNCHANGED <<log, bucket, head, segs, act, nextSeg, seal, gcFloor>>
  PROVE  Kept'
<1>1. /\ commitSeq' = commitSeq + 1 /\ commitSeq \in Nat /\ SeqMax \in Nat
      /\ gcFloor \in Nat /\ gcFloor <= commitSeq
      /\ hist'[commitSeq + 1] = pend
      /\ \A j \in 1 .. commitSeq : hist'[j] = hist[j]
  BY Zenon, RecordFacts, CommitClock DEF TypeOK, SectionType
<1>2. \A k \in Keys : pend'[k] = "none"
  BY Zenon DEF Quiet
<1>3. Locs' = Locs /\ \A l : (Live(l)' <=> Live(l)) /\ (IsCurrent(l)' <=> IsCurrent(l))
  BY Zenon DEF Locs, Live, IsCurrent
<1>4. LogBounded'
  <2>1. \A l \in Locs : log[l].seq <= commitSeq' + 1
    BY <1>1, RecordFacts DEF Kept, Base, LogBounded
  <2>2. QED
    BY Zenon, <1>3, <2>1 DEF Kept, Base, LogBounded
<1>5. SealSound' /\ ChainsLive' /\ CurrentReachable' /\ HeadsCurrent'
  BY Zenon, <1>3 DEF Kept, Base, SealSound, ChainsLive, CurrentReachable, HeadsCurrent, NoCollisions, seal
<1>6. RecordsMatchHistory'
  <2>1. ASSUME NEW l \in Locs, Live(l)
        PROVE  Fits(log[l], commitSeq + 1, hist', pend')
    <3>1. /\ Fits(log[l], commitSeq, hist, pend)
          /\ log[l].seq \in Nat \ {0} /\ log[l].sup \in Nat \ {0} /\ log[l].seq <= commitSeq + 1
          /\ pend'[log[l].key] = "none"
      BY Zenon, <1>2, <2>1, RecordFacts DEF Kept, Base, RecordsMatchHistory, LogBounded
    <3>2. QED
      BY Zenon, <1>1, <3>1, CommittedFits
  <2>2. QED
    BY Zenon, <1>1, <1>3, <2>1 DEF RecordsMatchHistory
<1>7. VersionsDistinct'
  BY Zenon, <1>3 DEF Kept, Base, VersionsDistinct
<1>8. PutsStored'
  <2>1. SUFFICES ASSUME NEW k \in Keys, NEW i \in 1 .. (commitSeq + 1), hist'[i][k] = "put",
                        \A j \in (i + 1) .. gcFloor : hist'[j][k] = "none"
                 PROVE  \E l \in Locs : Live(l) /\ log[l].key = k /\ log[l].seq = i /\ log[l].sup > i
    BY Zenon, <1>1, <1>3 DEF PutsStored
  <2>2. CASE i = commitSeq + 1
    BY Zenon, <1>1, <2>1, <2>2 DEF Kept, PendingPutsStored, IsCurrent
  <2>3. CASE i # commitSeq + 1
    <3>1. i \in 1 .. commitSeq
      BY <1>1, <2>3
    <3>2. \A j \in (i + 1) .. gcFloor : hist[j][k] = "none"
      BY <1>1, <2>1, <3>1
    <3>3. QED
      BY <1>1, <2>1, <3>1, <3>2 DEF Kept, Base, PutsStored
  <2>4. QED
    BY Zenon, <2>2, <2>3
<1>9. PendingPutsStored'
  BY Zenon, <1>2 DEF PendingPutsStored
<1>10. QED
  BY Zenon, <1>4, <1>5, <1>6, <1>7, <1>8, <1>9 DEF Kept, Base

-----------------------------------------------------------------------------
(* The steps of clients. *)

\* A put under the lock, whether its segment could be allocated or not.
LEMMA KeptShardPut ==
  ASSUME TypeOK, LockSound, Kept, NEW k \in Keys, lock # Free, ShardPut(k, commitSeq + 1),
         UNCHANGED <<seal, commitSeq, gcFloor, hist>>
  PROVE  Kept'
<1>1. CASE PutWritten(k, commitSeq + 1) /\ pend' = [pend EXCEPT ![k] = "put"]
  BY Zenon, <1>1, KeptPut DEF seal
<1>2. CASE PutFailed /\ UNCHANGED pend
  BY Zenon, <1>2, KeptSame DEF PutFailed, arena, seal, corevars
<1>3. QED
  BY Zenon, <1>1, <1>2 DEF ShardPut

\* The flusher's steps (applyBatch).
LEMMA KeptBatch ==
  ASSUME TypeOK, LockSound, Kept, LockBatch \/ ApplyBatch \/ UnlockBatch
  PROVE  Kept'
<1>1. CASE LockBatch
  <2>1. pend' = pend
    BY Zenon, <1>1 DEF LockBatch, LockSound
  <2>2. QED
    BY Zenon, <1>1, <2>1, KeptSame DEF LockBatch, arena, seal, corevars
<1>2. CASE ApplyBatch
  <2>1. Head(todo) \in Keys
    BY <1>2 DEF ApplyBatch, TypeOK, SectionType
  <2>2. lock # Free
    BY Zenon, <1>2 DEF ApplyBatch, Free, Batch
  <2>3. QED
    BY Zenon, <1>2, <2>1, <2>2, KeptShardPut DEF ApplyBatch
<1>3. CASE UnlockBatch
  <2>1. commitSeq + 1 < SeqMax
    BY Zenon, <1>3 DEF UnlockBatch, LockSound, Free, Batch
  <2>2. QED
    BY Zenon, <1>3, <2>1, KeptCommit DEF UnlockBatch, arena
<1>4. QED
  BY Zenon, <1>1, <1>2, <1>3

\* A transaction's steps (applyTxn).
LEMMA KeptTxn ==
  ASSUME TypeOK, LockSound, Kept, NEW t \in Txns,
         \/ Begin(t) \/ TxnGet(t) \/ LockTxn(t) \/ UnlockTxn(t)
         \/ \E k \in Keys : ApplyTxn(t, k) \/ \E op \in {"put", "del"} : TxnWrite(t, k, op)
  PROVE  Kept'
<1>1. CASE Begin(t) \/ TxnGet(t) \/ \E k \in Keys : \E op \in {"put", "del"} : TxnWrite(t, k, op)
  BY Zenon, <1>1, KeptSame DEF Begin, TxnGet, TxnWrite, arena, seal, section, corevars
<1>2. CASE LockTxn(t)
  <2>1. pend' = pend
    BY Zenon, <1>2 DEF LockTxn, LockSound
  <2>2. QED
    BY Zenon, <1>2, <2>1, KeptSame DEF LockTxn, arena, seal, corevars
<1>3. CASE UnlockTxn(t)
  <2>1. commitSeq + 1 < SeqMax
    BY Zenon, <1>3, HolderAssumption DEF UnlockTxn, LockSound
  <2>2. CASE changed
    BY Zenon, <1>3, <2>1, <2>2, KeptCommit DEF UnlockTxn, arena
  <2>3. CASE ~changed
    <3>1. pend' = pend
      BY Zenon, <1>3, <2>3 DEF UnlockTxn, LockSound
    <3>2. QED
      BY Zenon, <1>3, <2>3, <3>1, KeptSame DEF UnlockTxn, arena, seal, corevars
  <2>4. QED
    BY Zenon, <2>2, <2>3
<1>4. ASSUME NEW k \in Keys, ApplyTxn(t, k) PROVE Kept'
  <2>1. UNCHANGED <<seal, commitSeq, gcFloor, hist>> /\ lock = t /\ lock # Free
    BY Zenon, <1>4, HolderAssumption DEF ApplyTxn
  <2>2. pend[k] = "none"
    BY Zenon, <1>4 DEF ApplyTxn, LockSound
  <2>3. CASE UNCHANGED <<arena, changed, pend>>
    BY Zenon, <2>1, <2>3, KeptSame DEF arena, seal, corevars
  <2>4. CASE ShardPut(k, commitSeq + 1)
    BY Zenon, <2>1, <2>4, KeptShardPut
  <2>5. CASE DelFound(k, commitSeq + 1) /\ pend' = [pend EXCEPT ![k] = "del"]
    BY Zenon, <2>1, <2>2, <2>5, KeptDel
  <2>6. QED
    BY Zenon, <1>4, <2>3, <2>4, <2>5 DEF ApplyTxn
<1>5. QED
  BY Zenon, <1>1, <1>2, <1>3, <1>4

\* Every step of clients.
LEMMA KeptTraffic == ASSUME TypeOK, LockSound, Kept, Traffic PROVE Kept'
<1>1. ASSUME NEW p \in Scanners, ScanBegin(p) \/ ScanVisit(p) \/ ScanEnd(p) PROVE Kept'
  <2>1. UNCHANGED <<arena, seal, commitSeq, gcFloor, section, hist>>
    BY Zenon, <1>1 DEF ScanBegin, ScanVisit, ScanEnd
  <2>2. QED
    BY Zenon, <2>1, KeptSame DEF arena, seal, section, corevars
<1>2. QED
  BY Zenon, <1>1, KeptBatch, KeptDelete, KeptTxn DEF Traffic

-----------------------------------------------------------------------------
(* Sealing and reclaim. *)

\* Pinning and indexing sealed segments.
LEMMA KeptSeal ==
  ASSUME TypeOK, Kept, SealBegin \/ \E g \in sealing : SealIndex(g)
  PROVE  Kept'
<1>1. UNCHANGED <<log, bucket, head, segs, act, nextSeg, commitSeq, gcFloor, hist, pend>>
  BY Zenon DEF SealBegin, SealIndex, arena, section
<1>2. Locs' = Locs /\ \A l : (Live(l)' <=> Live(l)) /\ (IsCurrent(l)' <=> IsCurrent(l))
  BY Zenon, <1>1 DEF Locs, Live, IsCurrent
<1>3. SealSound' /\ indexed \subseteq indexed'
  <2>1. CASE SealBegin
    BY Zenon, <1>1, <2>1 DEF SealBegin, Kept, SealSound
  <2>2. CASE \E g \in sealing : SealIndex(g)
    BY Zenon, <1>1, <2>2 DEF SealIndex, Kept, SealSound
  <2>3. QED
    BY Zenon, <2>1, <2>2
<1>4. LogBounded' /\ ChainsLive' /\ HeadsCurrent'
  BY Zenon, <1>1, <1>2 DEF Kept, Base, LogBounded, ChainsLive, HeadsCurrent, NoCollisions
<1>5. CurrentReachable'
  BY Zenon, <1>1, <1>2, <1>3 DEF Kept, Base, CurrentReachable
<1>6. RecordsMatchHistory' /\ VersionsDistinct'
  BY Zenon, <1>1, <1>2 DEF Kept, Base, RecordsMatchHistory, VersionsDistinct
<1>7. PutsStored' /\ PendingPutsStored'
  BY <1>1, <1>2 DEF Kept, Base, PutsStored, PendingPutsStored
<1>8. QED
  BY Zenon, <1>3, <1>4, <1>5, <1>6, <1>7 DEF Kept, Base

\* A bucket may be dropped if the key index holds its current record: that is
\* the head of the chain, and the head is in a pinned segment with an index.
LEMMA KeptEvict == ASSUME EvictionsSafe, TypeOK, Kept, Evict PROVE Kept'
<1>1. UNCHANGED <<log, segs, act, nextSeg, indexed, base, sealBase, commitSeq, gcFloor, hist, pend>>
  BY Zenon DEF Evict, section
<1>2. Locs' = Locs /\ \A l : (Live(l)' <=> Live(l)) /\ (IsCurrent(l)' <=> IsCurrent(l))
  BY Zenon, <1>1 DEF Locs, Live, IsCurrent
<1>3. PICK gone \in SUBSET Buckets :
        /\ \A h \in gone : head[h] # NoLoc /\ log[head[h]].seg \in sealing \cap indexed
        /\ bucket' = [h \in Buckets |-> IF h \in gone THEN {} ELSE bucket[h]]
        /\ head' = [h \in Buckets |-> IF h \in gone THEN NoLoc ELSE head[h]]
  <2> DEFINE evicted == {h \in Buckets : EvictedBy(h, sealing \cap indexed)}
  <2>1. ASSUME NEW h \in evicted
        PROVE  head[h] # NoLoc /\ log[head[h]].seg \in sealing \cap indexed
    <3>1. head[h] # NoLoc /\ head[h] \in Locs
      BY Zenon DEF EvictedBy, TypeOK, ArenaType
    <3>2. PICK g \in sealing \cap indexed : log[head[h]].seg - base = g - sealBase
      BY Zenon DEF EvictedBy
    <3>3. base = sealBase
      BY Zenon, <3>2 DEF Kept, SealSound
    <3>4. log[head[h]].seg \in Int /\ g \in Int /\ base \in Int
      BY <3>1, RecordFacts DEF TypeOK, SealType
    <3>5. log[head[h]].seg = g
      BY <3>2, <3>3, <3>4
    <3>6. QED
      BY Zenon, <3>1, <3>5
  <2>2. /\ bucket' = [h \in Buckets |-> IF h \in evicted THEN {} ELSE bucket[h]]
        /\ head' = [h \in Buckets |-> IF h \in evicted THEN NoLoc ELSE head[h]]
    BY Zenon DEF Evict
  <2>3. evicted \in SUBSET Buckets
    OBVIOUS
  <2> HIDE DEF evicted
  <2>4. QED
    BY Zenon, <2>1, <2>2, <2>3
<1>4. SealSound'
  BY Zenon, <1>1 DEF Kept, SealSound, Evict
<1>5. ChainsLive' /\ HeadsCurrent'
  BY Zenon, <1>1, <1>2, <1>3 DEF Kept, Base, ChainsLive, HeadsCurrent, NoCollisions
<1>6. CurrentReachable'
  <2>1. SUFFICES ASSUME NEW l \in Locs, Live(l), IsCurrent(l)
                 PROVE  \/ l \in bucket'[Hash[log[l].key]]
                        \/ log[l].seg \in indexed /\ log[l].seg # act
    BY Zenon, <1>1, <1>2 DEF CurrentReachable
  <2>2. PICK h \in Buckets : h = Hash[log[l].key]
    BY Zenon, HashAssumption, RecordFacts
  <2>3. CASE h \notin gone \/ l \notin bucket[h]
    BY Zenon, <1>3, <2>1, <2>2, <2>3 DEF Kept, Base, CurrentReachable
  <2>4. CASE h \in gone /\ l \in bucket[h]
    <3>1. NoCollisions
      BY Zenon, <1>3, <2>4 DEF EvictionsSafe, Kept, SealSound
    <3>2. head[h] = l
      BY Zenon, <2>1, <2>4, <3>1 DEF Kept, HeadsCurrent
    <3>3. QED
      BY Zenon, <1>3, <2>4, <3>2 DEF Kept, SealSound
  <2>5. QED
    BY Zenon, <2>3, <2>4
<1>7. LogBounded' /\ RecordsMatchHistory' /\ VersionsDistinct'
  BY Zenon, <1>1, <1>2 DEF Kept, Base, LogBounded, RecordsMatchHistory, VersionsDistinct
<1>8. PutsStored' /\ PendingPutsStored'
  BY <1>1, <1>2 DEF Kept, Base, PutsStored, PendingPutsStored
<1>9. QED
  BY Zenon, <1>4, <1>5, <1>6, <1>7, <1>8 DEF Kept, Base

\* Reclaim drops only records that ended at or before the new gcFloor, and
\* splices the rest of a chain together.
LEMMA KeptReclaim == ASSUME TypeOK, LockSound, Kept, Reclaim PROVE Kept'
<1>1. /\ lock = Free
      /\ UNCHANGED <<log, act, nextSeg, indexed, sealing, base, sealBase, commitSeq, hist, pend>>
  BY Zenon DEF Reclaim, section, seal
<1>2. PICK retain \in RetainFloors, dead \in SUBSET segs :
        /\ \A g \in dead : DeadBy(g, retain)
        /\ segs' = segs \ dead
        /\ bucket' = [h \in Buckets |-> {l \in bucket[h] : log[l].seg \notin dead}]
        /\ \A h \in Buckets : head'[h] \in SplicedHead(h, bucket'[h])
        /\ gcFloor' = Max2(gcFloor, retain)
  <2>1. PICK retain \in RetainFloors :
          LET dead == {g \in segs \ {act} : RecsOf(g) # {} /\ DeadBy(g, retain)}
              rest == [h \in Buckets |-> {l \in bucket[h] : log[l].seg \notin dead}]
          IN  /\ segs' = segs \ dead
              /\ bucket' = rest
              /\ head' \in {hd \in [Buckets -> Locs \cup {NoLoc}] :
                            \A h \in Buckets : hd[h] \in SplicedHead(h, rest[h])}
              /\ gcFloor' = Max2(gcFloor, retain)
    BY Zenon DEF Reclaim
  <2> DEFINE dead == {g \in segs \ {act} : RecsOf(g) # {} /\ DeadBy(g, retain)}
  <2>2. /\ segs' = segs \ dead
        /\ bucket' = [h \in Buckets |-> {l \in bucket[h] : log[l].seg \notin dead}]
        /\ \A h \in Buckets : head'[h] \in SplicedHead(h, bucket'[h])
        /\ gcFloor' = Max2(gcFloor, retain)
    BY Zenon, <2>1
  <2>3. dead \in SUBSET segs /\ \A g \in dead : DeadBy(g, retain)
    OBVIOUS
  <2> HIDE DEF dead
  <2>4. QED
    BY Zenon, <2>2, <2>3
<1>3. /\ commitSeq \in Nat /\ gcFloor \in Nat /\ commitSeq < SeqMax /\ SeqMax \in Nat
      /\ retain \in Nat /\ retain <= commitSeq
      /\ gcFloor' \in Nat /\ gcFloor <= gcFloor' /\ retain <= gcFloor' /\ gcFloor' <= commitSeq
  BY <1>2, RecordFacts DEF RetainFloors, Max2
<1>4. /\ Locs' = Locs
      /\ \A l : (Live(l)' <=> Live(l) /\ log[l].seg \notin dead) /\ (IsCurrent(l)' <=> IsCurrent(l))
  BY Zenon, <1>1, <1>2 DEF Locs, Live, IsCurrent
<1>5. \A l \in Locs : Live(l) /\ ~Live(l)' => log[l].sup <= retain
  BY Zenon, <1>2, <1>4 DEF DeadBy, RecsOf
<1>6. \A k \in Keys : pend[k] = "none"
  BY Zenon, <1>1 DEF LockSound, Quiet
<1>7. LogBounded' /\ SealSound'
  BY Zenon, <1>1, <1>4 DEF Kept, Base, LogBounded, SealSound
<1>8. \A h \in Buckets : \A l \in bucket'[h] : l \in bucket[h] /\ l \in Locs /\ log[l].seg \notin dead
  BY Zenon, <1>2 DEF TypeOK, ArenaType
<1>9. ChainsLive'
  BY Zenon, <1>1, <1>4, <1>8 DEF Kept, Base, ChainsLive
<1>10. HeadsCurrent'
  <2>1. SUFFICES ASSUME NoCollisions, NEW h \in Buckets, NEW l \in bucket'[h], IsCurrent(l)
                 PROVE  head'[h] = l
    BY Zenon, <1>4, Zenon DEF HeadsCurrent, NoCollisions
  <2>2. head[h] = l
    BY Zenon, <1>8, <2>1 DEF Kept, HeadsCurrent
  <2>3. SplicedHead(h, bucket'[h]) = {l}
    BY Zenon, <2>1, <2>2 DEF SplicedHead
  <2>4. QED
    BY Zenon, <1>2, <2>3
<1>11. CurrentReachable'
  <2>1. SUFFICES ASSUME NEW l \in Locs, Live(l)', IsCurrent(l)
                 PROVE  \/ l \in bucket'[Hash[log[l].key]]
                        \/ log[l].seg \in indexed /\ log[l].seg # act
    BY Zenon, <1>1, <1>4 DEF CurrentReachable
  <2>2. Hash[log[l].key] \in Buckets
    BY Zenon, HashAssumption, RecordFacts
  <2>3. QED
    BY Zenon, <1>2, <1>4, <2>1, <2>2 DEF Kept, Base, CurrentReachable
<1>12. RecordsMatchHistory' /\ VersionsDistinct'
  BY Zenon, <1>1, <1>4 DEF Kept, Base, RecordsMatchHistory, VersionsDistinct
<1>13. PutsStored'
  <2>1. SUFFICES ASSUME NEW k \in Keys, NEW i \in 1 .. commitSeq, hist[i][k] = "put",
                        \A j \in (i + 1) .. gcFloor' : hist[j][k] = "none"
                 PROVE  \E l \in Locs : Live(l)' /\ log[l].key = k /\ log[l].seq = i /\ log[l].sup > i
    BY <1>1, <1>4 DEF PutsStored
  <2>2. \A j \in (i + 1) .. gcFloor : hist[j][k] = "none"
    BY <1>3, <2>1
  <2>3. PICK l \in Locs : Live(l) /\ log[l].key = k /\ log[l].seq = i /\ log[l].sup > i
    BY Zenon, <2>1, <2>2 DEF Kept, Base, PutsStored
  <2>4. log[l].sup \in Nat
    BY Zenon, RecordFacts
  <2>5. ASSUME log[l].sup <= retain PROVE FALSE
    <3>1. log[l].sup \in (i + 1) .. gcFloor' /\ log[l].sup # SeqMax /\ log[l].sup <= commitSeq
      BY <1>3, <2>3, <2>4, <2>5
    <3>2. hist[log[l].sup][k] # "none"
      BY Zenon, <2>3, <3>1 DEF Kept, Base, RecordsMatchHistory, Fits
    <3>3. QED
      BY Zenon, <2>1, <3>1, <3>2
  <2>6. QED
    BY Zenon, <1>5, <2>3, <2>5
<1>14. PendingPutsStored'
  BY Zenon, <1>1, <1>6 DEF PendingPutsStored
<1>15. QED
  BY Zenon, <1>7, <1>9, <1>10, <1>11, <1>12, <1>13, <1>14 DEF Kept, Base

-----------------------------------------------------------------------------
(* Compaction, phases 1 and 2, and the live segments. *)

\* Phase 1 only makes the active segment a sealed one.
LEMMA KeptBegin == ASSUME TypeOK, Kept, CompactBegin PROVE Kept'
<1>1. /\ act' = NoSeg
      /\ UNCHANGED <<log, bucket, head, segs, nextSeg, indexed, sealing, base, sealBase,
                     commitSeq, gcFloor, hist, pend>>
  BY Zenon DEF CompactBegin, seal, section
<1>2. Locs' = Locs /\ \A l : (Live(l)' <=> Live(l)) /\ (IsCurrent(l)' <=> IsCurrent(l))
  BY Zenon, <1>1 DEF Locs, Live, IsCurrent
<1>3. NoSeg \notin indexed /\ NoSeg \notin sealing /\ \A l \in Locs : log[l].seg # NoSeg
  BY RecordFacts DEF TypeOK, SealType, ArenaType, NoSeg
<1>4. LogBounded' /\ ChainsLive' /\ HeadsCurrent'
  BY Zenon, <1>1, <1>2 DEF Kept, Base, LogBounded, ChainsLive, HeadsCurrent, NoCollisions
<1>5. SealSound' /\ CurrentReachable'
  BY Zenon, <1>1, <1>2, <1>3 DEF Kept, Base, SealSound, CurrentReachable
<1>6. RecordsMatchHistory' /\ VersionsDistinct'
  BY Zenon, <1>1, <1>2 DEF Kept, Base, RecordsMatchHistory, VersionsDistinct
<1>7. PutsStored' /\ PendingPutsStored'
  BY <1>1, <1>2 DEF Kept, Base, PutsStored, PendingPutsStored
<1>8. QED
  BY Zenon, <1>4, <1>5, <1>6, <1>7 DEF Kept, Base

\* A copy of record l is appended at d, in segment g.
CopyAdds(l, d, g) ==
  /\ log' \in Seq(RecordType)
  /\ d \notin Locs /\ d \in Nat \ {0} /\ Locs' = Locs \cup {d}
  /\ \A m \in Locs : log'[m] = log[m]
  /\ log'[d].key = log[l].key /\ log'[d].seq = log[l].seq /\ log'[d].sup = log[l].sup
  /\ log'[d].seg = g
  /\ nextSeg' \in Nat \ {0} /\ nextSeg <= nextSeg' /\ g < nextSeg'

\* A stream writes to its current segment or to a fresh one (CopyTo).
LEMMA CopyDoes ==
  ASSUME TypeOK, NEW l \in Locs, NEW cur \in 0 .. (nextSeg - 1), CopyTo(l, cur)
  PROVE  /\ (IF Full(cur) THEN nextSeg ELSE cur) \in Nat \ {0}
         /\ CopyAdds(l, Len(log) + 1, IF Full(cur) THEN nextSeg ELSE cur)
<1>1. PICK g : g = IF Full(cur) THEN nextSeg ELSE cur
  BY Zenon
<1>2. /\ log' = Append(log, [log[l] EXCEPT !.seg = g])
      /\ nextSeg' = IF Full(cur) THEN nextSeg + 1 ELSE nextSeg
  BY Zenon, <1>1 DEF CopyTo
<1>3. g \in Nat \ {0} /\ nextSeg \in Nat \ {0} /\ g < nextSeg'
  BY <1>1, <1>2 DEF TypeOK, ArenaType, Full, NoSeg
<1>4. Len(log) \in Nat /\ Locs = 1 .. Len(log) /\ log \in Seq(RecordType) /\ log[l] \in RecordType
  BY Zenon, LocsAre DEF TypeOK, ArenaType
<1>5. PICK r : r = [log[l] EXCEPT !.seg = g]
  BY Zenon
<1>6. r \in RecordType /\ r.key = log[l].key /\ r.seq = log[l].seq /\ r.sup = log[l].sup /\ r.seg = g
  BY Zenon, <1>3, <1>4, <1>5 DEF RecordType
<1>7. /\ log' \in Seq(RecordType) /\ Len(log') = Len(log) + 1
      /\ log'[Len(log) + 1] = r /\ \A m \in 1 .. Len(log) : log'[m] = log[m]
  BY <1>2, <1>4, <1>5, <1>6
<1>8. Locs' = 1 .. (Len(log) + 1)
  BY <1>7 DEF Locs
<1>9. nextSeg' \in Nat \ {0} /\ nextSeg <= nextSeg'
  BY <1>2, <1>3
<1>10. /\ Len(log) + 1 \notin Locs /\ Len(log) + 1 \in Nat \ {0}
       /\ Locs' = Locs \cup {Len(log) + 1} /\ \A m \in Locs : log'[m] = log[m]
  BY <1>4, <1>7, <1>8
<1>11. QED
  BY Zenon, <1>1, <1>3, <1>6, <1>7, <1>9, <1>10 DEF CopyAdds

\* Nobody sees the copies yet.
LEMMA KeptCopy ==
  ASSUME TypeOK, Kept, NEW l \in Locs, NEW d, NEW g, g \notin segs, CopyAdds(l, d, g),
         UNCHANGED <<bucket, head, segs, act, seal, commitSeq, gcFloor, hist, pend>>
  PROVE  Kept'
<1>1. UNCHANGED <<bucket, head, segs, act, indexed, sealing, base, sealBase, commitSeq, gcFloor,
                  hist, pend>>
  BY Zenon DEF seal
<1>2. /\ Locs' = Locs \cup {d} /\ d \notin Locs /\ ~Live(d)'
      /\ \A m \in Locs : log'[m] = log[m]
  BY Zenon DEF CopyAdds, Live
<1>3. \A m \in Locs : (Live(m)' <=> Live(m)) /\ (IsCurrent(m)' <=> IsCurrent(m))
  BY Zenon, <1>1, <1>2 DEF Live, IsCurrent
<1>4. \A h \in Buckets : \A m \in bucket[h] : m \in Locs
  BY Zenon DEF TypeOK, ArenaType
<1>5. LogBounded'
  <2>1. \A m \in Locs : log[m].seg < nextSeg'
    BY RecordFacts DEF CopyAdds, Kept, Base, LogBounded, TypeOK, ArenaType
  <2>2. log'[d].seg < nextSeg' /\ log'[d].seq <= commitSeq + 1
    BY Zenon DEF CopyAdds, Kept, Base, LogBounded
  <2>3. QED
    BY Zenon, <1>1, <1>2, <2>1, <2>2 DEF Kept, Base, LogBounded
<1>6. SealSound'
  BY Zenon, <1>1 DEF Kept, SealSound
<1>7. ChainsLive' /\ HeadsCurrent'
  BY Zenon, <1>1, <1>2, <1>3, <1>4 DEF Kept, Base, ChainsLive, HeadsCurrent, NoCollisions
<1>8. CurrentReachable'
  BY Zenon, <1>1, <1>2, <1>3 DEF Kept, Base, CurrentReachable
<1>9. RecordsMatchHistory' /\ VersionsDistinct'
  BY <1>1, <1>2, <1>3 DEF Kept, Base, RecordsMatchHistory, VersionsDistinct
<1>10. PutsStored' /\ PendingPutsStored'
  BY <1>1, <1>2, <1>3 DEF Kept, Base, PutsStored, PendingPutsStored
<1>11. QED
  BY Zenon, <1>5, <1>6, <1>7, <1>8, <1>9, <1>10 DEF Kept, Base

-----------------------------------------------------------------------------
(* Compaction, phase 3, and the live segments. *)

\* The transfer gives each copy the end of the version it was made from, and
\* changes nothing else.
LEMMA TransferDoes ==
  ASSUME TypeOK, MovedSound, log' = Transferred
  PROVE  /\ log' \in Seq(RecordType) /\ Locs' = Locs
         /\ \A d \in Locs : /\ log'[d].key = log[d].key /\ log'[d].seq = log[d].seq
                            /\ log'[d].seg = log[d].seg
         /\ \A x \in moved : log'[x[2]].sup = log[x[1]].sup
         /\ \A d \in Locs : (\A x \in moved : x[2] # d) => log'[d] = log[d]
<1> DEFINE copyOf(d) == {m[1] : m \in {x \in moved : x[2] = d}}
<1> DEFINE from(d) == CHOOSE l \in copyOf(d) : ~IsCurrent(l)
<1>1. log' = [d \in Locs |-> IF \E l \in copyOf(d) : ~IsCurrent(l)
                             THEN [log[d] EXCEPT !.sup = log[from(d)].sup] ELSE log[d]]
  BY Zenon DEF Transferred
<1>2. \A d : \A l : l \in copyOf(d) <=> \E x \in moved : x[2] = d /\ x[1] = l
  OBVIOUS
<1>3. \A d : (\E l \in copyOf(d) : ~IsCurrent(l)) => from(d) \in copyOf(d)
  OBVIOUS
<1> HIDE DEF copyOf
<1>4. /\ Len(log) \in Nat /\ Locs = 1 .. Len(log)
      /\ \A l \in Locs : log[l] \in RecordType
  BY Zenon, LocsAre
<1>5. \A x \in moved : x[1] \in Locs /\ x[2] \in Locs /\ IsCurrent(x[2])
  BY Zenon DEF MovedSound, Source, Copy
<1>6. \A d : (\E l \in copyOf(d) : ~IsCurrent(l)) => from(d) \in Locs
  BY <1>2, <1>3, <1>5
<1> HIDE DEF from
<1>7. \A d \in Locs : log'[d] = IF \E l \in copyOf(d) : ~IsCurrent(l)
                                THEN [log[d] EXCEPT !.sup = log[from(d)].sup] ELSE log[d]
  BY Zenon, <1>1
<1>8. \A d \in Locs, s \in 1 .. SeqMax :
        /\ [log[d] EXCEPT !.sup = s] \in RecordType
        /\ [log[d] EXCEPT !.sup = s].key = log[d].key
        /\ [log[d] EXCEPT !.sup = s].seq = log[d].seq
        /\ [log[d] EXCEPT !.sup = s].seg = log[d].seg
        /\ [log[d] EXCEPT !.sup = s].sup = s
  BY Zenon, <1>4 DEF RecordType
<1>9. \A l \in Locs : log[l].sup \in 1 .. SeqMax
  BY Zenon, <1>4 DEF RecordType
<1>10. \A d \in Locs : /\ log'[d] \in RecordType
                       /\ log'[d].key = log[d].key /\ log'[d].seq = log[d].seq
                       /\ log'[d].seg = log[d].seg
  <2>1. SUFFICES ASSUME NEW d \in Locs
                 PROVE  /\ log'[d] \in RecordType
                        /\ log'[d].key = log[d].key /\ log'[d].seq = log[d].seq
                        /\ log'[d].seg = log[d].seg
    OBVIOUS
  <2>2. CASE \E l \in copyOf(d) : ~IsCurrent(l)
    <3>1. PICK s \in 1 .. SeqMax : s = log[from(d)].sup
      BY Zenon, <1>6, <1>9, <2>2
    <3>2. log'[d] = [log[d] EXCEPT !.sup = s]
      BY Zenon, <1>7, <2>2, <3>1
    <3>3. QED
      BY <1>8, <3>2
  <2>3. CASE ~\E l \in copyOf(d) : ~IsCurrent(l)
    <3>1. log'[d] = log[d]
      BY Zenon, <1>7, <2>3
    <3>2. QED
      BY Zenon, <1>4, <3>1
  <2>4. QED
    BY Zenon, <2>2, <2>3
<1>11. DOMAIN log' = Locs
  BY Zenon, <1>1
<1>12. log' \in [1 .. Len(log) -> RecordType]
  <2>1. log' = [d \in DOMAIN log' |-> log'[d]]
    BY Zenon, <1>1
  <2>2. QED
    BY Zenon, <1>4, <1>10, <1>11, <2>1
<1>13. log' \in Seq(RecordType) /\ Locs' = Locs
  BY <1>4, <1>11, <1>12 DEF Locs
<1>14. ASSUME NEW x \in moved PROVE log'[x[2]].sup = log[x[1]].sup
  <2>1. \A l : l \in copyOf(x[2]) <=> l = x[1]
    BY <1>2 DEF MovedSound
  <2>2. x[2] \in Locs /\ x[1] \in Locs /\ log[x[2]].sup = SeqMax
    BY Zenon, <1>5 DEF IsCurrent
  <2>3. CASE IsCurrent(x[1])
    <3>1. log'[x[2]] = log[x[2]]
      BY Zenon, <1>7, <2>1, <2>2, <2>3
    <3>2. QED
      BY Zenon, <2>2, <2>3, <3>1 DEF IsCurrent
  <2>4. CASE ~IsCurrent(x[1])
    <3>1. from(x[2]) = x[1]
      BY Zenon, <1>3, <2>1, <2>4
    <3>2. log'[x[2]] = [log[x[2]] EXCEPT !.sup = log[x[1]].sup]
      BY Zenon, <1>7, <2>1, <2>2, <2>4, <3>1
    <3>3. QED
      BY <1>8, <1>9, <2>2, <3>2
  <2>5. QED
    BY Zenon, <2>3, <2>4
<1>15. \A d \in Locs : (\A x \in moved : x[2] # d) => log'[d] = log[d]
  BY Zenon, <1>2, <1>7
<1>16. QED
  BY Zenon, <1>10, <1>13, <1>14, <1>15

\* What an install finds, with no source left to copy.
Installing ==
  /\ TypeOK /\ LockSound /\ Kept /\ Copying
  /\ cleft = {} /\ lock = Free
  /\ log' = Transferred
  /\ segs' = (segs \ csrc) \cup clive \cup chist

\* The records the chains are rebuilt from.
Installed == CurrentCopies \cup CurrentSince(segs \ corig)

\* After the install the live records are the copies and what was no source.
LEMMA InstallLive ==
  ASSUME Installing
  PROVE  /\ \A l \in Locs : Live(l)' <=> (Live(l) /\ ~Source(l)) \/ Copy(l)
         /\ \A l \in Locs : Source(l) => Live(l) /\ ~Copy(l)
         /\ \A l \in Locs : Copy(l) => ~Live(l)
         /\ \A l \in Locs : ~Copy(l) => log'[l] = log[l]
<1>1. /\ Locs' = Locs
      /\ \A d \in Locs : log'[d].seg = log[d].seg
      /\ \A d \in Locs : (\A x \in moved : x[2] # d) => log'[d] = log[d]
  BY Zenon, TransferDoes DEF Installing, Copying
<1>2. csrc \subseteq segs /\ Dest \cap segs = {} /\ segs' = (segs \ csrc) \cup Dest
  BY Zenon DEF Installing, Copying, SegmentsSound, Dest
<1>3. \A x \in moved : Copy(x[2])
  BY Zenon DEF Installing, Copying, MovedSound
<1>4. \A l \in Locs : Live(l)' <=> log[l].seg \in segs'
  BY Zenon, <1>1 DEF Live
<1>5. QED
  BY Zenon, <1>1, <1>2, <1>3, <1>4 DEF Live, Source, Copy

\* Every copy stands for a source, and ends when that one did.
LEMMA CopyHasSource ==
  ASSUME Installing, NEW d \in Locs, Copy(d)
  PROVE  \E l \in Locs : Source(l) /\ SameVersion(l, d) /\ log'[d].sup = log[l].sup
<1>1. /\ \A x \in moved : log'[x[2]].sup = log[x[1]].sup
      /\ (\A x \in moved : x[2] # d) => log'[d] = log[d]
  BY Zenon, TransferDoes DEF Installing, Copying
<1>2. CASE \E x \in moved : x[2] = d
  <2>1. PICK x \in moved : x[2] = d
    BY Zenon, <1>2
  <2>2. Source(x[1]) /\ SameVersion(x[1], d)
    BY Zenon, <2>1 DEF Installing, Copying, MovedSound
  <2>3. QED
    BY Zenon, <1>1, <2>1, <2>2 DEF Source
<1>3. CASE ~\E x \in moved : x[2] = d
  <2>1. PICK l \in Locs : Source(l) /\ SameVersion(l, d) /\ log[d].sup = log[l].sup
    BY Zenon, <1>3 DEF Installing, Copying, CopiesSound
  <2>2. QED
    BY Zenon, <1>1, <1>3, <2>1
<1>4. QED
  BY Zenon, <1>2, <1>3

\* Every source has a copy, unless it ended before the window.
LEMMA SourceHasCopy ==
  ASSUME Installing, NEW l \in Locs, Source(l)
  PROVE  \/ ~IsCurrent(l) /\ log[l].sup <= cretain
         \/ \E d \in Locs : Copy(d) /\ SameVersion(l, d) /\ log'[d].sup = log[l].sup
<1>1. /\ \A x \in moved : log'[x[2]].sup = log[x[1]].sup
      /\ \A d \in Locs : (\A x \in moved : x[2] # d) => log'[d] = log[d]
  BY Zenon, TransferDoes DEF Installing, Copying
<1>2. l \notin cleft
  BY Zenon DEF Installing
<1>3. CASE \E x \in moved : x[1] = l
  <2>1. PICK x \in moved : x[1] = l
    BY Zenon, <1>3
  <2>2. Copy(x[2]) /\ SameVersion(l, x[2])
    BY Zenon, <2>1 DEF Installing, Copying, MovedSound
  <2>3. QED
    BY Zenon, <1>1, <2>1, <2>2 DEF Copy
<1>4. CASE /\ ~IsCurrent(l)
           /\ \E d \in Locs : Copy(d) /\ SameVersion(l, d) /\ log[d].sup = log[l].sup
  <2>1. PICK d \in Locs : Copy(d) /\ SameVersion(l, d) /\ log[d].sup = log[l].sup
    BY Zenon, <1>4
  <2>2. \A x \in moved : x[2] # d
    BY Zenon, <1>4, <2>1 DEF Installing, Copying, MovedSound, IsCurrent
  <2>3. QED
    BY Zenon, <1>1, <2>1, <2>2
<1>5. QED
  BY Zenon, <1>2, <1>3, <1>4 DEF Installing, Copying, SourcesCopied

\* The chains are rebuilt from exactly the records current after the install.
LEMMA InstalledIsCurrent ==
  ASSUME Installing
  PROVE  /\ Installed \subseteq Locs
         /\ \A l \in Locs : l \in Installed <=> Live(l)' /\ IsCurrent(l)'
<1>1. /\ \A x \in moved : log'[x[2]].sup = log[x[1]].sup
      /\ \A d \in Locs : (\A x \in moved : x[2] # d) => log'[d] = log[d]
  BY Zenon, TransferDoes DEF Installing, Copying
<1>2. \A l : l \in CurrentCopies <=> \E x \in moved : x[2] = l /\ IsCurrent(x[1])
  BY Zenon DEF CurrentCopies
<1>3. \A l : l \in CurrentSince(segs \ corig) <=> l \in Locs /\ log[l].seg \in segs \ corig /\ IsCurrent(l)
  BY Zenon DEF CurrentSince
<1>4. \A x \in moved : Copy(x[2]) /\ x[2] \in Locs
  BY Zenon DEF Installing, Copying, MovedSound, Copy
<1>5. Installed \subseteq Locs
  BY Zenon, <1>2, <1>3, <1>4 DEF Installed
<1>6. ASSUME NEW l \in Locs, Copy(l) PROVE l \in Installed <=> Live(l)' /\ IsCurrent(l)'
  <2>1. Live(l)' /\ l \notin CurrentSince(segs \ corig)
    BY Zenon, <1>3, <1>6, InstallLive DEF Live
  <2>2. CASE \E x \in moved : x[2] = l
    <3>1. PICK x \in moved : x[2] = l
      BY Zenon, <2>2
    <3>2. \A y \in moved : y[2] = l => y = x
      BY Zenon, <3>1 DEF Installing, Copying, MovedSound
    <3>3. l \in CurrentCopies <=> IsCurrent(x[1])
      BY Zenon, <1>2, <3>1, <3>2
    <3>4. IsCurrent(l)' <=> IsCurrent(x[1])
      BY Zenon, <1>1, <3>1 DEF IsCurrent
    <3>5. QED
      BY Zenon, <2>1, <3>3, <3>4 DEF Installed
  <2>3. CASE ~\E x \in moved : x[2] = l
    <3>1. ~IsCurrent(l) /\ log'[l] = log[l]
      BY Zenon, <1>1, <1>6, <2>3 DEF Installing, Copying, CopiesSound
    <3>2. ~IsCurrent(l)'
      BY Zenon, <3>1 DEF IsCurrent
    <3>3. QED
      BY Zenon, <1>2, <2>1, <2>3, <3>2 DEF Installed
  <2>4. QED
    BY Zenon, <2>2, <2>3
<1>7. ASSUME NEW l \in Locs, ~Copy(l) PROVE l \in Installed <=> Live(l)' /\ IsCurrent(l)'
  <2>1. l \notin CurrentCopies
    BY Zenon, <1>2, <1>4, <1>7
  <2>2. (IsCurrent(l)' <=> IsCurrent(l)) /\ (Live(l)' <=> Live(l) /\ ~Source(l))
    BY Zenon, <1>7, InstallLive DEF IsCurrent
  <2>3. csrc \subseteq corig /\ (log[l].seg \in corig \ csrc => ~IsCurrent(l))
    BY Zenon DEF Installing, Copying, SegmentsSound, SourcesSound
  <2>4. QED
    BY Zenon, <1>3, <2>1, <2>2, <2>3 DEF Installed, Live, Source
<1>8. QED
  BY Zenon, <1>5, <1>6, <1>7

\* No key is installed twice: the copies are of different versions, and a key
\* written since was superseded in its source.
LEMMA InstalledUnique ==
  ASSUME Installing, NEW a \in Installed, NEW b \in Installed, log[a].key = log[b].key
  PROVE  a = b
<1>1. TypeOK /\ LockSound /\ Base
  BY Zenon DEF Installing, Kept
<1>2. a \in Locs /\ b \in Locs
  BY Zenon, InstalledIsCurrent
<1>3. PICK k \in Keys : log[a].key = k /\ log[b].key = k
  BY Zenon, <1>1, <1>2, RecordFacts
<1>4. \A c \in Installed :
        \/ /\ Copy(c) /\ IsCurrent(c)
           /\ \E l \in Locs : Source(l) /\ SameVersion(l, c) /\ IsCurrent(l)
        \/ c \in Locs /\ Live(c) /\ IsCurrent(c) /\ ~Source(c)
  <2>1. SUFFICES ASSUME NEW c \in Installed
                 PROVE  \/ /\ Copy(c) /\ IsCurrent(c)
                           /\ \E l \in Locs : Source(l) /\ SameVersion(l, c) /\ IsCurrent(l)
                        \/ c \in Locs /\ Live(c) /\ IsCurrent(c) /\ ~Source(c)
    OBVIOUS
  <2>2. CASE c \in CurrentCopies
    <3>1. PICK x \in moved : x[2] = c /\ IsCurrent(x[1])
      BY Zenon, <2>2 DEF CurrentCopies
    <3>2. Source(x[1]) /\ Copy(c) /\ IsCurrent(c) /\ SameVersion(x[1], c)
      BY Zenon, <3>1 DEF Installing, Copying, MovedSound
    <3>3. QED
      BY Zenon, <3>1, <3>2 DEF Source
  <2>3. CASE c \in CurrentSince(segs \ corig)
    BY Zenon, <2>3 DEF CurrentSince, Live, Source, Installing, Copying, SegmentsSound
  <2>4. QED
    BY Zenon, <2>2, <2>3 DEF Installed
<1>5. \A l, m \in Locs : /\ Live(l) /\ Live(m) /\ IsCurrent(l) /\ IsCurrent(m)
                         /\ log[l].key = k /\ log[m].key = k
                         => l = m
  BY Zenon, <1>1, CurrentUnique DEF CurrentOf
<1>6. \A l \in Locs : Source(l) => Live(l)
  BY Zenon, InstallLive
<1>7. CASE Copy(a) /\ IsCurrent(a) /\ Copy(b) /\ IsCurrent(b)
  <2>1. PICK l \in Locs : Source(l) /\ SameVersion(l, a) /\ IsCurrent(l)
    BY Zenon, <1>4, <1>6, <1>7, InstallLive
  <2>2. PICK m \in Locs : Source(m) /\ SameVersion(m, b) /\ IsCurrent(m)
    BY Zenon, <1>4, <1>6, <1>7, InstallLive
  <2>3. l = m
    BY Zenon, <1>3, <1>5, <1>6, <2>1, <2>2 DEF SameVersion
  <2>4. SameVersion(a, b) /\ log[a].seq <= commitSeq /\ log[b].seq <= commitSeq
    BY Zenon, <2>1, <2>2, <2>3 DEF SameVersion, Installing, Copying, SourcesSound
  <2>5. log[a].sup > log[a].seq /\ log[b].sup > log[b].seq
    BY <1>1, <1>2, <1>7, <2>4, RecordFacts DEF IsCurrent
  <2>6. QED
    BY Zenon, <1>2, <1>7, <2>4, <2>5 DEF Installing, Copying, CopiesDistinct
<1>8. CASE ~Copy(a) /\ ~Copy(b)
  BY Zenon, <1>2, <1>3, <1>4, <1>5, <1>8
<1>9. ASSUME NEW c \in Installed, NEW e \in Installed, Copy(c), ~Copy(e),
             log[c].key = k, log[e].key = k
      PROVE  FALSE
  <2>1. e \in Locs /\ Live(e) /\ IsCurrent(e) /\ ~Source(e)
    BY Zenon, <1>4, <1>9
  <2>2. PICK l \in Locs : Source(l) /\ SameVersion(l, c) /\ IsCurrent(l)
    BY Zenon, <1>4, <1>9, InstallLive
  <2>3. QED
    BY Zenon, <1>5, <1>6, <1>9, <2>1, <2>2 DEF SameVersion
<1>10. QED
  BY Zenon, <1>3, <1>4, <1>7, <1>8, <1>9

\* The install: the copies fit the history because their sources did, and
\* what is not copied no snapshot from the new gcFloor on needs.
LEMMA KeptInstall == ASSUME TypeOK, LockSound, Kept, Copying, CompactInstall PROVE Kept'
<1>1. /\ lock = Free /\ cleft = {} /\ log' = Transferred
      /\ bucket' = [h \in Buckets |-> {l \in Installed : Hash[log[l].key] = h}]
      /\ head' \in {hd \in [Buckets -> Locs \cup {NoLoc}] :
                    \A h \in Buckets :
                      hd[h] \in RebuiltHead(h, CurrentCopies, CurrentSince(segs \ corig))}
      /\ segs' = (segs \ csrc) \cup clive \cup chist
      /\ act' = IF ~Persistent /\ ccur # NoSeg THEN ccur ELSE act
      /\ gcFloor' = Max2(gcFloor, cretain)
      /\ UNCHANGED <<nextSeg, indexed, sealing, base, sealBase, commitSeq, hist, pend>>
  BY Zenon DEF CompactInstall, Install, Installed, seal, section
<1>2. Installing
  BY Zenon, <1>1 DEF Installing
<1>3. /\ Locs' = Locs
      /\ \A d \in Locs : /\ log'[d].key = log[d].key /\ log'[d].seq = log[d].seq
                         /\ log'[d].seg = log[d].seg
  BY Zenon, <1>1, TransferDoes DEF Copying
<1>4. /\ commitSeq \in Nat /\ gcFloor \in Nat /\ commitSeq < SeqMax /\ SeqMax \in Nat
      /\ cretain \in Nat /\ cretain <= commitSeq
      /\ gcFloor' \in Nat /\ gcFloor <= gcFloor' /\ cretain <= gcFloor' /\ gcFloor' <= commitSeq
  BY <1>1, RecordFacts DEF Copying, SegmentsSound, Max2
<1>5. /\ Installed \subseteq Locs
      /\ \A l \in Locs : l \in Installed <=> Live(l)' /\ IsCurrent(l)'
  BY Zenon, <1>2, InstalledIsCurrent
<1>6. \A h \in Buckets : bucket'[h] = {l \in Installed : Hash[log[l].key] = h}
  BY Zenon, <1>1
<1>7. LogBounded'
  BY Zenon, <1>1, <1>3 DEF Kept, Base, LogBounded
<1>8. SealSound'
  BY Zenon, <1>1 DEF Kept, SealSound
<1>9. ChainsLive'
  BY <1>3, <1>5, <1>6 DEF ChainsLive
<1>10. CurrentReachable'
  <2>1. SUFFICES ASSUME NEW l \in Locs, Live(l)', IsCurrent(l)'
                 PROVE  l \in bucket'[Hash[log'[l].key]]
    BY Zenon, <1>3 DEF CurrentReachable
  <2>2. Hash[log[l].key] \in Buckets /\ log'[l].key = log[l].key
    BY Zenon, <1>3, HashAssumption, RecordFacts
  <2>3. QED
    BY Zenon, <1>5, <1>6, <2>1, <2>2
<1>11. HeadsCurrent'
  <2>1. SUFFICES ASSUME NoCollisions, NEW h \in Buckets, NEW l \in bucket'[h]
                 PROVE  head'[h] = l
    BY Zenon DEF HeadsCurrent, NoCollisions
  <2>2. l \in Installed /\ Hash[log[l].key] = h
    BY Zenon, <1>6, <2>1
  <2>3. \A m \in Installed : Hash[log[m].key] = h => m = l
    <3>1. \A m \in Installed : Hash[log[m].key] = h => log[m].key = log[l].key
      BY Zenon, <1>5, <2>1, <2>2, RecordFacts DEF NoCollisions
    <3>2. QED
      BY Zenon, <1>2, <2>2, <3>1, InstalledUnique
  <2>4. head'[h] \in RebuiltHead(h, CurrentCopies, CurrentSince(segs \ corig))
    BY Zenon, <1>1
  <2>5. RebuiltHead(h, CurrentCopies, CurrentSince(segs \ corig)) \subseteq {l}
    <3> DEFINE later == CurrentSince(segs \ corig)
    <3> DEFINE mine == {m \in (IF \E m \in later : Hash[log[m].key] = h THEN later ELSE CurrentCopies) :
                          Hash[log[m].key] = h}
    <3>1. l \in mine
      BY Zenon, <2>2, <2>3 DEF Installed
    <3>2. \A m \in mine : m = l
      BY Zenon, <2>3 DEF Installed
    <3>3. RebuiltHead(h, CurrentCopies, later)
            = IF mine = {} THEN {NoLoc} ELSE {m \in mine : \A j \in mine : j <= m}
      BY Zenon DEF RebuiltHead
    <3> HIDE DEF mine
    <3>4. QED
      BY Zenon, <3>1, <3>2, <3>3
  <2>6. QED
    BY Zenon, <2>4, <2>5
<1>12. RecordsMatchHistory'
  <2>1. SUFFICES ASSUME NEW l \in Locs, Live(l)'
                 PROVE  Fits(log'[l], commitSeq, hist, pend)
    BY Zenon, <1>1, <1>3 DEF RecordsMatchHistory
  <2>2. \A m \in Locs : Live(m) => Fits(log[m], commitSeq, hist, pend)
    BY Zenon DEF Kept, Base, RecordsMatchHistory
  <2>3. CASE Copy(l)
    <3>1. PICK m \in Locs : Source(m) /\ SameVersion(m, l) /\ log'[l].sup = log[m].sup
      BY Zenon, <1>2, <2>3, CopyHasSource
    <3>2. /\ Fits(log[m], commitSeq, hist, pend) /\ log'[l].key = log[m].key
          /\ log'[l].seq = log[m].seq
      BY Zenon, <1>2, <1>3, <2>2, <3>1, InstallLive DEF SameVersion
    <3>3. QED
      BY Zenon, <3>1, <3>2, KeptFits
  <2>4. CASE ~Copy(l)
    BY Zenon, <1>2, <2>1, <2>2, <2>4, InstallLive
  <2>5. QED
    BY Zenon, <2>3, <2>4
<1>13. VersionsDistinct'
  <2>1. SUFFICES ASSUME NEW l \in Locs, NEW m \in Locs, Live(l)', Live(m)',
                        log[l].key = log[m].key, log[l].seq = log[m].seq,
                        log'[l].sup > log[l].seq, log'[m].sup > log[m].seq
                 PROVE  l = m
    BY Zenon, <1>3 DEF VersionsDistinct
  <2>2. \A a, b \in Locs : /\ Live(a) /\ Live(b) /\ log[a].key = log[b].key /\ log[a].seq = log[b].seq
                           /\ log[a].sup > log[a].seq /\ log[b].sup > log[b].seq
                           => a = b
    BY Zenon DEF Kept, Base, VersionsDistinct
  <2>3. CASE Copy(l) /\ Copy(m)
    <3>1. \A d \in Locs : Copy(d) /\ log'[d].sup > log[d].seq => log[d].sup > log[d].seq
      <4>1. SUFFICES ASSUME NEW d \in Locs, Copy(d), log'[d].sup > log[d].seq
                     PROVE  log[d].sup > log[d].seq
        OBVIOUS
      <4>2. CASE \E x \in moved : x[2] = d
        <5>1. PICK x \in moved : x[2] = d
          BY Zenon, <4>2
        <5>2. Source(x[1]) /\ log[d].seq = log[x[1]].seq /\ log[d].sup = SeqMax
          BY Zenon, <5>1 DEF Copying, MovedSound, SameVersion, IsCurrent
        <5>3. log[d].seq <= commitSeq /\ log[d].seq \in Nat
          BY Zenon, <5>2, RecordFacts DEF Copying, SourcesSound, Source
        <5>4. QED
          BY <1>4, <5>2, <5>3
      <4>3. CASE \A x \in moved : x[2] # d
        BY Zenon, <1>1, <4>1, <4>3, TransferDoes DEF Copying
      <4>4. QED
        BY Zenon, <4>2, <4>3
    <3>2. QED
      BY Zenon, <2>1, <2>3, <3>1 DEF Copying, CopiesDistinct, SameVersion
  <2>4. CASE ~Copy(l) /\ ~Copy(m)
    BY Zenon, <1>2, <2>1, <2>2, <2>4, InstallLive
  <2>5. ASSUME NEW d \in Locs, NEW e \in Locs, Live(e)', Copy(d), ~Copy(e),
               log[d].key = log[e].key, log[d].seq = log[e].seq,
               log'[d].sup > log[d].seq, log'[e].sup > log[e].seq
        PROVE  FALSE
    <3>1. PICK a \in Locs : Source(a) /\ SameVersion(a, d) /\ log'[d].sup = log[a].sup
      BY Zenon, <1>2, <2>5, CopyHasSource
    <3>2. Live(a) /\ Live(e) /\ ~Source(e) /\ log'[e] = log[e]
      BY Zenon, <1>2, <2>5, <3>1, InstallLive
    <3>3. a = e
      BY Zenon, <2>2, <2>5, <3>1, <3>2 DEF SameVersion
    <3>4. QED
      BY Zenon, <3>1, <3>2, <3>3
  <2>6. QED
    BY Zenon, <2>1, <2>3, <2>4, <2>5
<1>14. PutsStored'
  <2>1. SUFFICES ASSUME NEW k \in Keys, NEW i \in 1 .. commitSeq, hist[i][k] = "put",
                        \A j \in (i + 1) .. gcFloor' : hist[j][k] = "none"
                 PROVE  \E l \in Locs : Live(l)' /\ log[l].key = k /\ log[l].seq = i /\ log'[l].sup > i
    BY <1>1, <1>3 DEF PutsStored
  <2>2. \A j \in (i + 1) .. gcFloor : hist[j][k] = "none"
    BY <1>4, <2>1
  <2>3. PICK l \in Locs : Live(l) /\ log[l].key = k /\ log[l].seq = i /\ log[l].sup > i
    BY Zenon, <2>1, <2>2 DEF Kept, Base, PutsStored
  <2>4. log[l].sup \in Nat
    BY Zenon, RecordFacts
  <2>5. ASSUME log[l].sup <= cretain PROVE FALSE
    <3>1. log[l].sup \in (i + 1) .. gcFloor' /\ log[l].sup # SeqMax /\ log[l].sup <= commitSeq
      BY <1>4, <2>3, <2>4, <2>5
    <3>2. hist[log[l].sup][k] # "none"
      BY Zenon, <2>3, <3>1 DEF Kept, Base, RecordsMatchHistory, Fits
    <3>3. QED
      BY Zenon, <2>1, <3>1, <3>2
  <2>6. CASE Source(l)
    <3>1. PICK d \in Locs : Copy(d) /\ SameVersion(l, d) /\ log'[d].sup = log[l].sup
      BY Zenon, <1>2, <2>5, <2>6, SourceHasCopy
    <3>2. QED
      BY Zenon, <1>2, <2>3, <3>1, InstallLive DEF SameVersion
  <2>7. CASE ~Source(l)
    BY Zenon, <1>2, <2>3, <2>7, InstallLive
  <2>8. QED
    BY Zenon, <2>6, <2>7
<1>15. PendingPutsStored'
  <2>1. \A k \in Keys : pend'[k] = "none"
    BY Zenon, <1>1 DEF LockSound, Quiet
  <2>2. QED
    BY Zenon, <2>1 DEF PendingPutsStored
<1>16. QED
  BY Zenon, <1>7, <1>8, <1>9, <1>10, <1>11, <1>12, <1>13, <1>14, <1>15 DEF Kept, Base
=============================================================================
