--------------------------- MODULE ShardTheorems ----------------------------
(* Every step of Shard keeps its invariant: the records, chains and history *)
(* stay in step, and so does what a transaction was told. The theorems that *)
(* follow.                                                                  *)
EXTENDS ShardProof

-----------------------------------------------------------------------------
(* A put. *)

\* What shard.put does, read off record by record: n is the new location, g
\* its segment.
PutEffect(k, n, g) ==
  /\ n = Len(log) + 1 /\ n \notin Locs /\ Locs' = Locs \cup {n}
  /\ \A l \in Locs : l < n
  /\ g \in Nat \ {0} /\ g \notin indexed /\ g \notin sealing
  /\ \A f \in segs : f <= g
  /\ segs' = segs \cup {g} /\ act' = g /\ nextSeg' = g + 1 /\ nextSeg <= g + 1
  /\ \A l \in Locs : log[l].seg <= g /\ (log[l].seg = g => g \in segs)
  /\ \A f \in indexed : f # g
  /\ log'[n].key = k /\ log'[n].seq = commitSeq + 1 /\ log'[n].sup = SeqMax /\ log'[n].seg = g
  /\ \A l \in Locs : /\ log'[l].key = log[l].key /\ log'[l].seq = log[l].seq
                     /\ log'[l].seg = log[l].seg
                     /\ l \in CurrentOf(k) => log'[l].sup = commitSeq + 1
                     /\ l \notin CurrentOf(k) => log'[l].sup = log[l].sup
  /\ bucket' = [bucket EXCEPT ![Hash[k]] = @ \cup {n}]
  /\ head' = [head EXCEPT ![Hash[k]] = n]

\* shard.put has the effect described by PutEffect, whichever segment it writes to.
LEMMA PutHasEffect ==
  ASSUME TypeOK, LockSound, Core, NEW k \in Keys, PutWritten(k, commitSeq + 1)
  PROVE  \E n, g : PutEffect(k, n, g)
<1>1. commitSeq + 1 \in 1 .. SeqMax
  BY SeqMaxAssumption DEF TypeOK, ClockType
<1>2. PICK g \in Nat \ {0} :
        /\ PutIn(k, commitSeq + 1, g)
        /\ segs' = segs \cup {g} /\ act' = g /\ nextSeg' = g + 1
        /\ (g = act /\ act \in segs /\ g = nextSeg - 1) \/ g = nextSeg
  <2>1. CASE ~NeedsSegment /\ PutIn(k, commitSeq + 1, act) /\ UNCHANGED <<segs, act, nextSeg>>
    <3>1. act # NoSeg /\ act \in segs /\ act = nextSeg - 1 /\ act \in Nat \ {0} /\ nextSeg \in Nat
      BY <2>1 DEF NeedsSegment, TypeOK, ArenaType, Core, LogOrdered, NoSeg
    <3>2. segs' = segs \cup {act} /\ act' = act /\ nextSeg' = act + 1
      BY <2>1, <3>1
    <3>3. QED
      BY Zenon, <2>1, <3>1, <3>2
  <2>2. CASE /\ PutIn(k, commitSeq + 1, nextSeg)
             /\ segs' = segs \cup {nextSeg} /\ act' = nextSeg /\ nextSeg' = nextSeg + 1
    BY Zenon, <2>2 DEF TypeOK, ArenaType
  <2>3. QED
    BY Zenon, <2>1, <2>2 DEF PutWritten
<1> DEFINE n == Len(log) + 1
<1>3. First(FindCurrent(k)) = {CurrentOf(k)}
  BY Zenon, CoreBase, FindCurrentExact
<1>4. /\ log' = Append(Superseded(log, CurrentOf(k), commitSeq + 1), Record(k, commitSeq + 1, g))
      /\ bucket' = [bucket EXCEPT ![Hash[k]] = @ \cup {n}]
      /\ head' = [head EXCEPT ![Hash[k]] = n]
  BY Zenon, <1>2, <1>3 DEF PutIn
<1>5. PICK S, s : S = CurrentOf(k) /\ s = commitSeq + 1
  BY Zenon
<1>6. s \in 1 .. SeqMax /\ log' = Append(Superseded(log, S, s), Record(k, s, g))
  BY Zenon, <1>1, <1>4, <1>5
<1>7. /\ Locs' = Locs \cup {n} /\ n \notin Locs
      /\ log'[n].key = k /\ log'[n].seq = commitSeq + 1
      /\ log'[n].sup = SeqMax /\ log'[n].seg = g
  <2>1. Locs' = Locs \cup {n} /\ n \notin Locs /\ log'[n] = Record(k, s, g)
    BY <1>6, PutLog
  <2>2. QED
    BY <1>5, <2>1 DEF Record
<1>8. \A l \in Locs : /\ log'[l].key = log[l].key /\ log'[l].seq = log[l].seq
                      /\ log'[l].seg = log[l].seg
                      /\ l \in CurrentOf(k) => log'[l].sup = commitSeq + 1
                      /\ l \notin CurrentOf(k) => log'[l].sup = log[l].sup
  <2>1. \A l \in Locs : log'[l] = IF l \in S THEN [log[l] EXCEPT !.sup = s] ELSE log[l]
    BY Zenon, <1>6, PutLog
  <2>2. \A l \in Locs : log[l] \in RecordType
    BY Zenon, LocsAre
  <2>3. \A l \in Locs : /\ log'[l].key = log[l].key /\ log'[l].seq = log[l].seq
                        /\ log'[l].seg = log[l].seg
                        /\ l \in S => log'[l].sup = s
                        /\ l \notin S => log'[l].sup = log[l].sup
    BY Zenon, <2>1, <2>2 DEF RecordType
  <2>4. QED
    BY Zenon, <1>5, <2>3
<1>9. /\ \A f \in segs : f <= g
      /\ nextSeg <= g + 1
      /\ g \notin indexed /\ g \notin sealing /\ \A f \in indexed : f # g
  BY <1>2 DEF TypeOK, ArenaType, SealType, Core, SealOrdered
<1>10. \A l \in Locs : log[l].seg <= g /\ (log[l].seg = g => g \in segs)
  <2>1. \A l \in Locs : log[l].seg < nextSeg /\ log[l].seg \in Nat
    BY Zenon, RecordFacts DEF Core, LogOrdered
  <2>2. nextSeg \in Nat
    BY Zenon DEF TypeOK, ArenaType
  <2>3. QED
    BY <1>2, <2>1, <2>2
<1>11. \A l \in Locs : l < n
  BY LocsAre
<1>12. PutEffect(k, n, g)
  BY Zenon, <1>2, <1>4, <1>7, <1>8, <1>9, <1>10, <1>11 DEF PutEffect
<1>13. QED
  BY Zenon, <1>12

\* A put keeps the records, chains and history in step (shard.put).
LEMMA CorePut ==
  ASSUME TypeOK, LockSound, Core, NEW k \in Keys, lock # Free,
         PutWritten(k, commitSeq + 1), pend' = [pend EXCEPT ![k] = "put"],
         UNCHANGED <<indexed, sealing, base, sealBase, commitSeq, gcFloor, hist>>
  PROVE  Core'
<1>1. PICK n, g : PutEffect(k, n, g)
  BY Zenon, PutHasEffect
<1>2. commitSeq + 1 < SeqMax /\ commitSeq \in Nat /\ SeqMax \in Nat /\ gcFloor \in Nat
  BY Zenon, RecordFacts DEF LockSound
<1>3. /\ pend'[k] = "put"
      /\ \A x \in Keys : x # k => pend'[x] = pend[x]
  BY Zenon DEF TypeOK, SectionType
<1>4. /\ \A l \in Locs : Live(l)' <=> Live(l)
      /\ Live(n)'
  BY Zenon, <1>1 DEF PutEffect, Live
<1>5. \A l \in CurrentOf(k) : l \in Locs /\ Live(l) /\ log[l].key = k /\ log[l].sup = SeqMax
  BY Zenon DEF CurrentOf, IsCurrent
<1>6. \A l \in Locs : Live(l) /\ log[l].key = k /\ log[l].sup = SeqMax => l \in CurrentOf(k)
  BY Zenon DEF CurrentOf, IsCurrent
<1>7. LogOrdered'
  <2>1. ASSUME NEW l \in Locs', NEW m \in Locs', l < m
        PROVE  log'[l].seq <= log'[m].seq /\ log'[l].seg <= log'[m].seg
    BY <1>1, <2>1, RecordFacts DEF PutEffect, Core, LogOrdered
  <2>2. ASSUME NEW l \in Locs'
        PROVE  log'[l].seg < nextSeg' /\ log'[l].seq <= commitSeq + 1
    BY <1>1, <1>2, RecordFacts DEF PutEffect, Core, LogOrdered
  <2>3. act' = nextSeg' - 1
    BY <1>1 DEF PutEffect
  <2>4. QED
    BY Zenon, <2>1, <2>2, <2>3 DEF LogOrdered
<1>8. SealOrdered'
  BY <1>1 DEF PutEffect, Core, SealOrdered, TypeOK, ArenaType, SealType
<1>9. ChainsSound'
  <2>1. Hash[k] \in Buckets
    BY Zenon, HashAssumption
  <2>2. SUFFICES ASSUME NEW h \in Buckets, NEW l \in bucket'[h]
                 PROVE  /\ Hash[log'[l].key] = h /\ Live(l)'
                        /\ head'[h] # NoLoc /\ l <= head'[h]
    BY Zenon DEF ChainsSound
  <2>3. n \in Nat \ {0}
    BY <1>1, LocsAre DEF PutEffect
  <2>4. CASE l = n /\ h = Hash[k]
    BY <1>1, <1>4, <2>1, <2>3, <2>4 DEF PutEffect, NoLoc, TypeOK, ArenaType
  <2>5. CASE l \in bucket[h]
    <3>1. l \in Locs /\ Hash[log[l].key] = h /\ Live(l) /\ head[h] # NoLoc /\ l <= head[h]
      BY Zenon, <2>5 DEF Core, ChainsSound, TypeOK, ArenaType
    <3>2. head'[h] = IF h = Hash[k] THEN n ELSE head[h]
      BY Zenon, <1>1, <2>1 DEF PutEffect, TypeOK, ArenaType
    <3>3. l < n
      BY Zenon, <1>1, <3>1 DEF PutEffect
    <3>4. QED
      BY SMTT(30), <1>1, <1>4, <2>3, <3>1, <3>2, <3>3, RecordFacts DEF PutEffect, NoLoc
  <2>6. QED
    BY Zenon, <1>1, <2>1, <2>4, <2>5 DEF PutEffect, TypeOK, ArenaType
<1>10. Reachable'
  <2>1. SUFFICES ASSUME NEW l \in Locs', Live(l)'
                 PROVE  \/ l \in bucket'[Hash[log'[l].key]]
                        \/ log'[l].seg \in indexed /\ log'[l].seg # act'
    BY Zenon DEF Reachable
  <2>2. Hash[log'[l].key] \in Buckets
    BY Zenon, <1>1, RecordFacts, HashAssumption DEF PutEffect
  <2>3. CASE l = n
    BY Zenon, <1>1, <2>2, <2>3 DEF PutEffect, TypeOK, ArenaType
  <2>4. CASE l \in Locs
    <3>1. l \in bucket[Hash[log[l].key]] \/ log[l].seg \in indexed
      BY Zenon, <1>4, <2>1, <2>4 DEF Core, Reachable
    <3>2. bucket[Hash[log[l].key]] \subseteq bucket'[Hash[log[l].key]]
      BY Zenon, <1>1, <2>2, <2>4 DEF PutEffect, TypeOK, ArenaType
    <3>3. QED
      BY Zenon, <1>1, <2>4, <3>1, <3>2 DEF PutEffect
  <2>5. QED
    BY Zenon, <1>1, <2>3, <2>4 DEF PutEffect
<1>11. RecordsMatchHistory'
  <2>1. SUFFICES ASSUME NEW l \in Locs', Live(l)'
                 PROVE  Fits(log'[l], commitSeq, hist, pend')
    BY Zenon DEF RecordsMatchHistory
  <2>2. CASE l = n
    BY <1>1, <1>2, <1>3, <2>2 DEF PutEffect, Fits
  <2>3. CASE l \in Locs
    <3>1. /\ Fits(log[l], commitSeq, hist, pend)
          /\ log[l].seq \in Nat /\ log[l].sup \in Nat /\ log[l].seq <= commitSeq + 1
          /\ log[l].key \in Keys
      BY Zenon, <1>4, <2>1, <2>3, RecordFacts DEF Core, RecordsMatchHistory, LogOrdered
    <3>2. /\ log'[l].key = log[l].key /\ log'[l].seq = log[l].seq
          /\ pend'[log[l].key] = pend[log[l].key] \/ log[l].key = k
          /\ l \in CurrentOf(k) => log[l].sup = SeqMax /\ log'[l].sup = commitSeq + 1
                                   /\ log[l].key = k
          /\ l \notin CurrentOf(k) => log'[l].sup = log[l].sup
                                   /\ (log[l].key = k => log[l].sup # SeqMax)
      BY Zenon, <1>1, <1>3, <1>4, <1>5, <1>6, <2>1, <2>3, <3>1 DEF PutEffect
    <3>3. CASE l \in CurrentOf(k)
      <4>1. pend'[log[l].key] = "put"
        BY Zenon, <1>3, <3>2, <3>3
      <4>2. log[l].sup = SeqMax /\ log'[l].sup = commitSeq + 1
        BY Zenon, <3>2, <3>3
      <4>3. QED
        BY <1>2, <3>1, <3>2, <4>1, <4>2 DEF Fits
    <3>4. CASE l \notin CurrentOf(k)
      <4>1. /\ log'[l].sup = log[l].sup
            /\ \/ pend'[log[l].key] = pend[log[l].key]
               \/ log[l].sup # SeqMax /\ pend'[log[l].key] = "put"
        BY Zenon, <1>3, <3>2, <3>4
      <4>2. QED
        BY Zenon, <3>1, <3>2, <4>1 DEF Fits
    <3>5. QED
      BY Zenon, <3>3, <3>4
  <2>4. QED
    BY Zenon, <1>1, <2>2, <2>3 DEF PutEffect
<1>12. VersionsDistinct'
  <2>1. SUFFICES ASSUME NEW l \in Locs', NEW m \in Locs', Live(l)', Live(m)',
                        log'[l].key = log'[m].key, log'[l].seq = log'[m].seq,
                        log'[l].sup > log'[l].seq, log'[m].sup > log'[m].seq
                 PROVE  l = m
    BY Zenon DEF VersionsDistinct
  <2>2. ASSUME NEW x \in Locs, Live(x), log[x].key = k, log[x].seq = commitSeq + 1
        PROVE  ~(log'[x].sup > log'[x].seq)
    <3>1. x \notin CurrentOf(k) => log[x].sup <= commitSeq + 1 /\ log[x].sup \in Nat
      BY Zenon, <1>6, <2>2, RecordFacts DEF Core, RecordsMatchHistory, Fits
    <3>2. QED
      BY <1>1, <1>2, <2>2, <3>1 DEF PutEffect
  <2>3. CASE l \in Locs /\ m \in Locs
    <3>1. \A x \in Locs : log'[x].sup > log'[x].seq => log[x].sup > log[x].seq
      BY SMTT(30), <1>1, <1>2, <1>5, RecordFacts DEF PutEffect
    <3>2. QED
      BY Zenon, <1>1, <1>4, <2>1, <2>3, <3>1 DEF PutEffect, Core, VersionsDistinct
  <2>4. CASE l = n /\ m \in Locs
    BY Zenon, <1>1, <1>4, <2>1, <2>2, <2>4 DEF PutEffect
  <2>5. CASE l \in Locs /\ m = n
    BY Zenon, <1>1, <1>4, <2>1, <2>2, <2>5 DEF PutEffect
  <2>6. QED
    BY Zenon, <1>1, <2>3, <2>4, <2>5 DEF PutEffect
<1>13. PutsStored'
  <2>1. SUFFICES ASSUME NEW x \in Keys, NEW i \in 1 .. commitSeq, hist[i][x] = "put",
                        \A j \in (i + 1) .. gcFloor : hist[j][x] = "none"
                 PROVE  \E l \in Locs' : /\ Live(l)' /\ log'[l].key = x
                                         /\ log'[l].seq = i /\ log'[l].sup > i
    BY DEF PutsStored
  <2>2. PICK l \in Locs : Live(l) /\ log[l].key = x /\ log[l].seq = i /\ log[l].sup > i
    BY Zenon, <2>1 DEF Core, PutsStored
  <2>3. log'[l].sup > i
    BY <1>1, <1>2, <2>2, RecordFacts DEF PutEffect
  <2>4. QED
    BY Zenon, <1>1, <1>4, <2>2, <2>3 DEF PutEffect
<1>14. DeletesStored'
  <2>1. SUFFICES ASSUME NEW x \in Keys, NEW j \in 1 .. commitSeq, hist[j][x] = "del", j > gcFloor
                 PROVE  \E l \in Locs' : Live(l)' /\ log'[l].key = x /\ log'[l].sup = j
    BY Zenon DEF DeletesStored
  <2>2. PICK l \in Locs : Live(l) /\ log[l].key = x /\ log[l].sup = j
    BY Zenon, <2>1 DEF Core, DeletesStored
  <2>3. l \notin CurrentOf(k)
    BY <1>2, <1>5, <2>2
  <2>4. QED
    BY Zenon, <1>1, <1>4, <2>2, <2>3 DEF PutEffect
<1>15. PendingStored'
  <2>1. ASSUME NEW x \in Keys, pend'[x] = "put"
        PROVE  \E l \in Locs' : /\ Live(l)' /\ log'[l].key = x
                                /\ log'[l].seq = commitSeq + 1 /\ log'[l].sup = SeqMax
    <3>1. CASE x = k
      BY Zenon, <1>1, <1>4, <3>1 DEF PutEffect
    <3>2. CASE x # k
      <4>1. PICK l \in Locs : /\ Live(l) /\ log[l].key = x
                              /\ log[l].seq = commitSeq + 1 /\ log[l].sup = SeqMax
        BY Zenon, <1>3, <2>1, <3>2 DEF Core, PendingStored
      <4>2. l \notin CurrentOf(k)
        BY Zenon, <1>5, <3>2, <4>1
      <4>3. QED
        BY Zenon, <1>1, <1>4, <4>1, <4>2 DEF PutEffect
    <3>3. QED
      BY Zenon, <3>1, <3>2
  <2>2. ASSUME NEW x \in Keys, pend'[x] = "del"
        PROVE  \E l \in Locs' : Live(l)' /\ log'[l].key = x /\ log'[l].sup = commitSeq + 1
    <3>1. x # k
      BY Zenon, <1>3, <2>2
    <3>2. PICK l \in Locs : Live(l) /\ log[l].key = x /\ log[l].sup = commitSeq + 1
      BY Zenon, <1>3, <2>2, <3>1 DEF Core, PendingStored
    <3>3. l \notin CurrentOf(k)
      BY Zenon, <1>5, <3>1, <3>2
    <3>4. QED
      BY Zenon, <1>1, <1>4, <3>2, <3>3 DEF PutEffect
  <2>3. QED
    BY Zenon, <2>1, <2>2 DEF PendingStored
<1>16. QED
  BY Zenon, <1>7, <1>8, <1>9, <1>10, <1>11, <1>12, <1>13, <1>14, <1>15 DEF Core

-----------------------------------------------------------------------------
(* A delete: the current record of the key is superseded, nothing is added. *)

\* The chains, segments and order of the log do not depend on who is current.
LEMMA DelKeepsChains ==
  ASSUME TypeOK, Core, NEW k \in Keys, DelEffect(k), UNCHANGED seal,
         commitSeq' = commitSeq \/ commitSeq' = commitSeq + 1
  PROVE  LogOrdered' /\ SealOrdered' /\ ChainsSound' /\ Reachable'
<1>1. \A l \in Locs : Live(l)' <=> Live(l)
  BY Zenon DEF DelEffect, Live
<1>2. LogOrdered'
  <2>1. \A l \in Locs : log[l].seq <= commitSeq' + 1
    BY RecordFacts DEF Core, LogOrdered
  <2>2. QED
    BY Zenon, <2>1 DEF DelEffect, Core, LogOrdered
<1>3. SealOrdered'
  BY Zenon DEF DelEffect, Core, SealOrdered, seal
<1>4. ChainsSound'
  BY <1>1 DEF DelEffect, Core, ChainsSound, TypeOK, ArenaType
<1>5. Reachable'
  BY Zenon, <1>1 DEF DelEffect, Core, Reachable, seal
<1>6. QED
  BY Zenon, <1>2, <1>3, <1>4, <1>5

\* A transaction's delete: recorded in pend until the lock is released.
LEMMA CoreDel ==
  ASSUME TypeOK, LockSound, Core, NEW k \in Keys, lock # Free, pend[k] = "none",
         DelFound(k, commitSeq + 1), pend' = [pend EXCEPT ![k] = "del"],
         UNCHANGED <<seal, commitSeq, gcFloor, hist>>
  PROVE  Core'
<1>1. DelEffect(k) /\ Base
  BY Zenon, CoreBase, DelHasEffect
<1>2. commitSeq + 1 < SeqMax /\ commitSeq \in Nat /\ SeqMax \in Nat /\ gcFloor \in Nat
  BY Zenon, RecordFacts DEF LockSound
<1>3. /\ pend'[k] = "del"
      /\ \A x \in Keys : x # k => pend'[x] = pend[x]
  BY Zenon DEF TypeOK, SectionType
<1>4. \A l \in Locs : Live(l)' <=> Live(l)
  BY Zenon, <1>1 DEF DelEffect, Live
<1>5. \A l \in CurrentOf(k) : l \in Locs /\ Live(l) /\ log[l].key = k /\ log[l].sup = SeqMax
  BY Zenon DEF CurrentOf, IsCurrent
<1>6. \A l \in Locs : Live(l) /\ log[l].key = k /\ log[l].sup = SeqMax => l \in CurrentOf(k)
  BY Zenon DEF CurrentOf, IsCurrent
<1>7. LogOrdered' /\ SealOrdered' /\ ChainsSound' /\ Reachable'
  BY Zenon, <1>1, DelKeepsChains
<1>8. RecordsMatchHistory'
  BY Zenon, <1>1, <1>2, <1>3, <1>4, DelFits DEF DelEffect, RecordsMatchHistory
<1>9. VersionsDistinct'
  BY Zenon, <1>1, <1>2, DelKeepsDistinct
<1>10. PutsStored'
  <2>1. SUFFICES ASSUME NEW x \in Keys, NEW i \in 1 .. commitSeq, hist[i][x] = "put",
                        \A j \in (i + 1) .. gcFloor : hist[j][x] = "none"
                 PROVE  \E l \in Locs' : /\ Live(l)' /\ log'[l].key = x
                                         /\ log'[l].seq = i /\ log'[l].sup > i
    BY DEF PutsStored
  <2>2. PICK l \in Locs : Live(l) /\ log[l].key = x /\ log[l].seq = i /\ log[l].sup > i
    BY Zenon, <2>1 DEF Core, PutsStored
  <2>3. log'[l].sup > i
    BY <1>1, <1>2, <2>2, RecordFacts DEF DelEffect
  <2>4. QED
    BY Zenon, <1>1, <1>4, <2>2, <2>3 DEF DelEffect
<1>11. DeletesStored'
  <2>1. SUFFICES ASSUME NEW x \in Keys, NEW j \in 1 .. commitSeq, hist[j][x] = "del", j > gcFloor
                 PROVE  \E l \in Locs' : Live(l)' /\ log'[l].key = x /\ log'[l].sup = j
    BY Zenon DEF DeletesStored
  <2>2. PICK l \in Locs : Live(l) /\ log[l].key = x /\ log[l].sup = j
    BY <2>1 DEF Core, DeletesStored
  <2>3. l \notin CurrentOf(k)
    BY <1>2, <1>5, <2>2
  <2>4. QED
    BY Zenon, <1>1, <1>4, <2>2, <2>3 DEF DelEffect
<1>12. PendingStored'
  <2>1. ASSUME NEW x \in Keys, pend'[x] = "put"
        PROVE  \E l \in Locs' : /\ Live(l)' /\ log'[l].key = x
                                /\ log'[l].seq = commitSeq + 1 /\ log'[l].sup = SeqMax
    <3>1. x # k
      BY Zenon, <1>3, <2>1
    <3>2. PICK l \in Locs : /\ Live(l) /\ log[l].key = x
                            /\ log[l].seq = commitSeq + 1 /\ log[l].sup = SeqMax
      BY Zenon, <1>3, <2>1, <3>1 DEF Core, PendingStored
    <3>3. l \notin CurrentOf(k)
      BY Zenon, <1>5, <3>1, <3>2
    <3>4. QED
      BY Zenon, <1>1, <1>4, <3>2, <3>3 DEF DelEffect
  <2>2. ASSUME NEW x \in Keys, pend'[x] = "del"
        PROVE  \E l \in Locs' : Live(l)' /\ log'[l].key = x /\ log'[l].sup = commitSeq + 1
    <3>1. CASE x = k
      <4>1. PICK l : l \in CurrentOf(k)
        BY Zenon, <1>1 DEF DelEffect
      <4>2. QED
        BY Zenon, <1>1, <1>4, <1>5, <3>1, <4>1 DEF DelEffect
    <3>2. CASE x # k
      <4>1. PICK l \in Locs : Live(l) /\ log[l].key = x /\ log[l].sup = commitSeq + 1
        BY Zenon, <1>3, <2>2, <3>2 DEF Core, PendingStored
      <4>2. l \notin CurrentOf(k)
        BY Zenon, <1>5, <3>2, <4>1
      <4>3. QED
        BY Zenon, <1>1, <1>4, <4>1, <4>2 DEF DelEffect
    <3>3. QED
      BY Zenon, <3>1, <3>2
  <2>3. QED
    BY <2>1, <2>2 DEF PendingStored
<1>13. QED
  BY Zenon, <1>7, <1>8, <1>9, <1>10, <1>11, <1>12 DEF Core

-----------------------------------------------------------------------------
(* Steps that only move the clock, or nothing the invariant's parts read. *)

\* Steps that touch neither records nor chains nor history keep the core.
LEMMA CoreKept == ASSUME Core, UNCHANGED corevars PROVE Core'
<1>1. Locs' = Locs /\ \A l : Live(l)' <=> Live(l)
  BY Zenon DEF corevars, Locs, Live
<1>2. LogOrdered' /\ SealOrdered' /\ ChainsSound' /\ Reachable'
  BY Zenon, <1>1 DEF Core, corevars, LogOrdered, SealOrdered, ChainsSound, Reachable
<1>3. RecordsMatchHistory' /\ VersionsDistinct'
  BY Zenon, <1>1 DEF Core, corevars, RecordsMatchHistory, VersionsDistinct
<1>4. PutsStored' /\ DeletesStored' /\ PendingStored'
  BY <1>1 DEF Core, corevars, PutsStored, DeletesStored, PendingStored
<1>5. QED
  BY Zenon, <1>2, <1>3, <1>4 DEF Core

\* The lock is released and what was done becomes the event commitSeq + 1.
LEMMA CoreCommit ==
  ASSUME TypeOK, LockSound, Core, commitSeq + 1 < SeqMax, Commit(pend), pend' = Quiet,
         UNCHANGED <<log, bucket, head, segs, act, nextSeg, seal, gcFloor>>
  PROVE  Core'
<1>1. /\ commitSeq' = commitSeq + 1 /\ commitSeq \in Nat /\ SeqMax \in Nat
      /\ gcFloor \in Nat /\ gcFloor <= commitSeq
      /\ hist'[commitSeq + 1] = pend
      /\ \A j \in 1 .. commitSeq : hist'[j] = hist[j]
  BY Zenon, RecordFacts, CommitClock DEF TypeOK, SectionType
<1>2. \A k \in Keys : pend'[k] = "none"
  BY Zenon DEF Quiet
<1>3. Locs' = Locs /\ \A l : Live(l)' <=> Live(l)
  BY Zenon DEF Locs, Live
<1>4. LogOrdered'
  <2>1. \A l \in Locs : log[l].seq <= commitSeq' + 1
    BY <1>1, RecordFacts DEF Core, LogOrdered
  <2>2. QED
    BY Zenon, <1>3, <2>1 DEF Core, LogOrdered
<1>5. SealOrdered' /\ ChainsSound' /\ Reachable'
  BY Zenon, <1>3 DEF Core, SealOrdered, ChainsSound, Reachable, seal
<1>6. RecordsMatchHistory'
  <2>1. ASSUME NEW l \in Locs, Live(l)
        PROVE  Fits(log[l], commitSeq + 1, hist', pend')
    <3>1. /\ Fits(log[l], commitSeq, hist, pend)
          /\ log[l].seq \in Nat \ {0} /\ log[l].sup \in Nat \ {0} /\ log[l].seq <= commitSeq + 1
          /\ pend'[log[l].key] = "none"
      BY Zenon, <1>2, <2>1, RecordFacts DEF Core, RecordsMatchHistory, LogOrdered
    <3>2. QED
      BY Zenon, <1>1, <3>1, CommittedFits
  <2>2. QED
    BY Zenon, <1>1, <1>3, <2>1 DEF RecordsMatchHistory
<1>7. VersionsDistinct'
  BY Zenon, <1>3 DEF Core, VersionsDistinct
<1>8. PutsStored'
  <2>1. SUFFICES ASSUME NEW k \in Keys, NEW i \in 1 .. (commitSeq + 1), hist'[i][k] = "put",
                        \A j \in (i + 1) .. gcFloor : hist'[j][k] = "none"
                 PROVE  \E l \in Locs : Live(l) /\ log[l].key = k /\ log[l].seq = i /\ log[l].sup > i
    BY Zenon, <1>1, <1>3 DEF PutsStored
  <2>2. CASE i = commitSeq + 1
    BY Zenon, <1>1, <2>1, <2>2 DEF Core, PendingStored
  <2>3. CASE i # commitSeq + 1
    <3>1. i \in 1 .. commitSeq
      BY <1>1, <2>3
    <3>2. \A j \in (i + 1) .. gcFloor : hist[j][k] = "none"
      BY <1>1, <2>1, <3>1
    <3>3. QED
      BY <1>1, <2>1, <3>1, <3>2 DEF Core, PutsStored
  <2>4. QED
    BY Zenon, <2>2, <2>3
<1>9. DeletesStored'
  <2>1. SUFFICES ASSUME NEW k \in Keys, NEW j \in 1 .. (commitSeq + 1), hist'[j][k] = "del",
                        j > gcFloor
                 PROVE  \E l \in Locs : Live(l) /\ log[l].key = k /\ log[l].sup = j
    BY Zenon, <1>1, <1>3 DEF DeletesStored
  <2>2. CASE j = commitSeq + 1
    BY Zenon, <1>1, <2>1, <2>2 DEF Core, PendingStored
  <2>3. CASE j # commitSeq + 1
    BY <1>1, <2>1, <2>3 DEF Core, DeletesStored
  <2>4. QED
    BY Zenon, <2>2, <2>3
<1>10. PendingStored'
  BY Zenon, <1>2 DEF PendingStored
<1>11. QED
  BY Zenon, <1>4, <1>5, <1>6, <1>7, <1>8, <1>9, <1>10 DEF Core

-----------------------------------------------------------------------------
(* Collection.Delete: a delete and its commit under one lock. *)

\* Collection.Delete keeps the core.
LEMMA CoreDelete == ASSUME TypeOK, LockSound, Core, NEW k \in Keys, Delete(k) PROVE Core'
<1> DEFINE did == [Quiet EXCEPT ![k] = "del"]
<1>1. /\ DelFound(k, commitSeq + 1) /\ commitSeq + 1 < SeqMax /\ Commit(did)
      /\ UNCHANGED <<seal, gcFloor, pend>>
  BY Zenon DEF Delete, section
<1>2. DelEffect(k) /\ Base
  BY Zenon, <1>1, CoreBase, DelHasEffect
<1>3. did \in [Keys -> Ops] /\ did[k] = "del" /\ \A x \in Keys : x # k => did[x] = "none"
  BY Zenon DEF Quiet, Ops
<1> HIDE DEF did
<1>4. /\ commitSeq' = commitSeq + 1 /\ commitSeq \in Nat /\ SeqMax \in Nat
      /\ gcFloor \in Nat /\ gcFloor <= commitSeq
      /\ hist'[commitSeq + 1] = did
      /\ \A j \in 1 .. commitSeq : hist'[j] = hist[j]
  BY Zenon, <1>1, <1>3, RecordFacts, CommitClock
<1>5. pend' = pend /\ \A x \in Keys : pend[x] = "none"
  BY Zenon, <1>1 DEF Delete, LockSound, Quiet
<1>6. \A l \in Locs : Live(l)' <=> Live(l)
  BY Zenon, <1>2 DEF DelEffect, Live
<1>7. /\ \A l \in CurrentOf(k) : l \in Locs /\ Live(l) /\ log[l].key = k /\ log[l].sup = SeqMax
      /\ \A l \in Locs : Live(l) /\ log[l].key = k /\ log[l].sup = SeqMax => l \in CurrentOf(k)
  BY Zenon DEF CurrentOf, IsCurrent
<1>8. LogOrdered' /\ SealOrdered' /\ ChainsSound' /\ Reachable'
  BY Zenon, <1>1, <1>2, <1>4, DelKeepsChains
<1>9. RecordsMatchHistory'
  <2>1. ASSUME NEW l \in Locs, Live(l)
        PROVE  Fits(log'[l], commitSeq + 1, hist', pend')
    <3>1. Fits(log'[l], commitSeq, hist, did)
      BY Zenon, <1>1, <1>2, <1>3, <1>5, <2>1, DelFits
    <3>2. /\ log'[l].seq \in Nat \ {0} /\ log'[l].sup \in Nat \ {0}
          /\ log'[l].seq <= commitSeq + 1 /\ pend'[log'[l].key] = "none"
      <4>1. /\ log[l].seq \in Nat \ {0} /\ log[l].sup \in Nat \ {0} /\ log[l].key \in Keys
            /\ commitSeq \in Nat
        BY Zenon, <1>1, <2>1, RecordFacts
      <4>2. log[l].seq <= commitSeq + 1
        BY Zenon, <1>1, <2>1 DEF Core, LogOrdered
      <4>3. /\ log'[l].seq = log[l].seq /\ log'[l].key = log[l].key
            /\ log'[l].sup \in {log[l].sup, commitSeq + 1}
        BY Zenon, <1>2, <2>1 DEF DelEffect
      <4>4. QED
        BY <1>5, <4>1, <4>2, <4>3
    <3>3. QED
      BY Zenon, <1>1, <1>4, <3>1, <3>2, CommittedFits
  <2>2. QED
    BY Zenon, <1>2, <1>4, <1>6, <2>1 DEF DelEffect, RecordsMatchHistory
<1>10. VersionsDistinct'
  BY Zenon, <1>1, <1>2, DelKeepsDistinct
<1>11. PutsStored'
  <2>1. SUFFICES ASSUME NEW x \in Keys, NEW i \in 1 .. (commitSeq + 1), hist'[i][x] = "put",
                        \A j \in (i + 1) .. gcFloor : hist'[j][x] = "none"
                 PROVE  \E l \in Locs' : /\ Live(l)' /\ log'[l].key = x
                                         /\ log'[l].seq = i /\ log'[l].sup > i
    BY Zenon, <1>1, <1>4 DEF PutsStored
  <2>2. i \in 1 .. commitSeq
    BY <1>3, <1>4, <2>1
  <2>3. hist[i][x] = "put" /\ \A j \in (i + 1) .. gcFloor : hist[j][x] = "none"
    BY <1>4, <2>1, <2>2
  <2>4. PICK l \in Locs : Live(l) /\ log[l].key = x /\ log[l].seq = i /\ log[l].sup > i
    BY Zenon, <2>2, <2>3 DEF Core, PutsStored
  <2>5. log'[l].sup > i
    BY <1>2, <1>4, <2>2, <2>4, RecordFacts DEF DelEffect
  <2>6. QED
    BY Zenon, <1>2, <1>6, <2>4, <2>5 DEF DelEffect
<1>12. DeletesStored'
  <2>1. SUFFICES ASSUME NEW x \in Keys, NEW j \in 1 .. (commitSeq + 1), hist'[j][x] = "del",
                        j > gcFloor
                 PROVE  \E l \in Locs' : Live(l)' /\ log'[l].key = x /\ log'[l].sup = j
    BY <1>1, <1>4 DEF DeletesStored
  <2>2. CASE j = commitSeq + 1
    <3>1. x = k
      BY Zenon, <1>3, <1>4, <2>1, <2>2
    <3>2. PICK l : l \in CurrentOf(k)
      BY Zenon, <1>2 DEF DelEffect
    <3>3. QED
      BY Zenon, <1>2, <1>6, <1>7, <2>2, <3>1, <3>2 DEF DelEffect
  <2>3. CASE j # commitSeq + 1
    <3>1. j \in 1 .. commitSeq /\ hist[j][x] = "del"
      BY <1>4, <2>1, <2>3
    <3>2. PICK l \in Locs : Live(l) /\ log[l].key = x /\ log[l].sup = j
      BY Zenon, <2>1, <3>1 DEF Core, DeletesStored
    <3>3. l \notin CurrentOf(k)
      BY <1>1, <1>4, <1>7, <3>1, <3>2
    <3>4. QED
      BY Zenon, <1>2, <1>6, <3>2, <3>3 DEF DelEffect
  <2>4. QED
    BY Zenon, <2>2, <2>3
<1>13. PendingStored'
  BY Zenon, <1>5 DEF PendingStored
<1>14. QED
  BY Zenon, <1>8, <1>9, <1>10, <1>11, <1>12, <1>13 DEF Core

-----------------------------------------------------------------------------
(* Maintenance. *)

\* Reclaim drops only records that ended at or before the new gcFloor.
LEMMA CoreReclaim == ASSUME TypeOK, LockSound, Core, Reclaim PROVE Core'
<1>1. /\ lock = Free
      /\ UNCHANGED <<log, act, nextSeg, seal, commitSeq, hist, pend>>
  BY Zenon DEF Reclaim, section
<1>2. PICK retain \in RetainFloors, dead \in SUBSET segs :
        /\ \A g \in dead : g # act /\ DeadBy(g, retain)
        /\ segs' = segs \ dead
        /\ bucket' = [h \in Buckets |-> {l \in bucket[h] : log[l].seg \notin dead}]
        /\ head' \in [Buckets -> Locs \cup {NoLoc}]
        /\ \A h \in Buckets : head'[h] \in SplicedHead(h, bucket'[h])
        /\ gcFloor' = Max2(gcFloor, retain)
  <2>1. PICK retain \in RetainFloors :
          LET dead == {g \in segs \ {act} : RecsOf(g) # {} /\ DeadBy(g, retain)}
              rest == [h \in Buckets |-> {l \in bucket[h] : log[l].seg \notin dead}]
          IN  /\ segs' = segs \ dead
              /\ bucket' = rest
              /\ head' \in {hd \in [Buckets -> Locs \cup {NoLoc}] :
                            \A h \in Buckets : hd[h] \in SplicedHead(h, rest[h])}
              /\ gcFloor' = Max2(gcFloor, retain)
    BY Zenon DEF Reclaim
  <2> DEFINE dead == {g \in segs \ {act} : RecsOf(g) # {} /\ DeadBy(g, retain)}
  <2>2. /\ segs' = segs \ dead
        /\ bucket' = [h \in Buckets |-> {l \in bucket[h] : log[l].seg \notin dead}]
        /\ head' \in [Buckets -> Locs \cup {NoLoc}]
        /\ \A h \in Buckets : head'[h] \in SplicedHead(h, bucket'[h])
        /\ gcFloor' = Max2(gcFloor, retain)
    BY Zenon, <2>1
  <2>3. dead \in SUBSET segs /\ \A g \in dead : g # act /\ DeadBy(g, retain)
    OBVIOUS
  <2> HIDE DEF dead
  <2>4. QED
    BY Zenon, <2>2, <2>3
<1>3. /\ commitSeq \in Nat /\ gcFloor \in Nat /\ commitSeq < SeqMax /\ SeqMax \in Nat
      /\ retain \in Nat /\ retain <= commitSeq
      /\ gcFloor' \in Nat /\ gcFloor <= gcFloor' /\ retain <= gcFloor' /\ gcFloor' <= commitSeq
  BY <1>2, RecordFacts DEF RetainFloors, Max2
<1>4. Locs' = Locs /\ \A l : Live(l)' <=> Live(l) /\ log[l].seg \notin dead
  BY Zenon, <1>1, <1>2 DEF Locs, Live
<1>5. \A l \in Locs : Live(l) /\ ~Live(l)' => log[l].sup <= retain
  BY Zenon, <1>2, <1>4 DEF DeadBy, RecsOf
<1>6. \A k \in Keys : pend[k] = "none"
  BY Zenon, <1>1 DEF LockSound, Quiet
<1>7. LogOrdered' /\ SealOrdered'
  BY Zenon, <1>1, <1>2, <1>4 DEF Core, LogOrdered, SealOrdered, seal
<1>8. ChainsSound'
  <2>1. SUFFICES ASSUME NEW h \in Buckets, NEW l \in bucket'[h]
                 PROVE  /\ Hash[log[l].key] = h /\ Live(l)'
                        /\ head'[h] # NoLoc /\ l <= head'[h]
    BY Zenon, <1>1 DEF ChainsSound
  <2>2. l \in bucket[h] /\ log[l].seg \notin dead /\ bucket'[h] \subseteq Locs /\ l \in Locs
    BY Zenon, <1>2, <2>1 DEF TypeOK, ArenaType
  <2>3. Hash[log[l].key] = h /\ Live(l)' /\ l <= head[h] /\ head[h] # NoLoc
    BY Zenon, <1>4, <2>2 DEF Core, ChainsSound
  <2>4. head'[h] \in SplicedHead(h, bucket'[h]) /\ bucket'[h] # {}
    BY Zenon, <1>2, <2>1
  <2>5. CASE head[h] \in bucket'[h]
    BY Zenon, <2>3, <2>4, <2>5 DEF SplicedHead
  <2>6. CASE head[h] \notin bucket'[h]
    <3>1. head'[h] \in Newest(bucket'[h])
      BY Zenon, <2>4, <2>6 DEF SplicedHead
    <3>2. head'[h] \in Locs /\ (l = head'[h] \/ Newer(head'[h], l))
      BY Zenon, <2>1, <2>2, <3>1 DEF Newest
    <3>3. head'[h] \in Nat \ {0} /\ l \in Nat /\ log[l].seq \in Nat /\ log[head'[h]].seq \in Nat
      BY Zenon, <2>2, <3>2, RecordFacts
    <3>4. head'[h] < l => log[head'[h]].seq <= log[l].seq
      BY Zenon, <2>2, <3>2 DEF Core, LogOrdered
    <3>5. QED
      BY <2>3, <3>2, <3>3, <3>4 DEF Newer, NoLoc
  <2>7. QED
    BY Zenon, <2>5, <2>6
<1>9. Reachable'
  <2>1. SUFFICES ASSUME NEW l \in Locs, Live(l)'
                 PROVE  \/ l \in bucket'[Hash[log[l].key]]
                        \/ log[l].seg \in indexed /\ log[l].seg # act
    BY Zenon, <1>1, <1>4 DEF Reachable, seal
  <2>2. Hash[log[l].key] \in Buckets
    BY Zenon, HashAssumption, RecordFacts
  <2>3. QED
    BY Zenon, <1>2, <1>4, <2>1, <2>2 DEF Core, Reachable
<1>10. RecordsMatchHistory' /\ VersionsDistinct'
  BY Zenon, <1>1, <1>4 DEF Core, RecordsMatchHistory, VersionsDistinct
<1>11. PutsStored'
  <2>1. SUFFICES ASSUME NEW k \in Keys, NEW i \in 1 .. commitSeq, hist[i][k] = "put",
                        \A j \in (i + 1) .. gcFloor' : hist[j][k] = "none"
                 PROVE  \E l \in Locs : Live(l)' /\ log[l].key = k /\ log[l].seq = i /\ log[l].sup > i
    BY <1>1, <1>4 DEF PutsStored
  <2>2. \A j \in (i + 1) .. gcFloor : hist[j][k] = "none"
    BY <1>3, <2>1
  <2>3. PICK l \in Locs : Live(l) /\ log[l].key = k /\ log[l].seq = i /\ log[l].sup > i
    BY Zenon, <2>1, <2>2 DEF Core, PutsStored
  <2>4. log[l].sup \in Nat
    BY Zenon, RecordFacts
  <2>5. ASSUME log[l].sup <= retain PROVE FALSE
    <3>1. log[l].sup \in (i + 1) .. gcFloor' /\ log[l].sup # SeqMax /\ log[l].sup <= commitSeq
      BY <1>3, <2>3, <2>4, <2>5
    <3>2. hist[log[l].sup][k] # "none"
      BY Zenon, <2>3, <3>1 DEF Core, RecordsMatchHistory, Fits
    <3>3. QED
      BY Zenon, <2>1, <3>1, <3>2
  <2>6. QED
    BY Zenon, <1>5, <2>3, <2>5
<1>12. DeletesStored'
  <2>1. SUFFICES ASSUME NEW k \in Keys, NEW j \in 1 .. commitSeq, hist[j][k] = "del", j > gcFloor'
                 PROVE  \E l \in Locs : Live(l)' /\ log[l].key = k /\ log[l].sup = j
    BY Zenon, <1>1, <1>4 DEF DeletesStored
  <2>2. j > gcFloor /\ ~(j <= retain)
    BY <1>3, <2>1
  <2>3. PICK l \in Locs : Live(l) /\ log[l].key = k /\ log[l].sup = j
    BY Zenon, <2>1, <2>2 DEF Core, DeletesStored
  <2>4. QED
    BY Zenon, <1>5, <2>2, <2>3
<1>13. PendingStored'
  BY Zenon, <1>1, <1>6 DEF PendingStored
<1>14. QED
  BY Zenon, <1>7, <1>8, <1>9, <1>10, <1>11, <1>12, <1>13 DEF Core

\* Pinning and indexing sealed segments.
LEMMA CoreSeal ==
  ASSUME TypeOK, Core, SealBegin \/ \E g \in sealing : SealIndex(g)
  PROVE  Core'
<1>1. UNCHANGED <<log, bucket, head, segs, act, nextSeg, commitSeq, gcFloor, hist, pend>>
  BY Zenon DEF SealBegin, SealIndex, arena, section
<1>2. Locs' = Locs /\ \A l : Live(l)' <=> Live(l)
  BY Zenon, <1>1 DEF Locs, Live
<1>3. SealOrdered' /\ Reachable'
  <2>1. CASE SealBegin
    <3>1. indexed' = indexed /\ sealing' = segs \ {act} /\ sealBase' = base /\ base' = base
      BY Zenon, <2>1 DEF SealBegin
    <3>2. /\ nextSeg \in Nat /\ segs \subseteq 1 .. (nextSeg - 1)
          /\ act = 0 \/ act = nextSeg - 1
      BY Zenon DEF TypeOK, ArenaType, Core, LogOrdered, NoSeg
    <3>3. \A g \in segs \ {act}, f \in segs : f <= g => f # act
      BY <3>2
    <3>4. SealOrdered'
      BY Zenon, <1>1, <3>1, <3>3 DEF Core, SealOrdered
    <3>5. QED
      BY Zenon, <1>1, <1>2, <3>1, <3>4 DEF Core, Reachable
  <2>2. CASE \E g \in sealing : SealIndex(g)
    <3>1. PICK g \in sealing :
            indexed' = indexed \cup {g} /\ UNCHANGED <<sealing, base, sealBase>>
      BY Zenon, <2>2 DEF SealIndex
    <3>2. SealOrdered'
      BY Zenon, <1>1, <3>1 DEF Core, SealOrdered
    <3>3. QED
      BY Zenon, <1>1, <1>2, <3>1, <3>2 DEF Core, Reachable
  <2>3. QED
    BY Zenon, <2>1, <2>2
<1>4. LogOrdered' /\ ChainsSound'
  BY Zenon, <1>1, <1>2 DEF Core, LogOrdered, ChainsSound
<1>5. RecordsMatchHistory' /\ VersionsDistinct'
  BY Zenon, <1>1, <1>2 DEF Core, RecordsMatchHistory, VersionsDistinct
<1>6. PutsStored' /\ DeletesStored' /\ PendingStored'
  BY <1>1, <1>2 DEF Core, PutsStored, DeletesStored, PendingStored
<1>7. QED
  BY Zenon, <1>3, <1>4, <1>5, <1>6 DEF Core

\* A bucket may be dropped once every segment its chain reaches is indexed:
\* the head is its newest record, and no older live segment was left unpinned.
LEMMA CoreEvict == ASSUME TypeOK, Core, Evict, ~SidecarMayFail PROVE Core'
<1>1. UNCHANGED <<log, segs, act, nextSeg, indexed, commitSeq, gcFloor, hist, pend>>
  BY Zenon DEF Evict, section
<1>2. Locs' = Locs /\ \A l : Live(l)' <=> Live(l)
  BY Zenon, <1>1 DEF Locs, Live
<1>3. PICK gone \in SUBSET Buckets :
        /\ \A h \in gone : head[h] # NoLoc /\ log[head[h]].seg \in sealing \cap indexed
        /\ bucket' = [h \in Buckets |-> IF h \in gone THEN {} ELSE bucket[h]]
        /\ head' = [h \in Buckets |-> IF h \in gone THEN NoLoc ELSE head[h]]
  <2> DEFINE evicted == {h \in Buckets : EvictedBy(h, sealing \cap indexed)}
  <2>1. ASSUME NEW h \in evicted
        PROVE  head[h] # NoLoc /\ log[head[h]].seg \in sealing \cap indexed
    <3>1. head[h] # NoLoc /\ head[h] \in Locs
      BY Zenon DEF EvictedBy, TypeOK, ArenaType
    <3>2. PICK g \in sealing \cap indexed : log[head[h]].seg - base = g - sealBase
      BY Zenon DEF EvictedBy
    <3>3. base = sealBase
      BY Zenon, <3>2 DEF Core, SealOrdered
    <3>4. log[head[h]].seg \in Int /\ g \in Int /\ base \in Int
      BY <3>1, RecordFacts DEF TypeOK, SealType
    <3>5. log[head[h]].seg = g
      BY <3>2, <3>3, <3>4
    <3>6. QED
      BY Zenon, <3>1, <3>5
  <2>2. /\ bucket' = [h \in Buckets |-> IF h \in evicted THEN {} ELSE bucket[h]]
        /\ head' = [h \in Buckets |-> IF h \in evicted THEN NoLoc ELSE head[h]]
    BY Zenon DEF Evict
  <2>3. evicted \in SUBSET Buckets
    OBVIOUS
  <2> HIDE DEF evicted
  <2>4. QED
    BY Zenon, <2>1, <2>2, <2>3
<1>4. sealing \subseteq indexed /\ sealing' = {}
  BY Zenon DEF Evict
<1>5. SealOrdered'
  BY Zenon, <1>1, <1>4 DEF Core, SealOrdered
<1>6. ChainsSound'
  BY Zenon, <1>1, <1>2, <1>3 DEF Core, ChainsSound
<1>7. Reachable'
  <2>1. SUFFICES ASSUME NEW l \in Locs, Live(l)
                 PROVE  \/ l \in bucket'[Hash[log[l].key]]
                        \/ log[l].seg \in indexed /\ log[l].seg # act
    BY Zenon, <1>1, <1>2 DEF Reachable
  <2>2. PICK h \in Buckets : h = Hash[log[l].key]
    BY Zenon, HashAssumption, RecordFacts
  <2>3. CASE h \notin gone \/ l \notin bucket[h]
    BY Zenon, <1>3, <2>1, <2>2, <2>3 DEF Core, Reachable
  <2>4. CASE h \in gone /\ l \in bucket[h]
    <3>1. head[h] \in Locs /\ l <= head[h] /\ log[head[h]].seg \in sealing
      BY Zenon, <1>3, <2>4 DEF TypeOK, ArenaType, Core, ChainsSound
    <3>2. log[l].seg <= log[head[h]].seg
      <4>1. l \in Nat /\ head[h] \in Nat /\ log[l].seg \in Nat
        BY Zenon, <3>1, RecordFacts
      <4>2. CASE l = head[h]
        BY <4>1, <4>2
      <4>3. CASE l < head[h]
        BY Zenon, <3>1, <4>3 DEF Core, LogOrdered
      <4>4. QED
        BY <3>1, <4>1, <4>2, <4>3
    <3>3. log[l].seg \in sealing
      BY Zenon, <2>1, <3>1, <3>2 DEF Core, SealOrdered, Live
    <3>4. QED
      BY Zenon, <1>4, <3>3 DEF Core, SealOrdered
  <2>5. QED
    BY Zenon, <2>3, <2>4
<1>8. LogOrdered' /\ RecordsMatchHistory' /\ VersionsDistinct'
  BY Zenon, <1>1, <1>2 DEF Core, LogOrdered, RecordsMatchHistory, VersionsDistinct
<1>9. PutsStored' /\ DeletesStored' /\ PendingStored'
  BY <1>1, <1>2 DEF Core, PutsStored, DeletesStored, PendingStored
<1>10. QED
  BY Zenon, <1>5, <1>6, <1>7, <1>8, <1>9 DEF Core

\* After Truncate no record is live and every event is at or below gcFloor.
LEMMA CoreTruncate ==
  ASSUME TypeOK, LockSound, Core, Truncate, ~TruncateRaces PROVE Core'
<1> DEFINE did == [k \in Keys |-> "del"]
<1>1. /\ segs' = {} /\ act' = NoSeg /\ gcFloor' = commitSeq + 1
      /\ bucket' = [h \in Buckets |-> {}]
      /\ UNCHANGED <<log, nextSeg, indexed, sealing, pend>> /\ sealing = {}
      /\ commitSeq + 1 < SeqMax /\ Commit(did) /\ lock = Free
  BY Zenon DEF Truncate, seal, section
<1>2. did \in [Keys -> Ops] /\ \A k \in Keys : did[k] = "del"
  BY Zenon DEF Ops
<1> HIDE DEF did
<1>3. /\ commitSeq' = commitSeq + 1 /\ commitSeq \in Nat
      /\ hist'[commitSeq + 1] = did
  BY Zenon, <1>1, <1>2, RecordFacts, CommitClock
<1>4. Locs' = Locs /\ \A l : ~Live(l)'
  BY Zenon, <1>1 DEF Locs, Live
<1>5. LogOrdered'
  <2>1. \A l \in Locs : log[l].seq <= commitSeq' + 1
    BY <1>3, RecordFacts DEF Core, LogOrdered
  <2>2. QED
    BY Zenon, <1>1, <1>4, <2>1 DEF Core, LogOrdered
<1>6. SealOrdered'
  <2>1. NoSeg \notin indexed /\ NoSeg \notin sealing
    BY SMTT(30) DEF TypeOK, SealType, NoSeg
  <2>2. QED
    BY Zenon, <1>1, <2>1 DEF SealOrdered
<1>7. ChainsSound' /\ Reachable' /\ RecordsMatchHistory' /\ VersionsDistinct'
  BY Zenon, <1>1, <1>4 DEF ChainsSound, Reachable, RecordsMatchHistory, VersionsDistinct
<1>8. PutsStored'
  <2>1. SUFFICES ASSUME NEW k \in Keys, NEW i \in 1 .. (commitSeq + 1), hist'[i][k] = "put",
                        \A j \in (i + 1) .. (commitSeq + 1) : hist'[j][k] = "none"
                 PROVE  FALSE
    BY Zenon, <1>1, <1>3 DEF PutsStored
  <2>2. CASE i = commitSeq + 1
    BY Zenon, <1>2, <1>3, <2>1, <2>2
  <2>3. CASE i # commitSeq + 1
    <3>1. commitSeq + 1 \in (i + 1) .. (commitSeq + 1)
      BY <1>3, <2>3
    <3>2. QED
      BY Zenon, <1>2, <1>3, <2>1, <3>1
  <2>4. QED
    BY Zenon, <2>2, <2>3
<1>9. DeletesStored'
  BY <1>1, <1>3 DEF DeletesStored
<1>10. PendingStored'
  BY Zenon, <1>1 DEF PendingStored, LockSound, Quiet
<1>11. QED
  BY Zenon, <1>5, <1>6, <1>7, <1>8, <1>9, <1>10 DEF Core

-----------------------------------------------------------------------------
(* What a transaction is told. *)

TxnsJudged == FirstCommitterWins /\ NoSpuriousConflict

\* Steps that change neither outcomes nor history keep the judgements.
LEMMA JudgedKept ==
  ASSUME TxnsJudged, UNCHANGED <<lock, out, commitSeq, gcFloor, hist>>,
         lock \in Txns => snap'[lock] = snap[lock]
  PROVE  TxnsJudged'
BY DEF TxnsJudged, FirstCommitterWins, NoSpuriousConflict, ChangedSince

\* Nothing is claimed of transactions while none holds the lock.
LEMMA JudgedUnlocked == ASSUME lock' \notin Txns PROVE TxnsJudged'
BY Zenon DEF TxnsJudged, FirstCommitterWins, NoSpuriousConflict

\* The chain and the key indexes show conflictSince every live record of a key.
LEMMA FoundIsLive ==
  ASSUME TypeOK, Core, NEW k \in Keys
  PROVE  ChainOf(k) \cup SealedOf(k) = {l \in Locs : Live(l) /\ log[l].key = k}
<1>1. Hash[k] \in Buckets
  BY Zenon, HashAssumption
<1>2. ChainOf(k) \subseteq {l \in Locs : Live(l) /\ log[l].key = k}
  BY Zenon, <1>1 DEF ChainOf, Core, ChainsSound, TypeOK, ArenaType
<1>3. SealedOf(k) \subseteq {l \in Locs : Live(l) /\ log[l].key = k}
  BY Zenon DEF SealedOf, Live
<1>4. \A l \in Locs : Live(l) /\ log[l].key = k => l \in ChainOf(k) \/ l \in SealedOf(k)
  BY Zenon DEF Core, Reachable, ChainOf, SealedOf, Live
<1>5. QED
  BY Zenon, <1>2, <1>3, <1>4

\* conflictSince misses no change: above gcFloor the changed version is stored,
\* and below it a version still current excludes any change.
LEMMA NoConflictNoChange ==
  ASSUME TypeOK, Core, NEW k \in Keys, NEW s \in Nat, ~ConflictSince(k, s)
  PROVE  ~ChangedSince(k, s)
<1>1. SUFFICES ASSUME NEW j \in (s + 1) .. commitSeq, hist[j][k] # "none" PROVE FALSE
  BY Zenon DEF ChangedSince
<1>2. /\ \A l \in Locs : Live(l) /\ log[l].key = k => ~ChangedAfter(l, s)
      /\ (\E l \in Locs : Live(l) /\ log[l].key = k /\ IsCurrent(l)) \/ ~(s < gcFloor)
  BY Zenon, FoundIsLive DEF ConflictSince
<1>3. j \in 1 .. commitSeq /\ j > s /\ commitSeq \in Nat /\ commitSeq < SeqMax /\ gcFloor \in Nat /\ SeqMax \in Nat
  BY RecordFacts
<1>4. hist[j][k] \in {"put", "del"}
  BY <1>1, <1>3 DEF TypeOK, ClockType, Ops
<1>5. CASE j > gcFloor
  <2>1. CASE hist[j][k] = "put"
    <3>1. \A i \in (j + 1) .. gcFloor : hist[i][k] = "none"
      BY <1>3, <1>5
    <3>2. PICK l \in Locs : Live(l) /\ log[l].key = k /\ log[l].seq = j
      BY <1>3, <2>1, <3>1 DEF Core, PutsStored
    <3>3. QED
      BY Zenon, <1>2, <1>3, <3>2 DEF ChangedAfter
  <2>2. CASE hist[j][k] = "del"
    <3>1. PICK l \in Locs : Live(l) /\ log[l].key = k /\ log[l].sup = j
      BY Zenon, <1>3, <1>5, <2>2 DEF Core, DeletesStored
    <3>2. log[l].sup # SeqMax /\ log[l].sup > s
      BY SMTT(30), <1>3, <3>1
    <3>3. QED
      BY Zenon, <1>2, <3>1, <3>2 DEF ChangedAfter, IsCurrent
  <2>3. QED
    BY Zenon, <1>4, <2>1, <2>2
<1>6. CASE ~(j > gcFloor)
  <2>1. PICK l \in Locs : Live(l) /\ log[l].key = k /\ log[l].sup = SeqMax
    BY <1>2, <1>3, <1>6 DEF IsCurrent
  <2>2. log[l].seq \in Nat /\ ~(log[l].seq > s)
    BY Zenon, <1>2, <2>1, RecordFacts DEF ChangedAfter
  <2>3. j \in (log[l].seq + 1) .. commitSeq /\ j < log[l].sup
    BY <1>3, <2>1, <2>2
  <2>4. QED
    BY Zenon, <1>1, <2>1, <2>3 DEF Core, RecordsMatchHistory, Fits
<1>7. QED
  BY Zenon, <1>5, <1>6

\* conflictSince reports a change only where there was one, or cannot know.
LEMMA ConflictIsChange ==
  ASSUME TypeOK, Core, NEW k \in Keys, NEW s \in Nat, ConflictSince(k, s), pend[k] = "none"
  PROVE  ChangedSince(k, s) \/ s < gcFloor
<1>1. SUFFICES ASSUME NEW l \in Locs, Live(l), log[l].key = k, ChangedAfter(l, s)
               PROVE  ChangedSince(k, s)
  BY Zenon, FoundIsLive DEF ConflictSince
<1>2. /\ log[l].seq \in Nat /\ log[l].sup \in Nat /\ commitSeq \in Nat /\ SeqMax \in Nat
      /\ log[l].seq <= commitSeq + 1
  BY Zenon, RecordFacts DEF Core, LogOrdered
<1>3. CASE log[l].seq > s
  <2>1. log[l].seq <= commitSeq /\ hist[log[l].seq][k] = "put"
    BY <1>1, <1>2 DEF Core, RecordsMatchHistory, Fits
  <2>2. log[l].seq \in (s + 1) .. commitSeq
    BY <1>2, <1>3, <2>1
  <2>3. QED
    BY Zenon, <2>1, <2>2 DEF ChangedSince
<1>4. CASE log[l].sup # SeqMax /\ log[l].sup > s
  <2>1. log[l].sup <= commitSeq + 1 /\ log[l].sup # commitSeq + 1
    BY Zenon, <1>1, <1>4 DEF Core, RecordsMatchHistory, Fits
  <2>2. log[l].sup <= commitSeq /\ log[l].sup \in (s + 1) .. commitSeq
    BY SMTT(30), <1>2, <1>4, <2>1
  <2>3. hist[log[l].sup][k] # "none"
    BY Zenon, <1>1, <1>4, <2>2 DEF Core, RecordsMatchHistory, Fits
  <2>4. QED
    BY Zenon, <2>2, <2>3 DEF ChangedSince
<1>5. QED
  BY Zenon, <1>1, <1>3, <1>4 DEF ChangedAfter, IsCurrent

\* Deciding one more write of a transaction keeps the judgements (applyTxn, conflictSince).
LEMMA JudgedApply ==
  ASSUME TypeOK, LockSound, Core, TxnsJudged, NEW t \in Txns, NEW k \in Keys, ApplyTxn(t, k)
  PROVE  TxnsJudged'
<1>1. /\ lock = t /\ out[t][k] = "none" /\ buf[t][k] # "none"
      /\ UNCHANGED <<commitSeq, gcFloor, lock, snap, hist>>
  BY Zenon DEF ApplyTxn
<1>2. PICK o \in {"ok", "conflict"} :
        /\ Decide(t, k, o)
        /\ o = "ok" => fast \/ ~ConflictSince(k, snap[t])
        /\ o = "conflict" => ConflictSince(k, snap[t])
  BY Zenon DEF ApplyTxn
<1>3. /\ \A x \in Keys : x # k => out'[t][x] = out[t][x]
      /\ out'[t][k] = o
  BY Zenon, <1>2 DEF Decide, TypeOK, TxnType
<1>4. pend[k] = "none" /\ snap[t] \in Nat /\ commitSeq \in Nat
  <2>1. buf[t] # Quiet
    BY Zenon, <1>1 DEF Quiet
  <2>2. snap[t] \in -1 .. commitSeq /\ snap[t] # -1 /\ commitSeq \in Nat
    BY Zenon, <2>1, RecordFacts DEF LockSound, TypeOK, TxnType, NoSnap
  <2>3. QED
    BY <1>1, <2>2 DEF LockSound
<1>5. o = "ok" => ~ChangedSince(k, snap[t])
  <2>1. CASE fast
    <3>1. commitSeq = snap[t]
      BY Zenon, <1>1, <2>1 DEF LockSound
    <3>2. (snap[t] + 1) .. commitSeq = {}
      BY <1>4, <3>1
    <3>3. QED
      BY Zenon, <3>2 DEF ChangedSince
  <2>2. CASE ~ConflictSince(k, snap[t])
    <3>1. PICK s \in Nat : s = snap[t]
      BY Zenon, <1>4
    <3>2. QED
      BY Zenon, <2>2, <3>1, NoConflictNoChange
  <2>3. QED
    BY Zenon, <1>2, <2>1, <2>2
<1>6. o = "conflict" => ChangedSince(k, snap[t]) \/ snap[t] < gcFloor
  <2>1. PICK s \in Nat : s = snap[t]
    BY Zenon, <1>4
  <2>2. QED
    BY Zenon, <1>2, <1>4, <2>1, ConflictIsChange
<1>7. \A x \in Keys : ChangedSince(x, snap[t])' <=> ChangedSince(x, snap[t])
  BY Zenon, <1>1 DEF ChangedSince
<1>8. QED
  BY Zenon, <1>1, <1>3, <1>5, <1>6, <1>7 DEF TxnsJudged, FirstCommitterWins, NoSpuriousConflict

-----------------------------------------------------------------------------
(* Every step of Shard keeps the invariant, and what follows from it. *)

\* A put under the lock, whether its segment could be allocated or not.
LEMMA CoreShardPut ==
  ASSUME TypeOK, LockSound, Core, NEW k \in Keys, lock # Free, ShardPut(k, commitSeq + 1),
         UNCHANGED <<seal, commitSeq, gcFloor, hist>>
  PROVE  Core'
<1>1. CASE PutWritten(k, commitSeq + 1) /\ pend' = [pend EXCEPT ![k] = "put"]
  BY Zenon, <1>1, CorePut DEF seal
<1>2. CASE PutFailed /\ UNCHANGED pend
  BY Zenon, <1>2, CoreKept DEF PutFailed, arena, seal, corevars
<1>3. QED
  BY Zenon, <1>1, <1>2 DEF ShardPut

\* The flusher's steps keep the core (applyBatch).
LEMMA CoreBatch ==
  ASSUME TypeOK, LockSound, Core, LockBatch \/ ApplyBatch \/ UnlockBatch
  PROVE  Core'
<1>1. CASE LockBatch
  <2>1. pend' = pend
    BY Zenon, <1>1 DEF LockBatch, LockSound
  <2>2. QED
    BY Zenon, <1>1, <2>1, CoreKept DEF LockBatch, arena, seal, corevars
<1>2. CASE ApplyBatch
  <2>1. Head(todo) \in Keys
    BY <1>2 DEF ApplyBatch, TypeOK, SectionType
  <2>2. lock # Free
    BY Zenon, <1>2 DEF ApplyBatch, Free, Batch
  <2>3. QED
    BY Zenon, <1>2, <2>1, <2>2, CoreShardPut DEF ApplyBatch
<1>3. CASE UnlockBatch
  <2>1. commitSeq + 1 < SeqMax
    BY Zenon, <1>3 DEF UnlockBatch, LockSound, Free, Batch
  <2>2. QED
    BY Zenon, <1>3, <2>1, CoreCommit DEF UnlockBatch, arena
<1>4. QED
  BY Zenon, <1>1, <1>2, <1>3

\* A transaction's steps keep the core (applyTxn).
LEMMA CoreTxn ==
  ASSUME TypeOK, LockSound, Core, NEW t \in Txns,
         \/ Begin(t) \/ TxnGet(t) \/ LockTxn(t) \/ UnlockTxn(t)
         \/ \E k \in Keys : ApplyTxn(t, k) \/ \E op \in {"put", "del"} : TxnWrite(t, k, op)
  PROVE  Core'
<1>1. CASE Begin(t) \/ TxnGet(t) \/ \E k \in Keys : \E op \in {"put", "del"} : TxnWrite(t, k, op)
  BY Zenon, <1>1, CoreKept DEF Begin, TxnGet, TxnWrite, arena, seal, section, corevars
<1>2. CASE LockTxn(t)
  <2>1. pend' = pend
    BY Zenon, <1>2 DEF LockTxn, LockSound
  <2>2. QED
    BY Zenon, <1>2, <2>1, CoreKept DEF LockTxn, arena, seal, corevars
<1>3. CASE UnlockTxn(t)
  <2>1. commitSeq + 1 < SeqMax
    BY Zenon, <1>3, HolderAssumption DEF UnlockTxn, LockSound
  <2>2. CASE changed
    BY Zenon, <1>3, <2>1, <2>2, CoreCommit DEF UnlockTxn, arena
  <2>3. CASE ~changed
    <3>1. pend' = pend
      BY Zenon, <1>3, <2>3 DEF UnlockTxn, LockSound
    <3>2. QED
      BY Zenon, <1>3, <2>3, <3>1, CoreKept DEF UnlockTxn, arena, seal, corevars
  <2>4. QED
    BY Zenon, <2>2, <2>3
<1>4. ASSUME NEW k \in Keys, ApplyTxn(t, k) PROVE Core'
  <2>1. UNCHANGED <<seal, commitSeq, gcFloor, hist>> /\ lock = t /\ lock # Free
    BY Zenon, <1>4, HolderAssumption DEF ApplyTxn
  <2>2. pend[k] = "none"
    BY Zenon, <1>4 DEF ApplyTxn, LockSound
  <2>3. CASE UNCHANGED <<arena, changed, pend>>
    BY Zenon, <2>1, <2>3, CoreKept DEF arena, seal, corevars
  <2>4. CASE ShardPut(k, commitSeq + 1)
    BY Zenon, <2>1, <2>4, CoreShardPut
  <2>5. CASE DelFound(k, commitSeq + 1) /\ pend' = [pend EXCEPT ![k] = "del"]
    BY Zenon, <2>1, <2>2, <2>5, CoreDel
  <2>6. QED
    BY Zenon, <1>4, <2>3, <2>4, <2>5 DEF ApplyTxn
<1>5. QED
  BY Zenon, <1>1, <1>2, <1>3, <1>4

\* Every step of the shard keeps the invariant.
LEMMA InvNext == ASSUME Inv, ~SidecarMayFail, ~TruncateRaces, [Next]_vars PROVE Inv'
<1>1. TypeOK /\ LockSound /\ Core /\ TxnsJudged
  BY Zenon DEF Inv, TxnsJudged
<1>2. TypeOK'
  BY Zenon, <1>1, TypeNext
<1>3. SUFFICES LockSound' /\ Core' /\ TxnsJudged'
  BY Zenon, <1>2 DEF Inv, TxnsJudged
<1>4. CASE UNCHANGED vars
  BY Zenon, <1>1, <1>4, LockKept, CoreKept, JudgedKept DEF vars, lockvars, corevars
<1>5. CASE LockBatch \/ ApplyBatch \/ UnlockBatch
  <2>1. lock' \notin Txns
    BY Zenon, <1>5, HolderAssumption DEF LockBatch, ApplyBatch, UnlockBatch
  <2>2. QED
    BY Zenon, <1>1, <1>5, <2>1, LockBatchStep, CoreBatch, JudgedUnlocked
<1>6. ASSUME NEW k \in Keys, Delete(k) PROVE LockSound' /\ Core' /\ TxnsJudged'
  <2>1. lock' \notin Txns /\ lock = Free /\ UNCHANGED lockvars
    BY Zenon, <1>6, HolderAssumption DEF Delete, section, txn, lockvars
  <2>2. QED
    BY Zenon, <1>1, <1>6, <2>1, LockKept, CoreDelete, JudgedUnlocked
<1>7. ASSUME NEW t \in Txns,
             \/ Begin(t) \/ TxnGet(t) \/ LockTxn(t) \/ UnlockTxn(t)
             \/ \E k \in Keys : ApplyTxn(t, k) \/ \E op \in {"put", "del"} : TxnWrite(t, k, op)
      PROVE LockSound' /\ Core' /\ TxnsJudged'
  <2>1. LockSound'
    BY Zenon, <1>1, <1>7, LockTxnOpen, LockUnlockTxn, LockApplyTxn
  <2>2. Core'
    BY Zenon, <1>1, <1>7, CoreTxn
  <2>3. TxnsJudged'
    <3>1. CASE Begin(t)
      BY Zenon, <1>1, <3>1, JudgedKept DEF Begin, section
    <3>2. CASE TxnGet(t) \/ \E k \in Keys : \E op \in {"put", "del"} : TxnWrite(t, k, op)
      <4>1. UNCHANGED <<lock, out, commitSeq, gcFloor, hist>> /\ lock # t
        BY Zenon, <3>2, HolderAssumption DEF TxnGet, TxnWrite, Touch, section
      <4>2. lock \in Txns => snap'[lock] = snap[lock]
        BY Zenon, <1>1, <3>2, <4>1 DEF TxnGet, TxnWrite, Touch, TypeOK, TxnType
      <4>3. QED
        BY Zenon, <1>1, <4>1, <4>2, JudgedKept
    <3>3. CASE LockTxn(t)
      <4>1. \A x \in Txns : out'[x] = Quiet
        BY Zenon, <1>1, <3>3, HolderAssumption DEF LockTxn, txn, LockSound
      <4>2. \A x \in Txns, k \in Keys : out'[x][k] = "none"
        BY Zenon, <4>1 DEF Quiet
      <4>3. QED
        BY Zenon, <4>2 DEF TxnsJudged, FirstCommitterWins, NoSpuriousConflict
    <3>4. CASE UnlockTxn(t)
      BY Zenon, <3>4, HolderAssumption, JudgedUnlocked DEF UnlockTxn
    <3>5. CASE \E k \in Keys : ApplyTxn(t, k)
      BY Zenon, <1>1, <3>5, JudgedApply
    <3>6. QED
      BY Zenon, <1>7, <3>1, <3>2, <3>3, <3>4, <3>5
  <2>4. QED
    BY Zenon, <2>1, <2>2, <2>3
<1>8. ASSUME NEW p \in Scanners, ScanBegin(p) \/ ScanVisit(p) \/ ScanEnd(p)
      PROVE LockSound' /\ Core' /\ TxnsJudged'
  <2>1. UNCHANGED <<arena, seal, commitSeq, gcFloor, section, txn, hist>>
    BY Zenon, <1>8 DEF ScanBegin, ScanVisit, ScanEnd
  <2>2. QED
    BY Zenon, <1>1, <2>1, LockKept, CoreKept, JudgedKept
       DEF arena, seal, section, txn, lockvars, corevars
<1>9. CASE Sealing
  <2>1. UNCHANGED <<commitSeq, gcFloor, section, txn, hist>>
    BY Zenon, <1>9 DEF Sealing, SealBegin, SealIndex, Evict
  <2>2. Core'
    BY Zenon, <1>1, <1>9, CoreSeal, CoreEvict DEF Sealing
  <2>3. QED
    BY Zenon, <1>1, <2>1, <2>2, LockKept, JudgedKept DEF section, txn, lockvars
<1>10. CASE Reclaim \/ Truncate
  <2>1. lock = Free /\ lock' \notin Txns /\ UNCHANGED <<section, txn>>
    BY Zenon, <1>10, HolderAssumption DEF Reclaim, Truncate, section
  <2>2. QED
    BY Zenon, <1>1, <1>10, <2>1, LockKept, CoreReclaim, CoreTruncate, JudgedUnlocked
       DEF section, txn, lockvars
<1>11. QED
  BY Zenon, <1>4, <1>5, <1>6, <1>7, <1>8, <1>9, <1>10 DEF Next, Traffic

-----------------------------------------------------------------------------
(* What the invariant implies. *)

\* A lookup at a sequence finds what the live segments hold (getAt).
LEMMA FindVisibleExact ==
  ASSUME TypeOK, LockSound, Core, NEW k \in Keys, NEW s \in gcFloor .. commitSeq
  PROVE  FindVisible(k, s) = Stored(k, s)
<1>1. ChainOf(k) \cup SealedOf(k) = {l \in Locs : Live(l) /\ log[l].key = k}
  BY Zenon, FoundIsLive
<1>2. Stored(k, s) = {l \in ChainOf(k) \cup SealedOf(k) : VisibleAt(l, s)}
  BY Zenon, <1>1 DEF Stored, Live
<1>3. \A l, m \in Stored(k, s) : l = m
  BY Zenon, CoreBase, StoredExact DEF AtMostOne
<1>4. QED
  BY Zenon, <1>2, <1>3 DEF FindVisible

\* The invariant implies the properties of lookups, snapshots and chains.
LEMMA InvImplies ==
  ASSUME Inv
  PROVE  /\ OneCurrentVersion /\ GetExact /\ SnapshotExact
         /\ NoDanglingLink /\ RetainedReads
<1>1. TypeOK /\ LockSound /\ Core /\ Base
  BY Zenon, CoreBase DEF Inv
<1>2. OneCurrentVersion /\ GetExact /\ SnapshotExact /\ NoDanglingLink
  BY Zenon, <1>1, BaseImplies
<1>3. RetainedReads
  <2>1. SUFFICES ASSUME NEW t \in Txns, NEW k \in Keys, snap[t] >= gcFloor
                 PROVE  SeqsOf(FindVisible(k, snap[t])) = VersionAt(k, snap[t])
    BY Zenon DEF RetainedReads
  <2>2. PICK s \in gcFloor .. commitSeq : s = snap[t]
    BY SMTT(30), <1>1, <2>1, RecordFacts DEF TypeOK, TxnType
  <2>3. QED
    BY Zenon, <1>1, <2>2, FindVisibleExact, StoredExact
<1>4. QED
  BY Zenon, <1>2, <1>3

\* The invariant of Shard has that part.
LEMMA InvBasics == Inv => Basics
BY Zenon, CoreBase DEF Inv, Core, SealOrdered, Basics

-----------------------------------------------------------------------------
(* The theorems. A failed key sidecar is excluded: with one, evictSegKeys     *)
(* drops chains whose older records no index holds.                           *)

\* In every execution the invariant holds: each live record, chain and event
\* of the history correspond (shard.go, txn.go, compact.go reclaimDeadShard).
THEOREM ShardInvariance ==
  ASSUME ~SidecarMayFail, ~TruncateRaces PROVE Spec => []Inv
<1>1. Init => Inv
  BY Zenon, InvInit
<1>2. Inv /\ [Next]_vars => Inv'
  BY Zenon, InvNext
<1>3. QED
  BY <1>1, <1>2, PTL DEF Spec

\* The shard's fields keep their types (shard.go struct).
THEOREM TypeCorrect ==
  ASSUME ~SidecarMayFail, ~TruncateRaces PROVE Spec => []TypeOK
<1>1. Inv => TypeOK
  BY Zenon DEF Inv
<1>2. QED
  BY <1>1, ShardInvariance, PTL

\* Never two current versions of a key, over chains and sealed segments
\* (shard.put, shard.del).
THEOREM UniqueCurrent ==
  ASSUME ~SidecarMayFail, ~TruncateRaces PROVE Spec => []OneCurrentVersion
<1>1. Inv => OneCurrentVersion
  BY Zenon, InvImplies
<1>2. QED
  BY <1>1, ShardInvariance, PTL

\* A point lookup returns what the commits so far left current (shard.get).
THEOREM LookupsExact ==
  ASSUME ~SidecarMayFail, ~TruncateRaces PROVE Spec => []GetExact
<1>1. Inv => GetExact
  BY Zenon, InvImplies
<1>2. QED
  BY <1>1, ShardInvariance, PTL

\* No retained snapshot loses or doubles a version (reclaimDeadShard).
THEOREM SnapshotsExact ==
  ASSUME ~SidecarMayFail, ~TruncateRaces PROVE Spec => []SnapshotExact
<1>1. Inv => SnapshotExact
  BY Zenon, InvImplies
<1>2. QED
  BY <1>1, ShardInvariance, PTL

\* No chain ever links to an unlinked segment (spliceDeadFromChain).
THEOREM ChainsIntact ==
  ASSUME ~SidecarMayFail, ~TruncateRaces PROVE Spec => []NoDanglingLink
<1>1. Inv => NoDanglingLink
  BY Zenon, InvImplies
<1>2. QED
  BY <1>1, ShardInvariance, PTL

\* First committer wins: an accepted write's key did not change after the
\* transaction's snapshot (applyTxn, conflictSince).
THEOREM ConflictsCaught ==
  ASSUME ~SidecarMayFail, ~TruncateRaces PROVE Spec => []FirstCommitterWins
<1>1. Inv => FirstCommitterWins
  BY Zenon DEF Inv
<1>2. QED
  BY <1>1, ShardInvariance, PTL

\* Above gcFloor only a real change is reported as a conflict (conflictSince).
THEOREM ConflictsReal ==
  ASSUME ~SidecarMayFail, ~TruncateRaces PROVE Spec => []NoSpuriousConflict
<1>1. Inv => NoSpuriousConflict
  BY Zenon DEF Inv
<1>2. QED
  BY <1>1, ShardInvariance, PTL

\* A transaction reads its snapshot as long as no reclaim overtakes it (getAt).
THEOREM ReadsRetained ==
  ASSUME ~SidecarMayFail, ~TruncateRaces PROVE Spec => []RetainedReads
<1>1. Inv => RetainedReads
  BY Zenon, InvImplies
<1>2. QED
  BY <1>1, ShardInvariance, PTL

\* A version's interval of visibility ends once (supersedeRec).
THEOREM EndsOnce ==
  ASSUME ~SidecarMayFail, ~TruncateRaces PROVE Spec => VersionEndsOnce
<1>1. Inv /\ [Next]_vars => [\A l \in Locs : ~IsCurrent(l) => log'[l] = log[l]]_vars
  BY Zenon, SupersedeCurrent DEF Inv
<1>2. QED
  BY <1>1, ShardInvariance, PTL DEF Spec, VersionEndsOnce

\* A finished scan has yielded every key live at its sequence exactly once,
\* whatever was committed, reclaimed or truncated meanwhile (forEachVisible).
THEOREM ScansExact ==
  ASSUME ~SidecarMayFail, ~TruncateRaces PROVE Spec => []ScanExactlyOnce
<1>1. Init => ScansSound
  BY DEF Init, ScansSound, Idle
<1>2. Inv /\ ScansSound /\ [Next]_vars => ScansSound'
  BY Zenon, InvBasics, ScanStep
<1>3. ScansSound => ScanExactlyOnce
  BY Zenon, PromisesSuffice
<1>4. QED
  BY <1>1, <1>2, <1>3, ShardInvariance, PTL DEF Spec
=============================================================================
