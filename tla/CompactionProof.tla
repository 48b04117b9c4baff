-------------------------- MODULE CompactionProof ---------------------------
(* Compaction beside clients, sealing and reclaim keeps the private copies in *)
(* step with their sources, and so its invariant.                             *)
EXTENDS CompactionLive

-----------------------------------------------------------------------------
(* The private copies, while clients and the sealing pass run beside.        *)

\* What a step of theirs may do: end a current record of a live segment, and
\* append records to the active segment or to a fresh one.
Beside ==
  /\ Locs \subseteq Locs'
  /\ \A l \in Locs :
       /\ log'[l].key = log[l].key /\ log'[l].seq = log[l].seq /\ log'[l].seg = log[l].seg
       /\ \/ log'[l].sup = log[l].sup
          \/ /\ Live(l) /\ IsCurrent(l)
             /\ log'[l].sup = commitSeq + 1 /\ commitSeq + 1 < SeqMax
  /\ \A l \in Locs' \ Locs : log'[l].seg = nextSeg \/ (log'[l].seg = act /\ act \in segs)
  /\ segs \subseteq segs' /\ segs' \subseteq segs \cup {nextSeg}
  /\ act' \in {act, nextSeg}
  /\ nextSeg' \in Nat /\ nextSeg <= nextSeg'
  /\ commitSeq' \in Nat /\ commitSeq <= commitSeq'

\* A put and a delete do no more (shard.put, shard.del).
LEMMA WriteBeside ==
  ASSUME Basics, NEW k \in Keys, commitSeq + 1 < SeqMax,
         PutWritten(k, commitSeq + 1) \/ DelFound(k, commitSeq + 1),
         commitSeq' \in {commitSeq, commitSeq + 1}
  PROVE  Beside
<1>1. commitSeq' \in Nat /\ commitSeq <= commitSeq' /\ nextSeg \in Nat
  BY RecordFacts DEF Basics, TypeOK, ArenaType
<1>2. \A l \in CurrentOf(k) : Live(l) /\ IsCurrent(l)
  BY Zenon DEF CurrentOf
<1>3. CASE PutWritten(k, commitSeq + 1)
  <2>1. PICK n, g : PutAdds(k, n, g)
    BY Zenon, <1>3, PutDoes
  <2>2. \A l \in Locs :
          /\ log'[l].key = log[l].key /\ log'[l].seq = log[l].seq /\ log'[l].seg = log[l].seg
          /\ \/ log'[l].sup = log[l].sup
             \/ Live(l) /\ IsCurrent(l) /\ log'[l].sup = commitSeq + 1 /\ commitSeq + 1 < SeqMax
    BY Zenon, <1>2, <2>1 DEF PutAdds
  <2>3. /\ Locs \subseteq Locs'
        /\ \A l \in Locs' \ Locs : log'[l].seg = nextSeg \/ (log'[l].seg = act /\ act \in segs)
        /\ segs \subseteq segs' /\ segs' \subseteq segs \cup {nextSeg}
        /\ act' \in {act, nextSeg} /\ nextSeg' \in Nat /\ nextSeg <= nextSeg'
    BY Zenon, <2>1 DEF PutAdds
  <2>4. QED
    BY Zenon, <1>1, <2>2, <2>3 DEF Beside
<1>4. CASE DelFound(k, commitSeq + 1)
  <2>1. DelEffect(k)
    BY Zenon, <1>4, DelHasEffect DEF Basics
  <2>2. QED
    BY <1>1, <1>2, <2>1 DEF DelEffect, Beside
<1>5. QED
  BY Zenon, <1>3, <1>4

\* Neither does any other step of clients or of the sealing pass.
LEMMA StepBeside ==
  ASSUME TypeOK, LockSound, Kept, Traffic \/ Sealing
  PROVE  Beside
<1>1. Basics
  BY Zenon DEF Basics, Kept, SealSound
<1>2. [Next]_vars
  BY Zenon DEF Next
<1>3. commitSeq' \in {commitSeq, commitSeq + 1}
  BY Zenon, <1>1, <1>2, StepGrows DEF HistGrows, Commit
<1>4. ASSUME UNCHANGED <<log, segs, act, nextSeg>> PROVE Beside
  <2>1. commitSeq' \in Nat /\ commitSeq <= commitSeq' /\ nextSeg \in Nat
    BY <1>3, RecordFacts DEF TypeOK, ArenaType
  <2>2. QED
    BY <1>4, <2>1 DEF Beside, Locs
<1>5. CASE ApplyBatch
  <2>1. Head(todo) \in Keys
    BY <1>5 DEF ApplyBatch, TypeOK, SectionType
  <2>2. commitSeq + 1 < SeqMax
    BY Zenon, <1>5 DEF ApplyBatch, LockSound, Free, Batch
  <2>3. PutWritten(Head(todo), commitSeq + 1) \/ UNCHANGED <<log, segs, act, nextSeg>>
    BY Zenon, <1>5 DEF ApplyBatch, ShardPut, PutFailed, arena
  <2>4. QED
    BY Zenon, <1>1, <1>3, <1>4, <2>1, <2>2, <2>3, WriteBeside
<1>6. ASSUME NEW k \in Keys, Delete(k) PROVE Beside
  BY Zenon, <1>1, <1>3, <1>6, WriteBeside DEF Delete
<1>7. ASSUME NEW t \in Txns, NEW k \in Keys, ApplyTxn(t, k) PROVE Beside
  <2>1. commitSeq + 1 < SeqMax
    BY Zenon, <1>7, HolderAssumption DEF ApplyTxn, LockSound
  <2>2. \/ PutWritten(k, commitSeq + 1) \/ DelFound(k, commitSeq + 1)
        \/ UNCHANGED <<log, segs, act, nextSeg>>
    BY Zenon, <1>7 DEF ApplyTxn, ShardPut, PutFailed, arena
  <2>3. QED
    BY Zenon, <1>1, <1>3, <1>4, <2>1, <2>2, WriteBeside
<1>8. CASE \/ LockBatch \/ UnlockBatch \/ Sealing
           \/ \E p \in Scanners : ScanBegin(p) \/ ScanVisit(p) \/ ScanEnd(p)
  <2>1. UNCHANGED <<log, segs, act, nextSeg>>
    BY Zenon, <1>8 DEF LockBatch, UnlockBatch, ScanBegin, ScanVisit, ScanEnd,
                       Sealing, SealBegin, SealIndex, Evict, arena
  <2>2. QED
    BY Zenon, <1>4, <2>1
<1>9. CASE \E t \in Txns :
             \/ Begin(t) \/ TxnGet(t) \/ LockTxn(t) \/ UnlockTxn(t)
             \/ \E k \in Keys, op \in {"put", "del"} : TxnWrite(t, k, op)
  <2>1. UNCHANGED <<log, segs, act, nextSeg>>
    BY Zenon, <1>9 DEF Begin, TxnGet, LockTxn, UnlockTxn, TxnWrite, arena
  <2>2. QED
    BY Zenon, <1>4, <2>1
<1>10. QED
  BY Zenon, <1>5, <1>6, <1>7, <1>8, <1>9 DEF Traffic

\* A record's segment stays below the next number when that grows.
LEMMA SegmentsBelow ==
  ASSUME NEW a \in Nat, NEW b \in Nat, a <= b, NEW g \in Nat \ {0}
  PROVE  /\ g < b => g \in 1 .. (b - 1)
         /\ \A G : G \subseteq 1 .. (a - 1) => G \subseteq 1 .. (b - 1)
         /\ a \notin 1 .. (a - 1)
<1>1. \A x \in 1 .. (a - 1) : x \in 1 .. (b - 1)
  OBVIOUS
<1>2. (g < b => g \in 1 .. (b - 1)) /\ a \notin 1 .. (a - 1)
  OBVIOUS
<1>3. QED
  BY Zenon, <1>1, <1>2

\* Nobody writes to a source or to a private segment, and what is superseded
\* there meanwhile is what the install transfers.
LEMMA BesideCopying ==
  ASSUME TypeOK, Copying, Beside, UNCHANGED cvars PROVE Copying'
<1>1. UNCHANGED <<cpc, cretain, csrc, corig, cleft, moved, clive, chist, ccur, chcur>> /\ Dest' = Dest
  BY Zenon DEF cvars, Dest
<1>2. nextSeg \in Nat /\ nextSeg' \in Nat /\ nextSeg <= nextSeg' /\ commitSeq \in Nat
  BY Zenon, RecordFacts DEF Beside, TypeOK, ArenaType
<1>3. /\ csrc \subseteq corig /\ act \notin corig
      /\ nextSeg \notin corig /\ nextSeg \notin Dest /\ Dest \cap segs = {}
  BY <1>2 DEF Copying, SegmentsSound
<1>4. SegmentsSound'
  <2>1. corig \subseteq 1 .. (nextSeg' - 1) /\ Dest \subseteq 1 .. (nextSeg' - 1)
    <3>1. corig \subseteq 1 .. (nextSeg - 1) /\ Dest \subseteq 1 .. (nextSeg - 1)
      BY Zenon DEF Copying, SegmentsSound
    <3>2. PICK a, b \in Nat : a = nextSeg /\ b = nextSeg' /\ a <= b
      BY Zenon, <1>2
    <3>3. \A G : G \subseteq 1 .. (a - 1) => G \subseteq 1 .. (b - 1)
      BY <3>2, SegmentsBelow, 1 \in Nat \ {0}
    <3>4. QED
      BY Zenon, <3>1, <3>2, <3>3
  <2>2. cretain \in 0 .. commitSeq'
    BY <1>2 DEF Beside, Copying, SegmentsSound
  <2>3. csrc \subseteq segs' /\ Dest \cap segs' = {} /\ act' \notin corig
    BY <1>3 DEF Beside, Copying, SegmentsSound
  <2>4. QED
    BY Zenon, <1>1, <2>1, <2>2, <2>3 DEF Copying, SegmentsSound
<1>5. /\ \A l \in Locs : l \in Locs' /\ (Source(l)' <=> Source(l)) /\ (Copy(l)' <=> Copy(l))
      /\ \A l \in Locs' : Source(l)' \/ Copy(l)' \/ log'[l].seg \in corig => l \in Locs
  BY Zenon, <1>1, <1>3 DEF Beside, Source, Copy
<1>6. \A l \in Locs : /\ log'[l].key = log[l].key /\ log'[l].seq = log[l].seq
                      /\ log'[l].seg = log[l].seg
  BY Zenon DEF Beside
<1>7. \A l, m \in Locs : SameVersion(l, m)' <=> SameVersion(l, m)
  BY Zenon, <1>6 DEF SameVersion
<1>8. \A l \in Locs : ~IsCurrent(l) => ~IsCurrent(l)' /\ log'[l].sup = log[l].sup
  BY Zenon DEF Beside, IsCurrent
<1>9. \A l \in Locs : Copy(l) => log'[l].sup = log[l].sup /\ (IsCurrent(l)' <=> IsCurrent(l))
  BY Zenon, <1>3 DEF Beside, Copy, Live, IsCurrent
<1>10. SourcesSound'
  <2>1. \A l \in cleft : Source(l) /\ l \in Locs
    BY Zenon DEF Copying, SourcesSound, Source
  <2>2. \A l \in Locs : Source(l) => log[l].seq <= commitSeq'
    BY <1>2, RecordFacts DEF Beside, Copying, SourcesSound
  <2>3. \A l \in Locs' : log'[l].seg \in corig \ csrc => ~IsCurrent(l)'
    BY Zenon, <1>5, <1>6, <1>8 DEF Copying, SourcesSound
  <2>4. QED
    BY Zenon, <1>1, <1>5, <1>6, <2>1, <2>2, <2>3 DEF SourcesSound
<1>11. MovedSound'
  <2>1. ASSUME NEW x \in moved
        PROVE  /\ Source(x[1])' /\ Copy(x[2])' /\ IsCurrent(x[2])'
               /\ log'[x[1]].sup > log'[x[1]].seq /\ SameVersion(x[1], x[2])'
    <3>1. /\ Source(x[1]) /\ Copy(x[2]) /\ IsCurrent(x[2]) /\ SameVersion(x[1], x[2])
          /\ log[x[1]].sup > log[x[1]].seq
      BY Zenon DEF Copying, MovedSound
    <3>2. x[1] \in Locs /\ x[2] \in Locs
      BY Zenon, <3>1 DEF Source, Copy
    <3>3. log'[x[1]].sup > log[x[1]].seq
      <4>1. log[x[1]].seq <= commitSeq /\ log[x[1]].seq \in Nat
        BY Zenon, <3>1, <3>2, RecordFacts DEF Copying, SourcesSound
      <4>2. QED
        BY <1>2, <3>1, <3>2, <4>1 DEF Beside
    <3>4. QED
      BY Zenon, <1>5, <1>6, <1>7, <1>9, <3>1, <3>2, <3>3
  <2>2. /\ \A x \in moved : x = <<x[1], x[2]>> /\ x[1] \notin cleft
        /\ \A x, y \in moved : x[2] = y[2] => x = y
    BY Zenon DEF Copying, MovedSound
  <2>3. moved' = moved /\ cleft' = cleft
    BY Zenon, <1>1
  <2>4. QED
    BY Zenon, <2>1, <2>2, <2>3 DEF MovedSound
<1>12. CopiesSound'
  <2>1. SUFFICES ASSUME NEW d \in Locs, Copy(d), ~\E x \in moved : x[2] = d
                 PROVE  /\ ~IsCurrent(d)'
                        /\ \E l \in Locs' : /\ Source(l)' /\ l \notin cleft
                                            /\ SameVersion(l, d)' /\ log'[d].sup = log'[l].sup
    BY Zenon, <1>1, <1>5 DEF CopiesSound
  <2>2. ~IsCurrent(d)
    BY Zenon, <2>1 DEF Copying, CopiesSound
  <2>3. PICK l \in Locs : /\ Source(l) /\ l \notin cleft
                          /\ SameVersion(l, d) /\ log[d].sup = log[l].sup
    BY Zenon, <2>1 DEF Copying, CopiesSound
  <2>4. ~IsCurrent(l)
    BY Zenon, <2>2, <2>3 DEF IsCurrent
  <2>5. QED
    BY Zenon, <1>5, <1>7, <1>8, <2>1, <2>2, <2>3, <2>4
<1>13. SourcesCopied'
  <2>1. SUFFICES ASSUME NEW l \in Locs, Source(l), l \notin cleft, ~\E x \in moved : x[1] = l
                 PROVE  \/ ~IsCurrent(l)' /\ log'[l].sup <= cretain
                        \/ /\ ~IsCurrent(l)'
                           /\ \E d \in Locs' : Copy(d)' /\ SameVersion(l, d)' /\ log'[d].sup = log'[l].sup
    BY Zenon, <1>1, <1>5 DEF SourcesCopied
  <2>2. \/ ~IsCurrent(l) /\ log[l].sup <= cretain
        \/ /\ ~IsCurrent(l)
           /\ \E d \in Locs : Copy(d) /\ SameVersion(l, d) /\ log[d].sup = log[l].sup
    BY Zenon, <2>1 DEF Copying, SourcesCopied
  <2>3. ~IsCurrent(l)' /\ log'[l].sup = log[l].sup
    BY Zenon, <1>8, <2>2
  <2>4. \A d \in Locs : Copy(d) /\ SameVersion(l, d) =>
          d \in Locs' /\ Copy(d)' /\ SameVersion(l, d)' /\ log'[d].sup = log[d].sup
    BY Zenon, <1>5, <1>7, <1>9
  <2>5. QED
    BY Zenon, <2>2, <2>3, <2>4
<1>14. CopiesDistinct'
  BY Zenon, <1>5, <1>6, <1>7, <1>9 DEF Copying, CopiesDistinct
<1>15. QED
  BY Zenon, <1>4, <1>10, <1>11, <1>12, <1>13, <1>14 DEF Copying

-----------------------------------------------------------------------------
(* The private copies, over the steps of the compaction itself. *)

\* Between compactions there is nothing to say of them.
LEMMA NothingCopied ==
  ASSUME csrc' = {}, corig' = {}, clive' = {}, chist' = {}, cleft' = {}, moved' = {},
         ccur' = NoSeg, chcur' = NoSeg, cretain' \in 0 .. commitSeq'
  PROVE  Copying'
<1>1. Dest' = {} /\ \A l : ~Source(l)' /\ ~Copy(l)'
  BY Zenon DEF Dest, Source, Copy
<1>2. QED
  BY Zenon, <1>1 DEF Copying, SegmentsSound, SourcesSound, MovedSound, CopiesSound, SourcesCopied,
              CopiesDistinct

\* And no compaction is in flight that has something.
LEMMA IdleEmpty ==
  ASSUME Copying, cpc = "idle"
  PROVE  /\ csrc = {} /\ corig = {} /\ clive = {} /\ chist = {} /\ cleft = {} /\ moved = {}
         /\ ccur = NoSeg /\ chcur = NoSeg
<1>1. csrc = {} /\ corig = {} /\ clive = {} /\ chist = {}
  BY Zenon DEF Copying, SegmentsSound, Dest
<1>2. \A l : ~Source(l)
  BY Zenon, <1>1 DEF Source
<1>3. cleft = {} /\ moved = {}
  BY Zenon, <1>2 DEF Copying, SourcesSound, MovedSound
<1>4. QED
  BY Zenon, <1>1, <1>3 DEF Copying, SegmentsSound

\* Phase 1: what it picks is committed, what it leaves in place is history.
LEMMA CopyingBegin ==
  ASSUME TypeOK, LockSound, Kept, Copying, CompactBegin PROVE Copying'
<1> DEFINE picked(retain) == {g \in segs : RecsOf(g) # {} /\ ~InWindowHistory(g, retain)}
<1>1. PICK retain \in RetainFloors :
        /\ cretain' = retain /\ csrc' = picked(retain)
        /\ cleft' = {l \in Locs : log[l].seg \in picked(retain)}
  BY Zenon DEF CompactBegin
<1>2. PICK sources : sources = picked(retain)
  BY Zenon
<1>3. /\ sources \subseteq segs
      /\ \A g \in segs \ sources : \A l \in RecsOf(g) : ~IsCurrent(l)
  BY Zenon, <1>2 DEF InWindowHistory
<1>4. /\ csrc' = sources /\ cretain' = retain
      /\ cleft' = {l \in Locs : log[l].seg \in sources}
  BY Zenon, <1>1, <1>2
<1> HIDE DEF picked
<1>5. /\ lock = Free /\ cpc = "idle" /\ cpc' = "copy" /\ corig' = segs /\ act' = NoSeg
      /\ UNCHANGED <<moved, clive, chist, ccur, chcur, log, segs, nextSeg, commitSeq>>
  BY Zenon DEF CompactBegin
<1>6. moved' = {} /\ clive' = {} /\ chist' = {} /\ ccur' = NoSeg /\ chcur' = NoSeg
  BY Zenon, <1>5, IdleEmpty
<1>7. /\ Dest' = {} /\ Locs' = Locs
      /\ \A l : (Source(l)' <=> l \in Locs /\ log[l].seg \in sources) /\ ~Copy(l)'
  BY Zenon, <1>4, <1>5, <1>6 DEF Dest, Locs, Source, Copy
<1>8. SegmentsSound'
  <2>1. NoSeg \notin segs /\ segs \subseteq 1 .. (nextSeg - 1)
    BY DEF TypeOK, ArenaType, NoSeg
  <2>2. retain \in 0 .. commitSeq
    BY RecordFacts DEF RetainFloors
  <2>3. QED
    BY Zenon, <1>3, <1>4, <1>5, <1>6, <1>7, <2>1, <2>2 DEF SegmentsSound
<1>9. SourcesSound'
  <2>1. \A k \in Keys : pend[k] = "none"
    BY Zenon, <1>5 DEF LockSound, Quiet
  <2>2. ASSUME NEW l \in Locs, log[l].seg \in sources PROVE log[l].seq <= commitSeq
    <3>1. Fits(log[l], commitSeq, hist, pend) /\ log[l].seq <= commitSeq + 1
      BY Zenon, <1>3, <2>2 DEF Kept, Base, RecordsMatchHistory, LogBounded, Live
    <3>2. log[l].key \in Keys /\ log[l].seq \in Nat /\ commitSeq \in Nat
      BY Zenon, RecordFacts
    <3>3. log[l].seq # commitSeq + 1
      BY Zenon, <2>1, <3>1, <3>2 DEF Fits
    <3>4. QED
      BY <3>1, <3>2, <3>3
  <2>3. \A l \in Locs : log[l].seg \in segs \ sources => ~IsCurrent(l)'
    BY Zenon, <1>3, <1>5 DEF RecsOf, IsCurrent
  <2>4. QED
    BY Zenon, <1>4, <1>5, <1>7, <2>2, <2>3 DEF SourcesSound
<1>10. MovedSound' /\ CopiesSound' /\ SourcesCopied' /\ CopiesDistinct'
  BY Zenon, <1>4, <1>6, <1>7 DEF MovedSound, CopiesSound, SourcesCopied, CopiesDistinct
<1>11. QED
  BY Zenon, <1>8, <1>9, <1>10 DEF Copying

\* Phase 2: a copy of the source l is appended to a private segment g.
LEMMA CopyingCopy ==
  ASSUME TypeOK, Kept, Copying, NEW l \in cleft, NEW d, NEW g, CopyAdds(l, d, g),
         g = nextSeg \/ g \in Dest, Dest' = Dest \cup {g}, cleft' = cleft \ {l},
         ccur' \in clive' \cup {NoSeg}, chcur' \in chist' \cup {NoSeg},
         \/ IsCurrent(l) /\ moved' = moved \cup {<<l, d>>}
         \/ ~IsCurrent(l) /\ moved' = moved,
         cpc' # "idle", UNCHANGED <<cretain, csrc, corig, segs, act, commitSeq>>
  PROVE  Copying'
<1>1. /\ d \notin Locs /\ Locs' = Locs \cup {d}
      /\ \A m \in Locs : log'[m] = log[m]
      /\ log'[d].key = log[l].key /\ log'[d].seq = log[l].seq /\ log'[d].sup = log[l].sup
      /\ log'[d].seg = g
  BY Zenon DEF CopyAdds
<1>2. /\ nextSeg \in Nat \ {0} /\ nextSeg' \in Nat \ {0} /\ nextSeg <= nextSeg' /\ g < nextSeg'
      /\ commitSeq \in Nat /\ SeqMax \in Nat /\ commitSeq < SeqMax
  BY Zenon, RecordFacts DEF CopyAdds, TypeOK, ArenaType
<1>3. /\ csrc \subseteq corig /\ csrc \subseteq segs /\ act \notin corig
      /\ corig \subseteq 1 .. (nextSeg - 1) /\ Dest \subseteq 1 .. (nextSeg - 1)
      /\ Dest \cap segs = {} /\ Dest \cap corig = {} /\ cretain \in 0 .. commitSeq
  BY Zenon DEF Copying, SegmentsSound
<1>4. segs \subseteq 1 .. (nextSeg - 1) /\ \A m \in Locs : log[m].seg # nextSeg
  BY <1>2, RecordFacts DEF TypeOK, ArenaType, Kept, Base, LogBounded
<1>5. g \in 1 .. (nextSeg' - 1) /\ g \notin segs /\ g \notin corig /\ g \notin csrc
  <2>1. PICK a, b \in Nat : a = nextSeg /\ b = nextSeg' /\ a <= b
    BY Zenon, <1>2
  <2>2. g \in Nat \ {0}
    <3>1. g \in Dest => g \in Nat \ {0}
      BY <1>2, <1>3
    <3>2. QED
      BY Zenon, <1>2, <3>1
  <2>3. g \in 1 .. (b - 1) /\ a \notin 1 .. (a - 1)
    BY Zenon, <1>2, <2>1, <2>2, SegmentsBelow
  <2>4. QED
    BY Zenon, <1>3, <1>4, <2>1, <2>3
<1>6. SegmentsSound'
  <2>1. corig \subseteq 1 .. (nextSeg' - 1) /\ Dest \subseteq 1 .. (nextSeg' - 1)
    <3>1. PICK a, b \in Nat : a = nextSeg /\ b = nextSeg' /\ a <= b
      BY Zenon, <1>2
    <3>2. \A G : G \subseteq 1 .. (a - 1) => G \subseteq 1 .. (b - 1)
      BY <3>1, SegmentsBelow, 1 \in Nat \ {0}
    <3>3. QED
      BY Zenon, <1>3, <3>1, <3>2
  <2>2. Dest' \cap segs = {} /\ Dest' \cap corig = {} /\ Dest' \subseteq 1 .. (nextSeg' - 1)
    BY Zenon, <1>3, <1>5, <2>1
  <2>3. QED
    BY Zenon, <1>3, <2>1, <2>2 DEF SegmentsSound
<1>7. l \in Locs /\ Source(l)
  BY Zenon DEF Copying, SourcesSound, Source
<1>8. /\ \A m \in Locs : (Source(m)' <=> Source(m)) /\ (Copy(m)' <=> Copy(m))
      /\ ~Source(d)' /\ Copy(d)'
  BY Zenon, <1>1, <1>4, <1>5 DEF Source, Copy
<1>9. /\ \A m, n \in Locs : SameVersion(m, n)' <=> SameVersion(m, n)
      /\ \A m \in Locs : SameVersion(m, d)' <=> SameVersion(m, l)
      /\ \A m \in Locs : IsCurrent(m)' <=> IsCurrent(m)
      /\ IsCurrent(d)' <=> IsCurrent(l)
  BY Zenon, <1>1, <1>7 DEF SameVersion, IsCurrent
<1>10. SourcesSound'
  <2>1. \A m \in cleft' : Source(m)'
    BY Zenon, <1>8 DEF Copying, SourcesSound, Source
  <2>2. \A m \in Locs' : Source(m)' => log'[m].seq <= commitSeq
    BY Zenon, <1>1, <1>8 DEF Copying, SourcesSound
  <2>3. \A m \in Locs' : log'[m].seg \in corig \ csrc => ~IsCurrent(m)'
    BY Zenon, <1>1, <1>5, <1>9 DEF Copying, SourcesSound
  <2>4. QED
    BY Zenon, <2>1, <2>2, <2>3 DEF SourcesSound
<1>11. log[l].seq <= commitSeq /\ log[l].seq \in Nat
  BY Zenon, <1>7, RecordFacts DEF Copying, SourcesSound
<1>12. MovedSound'
  <2>1. ASSUME NEW x \in moved
        PROVE  /\ x = <<x[1], x[2]>> /\ Source(x[1])' /\ x[1] \notin cleft'
               /\ log'[x[1]].sup > log'[x[1]].seq
               /\ Copy(x[2])' /\ IsCurrent(x[2])' /\ SameVersion(x[1], x[2])'
               /\ x[2] \in Locs
    <3>1. /\ x = <<x[1], x[2]>> /\ Source(x[1]) /\ x[1] \notin cleft
          /\ log[x[1]].sup > log[x[1]].seq
          /\ Copy(x[2]) /\ IsCurrent(x[2]) /\ SameVersion(x[1], x[2])
      BY Zenon DEF Copying, MovedSound
    <3>2. x[1] \in Locs /\ x[2] \in Locs
      BY Zenon, <3>1 DEF Source, Copy
    <3>3. QED
      BY Zenon, <1>1, <1>8, <1>9, <3>1, <3>2
  <2>2. CASE moved' = moved
    <3>1. \A x, y \in moved : x[2] = y[2] => x = y
      BY Zenon DEF Copying, MovedSound
    <3>2. QED
      BY Zenon, <2>1, <2>2, <3>1 DEF MovedSound
  <2>3. CASE IsCurrent(l) /\ moved' = moved \cup {<<l, d>>}
    <3>1. PICK z : z = <<l, d>>
      BY Zenon
    <3>2. z[1] = l /\ z[2] = d
      BY Zenon, <3>1
    <3>3. /\ z = <<z[1], z[2]>> /\ Source(z[1])' /\ z[1] \notin cleft'
          /\ Copy(z[2])' /\ IsCurrent(z[2])' /\ SameVersion(z[1], z[2])'
      <4>1. SameVersion(l, l)
        BY Zenon DEF SameVersion
      <4>2. QED
        BY Zenon, <1>7, <1>8, <1>9, <2>3, <3>1, <3>2, <4>1
    <3>4. log'[z[1]].sup > log'[z[1]].seq
      BY <1>1, <1>2, <1>7, <1>11, <2>3, <3>2 DEF IsCurrent
    <3>5. \A x, y \in moved' : x[2] = y[2] => x = y
      <4>1. \A x, y \in moved : x[2] = y[2] => x = y
        BY Zenon DEF Copying, MovedSound
      <4>2. \A x \in moved : x[2] # d
        BY Zenon, <1>1, <2>1
      <4>3. QED
        BY Zenon, <2>3, <3>1, <3>2, <4>1, <4>2
    <3>6. moved' = moved \cup {z}
      BY Zenon, <2>3, <3>1
    <3>7. QED
      BY Zenon, <2>1, <3>3, <3>4, <3>5, <3>6 DEF MovedSound
  <2>4. QED
    BY Zenon, <2>2, <2>3
<1>13. moved \subseteq moved'
  OBVIOUS
<1>14. CopiesSound'
  <2>1. SUFFICES ASSUME NEW e \in Locs', Copy(e)', ~\E x \in moved' : x[2] = e
                 PROVE  /\ ~IsCurrent(e)'
                        /\ \E m \in Locs' : /\ Source(m)' /\ m \notin cleft'
                                            /\ SameVersion(m, e)' /\ log'[e].sup = log'[m].sup
    BY Zenon DEF CopiesSound
  <2>2. CASE e = d
    <3>1. ~IsCurrent(l)
      <4>1. IsCurrent(l) => <<l, d>> \in moved'
        OBVIOUS
      <4>2. <<l, d>>[2] = d
        OBVIOUS
      <4>3. QED
        BY Zenon, <2>1, <2>2, <4>1, <4>2
    <3>2. SameVersion(l, d)' /\ Source(l)' /\ l \notin cleft' /\ l \in Locs'
      BY Zenon, <1>1, <1>7, <1>8, <1>9 DEF SameVersion
    <3>3. QED
      BY Zenon, <1>1, <1>7, <1>9, <2>2, <3>1, <3>2
  <2>3. CASE e \in Locs
    <3>1. Copy(e) /\ ~\E x \in moved : x[2] = e
      BY Zenon, <1>8, <1>13, <2>1, <2>3
    <3>2. ~IsCurrent(e)
      BY Zenon, <2>3, <3>1 DEF Copying, CopiesSound
    <3>3. PICK m \in Locs : /\ Source(m) /\ m \notin cleft
                            /\ SameVersion(m, e) /\ log[e].sup = log[m].sup
      BY Zenon, <2>3, <3>1 DEF Copying, CopiesSound
    <3>4. QED
      BY Zenon, <1>1, <1>8, <1>9, <2>3, <3>2, <3>3
  <2>4. QED
    BY Zenon, <1>1, <2>2, <2>3
<1>15. SourcesCopied'
  <2>1. SUFFICES ASSUME NEW m \in Locs, Source(m), m \notin cleft'
                 PROVE  \/ \E x \in moved' : x[1] = m
                        \/ ~IsCurrent(m)' /\ log'[m].sup <= cretain
                        \/ /\ ~IsCurrent(m)'
                           /\ \E e \in Locs' : Copy(e)' /\ SameVersion(m, e)' /\ log'[e].sup = log'[m].sup
    BY Zenon, <1>1, <1>8 DEF SourcesCopied
  <2>2. CASE m = l
    <3>1. CASE IsCurrent(l)
      <4>1. <<l, d>> \in moved' /\ <<l, d>>[1] = l
        BY Zenon, <3>1
      <4>2. QED
        BY Zenon, <2>2, <4>1
    <3>2. CASE ~IsCurrent(l)
      <4>1. SameVersion(l, d)' /\ Copy(d)' /\ d \in Locs' /\ log'[d].sup = log'[l].sup
        BY Zenon, <1>1, <1>7, <1>8, <1>9 DEF SameVersion
      <4>2. QED
        BY Zenon, <1>7, <1>9, <2>2, <3>2, <4>1
    <3>3. QED
      BY Zenon, <3>1, <3>2
  <2>3. CASE m \notin cleft
    <3>1. \/ \E x \in moved : x[1] = m
          \/ ~IsCurrent(m) /\ log[m].sup <= cretain
          \/ /\ ~IsCurrent(m)
             /\ \E e \in Locs : Copy(e) /\ SameVersion(m, e) /\ log[e].sup = log[m].sup
      BY Zenon, <2>1, <2>3 DEF Copying, SourcesCopied
    <3>2. QED
      BY Zenon, <1>1, <1>8, <1>9, <1>13, <2>1, <3>1
  <2>4. QED
    BY Zenon, <2>1, <2>2, <2>3
<1>16. CopiesDistinct'
  <2>1. ASSUME NEW e \in Locs, Copy(e), SameVersion(l, e),
               log[l].sup > log[l].seq, log[e].sup > log[e].seq
        PROVE  FALSE
    <3>1. PICK m \in Locs : /\ Source(m) /\ m \notin cleft /\ SameVersion(m, e)
                            /\ log[m].sup > log[m].seq
      <4>1. CASE \E x \in moved : x[2] = e
        <5>1. PICK x \in moved : x[2] = e
          BY Zenon, <4>1
        <5>2. /\ Source(x[1]) /\ x[1] \notin cleft /\ SameVersion(x[1], e)
              /\ log[x[1]].sup > log[x[1]].seq
          BY Zenon, <5>1 DEF Copying, MovedSound
        <5>3. QED
          BY Zenon, <5>2 DEF Source
      <4>2. CASE ~\E x \in moved : x[2] = e
        <5>1. PICK m \in Locs : /\ Source(m) /\ m \notin cleft
                                /\ SameVersion(m, e) /\ log[e].sup = log[m].sup
          BY Zenon, <2>1, <4>2 DEF Copying, CopiesSound
        <5>2. QED
          BY Zenon, <2>1, <5>1 DEF SameVersion
      <4>3. QED
        BY Zenon, <4>1, <4>2
    <3>2. Live(m) /\ Live(l)
      BY Zenon, <1>3, <1>7, <3>1 DEF Live, Source
    <3>3. m = l
      BY Zenon, <1>7, <2>1, <3>1, <3>2 DEF SameVersion, Kept, Base, VersionsDistinct
    <3>4. QED
      BY Zenon, <3>1, <3>3
  <2>2. SUFFICES ASSUME NEW a \in Locs', NEW b \in Locs', Copy(a)', Copy(b)', SameVersion(a, b)',
                        log'[a].sup > log'[a].seq, log'[b].sup > log'[b].seq
                 PROVE  a = b
    BY Zenon DEF CopiesDistinct
  <2>3. ASSUME NEW e \in Locs, Copy(e)', log'[e].key = log'[d].key, log'[e].seq = log'[d].seq,
               log'[d].sup > log'[d].seq, log'[e].sup > log'[e].seq
        PROVE  FALSE
    <3>1. SameVersion(l, e)
      BY Zenon, <1>1, <2>3 DEF SameVersion
    <3>2. QED
      BY Zenon, <1>1, <1>8, <2>1, <2>3, <3>1
  <2>4. CASE a \in Locs /\ b \in Locs
    BY Zenon, <1>1, <1>8, <1>9, <2>2, <2>4 DEF Copying, CopiesDistinct
  <2>5. QED
    BY Zenon, <1>1, <2>2, <2>3, <2>4 DEF SameVersion
<1>17. QED
  BY Zenon, <1>6, <1>10, <1>12, <1>14, <1>15, <1>16 DEF Copying

-----------------------------------------------------------------------------
(* The types and the lock. *)

\* Who holds the lock, for the steps a compaction runs beside.
LEMMA LockStep == ASSUME TypeOK, LockSound, Traffic \/ Sealing \/ Reclaim PROVE LockSound'
<1>1. CASE LockBatch \/ ApplyBatch \/ UnlockBatch
  BY Zenon, <1>1, LockBatchStep
<1>2. ASSUME NEW k \in Keys, Delete(k) PROVE LockSound'
  <2>1. lock = Free /\ UNCHANGED lockvars
    BY Zenon, <1>2 DEF Delete, section, txn, lockvars
  <2>2. QED
    BY Zenon, <2>1, LockKept
<1>3. ASSUME NEW t \in Txns,
             \/ Begin(t) \/ TxnGet(t) \/ LockTxn(t) \/ UnlockTxn(t)
             \/ \E k \in Keys : ApplyTxn(t, k) \/ \E op \in {"put", "del"} : TxnWrite(t, k, op)
      PROVE  LockSound'
  BY Zenon, <1>3, LockTxnOpen, LockUnlockTxn, LockApplyTxn
<1>4. ASSUME NEW p \in Scanners, ScanBegin(p) \/ ScanVisit(p) \/ ScanEnd(p) PROVE LockSound'
  <2>1. UNCHANGED lockvars /\ commitSeq' = commitSeq
    BY Zenon, <1>4 DEF ScanBegin, ScanVisit, ScanEnd, section, txn, lockvars
  <2>2. QED
    BY Zenon, <2>1, LockKept
<1>5. CASE Sealing
  <2>1. UNCHANGED lockvars /\ commitSeq' = commitSeq
    BY Zenon, <1>5 DEF Sealing, SealBegin, SealIndex, Evict, section, txn, lockvars
  <2>2. QED
    BY Zenon, <2>1, LockKept
<1>6. CASE Reclaim
  <2>1. UNCHANGED lockvars /\ commitSeq' = commitSeq
    BY Zenon, <1>6 DEF Reclaim, section, txn, lockvars
  <2>2. QED
    BY Zenon, <2>1, LockKept
<1>7. QED
  BY Zenon, <1>1, <1>2, <1>3, <1>4, <1>5, <1>6 DEF Traffic

\* Copies are records, and phases 1 and 2 touch nothing else but the append
\* target.
LEMMA TypeCopy ==
  ASSUME TypeOK, log' \in Seq(RecordType), Locs \subseteq Locs',
         nextSeg' \in Nat \ {0}, nextSeg <= nextSeg', act' \in segs \cup {NoSeg},
         UNCHANGED <<bucket, head, segs, count, seal, commitSeq, gcFloor, section, txn, scan, hist>>
  PROVE  TypeOK'
<1>1. SealType'
  BY Zenon, SealTypeKept
<1>2. TxnType' /\ ScanType'
  BY RecordFacts, TxnTypeKept, ScanTypeKept
<1>3. ArenaType'
  <2>1. nextSeg \in Nat /\ bucket \in [Buckets -> SUBSET Locs] /\ head \in [Buckets -> Locs \cup {NoLoc}]
        /\ segs \subseteq 1 .. (nextSeg - 1) /\ count \in Int
    BY Zenon DEF TypeOK, ArenaType
  <2>2. bucket \in [Buckets -> SUBSET Locs']
    BY Zenon, <2>1
  <2>3. head \in [Buckets -> Locs' \cup {NoLoc}]
    BY Zenon, <2>1
  <2>4. segs \subseteq 1 .. (nextSeg' - 1)
    <3>1. PICK a, b \in Nat : a = nextSeg /\ b = nextSeg' /\ a <= b
      BY Zenon, <2>1
    <3>2. \A G : G \subseteq 1 .. (a - 1) => G \subseteq 1 .. (b - 1)
      BY <3>1, SegmentsBelow, 1 \in Nat \ {0}
    <3>3. QED
      BY Zenon, <2>1, <3>1, <3>2
  <2>5. QED
    BY Zenon, <2>1, <2>2, <2>3, <2>4 DEF ArenaType
<1>4. ClockType' /\ SectionType'
  BY Zenon DEF TypeOK, ClockType, SectionType, section
<1>5. QED
  BY Zenon, <1>1, <1>2, <1>3, <1>4 DEF TypeOK

\* An install leaves the fields of the shard their types.
LEMMA TypeInstall ==
  ASSUME TypeOK, LockSound, Kept, Copying, CompactInstall, count' \in Int PROVE TypeOK'
<1>1. /\ Installing
      /\ bucket' = [h \in Buckets |-> {l \in Installed : Hash[log[l].key] = h}]
      /\ head' \in [Buckets -> Locs \cup {NoLoc}]
      /\ act' = IF ~Persistent /\ ccur # NoSeg THEN ccur ELSE act
      /\ gcFloor' = Max2(gcFloor, cretain)
      /\ UNCHANGED <<nextSeg, seal, commitSeq, section, txn, scan, hist>>
  BY Zenon DEF CompactInstall, Install, Installing, Installed
<1>2. log' \in Seq(RecordType) /\ Locs' = Locs
  BY Zenon, <1>1, TransferDoes DEF Installing, Copying
<1>3. Installed \subseteq Locs
  BY Zenon, <1>1, InstalledIsCurrent
<1>4. segs' \subseteq 1 .. (nextSeg - 1) /\ act' \in segs' \cup {NoSeg}
  <2>1. segs \subseteq 1 .. (nextSeg - 1) /\ act \in segs \cup {NoSeg}
    BY Zenon DEF TypeOK, ArenaType
  <2>2. /\ clive \cup chist \subseteq 1 .. (nextSeg - 1)
        /\ csrc \subseteq corig /\ act \notin corig /\ ccur \in clive \cup {NoSeg}
    BY Zenon DEF Copying, SegmentsSound, Dest
  <2>3. segs' = (segs \ csrc) \cup clive \cup chist
    BY Zenon, <1>1 DEF Installing
  <2>4. QED
    BY Zenon, <1>1, <2>1, <2>2, <2>3
<1>5. ArenaType'
  <2>1. bucket' \in [Buckets -> SUBSET Locs]
    BY Zenon, <1>1, <1>3
  <2>2. nextSeg \in Nat \ {0}
    BY Zenon DEF TypeOK, ArenaType
  <2>3. QED
    BY Zenon, <1>1, <1>2, <1>4, <2>1, <2>2 DEF ArenaType
<1>6. ClockType'
  <2>1. gcFloor \in 0 .. commitSeq /\ cretain \in 0 .. commitSeq
    BY Zenon DEF TypeOK, ClockType, Copying, SegmentsSound
  <2>2. gcFloor' \in 0 .. commitSeq
    BY Zenon, <1>1, <2>1 DEF Max2
  <2>3. QED
    BY Zenon, <1>1, <2>2 DEF TypeOK, ClockType
<1>7. SealType' /\ SectionType' /\ TxnType' /\ ScanType'
  BY Zenon, <1>1, <1>2 DEF TypeOK, SealType, SectionType, TxnType, ScanType, seal, section, txn
<1>8. QED
  BY Zenon, <1>5, <1>6, <1>7 DEF TypeOK

-----------------------------------------------------------------------------
(* Conflict detection beside a compaction. *)

\* The compaction and the scans decide no transaction.
LEMMA NoLostKept ==
  ASSUME NoLostUpdate, UNCHANGED <<lock, out, commitSeq, hist>>,
         lock \in Txns => snap'[lock] = snap[lock]
  PROVE  NoLostUpdate'
BY DEF NoLostUpdate, VersionAt, ChangedSince

\* With no transaction in its commit there is nothing to show.
LEMMA NoLostUnlocked == ASSUME lock' \notin Txns PROVE NoLostUpdate'
BY Zenon DEF NoLostUpdate

\* A live key that nobody has written in this commit has a current record,
\* which conflictSince finds and by which it judges.
LEMMA LiveKeyJudged ==
  ASSUME TypeOK, Kept, NEW k \in Keys, NEW s \in Nat, pend[k] = "none",
         VersionAt(k, commitSeq) # {}, ~ConflictSince(k, s)
  PROVE  ~ChangedSince(k, s)
<1>1. /\ commitSeq \in Nat /\ gcFloor \in Nat /\ gcFloor <= commitSeq /\ commitSeq < SeqMax
      /\ SeqMax \in Nat
  BY Zenon, RecordFacts
<1>2. PICK i \in 1 .. commitSeq : /\ hist[i][k] = "put"
                                  /\ \A j \in (i + 1) .. commitSeq : hist[j][k] = "none"
  BY Zenon DEF VersionAt
<1>3. \A j \in (i + 1) .. gcFloor : hist[j][k] = "none"
  BY <1>1, <1>2
<1>4. PICK l \in Locs : Live(l) /\ log[l].key = k /\ log[l].seq = i /\ log[l].sup > i
  BY Zenon, <1>2, <1>3 DEF Kept, Base, PutsStored
<1>5. IsCurrent(l)
  <2>1. Fits(log[l], commitSeq, hist, pend) /\ log[l].sup \in Nat
    BY Zenon, <1>4, RecordFacts DEF Kept, Base, RecordsMatchHistory
  <2>2. SUFFICES ASSUME log[l].sup # SeqMax PROVE FALSE
    BY Zenon DEF IsCurrent
  <2>3. log[l].sup <= commitSeq + 1
    BY Zenon, <2>1, <2>2 DEF Fits
  <2>4. CASE log[l].sup = commitSeq + 1
    BY Zenon, <1>4, <2>1, <2>2, <2>4 DEF Fits
  <2>5. CASE log[l].sup <= commitSeq
    <3>1. hist[log[l].sup][k] # "none"
      BY Zenon, <1>4, <2>1, <2>2, <2>5 DEF Fits
    <3>2. log[l].sup \in (i + 1) .. commitSeq
      BY <1>4, <2>1, <2>5
    <3>3. QED
      BY Zenon, <1>2, <3>1, <3>2
  <2>6. QED
    BY <1>1, <2>1, <2>3, <2>4, <2>5
<1>6. l \in ChainOf(k) \cup SealedOf(k)
  <2>1. l \in bucket[Hash[k]] \/ (log[l].seg \in indexed /\ log[l].seg # act)
    BY Zenon, <1>4, <1>5 DEF Kept, Base, CurrentReachable
  <2>2. QED
    BY Zenon, <1>4, <2>1 DEF ChainOf, SealedOf, Live
<1>7. i <= s
  BY <1>4, <1>6, <1>1 DEF ConflictSince, ChangedAfter
<1>8. QED
  BY <1>1, <1>2, <1>7 DEF ChangedSince

\* applyTxn accepts a write of a live key only if nobody changed it since
\* (conflictSince, the fast path).
LEMMA NoLostApply ==
  ASSUME TypeOK, LockSound, Kept, NoLostUpdate, NEW t \in Txns, NEW k \in Keys, ApplyTxn(t, k)
  PROVE  NoLostUpdate'
<1>1. /\ lock = t /\ lock' = t /\ UNCHANGED <<commitSeq, snap, hist>>
      /\ buf[t][k] # "none" /\ out[t][k] = "none"
  BY Zenon DEF ApplyTxn
<1>2. out \in [Txns -> [Keys -> Outcomes]] /\ commitSeq \in Nat
  BY DEF TypeOK, TxnType, ClockType
<1>3. \A x \in Keys : x # k => out'[t][x] = out[t][x]
  BY Zenon, <1>2 DEF ApplyTxn, Decide
<1>4. ASSUME out'[t][k] = "ok", VersionAt(k, commitSeq) # {} PROVE ~ChangedSince(k, snap[t])
  <2>1. fast \/ ~ConflictSince(k, snap[t])
    <3>1. SUFFICES ASSUME Decide(t, k, "conflict") PROVE FALSE
      BY Zenon DEF ApplyTxn
    <3>2. out'[t][k] = "conflict"
      BY Zenon, <1>2, <3>1 DEF Decide
    <3>3. QED
      BY Zenon, <1>4, <3>2
  <2>2. CASE fast
    <3>1. snap[t] = commitSeq
      BY Zenon, <1>1, <2>2 DEF LockSound
    <3>2. QED
      BY <1>2, <3>1 DEF ChangedSince
  <2>3. CASE ~ConflictSince(k, snap[t])
    <3>1. pend[k] = "none"
      BY Zenon, <1>1 DEF LockSound
    <3>2. snap[t] \in Nat
      <4>1. buf[t] # Quiet
        BY Zenon, <1>1 DEF Quiet
      <4>2. snap[t] \in -1 .. commitSeq /\ snap[t] # -1
        BY Zenon, <4>1 DEF LockSound, TypeOK, TxnType, NoSnap
      <4>3. QED
        BY <1>2, <4>2
    <3>3. QED
      BY Zenon, <1>4, <2>3, <3>1, <3>2, LiveKeyJudged
  <2>4. QED
    BY Zenon, <2>1, <2>2, <2>3
<1>5. \A x \in Keys : /\ VersionAt(x, commitSeq)' = VersionAt(x, commitSeq)
                      /\ ChangedSince(x, snap[t])' <=> ChangedSince(x, snap[t])
  BY Zenon, <1>1 DEF VersionAt, ChangedSince
<1>6. \A x \in Keys : out'[t][x] = "ok" /\ VersionAt(x, commitSeq) # {} => ~ChangedSince(x, snap[t])
  BY Zenon, <1>1, <1>3, <1>4 DEF NoLostUpdate
<1>7. QED
  BY Zenon, <1>1, <1>5, <1>6 DEF NoLostUpdate

\* No update of a live key is lost beside a compaction.
LEMMA NoLostStep ==
  ASSUME TypeOK, LockSound, Kept, NoLostUpdate, Traffic \/ Sealing \/ Reclaim
  PROVE  NoLostUpdate'
<1>1. CASE LockBatch \/ ApplyBatch \/ UnlockBatch
  BY Zenon, <1>1, HolderAssumption, NoLostUnlocked DEF LockBatch, ApplyBatch, UnlockBatch
<1>2. ASSUME NEW k \in Keys, Delete(k) PROVE NoLostUpdate'
  BY Zenon, <1>2, HolderAssumption, NoLostUnlocked DEF Delete, section
<1>3. ASSUME NEW t \in Txns, Begin(t) PROVE NoLostUpdate'
  BY Zenon, <1>3, NoLostKept DEF Begin, section
<1>4. ASSUME NEW t \in Txns,
             TxnGet(t) \/ \E k \in Keys : \E op \in {"put", "del"} : TxnWrite(t, k, op)
      PROVE  NoLostUpdate'
  <2>1. UNCHANGED <<lock, out, commitSeq, gcFloor, hist>> /\ lock # t
    BY Zenon, <1>4, HolderAssumption DEF TxnGet, TxnWrite, Touch, section
  <2>2. lock \in Txns => snap'[lock] = snap[lock]
    BY Zenon, <1>4, <2>1 DEF TxnGet, TxnWrite, Touch, TypeOK, TxnType
  <2>3. QED
    BY Zenon, <2>1, <2>2, NoLostKept
<1>5. ASSUME NEW t \in Txns, LockTxn(t) PROVE NoLostUpdate'
  <2>1. \A x \in Txns : out'[x] = Quiet
    BY Zenon, <1>5, HolderAssumption DEF LockTxn, txn, LockSound
  <2>2. \A x \in Txns, k \in Keys : out'[x][k] = "none"
    BY Zenon, <2>1 DEF Quiet
  <2>3. QED
    BY Zenon, <2>2 DEF NoLostUpdate
<1>6. ASSUME NEW t \in Txns, UnlockTxn(t) PROVE NoLostUpdate'
  BY Zenon, <1>6, HolderAssumption, NoLostUnlocked DEF UnlockTxn
<1>7. ASSUME NEW t \in Txns, NEW k \in Keys, ApplyTxn(t, k) PROVE NoLostUpdate'
  BY Zenon, <1>7, NoLostApply
<1>8. ASSUME NEW p \in Scanners, ScanBegin(p) \/ ScanVisit(p) \/ ScanEnd(p) PROVE NoLostUpdate'
  BY Zenon, <1>8, NoLostKept DEF ScanBegin, ScanVisit, ScanEnd, section, txn
<1>9. CASE Sealing
  BY Zenon, <1>9, NoLostKept DEF Sealing, SealBegin, SealIndex, Evict, section, txn
<1>10. CASE Reclaim
  BY Zenon, <1>10, NoLostKept DEF Reclaim, section, txn
<1>11. QED
  BY Zenon, <1>1, <1>2, <1>3, <1>4, <1>5, <1>6, <1>7, <1>8, <1>9, <1>10 DEF Traffic

-----------------------------------------------------------------------------
(* Every step preserves the invariant. *)

\* A shard that starts empty satisfies it.
LEMMA CInvInit == ASSUME CInit PROVE CInv
<1>1. TypeOK
  BY Zenon, TypeInit DEF CInit
<1>2. Inv
  BY Zenon, InvInit DEF CInit
<1>3. Base /\ LockSound
  BY Zenon, <1>2, CoreBase DEF Inv
<1>4. Locs = {} /\ \A h \in Buckets : bucket[h] = {}
  BY DEF CInit, Init, Locs
<1>5. SealSound
  BY Zenon DEF CInit, Init, SealSound
<1>6. HeadsCurrent
  BY Zenon, <1>4 DEF HeadsCurrent
<1>7. PendingPutsStored
  BY Zenon DEF CInit, Init, Quiet, PendingPutsStored
<1>8. Copying
  <2>1. Dest = {} /\ cretain \in 0 .. commitSeq /\ csrc = {} /\ corig = {}
    BY DEF CInit, Init, Dest
  <2>2. SegmentsSound
    BY Zenon, <2>1 DEF CInit, Init, SegmentsSound, NoSeg
  <2>3. SourcesSound /\ MovedSound /\ CopiesSound /\ SourcesCopied /\ CopiesDistinct
    BY Zenon, <1>4 DEF CInit, SourcesSound, MovedSound, CopiesSound, SourcesCopied, CopiesDistinct
  <2>4. QED
    BY Zenon, <2>2, <2>3 DEF Copying
<1>9. NoLostUpdate
  BY Zenon, HolderAssumption DEF CInit, Init, NoLostUpdate
<1>10. QED
  BY Zenon, <1>1, <1>3, <1>5, <1>6, <1>7, <1>8, <1>9 DEF CInv, Kept

\* A step that leaves the shard and the compaction alone.
LEMMA CInvStutter == ASSUME CInv, UNCHANGED allvars PROVE CInv'
<1>1. UNCHANGED vars /\ UNCHANGED cvars
  BY Zenon DEF allvars
<1>2. TypeOK' /\ LockSound'
  <2>1. TypeOK /\ LockSound
    BY Zenon DEF CInv
  <2>2. QED
    BY Zenon, <1>1, <2>1, TypeNext, LockKept DEF vars, lockvars
<1>3. Kept'
  BY Zenon, <1>1, KeptSame DEF CInv, vars, corevars
<1>4. Copying'
  <2>1. Beside
    BY <1>1, RecordFacts DEF CInv, TypeOK, ArenaType, Beside, vars, Locs
  <2>2. QED
    BY Zenon, <1>1, <2>1, BesideCopying DEF CInv
<1>5. NoLostUpdate'
  BY Zenon, <1>1, NoLostKept DEF CInv, vars
<1>6. QED
  BY Zenon, <1>2, <1>3, <1>4, <1>5 DEF CInv

\* Clients and the sealing pass, which run at any moment of a compaction.
LEMMA CInvBeside ==
  ASSUME EvictionsSafe, CInv, Traffic \/ Sealing, UNCHANGED cvars PROVE CInv'
<1>1. TypeOK /\ LockSound /\ Kept /\ Copying /\ NoLostUpdate
  BY Zenon DEF CInv
<1>2. TypeOK' /\ LockSound' /\ NoLostUpdate'
  BY Zenon, <1>1, TypeNext, LockStep, NoLostStep DEF Next
<1>3. Kept'
  BY Zenon, <1>1, KeptTraffic, KeptSeal, KeptEvict DEF Sealing
<1>4. Copying'
  BY Zenon, <1>1, StepBeside, BesideCopying
<1>5. QED
  BY Zenon, <1>2, <1>3, <1>4 DEF CInv

\* Reclaim, which maintMu keeps out of a compaction.
LEMMA CInvReclaim ==
  ASSUME CInv, cpc = "idle", Reclaim, UNCHANGED cvars PROVE CInv'
<1>1. TypeOK /\ LockSound /\ Kept /\ Copying /\ NoLostUpdate
  BY Zenon DEF CInv
<1>2. TypeOK' /\ LockSound' /\ NoLostUpdate'
  BY Zenon, <1>1, TypeNext, LockStep, NoLostStep DEF Next
<1>3. Kept'
  BY Zenon, <1>1, KeptReclaim
<1>4. Copying'
  <2>1. /\ csrc' = {} /\ corig' = {} /\ clive' = {} /\ chist' = {} /\ cleft' = {} /\ moved' = {}
        /\ ccur' = NoSeg /\ chcur' = NoSeg
    BY Zenon, <1>1, IdleEmpty DEF cvars
  <2>2. cretain' \in 0 .. commitSeq'
    BY Zenon, <1>1 DEF Reclaim, cvars, Copying, SegmentsSound
  <2>3. QED
    BY Zenon, <2>1, <2>2, NothingCopied
<1>5. QED
  BY Zenon, <1>2, <1>3, <1>4 DEF CInv

\* A step of the compaction leaves the lock's state and the verdicts alone.
LEMMA LockCompacting ==
  ASSUME LockSound, NoLostUpdate, UNCHANGED <<section, txn, commitSeq, hist>>
  PROVE  LockSound' /\ NoLostUpdate'
<1>1. UNCHANGED lockvars /\ UNCHANGED <<lock, out, snap>>
  BY Zenon DEF section, txn, lockvars
<1>2. QED
  BY Zenon, <1>1, LockKept, NoLostKept

\* Phase 1.
LEMMA CInvBegin == ASSUME CInv, CompactBegin PROVE CInv'
<1>1. TypeOK /\ LockSound /\ Kept /\ Copying /\ NoLostUpdate
  BY Zenon DEF CInv
<1>2. TypeOK'
  <2>1. /\ log' = log /\ nextSeg' = nextSeg /\ act' = NoSeg
        /\ UNCHANGED <<bucket, head, segs, count, seal, commitSeq, gcFloor, section, txn, scan, hist>>
    BY Zenon DEF CompactBegin
  <2>2. log \in Seq(RecordType) /\ nextSeg \in Nat \ {0} /\ nextSeg <= nextSeg /\ Locs' = Locs
    BY <1>1, <2>1 DEF TypeOK, ArenaType, Locs
  <2>3. QED
    BY Zenon, <1>1, <2>1, <2>2, TypeCopy
<1>3. LockSound' /\ NoLostUpdate'
  BY Zenon, <1>1, LockCompacting DEF CompactBegin
<1>4. Kept' /\ Copying'
  BY Zenon, <1>1, KeptBegin, CopyingBegin
<1>5. QED
  BY Zenon, <1>2, <1>3, <1>4 DEF CInv

\* A record copied to the segment cur of one of the streams, or to a fresh one.
LEMMA CInvCopied ==
  ASSUME CInv, NEW l \in cleft, NEW cur \in Dest \cup {NoSeg}, NEW g,
         g = IF Full(cur) THEN nextSeg ELSE cur, CopyTo(l, cur),
         Dest' = Dest \cup {g}, cleft' = cleft \ {l},
         ccur' \in clive' \cup {NoSeg}, chcur' \in chist' \cup {NoSeg},
         \/ IsCurrent(l) /\ moved' = moved \cup {<<l, Len(log) + 1>>}
         \/ ~IsCurrent(l) /\ moved' = moved,
         cpc' # "idle", UNCHANGED <<cretain, csrc, corig>>,
         UNCHANGED <<bucket, head, segs, act, count, seal, commitSeq, gcFloor, section, txn, scan, hist>>
  PROVE  CInv'
<1>1. TypeOK /\ LockSound /\ Kept /\ Copying /\ NoLostUpdate
  BY Zenon DEF CInv
<1>2. /\ nextSeg \in Nat \ {0} /\ segs \subseteq 1 .. (nextSeg - 1) /\ act \in segs \cup {NoSeg}
      /\ Dest \subseteq 1 .. (nextSeg - 1) /\ Dest \cap segs = {} /\ l \in Locs
  BY Zenon, <1>1 DEF TypeOK, ArenaType, Copying, SegmentsSound, SourcesSound, Source
<1>3. cur \in 0 .. (nextSeg - 1)
  BY <1>2 DEF NoSeg
<1>4. PICK d : d = Len(log) + 1
  BY Zenon
<1>5. g \in Nat \ {0} /\ CopyAdds(l, d, g)
  BY Zenon, <1>1, <1>2, <1>3, <1>4, CopyDoes
<1>6. g = nextSeg \/ g \in Dest
  BY Zenon DEF Full
<1>7. g \notin segs
  <2>1. nextSeg \notin segs
    BY <1>2
  <2>2. QED
    BY Zenon, <1>2, <1>6, <2>1
<1>8. TypeOK'
  <2>1. /\ log' \in Seq(RecordType) /\ Locs \subseteq Locs'
        /\ nextSeg' \in Nat \ {0} /\ nextSeg <= nextSeg'
    BY Zenon, <1>5 DEF CopyAdds
  <2>2. QED
    BY Zenon, <1>1, <1>2, <2>1, TypeCopy
<1>9. LockSound' /\ NoLostUpdate'
  BY Zenon, <1>1, LockCompacting
<1>10. Kept'
  <2>1. pend' = pend
    BY Zenon DEF section
  <2>2. QED
    BY Zenon, <1>1, <1>2, <1>5, <1>7, <2>1, KeptCopy
<1>11. Copying'
  <2>1. \/ IsCurrent(l) /\ moved' = moved \cup {<<l, d>>}
        \/ ~IsCurrent(l) /\ moved' = moved
    BY Zenon, <1>4
  <2>2. QED
    BY Zenon, <1>1, <1>5, <1>6, <2>1, CopyingCopy
<1>12. QED
  BY Zenon, <1>8, <1>9, <1>10, <1>11 DEF CInv

\* A record that ended before the window is passed over.
LEMMA CInvPassed ==
  ASSUME CInv, NEW l \in cleft, CopyNothing(l), cleft' = cleft \ {l},
         UNCHANGED <<cpc, cretain, csrc, corig>>,
         UNCHANGED <<bucket, head, segs, act, count, seal, commitSeq, gcFloor, section, txn, scan, hist>>
  PROVE  CInv'
<1>1. TypeOK /\ LockSound /\ Kept /\ Copying /\ NoLostUpdate
  BY Zenon DEF CInv
<1>2. UNCHANGED <<log, nextSeg, moved, clive, chist, ccur, chcur>>
  BY Zenon DEF CopyNothing
<1>3. TypeOK'
  <2>1. log \in Seq(RecordType) /\ nextSeg \in Nat \ {0} /\ nextSeg <= nextSeg
        /\ act \in segs \cup {NoSeg} /\ Locs' = Locs
    BY <1>1, <1>2 DEF TypeOK, ArenaType, Locs
  <2>2. QED
    BY Zenon, <1>1, <1>2, <2>1, TypeCopy
<1>4. LockSound' /\ NoLostUpdate'
  BY Zenon, <1>1, LockCompacting
<1>5. Kept'
  BY Zenon, <1>1, <1>2, KeptSame DEF corevars, seal, section
<1>6. Copying'
  <2>1. /\ Dest' = Dest /\ Locs' = Locs
        /\ \A m \in Locs : (Source(m)' <=> Source(m)) /\ (Copy(m)' <=> Copy(m))
                           /\ (IsCurrent(m)' <=> IsCurrent(m))
    BY Zenon, <1>2 DEF Dest, Locs, Source, Copy, IsCurrent
  <2>2. SegmentsSound' /\ CopiesDistinct'
    BY Zenon, <1>1, <1>2, <2>1 DEF Copying, SegmentsSound, CopiesDistinct, SameVersion
  <2>3. SourcesSound'
    BY Zenon, <1>1, <1>2, <2>1 DEF Copying, SourcesSound, Source
  <2>4. MovedSound'
    BY Zenon, <1>1, <1>2, <2>1 DEF Copying, MovedSound, Source, Copy, SameVersion, IsCurrent
  <2>5. CopiesSound'
    BY Zenon, <1>1, <1>2, <2>1 DEF Copying, CopiesSound, SameVersion
  <2>6. SourcesCopied'
    <3>1. ~IsCurrent(l) /\ log[l].sup <= cretain
      BY Zenon DEF CopyNothing
    <3>2. SUFFICES ASSUME NEW m \in Locs, Source(m), m \notin cleft \/ m = l
                   PROVE  \/ \E x \in moved : x[1] = m
                          \/ ~IsCurrent(m) /\ log[m].sup <= cretain
                          \/ /\ ~IsCurrent(m)
                             /\ \E d \in Locs : Copy(d) /\ SameVersion(m, d) /\ log[d].sup = log[m].sup
      BY Zenon, <1>2, <2>1 DEF SourcesCopied, SameVersion
    <3>3. QED
      BY Zenon, <1>1, <3>1, <3>2 DEF Copying, SourcesCopied
  <2>7. QED
    BY Zenon, <2>2, <2>3, <2>4, <2>5, <2>6 DEF Copying
<1>7. QED
  BY Zenon, <1>3, <1>4, <1>5, <1>6 DEF CInv

\* Phase 2.
LEMMA CInvCopy == ASSUME CInv, CompactCopy PROVE CInv'
<1>1. PICK l \in cleft : /\ CopyLive(l) \/ CopyHistory(l) \/ CopyNothing(l)
                         /\ cleft' = cleft \ {l}
  BY Zenon DEF CompactCopy
<1>2. /\ cpc' # "idle" /\ UNCHANGED <<cpc, cretain, csrc, corig>>
      /\ UNCHANGED <<bucket, head, segs, act, count, seal, commitSeq, gcFloor, section, txn, scan, hist>>
  BY Zenon DEF CompactCopy
<1>3. ccur \in clive \cup {NoSeg} /\ chcur \in chist \cup {NoSeg}
  BY Zenon DEF CInv, Copying, SegmentsSound
<1>4. CASE CopyLive(l)
  <2>1. PICK g : g = IF Full(ccur) THEN nextSeg ELSE ccur
    BY Zenon
  <2>2. /\ IsCurrent(l) /\ CopyTo(l, ccur) /\ moved' = moved \cup {<<l, Len(log) + 1>>}
        /\ ccur' = g /\ clive' = clive \cup {g} /\ chist' = chist /\ chcur' = chcur
    BY Zenon, <1>4, <2>1 DEF CopyLive
  <2>3. /\ Dest' = Dest \cup {g} /\ ccur \in Dest \cup {NoSeg}
        /\ ccur' \in clive' \cup {NoSeg} /\ chcur' \in chist' \cup {NoSeg}
    BY Zenon, <1>3, <2>2 DEF Dest
  <2>4. QED
    BY Zenon, <1>1, <1>2, <2>1, <2>2, <2>3, CInvCopied
<1>5. CASE CopyHistory(l)
  <2>1. PICK g : g = IF Full(chcur) THEN nextSeg ELSE chcur
    BY Zenon
  <2>2. /\ ~IsCurrent(l) /\ CopyTo(l, chcur) /\ moved' = moved
        /\ chcur' = g /\ chist' = chist \cup {g} /\ clive' = clive /\ ccur' = ccur
    BY Zenon, <1>5, <2>1 DEF CopyHistory
  <2>3. /\ Dest' = Dest \cup {g} /\ chcur \in Dest \cup {NoSeg}
        /\ ccur' \in clive' \cup {NoSeg} /\ chcur' \in chist' \cup {NoSeg}
    BY Zenon, <1>3, <2>2 DEF Dest
  <2>4. QED
    BY Zenon, <1>1, <1>2, <2>1, <2>2, <2>3, CInvCopied
<1>6. CASE CopyNothing(l)
  BY Zenon, <1>1, <1>2, <1>6, CInvPassed
<1>7. QED
  BY Zenon, <1>1, <1>4, <1>5, <1>6

\* The private copies are thrown away.
LEMMA CInvAbort == ASSUME CInv, CompactAbort PROVE CInv'
<1>1. TypeOK /\ LockSound /\ Kept /\ Copying /\ NoLostUpdate /\ UNCHANGED vars
  BY Zenon DEF CInv, CompactAbort
<1>2. TypeOK' /\ LockSound' /\ NoLostUpdate'
  BY Zenon, <1>1, TypeNext, LockKept, NoLostKept DEF vars, lockvars
<1>3. Kept'
  BY Zenon, <1>1, KeptSame DEF vars, corevars
<1>4. Copying'
  <2>1. 0 \in 0 .. commitSeq'
    BY <1>1, RecordFacts DEF vars
  <2>2. QED
    BY Zenon, <2>1, NothingCopied DEF CompactAbort, CompactReset
<1>5. QED
  BY Zenon, <1>2, <1>3, <1>4 DEF CInv

\* Phase 3.
LEMMA CInvInstall == ASSUME CInv, CompactInstall, count' \in Int PROVE CInv'
<1>1. TypeOK /\ LockSound /\ Kept /\ Copying /\ NoLostUpdate
  BY Zenon DEF CInv
<1>2. TypeOK' /\ Kept'
  BY Zenon, <1>1, TypeInstall, KeptInstall
<1>3. LockSound' /\ NoLostUpdate'
  BY Zenon, <1>1, LockCompacting DEF CompactInstall
<1>4. Copying'
  <2>1. 0 \in 0 .. commitSeq'
    BY <1>2, RecordFacts DEF TypeOK, ClockType
  <2>2. QED
    BY Zenon, <2>1, NothingCopied DEF CompactInstall, CompactReset
<1>5. QED
  BY Zenon, <1>2, <1>3, <1>4 DEF CInv

-----------------------------------------------------------------------------
(* Scans beside a compaction. *)

\* No scan knows a private copy.
ScansApart ==
  \A p \in Scanners : \A l \in scan[p].left \cup scan[p].seen : ~Copy(l)

\* The invariant is what the steps of the shard need.
LEMMA CInvBasics == CInv => Basics
BY Zenon DEF CInv, Kept, SealSound, Basics

\* What a scan has of its own is what it had, or records of live segments.
LEMMA ScansTake ==
  ASSUME TypeOK, Traffic \/ Sealing \/ Reclaim, NEW p \in Scanners
  PROVE  \/ scan'[p].left \cup scan'[p].seen \subseteq scan[p].left \cup scan[p].seen
         \/ scan'[p].left \cup scan'[p].seen \subseteq {l \in Locs : Live(l)}
<1>1. scan \in [Scanners -> [s0 : -1 .. commitSeq, left : SUBSET Locs, seen : SUBSET Locs]]
  BY Zenon DEF TypeOK, ScanType
<1>2. ASSUME NEW q \in Scanners, ScanBegin(q)
      PROVE  scan'[p] = scan[p] \/ scan'[p].left \cup scan'[p].seen \subseteq {l \in Locs : Live(l)}
  <2>1. CASE p = q
    <3>1. PICK s : scan'[p] = [s0 |-> s, left |-> {l \in Locs : log[l].seg \in {g \in segs : SegVisibleAt(g, s)}},
                               seen |-> {}]
      BY Zenon, <1>1, <1>2, <2>1 DEF ScanBegin
    <3>2. QED
      BY <3>1 DEF Live
  <2>2. CASE p # q
    BY Zenon, <1>1, <1>2, <2>2 DEF ScanBegin
  <2>3. QED
    BY Zenon, <2>1, <2>2
<1>3. ASSUME NEW q \in Scanners, ScanVisit(q)
      PROVE  scan'[p].left \cup scan'[p].seen \subseteq scan[p].left \cup scan[p].seen
  <2>1. CASE p = q
    <3>1. PICK x \in scan[p].left :
            scan' = [scan EXCEPT ![p].left = @ \ {x},
                                 ![p].seen = IF VisibleAt(x, scan[p].s0) THEN @ \cup {x} ELSE @]
      BY Zenon, <1>3, <2>1 DEF ScanVisit
    <3>2. PICK left, seen, more : left = scan[p].left /\ seen = scan[p].seen
                                  /\ more = IF VisibleAt(x, scan[p].s0) THEN seen \cup {x} ELSE seen
      BY Zenon
    <3>3. scan'[p].left = left \ {x} /\ scan'[p].seen = more
      BY Zenon, <1>1, <3>1, <3>2
    <3>4. QED
      BY Zenon, <3>1, <3>2, <3>3
  <2>2. CASE p # q
    <3>1. scan'[p] = scan[p]
      BY Zenon, <1>1, <1>3, <2>2 DEF ScanVisit
    <3>2. QED
      BY Zenon, <3>1
  <2>3. QED
    BY Zenon, <2>1, <2>2
<1>4. ASSUME NEW q \in Scanners, ScanEnd(q)
      PROVE  scan'[p].left \cup scan'[p].seen \subseteq scan[p].left \cup scan[p].seen
  BY Zenon, <1>1, <1>4 DEF ScanEnd, Idle
<1>5. CASE ~ \E q \in Scanners : ScanBegin(q) \/ ScanVisit(q) \/ ScanEnd(q)
  <2>1. UNCHANGED scan
    BY Zenon, <1>5 DEF Traffic, LockBatch, ApplyBatch, UnlockBatch, Delete, Begin,
       TxnGet, LockTxn, UnlockTxn, ApplyTxn, TxnWrite, Sealing, SealBegin, SealIndex, Evict,
       Reclaim
  <2>2. QED
    BY Zenon, <2>1
<1>6. QED
  BY Zenon, <1>2, <1>3, <1>4, <1>5

\* Clients, sealing and reclaim give no scan a private copy.
LEMMA ApartBeside ==
  ASSUME TypeOK, Copying, ScansApart, Beside, Traffic \/ Sealing, UNCHANGED cvars
  PROVE  ScansApart'
<1>1. SUFFICES ASSUME NEW p \in Scanners, NEW l \in scan'[p].left \cup scan'[p].seen
               PROVE  ~Copy(l)'
  BY Zenon DEF ScansApart
<1>2. scan \in [Scanners -> [s0 : -1 .. commitSeq, left : SUBSET Locs, seen : SUBSET Locs]]
  BY Zenon DEF TypeOK, ScanType
<1>3. l \in scan[p].left \cup scan[p].seen \/ (l \in Locs /\ Live(l))
  BY Zenon, <1>1, ScansTake
<1>4. l \in Locs /\ ~Copy(l)
  BY Zenon, <1>2, <1>3 DEF ScansApart, Copy, Live, Copying, SegmentsSound
<1>5. log'[l].seg = log[l].seg /\ Dest' = Dest
  BY Zenon, <1>4 DEF Beside, cvars, Dest
<1>6. QED
  BY Zenon, <1>4, <1>5 DEF Copy

\* A scan whose records are left alone keeps its promise.
LEMMA ScansLeft ==
  ASSUME TypeOK, ScansSound, UNCHANGED <<scan, commitSeq, hist>>,
         \A p \in Scanners : \A l \in scan[p].left \cup scan[p].seen : l \in Locs' /\ log'[l] = log[l]
  PROVE  ScansSound'
<1>1. SUFFICES ASSUME NEW p \in Scanners, scan[p].s0 # NoSnap
               PROVE  Promised(scan[p].s0, scan[p].left, scan[p].seen)'
  BY Zenon DEF ScansSound
<1>2. scan \in [Scanners -> [s0 : -1 .. commitSeq, left : SUBSET Locs, seen : SUBSET Locs]]
  BY Zenon DEF TypeOK, ScanType
<1>3. PICK s, left, seen : s = scan[p].s0 /\ left = scan[p].left /\ seen = scan[p].seen
  BY Zenon
<1>4. left \in SUBSET Locs /\ seen \in SUBSET Locs /\ Promised(s, left, seen)
  BY Zenon, <1>1, <1>2, <1>3 DEF ScansSound
<1>5. \A l \in left \cup seen : GrowsAt(l)
  BY Zenon, <1>3 DEF GrowsAt
<1>6. Promised(s, left, seen)'
  BY Zenon, <1>4, <1>5, PromiseKept DEF HistGrows
<1>7. QED
  BY Zenon, <1>3, <1>6, PromiseMoves

\* A record that is not a private copy is left alone by phases 2 and 3, also
\* by an install that transfers what was superseded meanwhile (compactShard).
LEMMA CompactingKeeps ==
  ASSUME CInv, Compacting
  PROVE  /\ UNCHANGED <<scan, commitSeq, hist>>
         /\ Locs \subseteq Locs'
         /\ \A l \in Locs : ~Copy(l) \/ ~IsCurrent(l) => log'[l] = log[l]
<1>1. UNCHANGED <<scan, commitSeq, hist>>
  BY Zenon DEF Compacting, CompactBegin, CompactCopy, CompactAbort, CompactInstall, vars
<1>2. TypeOK /\ Copying
  BY Zenon DEF CInv
<1>3. CASE log' = log
  BY Zenon, <1>1, <1>3 DEF Locs
<1>4. CASE CompactCopy
  <2>1. PICK l \in cleft : log' = log \/ CopyTo(l, ccur) \/ CopyTo(l, chcur)
    BY Zenon, <1>4 DEF CompactCopy, CopyLive, CopyHistory, CopyNothing
  <2>2. l \in Locs /\ nextSeg \in Nat /\ ccur \in 0 .. (nextSeg - 1) /\ chcur \in 0 .. (nextSeg - 1)
    BY <1>2 DEF Copying, SegmentsSound, SourcesSound, Source, Dest, NoSeg, TypeOK, ArenaType
  <2>3. log' = log \/ \E d, g : CopyAdds(l, d, g)
    BY Zenon, <1>2, <2>1, <2>2, CopyDoes
  <2>4. Locs \subseteq Locs' /\ \A m \in Locs : log'[m] = log[m]
    BY Zenon, <2>3 DEF CopyAdds, Locs
  <2>5. QED
    BY Zenon, <1>1, <2>4
<1>5. CASE CompactInstall
  <2>1. /\ Locs' = Locs
        /\ \A d \in Locs : (\A x \in moved : x[2] # d) => log'[d] = log[d]
    BY Zenon, <1>2, <1>5, TransferDoes DEF CompactInstall, Install, Copying
  <2>2. \A x \in moved : Copy(x[2]) /\ IsCurrent(x[2])
    BY Zenon, <1>2 DEF Copying, MovedSound
  <2>3. QED
    BY Zenon, <1>1, <2>1, <2>2
<1>6. QED
  BY Zenon, <1>3, <1>4, <1>5 DEF Compacting, CompactBegin, CompactAbort, vars

\* The private copies of phase 2 are of no scan.
LEMMA ApartCompacting == ASSUME CInv, ScansApart, Compacting PROVE ScansApart'
<1>1. /\ scan' = scan /\ Locs \subseteq Locs'
      /\ \A l \in Locs : ~Copy(l) => log'[l] = log[l]
  BY Zenon, CompactingKeeps
<1>2. scan \in [Scanners -> [s0 : -1 .. commitSeq, left : SUBSET Locs, seen : SUBSET Locs]]
  BY Zenon DEF CInv, TypeOK, ScanType
<1>3. ASSUME NEW l \in Locs, ~Copy(l) PROVE ~Copy(l)'
  <2>1. log'[l].seg = log[l].seg /\ log[l].seg < nextSeg /\ log[l].seg \in Nat
    BY Zenon, <1>1, <1>3, RecordFacts DEF CInv, Kept, Base, LogBounded
  <2>2. CASE CompactCopy
    <3>1. ccur \in Dest \cup {NoSeg} /\ chcur \in Dest \cup {NoSeg} /\ nextSeg \in Nat
      BY Zenon DEF CInv, Copying, SegmentsSound, Dest, TypeOK, ArenaType
    <3>2. PICK m \in cleft : CopyLive(m) \/ CopyHistory(m) \/ CopyNothing(m)
      BY Zenon, <2>2 DEF CompactCopy
    <3>3. Dest' \subseteq Dest \cup {nextSeg}
      BY Zenon, <3>1, <3>2 DEF CopyLive, CopyHistory, CopyNothing, Full, Dest
    <3>4. QED
      BY <1>3, <2>1, <3>1, <3>3 DEF Copy
  <2>3. CASE CompactBegin
    <3>1. Dest' = Dest
      BY Zenon, <2>3 DEF CompactBegin, Dest
    <3>2. QED
      BY Zenon, <1>3, <2>1, <3>1 DEF Copy
  <2>4. CASE CompactAbort \/ CompactInstall
    <3>1. Dest' = {}
      BY Zenon, <2>4 DEF CompactAbort, CompactInstall, CompactReset, Dest
    <3>2. QED
      BY Zenon, <3>1 DEF Copy
  <2>5. QED
    BY Zenon, <2>2, <2>3, <2>4 DEF Compacting
<1>4. \A p \in Scanners : \A l \in scan[p].left \cup scan[p].seen : l \in Locs /\ ~Copy(l)
  BY Zenon, <1>2 DEF ScansApart
<1>5. QED
  BY Zenon, <1>1, <1>3, <1>4 DEF ScansApart

\* A scan keeps its promise over every step, those of a compaction included.
LEMMA ScansBeside ==
  ASSUME CInv, ScansSound, ScansApart, [CNext]_allvars PROVE ScansSound' /\ ScansApart'
<1>1. CASE UNCHANGED allvars
  <2>1. UNCHANGED vars /\ Dest' = Dest
    BY Zenon, <1>1 DEF allvars, cvars, Dest
  <2>2. ScansApart'
    BY Zenon, <2>1 DEF ScansApart, Copy, Locs, vars
  <2>3. QED
    BY Zenon, <2>1, <2>2, CInvBasics, ScanStep
<1>2. CASE (Traffic \/ Sealing) /\ UNCHANGED cvars
  <2>1. Beside
    BY Zenon, <1>2, StepBeside DEF CInv
  <2>2. ScansApart'
    BY Zenon, <1>2, <2>1, ApartBeside DEF CInv
  <2>3. QED
    BY Zenon, <1>2, <2>2, CInvBasics, ScanStep DEF Next
<1>3. CASE cpc = "idle" /\ Reclaim /\ UNCHANGED cvars
  <2>1. Dest' = {}
    BY Zenon, <1>3, IdleEmpty DEF CInv, cvars, Dest
  <2>2. ScansApart'
    BY Zenon, <2>1 DEF ScansApart, Copy
  <2>3. QED
    BY Zenon, <1>3, <2>2, CInvBasics, ScanStep DEF Next
<1>4. CASE Compacting
  <2>1. /\ UNCHANGED <<scan, commitSeq, hist>> /\ Locs \subseteq Locs'
        /\ \A l \in Locs : ~Copy(l) => log'[l] = log[l]
    BY Zenon, <1>4, CompactingKeeps
  <2>2. scan \in [Scanners -> [s0 : -1 .. commitSeq, left : SUBSET Locs, seen : SUBSET Locs]]
    BY Zenon DEF CInv, TypeOK, ScanType
  <2>3. \A p \in Scanners : \A l \in scan[p].left \cup scan[p].seen : l \in Locs' /\ log'[l] = log[l]
    BY Zenon, <2>1, <2>2 DEF ScansApart
  <2>4. ScansSound'
    BY Zenon, <2>1, <2>3, ScansLeft DEF CInv
  <2>5. QED
    BY Zenon, <1>4, <2>4, ApartCompacting
<1>5. QED
  BY Zenon, <1>1, <1>2, <1>3, <1>4 DEF CNext
=============================================================================
