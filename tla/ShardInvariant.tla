--------------------------- MODULE ShardInvariant ---------------------------
(***************************************************************************)
(* The inductive invariant of Shard. The properties of Shard speak of      *)
(* lookups and of the history; what carries them from step to step is how  *)
(* each live record, each chain and each event of the history correspond.  *)
(***************************************************************************)
EXTENDS ShardRefinement

Live(l) == log[l].seg \in segs

\* Records are appended in commit order, to segments in the order of their ids.
LogOrdered ==
  /\ \A l, m \in Locs : l < m => log[l].seq <= log[m].seq /\ log[l].seg <= log[m].seg
  /\ \A l \in Locs : log[l].seg < nextSeg /\ log[l].seq <= commitSeq + 1
  /\ act \in {NoSeg, nextSeg - 1}

\* The active segment is never indexed; a sealing pass has pinned every live
\* segment older than one it has pinned, and ids have not started over since.
SealOrdered ==
  /\ act \notin indexed
  /\ act \notin sealing
  /\ \A g \in sealing, f \in segs : f <= g => f \in sealing
  /\ sealing # {} => sealBase = base

\* A chain holds live records of its hash value, the newest in front.
ChainsSound ==
  \A h \in Buckets : \A l \in bucket[h] :
    /\ Hash[log[l].key] = h
    /\ Live(l)
    /\ head[h] # NoLoc
    /\ l <= head[h]

\* A live record is found by a walk of its chain or by a key index.
Reachable ==
  \A l \in Locs : Live(l) =>
    \/ l \in bucket[Hash[log[l].key]]
    \/ log[l].seg \in indexed /\ log[l].seg # act

\* The record r belongs to the history H of the commits up to c, followed by
\* the commit in progress p: r was put by its sequence, and ended by the next
\* event of its key.
Fits(r, c, H, p) ==
  /\ r.seq <= c => H[r.seq][r.key] = "put"
  /\ r.seq = c + 1 => p[r.key] = "put"
  /\ r.sup # SeqMax => r.seq <= r.sup /\ r.sup <= c + 1
  /\ r.sup # SeqMax /\ r.sup <= c => H[r.sup][r.key] # "none"
  /\ r.sup = c + 1 /\ r.sup # SeqMax => p[r.key] # "none"
  /\ \A j \in (r.seq + 1) .. c : j < r.sup => H[j][r.key] = "none"
  /\ r.sup = SeqMax /\ r.seq <= c => p[r.key] = "none"

\* Every live record fits the history.
RecordsMatchHistory ==
  \A l \in Locs : Live(l) => Fits(log[l], commitSeq, hist, pend)

\* Two live records of a key have different sequences, except for one that a
\* later put of the same commit replaced at once.
VersionsDistinct ==
  \A l, m \in Locs :
    /\ Live(l) /\ Live(m) /\ log[l].key = log[m].key /\ log[l].seq = log[m].seq
    /\ log[l].sup > log[l].seq /\ log[m].sup > log[m].seq
    => l = m

\* A version that ended at or before gcFloor may be gone; any other is stored.
PutsStored ==
  \A k \in Keys, i \in 1 .. commitSeq :
    hist[i][k] = "put" /\ (\A j \in (i + 1) .. gcFloor : hist[j][k] = "none")
      => \E l \in Locs : Live(l) /\ log[l].key = k /\ log[l].seq = i /\ log[l].sup > i

\* The evidence of a delete above gcFloor is stored.
DeletesStored ==
  \A k \in Keys, j \in 1 .. commitSeq :
    hist[j][k] = "del" /\ j > gcFloor
      => \E l \in Locs : Live(l) /\ log[l].key = k /\ log[l].sup = j

\* What the commit in progress has done is stored.
PendingStored ==
  \A k \in Keys :
    /\ pend[k] = "put" => \E l \in Locs : Live(l) /\ log[l].key = k
                            /\ log[l].seq = commitSeq + 1 /\ log[l].sup = SeqMax
    /\ pend[k] = "del" => \E l \in Locs : Live(l) /\ log[l].key = k
                            /\ log[l].sup = commitSeq + 1

\* Who holds the lock, and what they have recorded.
LockSound ==
  /\ lock = Free => pend = Quiet
  /\ lock # Free => commitSeq + 1 < SeqMax
  /\ lock \in Txns => buf[lock] # Quiet
  /\ lock \in Txns /\ ~changed => pend = Quiet
  /\ lock \in Txns /\ fast => commitSeq = snap[lock]
  /\ lock \in Txns => \A k \in Keys : out[lock][k] = "none" => pend[k] = "none"
  /\ \A t \in Txns : out[t] # Quiet => lock = t
  /\ \A t \in Txns : buf[t] # Quiet => snap[t] # NoSnap

\* The parts that speak of records and chains.
Core ==
  /\ LogOrdered
  /\ SealOrdered
  /\ ChainsSound
  /\ Reachable
  /\ RecordsMatchHistory
  /\ VersionsDistinct
  /\ PutsStored
  /\ DeletesStored
  /\ PendingStored

-----------------------------------------------------------------------------
(* The part of the core on which lookups and scans rest. It asks no order of *)
(* the log and no way to superseded records, so compaction keeps it too.     *)

\* Segments are numbered below nextSeg, sequences up to the commit in progress.
LogBounded ==
  \A l \in Locs : log[l].seg < nextSeg /\ log[l].seq <= commitSeq + 1

\* A chain holds live records of its hash value.
ChainsLive ==
  \A h \in Buckets : \A l \in bucket[h] : Hash[log[l].key] = h /\ Live(l)

\* A current record is found by a walk of its chain or by a key index.
CurrentReachable ==
  \A l \in Locs : Live(l) /\ IsCurrent(l) =>
    \/ l \in bucket[Hash[log[l].key]]
    \/ log[l].seg \in indexed /\ log[l].seg # act

Base ==
  /\ LogBounded
  /\ ChainsLive
  /\ CurrentReachable
  /\ RecordsMatchHistory
  /\ VersionsDistinct
  /\ PutsStored

-----------------------------------------------------------------------------
\* Together with the types, the lock and the two properties of transactions,
\* every step preserves them.
Inv == TypeOK /\ LockSound /\ Core /\ FirstCommitterWins /\ NoSpuriousConflict

=============================================================================
