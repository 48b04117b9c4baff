------------------------ MODULE CompactionInvariant ------------------------
(***************************************************************************)
(* The inductive invariant of Compaction. An install rebuilds the chains   *)
(* from the current records alone and gives old versions new places, so    *)
(* the order of the log and the reach of superseded records, which carry   *)
(* the proofs of Shard, are lost; what stays is how current records are    *)
(* found, and how the records of the live segments tell the history. A     *)
(* compaction in flight adds how its private copies stand for the sources. *)
(***************************************************************************)
EXTENDS Compaction, ShardInvariant

\* The hash of the shard tells its keys apart.
NoCollisions == \A j, k \in Keys : Hash[j] = Hash[k] => j = k

\* An eviction drops chains of one key each, or none: no two keys of the shard
\* have the same hash, or the shard is in memory and has no key indexes.
EvictionsSafe == ~Persistent \/ NoCollisions

\* The active segment is neither indexed nor pinned; a shard in memory seals
\* nothing, and ids do not start over.
SealSound ==
  /\ act \notin indexed /\ act \notin sealing
  /\ sealBase = base
  /\ ~Persistent => indexed = {} /\ sealing = {}

\* Where no other key has the hash value, the current version of a key is the
\* first of its chain.
HeadsCurrent ==
  NoCollisions =>
    \A h \in Buckets : \A l \in bucket[h] : IsCurrent(l) => head[h] = l

\* What the commit in progress has put is stored.
PendingPutsStored ==
  \A k \in Keys : pend[k] = "put" =>
    \E l \in Locs : Live(l) /\ log[l].key = k /\ log[l].seq = commitSeq + 1 /\ IsCurrent(l)

\* The live segments.
Kept == Base /\ SealSound /\ HeadsCurrent /\ PendingPutsStored

-----------------------------------------------------------------------------
(* The private copies. *)

Dest == clive \cup chist
Source(l) == l \in Locs /\ log[l].seg \in csrc
Copy(d) == d \in Locs /\ log[d].seg \in Dest

\* d holds the same version as l.
SameVersion(l, d) == log[d].key = log[l].key /\ log[d].seq = log[l].seq

\* The segments of a compaction: the sources are still live, nothing is written
\* to a segment of phase 1, and nobody else knows the destinations.
SegmentsSound ==
  /\ csrc \subseteq corig /\ csrc \subseteq segs
  /\ act \notin corig
  /\ corig \subseteq 1 .. (nextSeg - 1)
  /\ Dest \subseteq 1 .. (nextSeg - 1)
  /\ Dest \cap segs = {} /\ Dest \cap corig = {}
  /\ ccur \in clive \cup {NoSeg} /\ chcur \in chist \cup {NoSeg}
  /\ cretain \in 0 .. commitSeq
  /\ cpc = "idle" => csrc = {} /\ corig = {} /\ Dest = {}

\* The sources were committed when the compaction began, and what phase 1 left
\* in place is history.
SourcesSound ==
  /\ \A l \in cleft : Source(l)
  /\ \A l \in Locs : Source(l) => log[l].seq <= commitSeq
  /\ \A l \in Locs : log[l].seg \in corig \ csrc => ~IsCurrent(l)

\* A copy in `moved' is current and stands for one source, which ended after
\* its own commit if it has ended.
MovedSound ==
  /\ \A x \in moved :
       /\ x = <<x[1], x[2]>>
       /\ Source(x[1]) /\ x[1] \notin cleft
       /\ log[x[1]].sup > log[x[1]].seq
       /\ Copy(x[2]) /\ IsCurrent(x[2])
       /\ SameVersion(x[1], x[2])
  /\ \A x, y \in moved : x[2] = y[2] => x = y

\* Any other copy is of a version that had ended.
CopiesSound ==
  \A d \in Locs : Copy(d) =>
    \/ \E x \in moved : x[2] = d
    \/ /\ ~IsCurrent(d)
       /\ \E l \in Locs : /\ Source(l) /\ l \notin cleft
                          /\ SameVersion(l, d) /\ log[d].sup = log[l].sup

\* Each source read so far was copied, or had ended before the window.
SourcesCopied ==
  \A l \in Locs : Source(l) /\ l \notin cleft =>
    \/ \E x \in moved : x[1] = l
    \/ ~IsCurrent(l) /\ log[l].sup <= cretain
    \/ /\ ~IsCurrent(l)
       /\ \E d \in Locs : Copy(d) /\ SameVersion(l, d) /\ log[d].sup = log[l].sup

\* No version was copied twice.
CopiesDistinct ==
  \A d, e \in Locs :
    /\ Copy(d) /\ Copy(e) /\ SameVersion(d, e)
    /\ log[d].sup > log[d].seq /\ log[e].sup > log[e].seq
    => d = e

Copying ==
  /\ SegmentsSound
  /\ SourcesSound
  /\ MovedSound
  /\ CopiesSound
  /\ SourcesCopied
  /\ CopiesDistinct

\* Together with the types, the lock and the property of transactions, every
\* step of clients, sealing, reclaim and compaction preserves them.
CInv == TypeOK /\ LockSound /\ Kept /\ Copying /\ NoLostUpdate
=============================================================================
