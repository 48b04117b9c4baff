-------------------------- MODULE DurabilityProof ---------------------------
(* Group commit applies every request once, and Open leaves one current     *)
(* version of a key, for any number of writers, keys, segments and crashes. *)
EXTENDS Durability, FiniteSetTheorems, WellFoundedInduction, TLAPS

-----------------------------------------------------------------------------
(* The invariant of the leader/handoff protocol. *)

Pcs == [at : Places, flusher : BOOLEAN]

GroupType ==
  /\ flushing \in BOOLEAN /\ syncing \in BOOLEAN
  /\ queue \in Seq(Writers) /\ batch \in Seq(Writers)
  /\ pc \in [Writers -> Pcs]
  /\ rounds \in [Writers -> {0, 1}]

\* w has the flusher's role, or has been appointed to it.
Leads(w) == Flusher(w) \/ At(w) = "lead"

\* One writer has the role; an appointed one is the first of the queue.
RoleInv ==
  /\ \A v, w \in Writers : Leads(v) /\ Leads(w) => v = w
  /\ \A w \in Writers :
       /\ Leads(w) => flushing
       /\ Flusher(w) => At(w) \in {"apply", "sync", "cond", "pass", "msync", "signal"}
       /\ At(w) \in {"apply", "signal"} => Flusher(w)
       /\ At(w) = "lead" => queue # <<>> /\ Head(queue) = w

\* A request is queued once, or taken once, and its writer waits meanwhile.
QueueInv ==
  /\ IsInjective(queue) /\ IsInjective(batch)
  /\ \A w \in Range(queue) : At(w) \in {"wait", "lead"} /\ rounds[w] = 0 /\ w \notin Range(batch)
  /\ \A w \in Range(batch) : At(w) = "wait" \/ Flusher(w)

\* Whose request has been applied.
CallInv ==
  \A w \in Writers :
    /\ At(w) \in {"lead", "apply", "del"} => rounds[w] = 0
    /\ At(w) = "apply" => w \in Range(batch) /\ \A x \in Range(batch) : rounds[x] = 0
    /\ Flusher(w) /\ At(w) # "apply" => \A x \in Range(batch) : rounds[x] = 1
    /\ At(w) \in InSync \cup {"signal", "idle"} => rounds[w] = 1

GroupInv == GroupType /\ RoleInv /\ QueueInv /\ CallInv

-----------------------------------------------------------------------------
(* The invariant of the records, in memory and on disk. *)

Open == {w \in Writers : rounds[w] = 0}

\* Every commit uses up an operation, and so does every call not yet applied.
ClockInv ==
  /\ commitSeq \in Nat /\ ops \in Nat /\ ops <= MaxOps
  /\ commitSeq + Cardinality(Open) <= ops

Ends(n) == (0 .. n) \cup {Inf}
Records(n) == [key : Keys \cup {"none"}, seq : 0 .. n, sup : Ends(n), seg : Nat, by : Writers \cup {"nobody"}]
Images(n) == [log : Seq(Records(n)), segs : SUBSET Nat, act : Nat, next : Nat,
              fresh : SUBSET Nat, dirtySup : SUBSET Nat]
Comps == [phase : {"off", "copy", "flush", "install"}, srcs : SUBSET Nat, retain : Nat,
          dst : SUBSET Nat, copies : SUBSET (Nat \X Nat)]
Reqs == [key : Keys \cup {"none"}, seq : Nat, need : Nat]

\* Segments are numbered in the order of their creation.
Numbered(m) == \A g \in m.segs \cup {m.act} : g <= m.next

\* Every sequence in memory or on disk is that of an operation.
StoreInv ==
  /\ mem \in Images(ops) /\ Numbered(mem)
  /\ files \subseteq 0 .. mem.next
  /\ DOMAIN dsup = Locs /\ \A l \in Locs : dsup[l] \in Ends(ops)
  /\ comp \in Comps /\ comp.dst \subseteq 0 .. mem.next
  /\ \A c \in comp.copies : c[1] \in Locs /\ c[2] \in Locs
  /\ req \in [Writers -> Reqs]

\* Between a crash and the first call after it nothing else runs.
StatusInv ==
  /\ status \in {"up", "down", "open"}
  /\ status # "up" => comp.phase = "off" /\ \A w \in Writers : At(w) = "idle"

DataInv == ClockInv /\ StoreInv
DurInv == GroupInv /\ DataInv /\ StatusInv /\ RecoveredUnique

-----------------------------------------------------------------------------
(* Sequences of writers. *)

\* Queueing a request puts its writer behind the others (sh.queue).
LEMMA AppendFacts ==
  ASSUME NEW S, NEW s \in Seq(S), NEW x \in S
  PROVE  /\ Append(s, x) \in Seq(S) /\ Append(s, x) # <<>>
         /\ Range(Append(s, x)) = Range(s) \cup {x}
         /\ IsInjective(s) /\ x \notin Range(s) => IsInjective(Append(s, x))
         /\ s # <<>> => Head(Append(s, x)) = Head(s)
<1>1. /\ Append(s, x) \in Seq(S) /\ Len(Append(s, x)) = Len(s) + 1 /\ Len(s) \in Nat
      /\ DOMAIN s = 1 .. Len(s) /\ DOMAIN Append(s, x) = 1 .. Len(s) + 1
      /\ Append(s, x)[Len(s) + 1] = x
      /\ \A i \in 1 .. Len(s) : Append(s, x)[i] = s[i]
  OBVIOUS
<1>2. Range(Append(s, x)) = Range(s) \cup {x}
  <2>1. ASSUME NEW y \in Range(Append(s, x)) PROVE y \in Range(s) \cup {x}
    <3>1. PICK i \in 1 .. Len(s) + 1 : y = Append(s, x)[i]
      BY Zenon, <1>1, <2>1 DEF Range
    <3>2. CASE i = Len(s) + 1
      BY Zenon, <1>1, <3>1, <3>2
    <3>3. CASE i \in 1 .. Len(s)
      BY Zenon, <1>1, <3>1, <3>3 DEF Range
    <3>4. QED
      BY <1>1, <3>2, <3>3
  <2>2. x \in Range(Append(s, x))
    BY <1>1 DEF Range
  <2>3. ASSUME NEW y \in Range(s) PROVE y \in Range(Append(s, x))
    <3>1. PICK i \in 1 .. Len(s) : y = s[i]
      BY Zenon, <1>1, <2>3 DEF Range
    <3>2. i \in 1 .. Len(s) + 1
      BY <1>1
    <3>3. QED
      BY Zenon, <1>1, <3>1, <3>2 DEF Range
  <2>4. QED
    BY Zenon, <2>1, <2>2, <2>3
<1>3. IsInjective(s) /\ x \notin Range(s) => IsInjective(Append(s, x))
  <2>1. SUFFICES ASSUME IsInjective(s), x \notin Range(s),
                        NEW i \in 1 .. Len(s) + 1, NEW j \in 1 .. Len(s) + 1,
                        Append(s, x)[i] = Append(s, x)[j]
                 PROVE  i = j
    BY Zenon, <1>1 DEF IsInjective
  <2>2. \A n \in 1 .. Len(s) : s[n] # x
    BY Zenon, <1>1, <2>1 DEF Range
  <2>3. CASE i \in 1 .. Len(s) /\ j \in 1 .. Len(s)
    BY Zenon, <1>1, <2>1, <2>3 DEF IsInjective
  <2>4. QED
    BY <1>1, <2>1, <2>2, <2>3
<1>4. QED
  BY <1>1, <1>2, <1>3

\* Answering a batch takes its first writer out of it.
LEMMA TailFacts ==
  ASSUME NEW S, NEW s \in Seq(S), s # <<>>
  PROVE  /\ Tail(s) \in Seq(S) /\ Head(s) \in S /\ Head(s) \in Range(s)
         /\ Range(Tail(s)) \subseteq Range(s)
         /\ IsInjective(s) => IsInjective(Tail(s)) /\ Head(s) \notin Range(Tail(s))
<1>1. /\ Len(s) \in Nat \ {0} /\ DOMAIN s = 1 .. Len(s)
      /\ Head(s) = s[1] /\ 1 \in 1 .. Len(s)
      /\ Tail(s) \in Seq(S) /\ DOMAIN Tail(s) = 1 .. Len(s) - 1
      /\ \A i \in 1 .. Len(s) - 1 : Tail(s)[i] = s[i + 1] /\ i + 1 \in 1 .. Len(s)
  OBVIOUS
<1>2. Range(Tail(s)) \subseteq Range(s)
  BY Zenon, <1>1 DEF Range
<1>3. IsInjective(s) => IsInjective(Tail(s))
  BY <1>1 DEF IsInjective
<1>4. IsInjective(s) => Head(s) \notin Range(Tail(s))
  <2>1. \A i \in 1 .. Len(s) - 1 : i + 1 # 1
    OBVIOUS
  <2>2. QED
    BY <1>1, <2>1 DEF IsInjective, Range
<1>5. QED
  BY <1>1, <1>2, <1>3, <1>4 DEF Range

\* The writers of a sequence of writers.
LEMMA RangeOf ==
  ASSUME NEW S, NEW s \in Seq(S)
  PROVE  Range(s) \subseteq S /\ (s # <<>> => Head(s) \in Range(s))
         /\ Range(<<>>) = {} /\ IsInjective(<<>>)
BY TailFacts DEF Range, IsInjective

-----------------------------------------------------------------------------
(* The protocol's steps. *)

\* Where a writer is after a step that moves it ...
LEMMA PcPlaced ==
  ASSUME NEW f \in [Writers -> Pcs], NEW w \in Writers, NEW p \in Places, NEW b \in BOOLEAN,
         NEW g, g = [f EXCEPT ![w] = [at |-> p, flusher |-> b]]
  PROVE  /\ g \in [Writers -> Pcs] /\ g[w] = [at |-> p, flusher |-> b]
         /\ \A x \in Writers : x # w => g[x] = f[x]
<1>1. [at |-> p, flusher |-> b] \in Pcs
  BY Zenon DEF Pcs
<1>2. QED
  BY Zenon, <1>1

\* ... and keeps its flag.
LEMMA PcWent ==
  ASSUME NEW f \in [Writers -> Pcs], NEW w \in Writers, NEW p \in Places,
         NEW g, g = [f EXCEPT ![w].at = p]
  PROVE  /\ g \in [Writers -> Pcs] /\ g[w].at = p /\ g[w].flusher = f[w].flusher
         /\ \A x \in Writers : x # w => g[x] = f[x]
<1>1. PICK r \in Pcs : r = f[w]
  BY Zenon
<1>2. [r EXCEPT !.at = p] = [at |-> p, flusher |-> r.flusher]
  BY DEF Pcs
<1>3. r.flusher \in BOOLEAN
  BY Zenon DEF Pcs
<1>4. [at |-> p, flusher |-> r.flusher] \in Pcs
  BY Zenon, <1>3 DEF Pcs
<1>5. g = [f EXCEPT ![w] = [at |-> p, flusher |-> r.flusher]]
  BY Zenon, <1>1, <1>2
<1>6. QED
  BY Zenon, <1>1, <1>4, <1>5

\* Nobody has called into an empty shard.
LEMMA GroupInit == GInit => GroupInv
<1>1. SUFFICES ASSUME GInit PROVE GroupInv
  OBVIOUS
<1>2. \A w \in Writers : At(w) = "idle" /\ ~Flusher(w) /\ rounds[w] = 1
  BY Zenon, <1>1 DEF GInit, At, Flusher
<1>3. Range(queue) = {} /\ Range(batch) = {} /\ IsInjective(queue) /\ IsInjective(batch)
  BY <1>1 DEF GInit, Range, IsInjective
<1>4. GroupType
  <2>1. [at |-> "idle", flusher |-> FALSE] \in Pcs
    BY Zenon DEF Pcs, Places
  <2>2. pc \in [Writers -> Pcs]
    BY Zenon, <1>1, <2>1 DEF GInit
  <2>3. rounds \in [Writers -> {0, 1}] /\ flushing \in BOOLEAN /\ syncing \in BOOLEAN
    BY Zenon, <1>1 DEF GInit
  <2>4. queue \in Seq(Writers) /\ batch \in Seq(Writers)
    <3>1. queue = <<>> /\ batch = <<>>
      BY Zenon, <1>1 DEF GInit
    <3>2. QED
      BY <3>1
  <2>5. QED
    BY Zenon, <2>2, <2>3, <2>4 DEF GroupType
<1>5. QED
  BY Zenon, <1>2, <1>3, <1>4 DEF GroupInv, RoleInv, QueueInv, CallInv, Leads, InSync

\* The writers other than those who wait or lead are not in the queue.
LEMMA Queued ==
  ASSUME GroupInv
  PROVE  /\ Range(queue) \subseteq Writers /\ Range(batch) \subseteq Writers
         /\ \A x \in Writers : At(x) = pc[x].at /\ At(x) \in Places
         /\ \A x \in Writers : At(x) \notin {"wait", "lead"} => x \notin Range(queue)
         /\ \A x \in Writers : At(x) # "wait" /\ ~Flusher(x) => x \notin Range(batch)
<1>1. \A x \in Writers : pc[x] \in Pcs
  BY Zenon DEF GroupInv, GroupType
<1>2. \A x \in Writers : pc[x].at \in Places
  BY Zenon, <1>1 DEF Pcs
<1>3. QED
  BY Zenon, <1>2, RangeOf DEF GroupInv, GroupType, QueueInv, At

\* A step that moves writer w alone, and may give or take the flusher's flag ...
LEMMA Placed ==
  ASSUME GroupInv, NEW w \in Writers, NEW p \in Places, NEW b \in BOOLEAN,
         pc' = [pc EXCEPT ![w] = [at |-> p, flusher |-> b]]
  PROVE  /\ pc' \in [Writers -> Pcs] /\ At(w)' = p /\ (Flusher(w)' <=> b)
         /\ \A x \in Writers : x # w => At(x)' = At(x) /\ (Flusher(x)' <=> Flusher(x))
<1>1. pc \in [Writers -> Pcs]
  BY Zenon DEF GroupInv, GroupType
<1>2. pc' \in [Writers -> Pcs] /\ pc'[w] = [at |-> p, flusher |-> b]
      /\ \A x \in Writers : x # w => pc'[x] = pc[x]
  BY Zenon, <1>1, PcPlaced
<1>3. QED
  BY Zenon, <1>2 DEF At, Flusher

\* ... or leaves the flag alone.
LEMMA Went ==
  ASSUME GroupInv, NEW w \in Writers, NEW p \in Places, Go(w, p)
  PROVE  /\ pc' \in [Writers -> Pcs] /\ At(w)' = p /\ (Flusher(w)' <=> Flusher(w))
         /\ \A x \in Writers : x # w => At(x)' = At(x) /\ (Flusher(x)' <=> Flusher(x))
<1>1. pc \in [Writers -> Pcs]
  BY Zenon DEF GroupInv, GroupType
<1>2. /\ pc' \in [Writers -> Pcs] /\ pc'[w].at = p /\ pc'[w].flusher = pc[w].flusher
      /\ \A x \in Writers : x # w => pc'[x] = pc[x]
  <2>1. PICK g : g = pc'
    BY Zenon
  <2>2. g = [pc EXCEPT ![w].at = p]
    BY Zenon, <2>1 DEF Go
  <2>3. /\ g \in [Writers -> Pcs] /\ g[w].at = p /\ g[w].flusher = pc[w].flusher
        /\ \A x \in Writers : x # w => g[x] = pc[x]
    BY <1>1, <2>2, PcWent
  <2>4. QED
    BY Zenon, <2>1, <2>3
<1>3. QED
  BY Zenon, <1>2 DEF At, Flusher

\* A writer that finds nobody flushing leads a batch of its own (commit, commitOne).
LEMMA CommitFastStep ==
  ASSUME GroupInv, NEW w \in Writers, CommitFast(w)
  PROVE  GroupInv'
<1>1. /\ At(w) = "idle" /\ ~flushing /\ flushing' = TRUE /\ batch' = <<w>>
      /\ UNCHANGED <<queue, syncing>> /\ rounds' = [rounds EXCEPT ![w] = 0]
  BY Zenon DEF CommitFast
<1>2. /\ pc' \in [Writers -> Pcs] /\ At(w)' = "apply" /\ Flusher(w)'
      /\ \A x \in Writers : x # w => At(x)' = At(x) /\ (Flusher(x)' <=> Flusher(x))
  <2>1. "apply" \in Places /\ TRUE \in BOOLEAN /\ pc' = [pc EXCEPT ![w] = [at |-> "apply", flusher |-> TRUE]]
    BY Zenon DEF CommitFast, Places
  <2>2. QED
    BY Zenon, <2>1, Placed
<1>3. /\ \A x \in Writers : ~Leads(x)
      /\ w \notin Range(queue)
      /\ Range(queue) \subseteq Writers
  BY Zenon, <1>1, Queued DEF GroupInv, RoleInv
<1>4. batch' \in Seq(Writers) /\ Range(batch') = {w} /\ IsInjective(batch')
  BY <1>1 DEF Range, IsInjective
<1>5. rounds' \in [Writers -> {0, 1}] /\ rounds'[w] = 0 /\ \A x \in Writers : x # w => rounds'[x] = rounds[x]
  BY Zenon, <1>1 DEF GroupInv, GroupType
<1>6. GroupType'
  BY Zenon, <1>1, <1>2, <1>4, <1>5 DEF GroupInv, GroupType
<1>7. RoleInv'
  BY Zenon, <1>1, <1>2, <1>3 DEF GroupInv, RoleInv, Leads
<1>8. QueueInv'
  BY Zenon, <1>1, <1>2, <1>3, <1>4, <1>5 DEF GroupInv, QueueInv
<1>9. CallInv'
  <2>1. \A x \in Writers : x # w => ~Flusher(x)' /\ At(x)' \notin {"lead", "apply"}
    BY Zenon, <1>2, <1>3 DEF GroupInv, RoleInv, Leads
  <2>2. QED
    BY Zenon, <1>2, <1>4, <1>5, <2>1 DEF GroupInv, CallInv, InSync
<1>10. QED
  BY Zenon, <1>6, <1>7, <1>8, <1>9 DEF GroupInv

\* A writer that finds a flush in progress queues up (commit, commitOne).
LEMMA CommitQueuedStep ==
  ASSUME GroupInv, NEW w \in Writers, CommitQueued(w)
  PROVE  GroupInv'
<1>1. /\ At(w) = "idle" /\ flushing /\ queue' = Append(queue, w)
      /\ UNCHANGED <<flushing, batch, syncing>> /\ rounds' = [rounds EXCEPT ![w] = 0]
  BY Zenon DEF CommitQueued
<1>2. /\ pc' \in [Writers -> Pcs] /\ At(w)' = "wait" /\ ~Flusher(w)'
      /\ \A x \in Writers : x # w => At(x)' = At(x) /\ (Flusher(x)' <=> Flusher(x))
  <2>1. "wait" \in Places /\ FALSE \in BOOLEAN /\ pc' = [pc EXCEPT ![w] = [at |-> "wait", flusher |-> FALSE]]
    BY Zenon DEF CommitQueued, Places
  <2>2. QED
    BY Zenon, <2>1, Placed
<1>3. ~Flusher(w) /\ w \notin Range(queue) /\ w \notin Range(batch)
  BY Zenon, <1>1, Queued DEF GroupInv, RoleInv
<1>4. /\ queue' \in Seq(Writers) /\ Range(queue') = Range(queue) \cup {w} /\ IsInjective(queue')
      /\ queue' # <<>> /\ (queue # <<>> => Head(queue') = Head(queue))
  BY Zenon, <1>1, <1>3, AppendFacts DEF GroupInv, GroupType, QueueInv
<1>5. rounds' \in [Writers -> {0, 1}] /\ rounds'[w] = 0 /\ \A x \in Writers : x # w => rounds'[x] = rounds[x]
  BY Zenon, <1>1 DEF GroupInv, GroupType
<1>6. GroupType'
  BY Zenon, <1>1, <1>2, <1>4, <1>5 DEF GroupInv, GroupType
<1>7. RoleInv'
  BY Zenon, <1>1, <1>2, <1>3, <1>4 DEF GroupInv, RoleInv, Leads
<1>8. QueueInv'
  BY Zenon, <1>1, <1>2, <1>3, <1>4, <1>5, Queued DEF GroupInv, QueueInv
<1>9. CallInv'
  BY <1>1, <1>2, <1>3, <1>5, Queued DEF GroupInv, CallInv, InSync
<1>10. QED
  BY Zenon, <1>6, <1>7, <1>8, <1>9 DEF GroupInv

\* The appointed leader takes the whole queue, its own request included (flushAsLeader).
LEMMA TakeQueueStep ==
  ASSUME GroupInv, NEW w \in Writers, TakeQueue(w)
  PROVE  GroupInv'
<1>1. /\ At(w) = "lead" /\ batch' = queue /\ queue' = <<>>
      /\ UNCHANGED <<flushing, syncing, rounds>>
  BY Zenon DEF TakeQueue
<1>2. /\ pc' \in [Writers -> Pcs] /\ At(w)' = "apply" /\ Flusher(w)'
      /\ \A x \in Writers : x # w => At(x)' = At(x) /\ (Flusher(x)' <=> Flusher(x))
  <2>1. "apply" \in Places /\ TRUE \in BOOLEAN /\ pc' = [pc EXCEPT ![w] = [at |-> "apply", flusher |-> TRUE]]
    BY Zenon DEF TakeQueue, Places
  <2>2. QED
    BY Zenon, <2>1, Placed
<1>3. flushing /\ queue # <<>> /\ Head(queue) = w /\ \A x \in Writers : x # w => ~Leads(x)
  BY Zenon, <1>1 DEF GroupInv, RoleInv, Leads
<1>4. /\ w \in Range(batch') /\ Range(batch') = Range(queue) /\ Range(queue') = {}
      /\ Range(queue) \subseteq Writers /\ IsInjective(queue')
  BY Zenon, <1>1, <1>3, RangeOf DEF GroupInv, GroupType
<1>5. GroupType'
  BY <1>1, <1>2 DEF GroupInv, GroupType
<1>6. RoleInv'
  BY Zenon, <1>1, <1>2, <1>3 DEF GroupInv, RoleInv, Leads
<1>7. QueueInv'
  <2>1. \A x \in Range(batch') : At(x)' = "wait" \/ Flusher(x)'
    BY Zenon, <1>2, <1>3, <1>4 DEF GroupInv, QueueInv, Leads
  <2>2. IsInjective(batch')
    BY Zenon, <1>1 DEF GroupInv, QueueInv
  <2>3. QED
    BY Zenon, <1>4, <2>1, <2>2 DEF QueueInv
<1>8. CallInv'
  <2>1. \A x \in Range(batch') : rounds'[x] = 0
    BY Zenon, <1>1, <1>4 DEF GroupInv, QueueInv
  <2>2. \A x \in Writers : x # w => ~Flusher(x)' /\ At(x)' \notin {"lead", "apply"}
    BY Zenon, <1>2, <1>3 DEF GroupInv, RoleInv, Leads
  <2>3. QED
    BY Zenon, <1>1, <1>2, <1>4, <2>1, <2>2 DEF GroupInv, CallInv, InSync
<1>9. QED
  BY Zenon, <1>5, <1>6, <1>7, <1>8 DEF GroupInv

\* The batch is applied in one critical section (applyWrites, applyOne, applyBatch).
LEMMA ApplyRequestsStep ==
  ASSUME GroupInv, NEW w \in Writers, ApplyRequests(w)
  PROVE  GroupInv' /\ \A x \in Range(batch) : rounds[x] = 0 /\ rounds'[x] = 1
<1>1. /\ At(w) = "apply" /\ Go(w, "sync") /\ UNCHANGED <<flushing, queue, batch, syncing>>
      /\ rounds' = [x \in Writers |-> IF x \in Range(batch) THEN rounds[x] + 1 ELSE rounds[x]]
  BY Zenon DEF ApplyRequests
<1>2. /\ pc' \in [Writers -> Pcs] /\ At(w)' = "sync" /\ (Flusher(w)' <=> Flusher(w))
      /\ \A x \in Writers : x # w => At(x)' = At(x) /\ (Flusher(x)' <=> Flusher(x))
  BY Zenon, <1>1, Went DEF Places
<1>3. /\ Flusher(w) /\ w \in Range(batch) /\ Range(batch) \subseteq Writers
      /\ \A x \in Range(batch) : rounds[x] = 0
      /\ \A x \in Writers : x # w => ~Leads(x)
  BY Zenon, <1>1, Queued DEF GroupInv, RoleInv, CallInv, Leads
<1>4. /\ \A x \in Range(batch) : rounds'[x] = 1
      /\ \A x \in Writers : x \notin Range(batch) => rounds'[x] = rounds[x]
      /\ rounds' \in [Writers -> {0, 1}]
  BY <1>1, <1>3 DEF GroupInv, GroupType
<1>5. GroupType'
  BY Zenon, <1>1, <1>2, <1>4 DEF GroupInv, GroupType
<1>6. RoleInv'
  BY Zenon, <1>1, <1>2, <1>3 DEF GroupInv, RoleInv, Leads
<1>7. QueueInv'
  <2>1. \A x \in Range(queue) : x # w /\ x \in Writers /\ rounds'[x] = rounds[x]
    BY Zenon, <1>1, <1>4, Queued DEF GroupInv, QueueInv
  <2>2. QED
    BY Zenon, <1>1, <1>2, <1>3, <2>1 DEF GroupInv, QueueInv
<1>8. CallInv'
  <2>1. \A x \in Writers : x # w => ~Flusher(x)' /\ At(x)' \notin {"lead", "apply"}
    BY Zenon, <1>2, <1>3 DEF GroupInv, RoleInv, Leads
  <2>2. \A x \in Writers : x # w /\ At(x) \in {"del"} \cup InSync \cup {"signal", "idle"} => rounds'[x] = rounds[x]
    BY Zenon, <1>3, <1>4, Queued DEF InSync, Leads
  <2>3. QED
    BY Zenon, <1>1, <1>2, <1>3, <1>4, <2>1, <2>2 DEF GroupInv, CallInv, InSync
<1>9. QED
  BY Zenon, <1>3, <1>4, <1>5, <1>6, <1>7, <1>8 DEF GroupInv

\* The flusher answers the first request left in its batch (flushAsLeader).
LEMMA SignalDoneStep ==
  ASSUME GroupInv, NEW w \in Writers, SignalDone(w)
  PROVE  GroupInv' /\ Head(batch) \in Writers
<1>1. /\ At(w) = "signal" /\ Flusher(w) /\ batch # <<>> /\ batch' = Tail(batch)
      /\ UNCHANGED <<flushing, queue, syncing, rounds>>
      /\ pc' = IF Head(batch) = w THEN pc ELSE [pc EXCEPT ![Head(batch)].at = "idle"]
  BY Zenon DEF SignalDone
<1>2. PICK b : b = Head(batch)
  BY Zenon
<1>3. /\ b \in Writers /\ b \in Range(batch) /\ Range(batch') \subseteq Range(batch)
      /\ batch' \in Seq(Writers) /\ IsInjective(batch') /\ b \notin Range(batch')
      /\ Range(batch) \subseteq Writers
  BY Zenon, <1>1, <1>2, TailFacts, Queued DEF GroupInv, GroupType, QueueInv
<1>4. /\ pc' \in [Writers -> Pcs]
      /\ \A x \in Writers : Flusher(x)' <=> Flusher(x)
      /\ \A x \in Writers : x # b \/ x = w => At(x)' = At(x)
      /\ b # w => At(b)' = "idle"
  <2>1. CASE b = w
    <3>1. pc' = pc
      BY Zenon, <1>1, <1>2, <2>1
    <3>2. QED
      BY Zenon, <2>1, <3>1 DEF GroupInv, GroupType, At, Flusher
  <2>2. CASE b # w
    <3>1. Go(b, "idle")
      BY Zenon, <1>1, <1>2, <2>2 DEF Go
    <3>2. QED
      BY Zenon, <1>3, <2>2, <3>1, Went DEF Places
  <2>3. QED
    BY Zenon, <2>1, <2>2
<1>5. \A x \in Writers : x # w => ~Leads(x)
  BY Zenon, <1>1 DEF GroupInv, RoleInv, Leads
<1>6. rounds[b] = 1 /\ b \notin Range(queue)
  BY Zenon, <1>1, <1>3 DEF GroupInv, CallInv, QueueInv
<1>7. b # w => At(b) = "wait"
  BY Zenon, <1>3, <1>5 DEF GroupInv, QueueInv, Leads
<1>8. GroupType'
  BY Zenon, <1>1, <1>3, <1>4 DEF GroupInv, GroupType
<1>9. RoleInv'
  BY Zenon, <1>1, <1>4, <1>5 DEF GroupInv, RoleInv, Leads
<1>10. QueueInv'
  <2>1. \A x \in Range(queue) : x \in Writers /\ At(x)' = At(x)
    BY Zenon, <1>4, <1>6, Queued
  <2>2. \A x \in Range(batch') : x \in Writers /\ At(x)' = At(x)
    BY Zenon, <1>3, <1>4
  <2>3. QED
    BY Zenon, <1>1, <1>3, <1>4, <2>1, <2>2 DEF GroupInv, QueueInv
<1>11. CallInv'
  BY <1>1, <1>3, <1>4, <1>6 DEF GroupInv, CallInv, InSync
<1>12. QED
  BY Zenon, <1>2, <1>3, <1>8, <1>9, <1>10, <1>11 DEF GroupInv

\* The flusher gives its role up, or hands it to the first of the queue (finishFlush).
LEMMA FinishFlushStep ==
  ASSUME GroupInv, NEW w \in Writers, FinishFlush(w)
  PROVE  GroupInv'
<1> DEFINE home == [pc EXCEPT ![w] = [at |-> "idle", flusher |-> FALSE]]
<1>1. /\ At(w) = "signal" /\ Flusher(w) /\ batch = <<>> /\ flushing' = (queue # <<>>)
      /\ UNCHANGED <<queue, batch, syncing, rounds>>
      /\ pc' = IF queue = <<>> THEN home ELSE [home EXCEPT ![Head(queue)].at = "lead"]
  BY Zenon DEF FinishFlush
<1>2. /\ \A x \in Writers : x # w => ~Leads(x)
      /\ rounds[w] = 1 /\ w \notin Range(queue) /\ Range(queue) \subseteq Writers /\ Range(batch) = {}
  <2>1. /\ \A x \in Writers : x # w => ~Leads(x)
        /\ rounds[w] = 1
    BY Zenon, <1>1 DEF GroupInv, RoleInv, CallInv, Leads
  <2>2. Range(batch) = {}
    BY <1>1 DEF Range
  <2>3. QED
    BY Zenon, <1>1, <2>1, <2>2, Queued
<1>3. PICK f : f = home
  BY Zenon
<1>4. /\ f \in [Writers -> Pcs] /\ f[w] = [at |-> "idle", flusher |-> FALSE]
      /\ \A x \in Writers : x # w => f[x] = pc[x]
  <2>1. pc \in [Writers -> Pcs] /\ "idle" \in Places /\ FALSE \in BOOLEAN
    BY Zenon DEF GroupInv, GroupType, Places
  <2>2. QED
    BY Zenon, <1>3, <2>1, PcPlaced
<1>5. f[w].at = "idle" /\ ~f[w].flusher
  BY <1>4
<1>6. /\ pc' \in [Writers -> Pcs] /\ ~Flusher(w)' /\ At(w)' = "idle"
      /\ \A x \in Writers : x # w => (Flusher(x)' <=> Flusher(x))
      /\ \A x \in Writers : x # w /\ (queue = <<>> \/ x # Head(queue)) => At(x)' = At(x)
      /\ queue # <<>> => At(Head(queue))' = "lead"
  <2>1. CASE queue = <<>>
    <3>1. pc' = f
      BY Zenon, <1>1, <1>3, <2>1
    <3>2. QED
      BY Zenon, <1>4, <1>5, <2>1, <3>1 DEF At, Flusher
  <2>2. CASE queue # <<>>
    <3>1. PICK h \in Writers : h = Head(queue) /\ h # w
      BY <1>2, <2>2, RangeOf DEF GroupInv, GroupType
    <3>2. PICK g : g = pc'
      BY Zenon
    <3>3. g = [f EXCEPT ![h].at = "lead"] /\ "lead" \in Places
      BY Zenon, <1>1, <1>3, <2>2, <3>1, <3>2 DEF Places
    <3>4. /\ g \in [Writers -> Pcs] /\ g[h].at = "lead" /\ g[h].flusher = f[h].flusher
          /\ \A x \in Writers : x # h => g[x] = f[x]
      <4>1. PICK p \in Places : p = "lead"
        BY Zenon, <3>3
      <4>2. QED
        BY <1>4, <3>3, <4>1, PcWent
    <3>5. /\ pc'[w].at = "idle" /\ ~pc'[w].flusher /\ pc'[h].at = "lead"
          /\ \A x \in Writers : x # w => (pc'[x].flusher <=> pc[x].flusher)
          /\ \A x \in Writers : x # w /\ x # h => pc'[x].at = pc[x].at
      BY Zenon, <1>4, <1>5, <3>1, <3>2, <3>4
    <3>6. QED
      BY Zenon, <1>1, <2>2, <3>1, <3>2, <3>4, <3>5 DEF At, Flusher
  <2>3. QED
    BY Zenon, <2>1, <2>2
<1>7. queue # <<>> => Head(queue) \in Range(queue) /\ Head(queue) \in Writers /\ Head(queue) # w
  BY <1>2, RangeOf DEF GroupInv, GroupType
<1>8. GroupType'
  BY Zenon, <1>1, <1>6 DEF GroupInv, GroupType
<1>9. RoleInv'
  BY Zenon, <1>1, <1>2, <1>6, <1>7 DEF GroupInv, RoleInv, Leads
<1>10. QueueInv'
  BY Zenon, <1>1, <1>2, <1>6 DEF GroupInv, QueueInv
<1>11. CallInv'
  <2>1. queue # <<>> => rounds[Head(queue)] = 0
    BY Zenon, <1>7 DEF GroupInv, QueueInv
  <2>2. ASSUME NEW x \in Writers PROVE ~Flusher(x)' /\ At(x)' # "apply"
    <3>1. x # w => ~Flusher(x) /\ At(x) # "apply"
      BY Zenon, <1>2 DEF GroupInv, RoleInv, Leads
    <3>2. CASE queue # <<>> /\ x = Head(queue)
      BY Zenon, <1>1, <1>6, <1>7, <3>1, <3>2
    <3>3. CASE queue = <<>> \/ x # Head(queue)
      BY Zenon, <1>6, <3>1, <3>3
    <3>4. QED
      BY Zenon, <3>2, <3>3
  <2>3. QED
    <3>1. ASSUME NEW x \in Writers, At(x)' \in InSync \cup {"signal", "idle"} PROVE rounds'[x] = 1
      BY Zenon, <1>1, <1>2, <1>6, <1>7, <3>1 DEF GroupInv, CallInv, InSync
    <3>2. ASSUME NEW x \in Writers, At(x)' \in {"lead", "apply", "del"} PROVE rounds'[x] = 0
      BY Zenon, <1>1, <1>2, <1>6, <1>7, <2>1, <3>2 DEF GroupInv, CallInv
    <3>3. QED
      BY Zenon, <2>2, <3>1, <3>2 DEF CallInv
<1>12. QED
  BY Zenon, <1>8, <1>9, <1>10, <1>11 DEF GroupInv

\* Delete and Txn.Commit neither queue nor lead.
LEMMA DeleteCalledStep ==
  ASSUME GroupInv, NEW w \in Writers, DeleteCalled(w)
  PROVE  GroupInv'
<1>1. /\ At(w) = "idle" /\ UNCHANGED <<flushing, queue, batch, syncing>> /\ rounds' = [rounds EXCEPT ![w] = 0]
  BY Zenon DEF DeleteCalled
<1>2. /\ pc' \in [Writers -> Pcs] /\ At(w)' = "del" /\ ~Flusher(w)'
      /\ \A x \in Writers : x # w => At(x)' = At(x) /\ (Flusher(x)' <=> Flusher(x))
  <2>1. "del" \in Places /\ FALSE \in BOOLEAN /\ pc' = [pc EXCEPT ![w] = [at |-> "del", flusher |-> FALSE]]
    BY Zenon DEF DeleteCalled, Places
  <2>2. QED
    BY Zenon, <2>1, Placed
<1>3. ~Flusher(w) /\ w \notin Range(queue) /\ w \notin Range(batch)
  BY Zenon, <1>1, Queued DEF GroupInv, RoleInv
<1>4. rounds' \in [Writers -> {0, 1}] /\ rounds'[w] = 0 /\ \A x \in Writers : x # w => rounds'[x] = rounds[x]
  BY Zenon, <1>1 DEF GroupInv, GroupType
<1>5. GroupType'
  BY Zenon, <1>1, <1>2, <1>4 DEF GroupInv, GroupType
<1>6. RoleInv'
  BY Zenon, <1>1, <1>2, <1>3 DEF GroupInv, RoleInv, Leads
<1>7. QueueInv'
  BY Zenon, <1>1, <1>2, <1>3, <1>4, Queued DEF GroupInv, QueueInv
<1>8. CallInv'
  BY <1>1, <1>2, <1>3, <1>4, Queued DEF GroupInv, CallInv, InSync
<1>9. QED
  BY Zenon, <1>5, <1>6, <1>7, <1>8 DEF GroupInv

\* A delete's critical section: it goes on to sync, or returns (nothing to delete).
LEMMA DeletedStep ==
  ASSUME GroupInv, NEW w \in Writers, At(w) = "del", Go(w, "need") \/ Go(w, "idle"),
         rounds' = [rounds EXCEPT ![w] = 1], UNCHANGED <<flushing, queue, batch, syncing>>
  PROVE  GroupInv'
<1>1. /\ pc' \in [Writers -> Pcs] /\ At(w)' \in {"need", "idle"} /\ (Flusher(w)' <=> Flusher(w))
      /\ \A x \in Writers : x # w => At(x)' = At(x) /\ (Flusher(x)' <=> Flusher(x))
  <2>1. CASE Go(w, "need")
    BY Zenon, <2>1, Went DEF Places
  <2>2. CASE Go(w, "idle")
    BY Zenon, <2>2, Went DEF Places
  <2>3. QED
    BY Zenon, <2>1, <2>2
<1>2. ~Flusher(w) /\ w \notin Range(queue) /\ w \notin Range(batch)
  BY Zenon, Queued DEF GroupInv, RoleInv
<1>3. rounds' \in [Writers -> {0, 1}] /\ rounds'[w] = 1 /\ \A x \in Writers : x # w => rounds'[x] = rounds[x]
  BY Zenon DEF GroupInv, GroupType
<1>4. GroupType'
  BY Zenon, <1>1, <1>3 DEF GroupInv, GroupType
<1>5. RoleInv'
  BY Zenon, <1>1, <1>2 DEF GroupInv, RoleInv, Leads
<1>6. QueueInv'
  BY Zenon, <1>1, <1>2, <1>3, Queued DEF GroupInv, QueueInv
<1>7. CallInv'
  BY <1>1, <1>2, <1>3, Queued DEF GroupInv, CallInv, InSync
<1>8. QED
  BY Zenon, <1>4, <1>5, <1>6, <1>7 DEF GroupInv

\* In syncFor writers move among its places and keep their roles.
LEMMA SyncMoves ==
  ASSUME GroupInv, UNCHANGED <<flushing, queue, batch, rounds>>, syncing' \in BOOLEAN,
         pc' \in [Writers -> Pcs],
         \A x \in Writers : /\ Flusher(x)' <=> Flusher(x)
                            /\ At(x)' = At(x) \/ (At(x) \in InSync /\ At(x)' \in InSync \ {"need"})
  PROVE  GroupInv'
<1>1. GroupType'
  BY Zenon DEF GroupInv, GroupType
<1>2. RoleInv'
  BY Zenon DEF GroupInv, RoleInv, Leads, InSync
<1>3. QueueInv'
  BY Zenon, Queued DEF GroupInv, QueueInv, InSync
<1>4. CallInv'
  BY Zenon DEF GroupInv, CallInv, InSync
<1>5. QED
  BY Zenon, <1>1, <1>2, <1>3, <1>4 DEF GroupInv

\* A writer that moves on within syncFor by itself.
LEMMA SyncGo ==
  ASSUME GroupInv, NEW w \in Writers, At(w) \in InSync, NEW p \in InSync \ {"need"}, Go(w, p),
         UNCHANGED <<flushing, queue, batch, rounds>>, syncing' \in BOOLEAN
  PROVE  GroupInv'
<1>1. p \in Places
  BY Zenon DEF InSync, Places
<1>2. /\ pc' \in [Writers -> Pcs] /\ At(w)' = p /\ (Flusher(w)' <=> Flusher(w))
      /\ \A x \in Writers : x # w => At(x)' = At(x) /\ (Flusher(x)' <=> Flusher(x))
  BY Zenon, <1>1, Went
<1>3. QED
  BY Zenon, <1>2, SyncMoves

\* The end of a pass wakes everybody who slept through it.
LEMMA PassDoneStep ==
  ASSUME GroupInv, NEW w \in Writers, PassDone(w)
  PROVE  GroupInv'
<1>1. /\ At(w) = "msync" /\ syncing' = FALSE /\ UNCHANGED <<flushing, queue, batch, rounds>>
      /\ pc' = [x \in Writers |-> IF x = w \/ At(x) = "cond" THEN [pc[x] EXCEPT !.at = "sync"] ELSE pc[x]]
  BY Zenon DEF PassDone
<1>2. PICK g : g = pc'
  BY Zenon
<1>3. ASSUME NEW x \in Writers
      PROVE  /\ g[x] \in Pcs /\ g[x].flusher = pc[x].flusher
             /\ g[x].at = IF x = w \/ At(x) = "cond" THEN "sync" ELSE pc[x].at
  <2>1. PICK r \in Pcs : r = pc[x]
    BY Zenon DEF GroupInv, GroupType
  <2>2. [r EXCEPT !.at = "sync"] = [at |-> "sync", flusher |-> r.flusher]
    BY DEF Pcs
  <2>3. r.flusher \in BOOLEAN /\ "sync" \in Places
    BY Zenon DEF Pcs, Places
  <2>4. PICK q : q = [at |-> "sync", flusher |-> r.flusher]
    BY Zenon
  <2>5. q \in Pcs /\ q.at = "sync" /\ q.flusher = r.flusher
    <3>1. q \in Pcs
      BY Zenon, <2>3, <2>4 DEF Pcs
    <3>2. q.at = "sync"
      BY Zenon, <2>4
    <3>3. q.flusher = r.flusher
      BY Zenon, <2>4
    <3>4. QED
      BY Zenon, <3>1, <3>2, <3>3
  <2>6. g[x] = IF x = w \/ At(x) = "cond" THEN q ELSE r
    BY Zenon, <1>1, <1>2, <2>1, <2>2, <2>4
  <2>7. QED
    BY Zenon, <2>1, <2>5, <2>6
<1>4. g \in [Writers -> Pcs]
  BY Zenon, <1>1, <1>2, <1>3
<1>5. \A x \in Writers : /\ Flusher(x)' <=> Flusher(x)
                         /\ At(x)' = At(x) \/ (At(x) \in InSync /\ At(x)' \in InSync \ {"need"})
  BY <1>1, <1>2, <1>3 DEF At, Flusher, InSync
<1>6. QED
  BY Zenon, <1>1, <1>2, <1>4, <1>5, SyncMoves

\* syncFor returns to a flusher, who wakes its batch, or ends the call.
LEMMA SyncReturnStep ==
  ASSUME GroupInv, NEW w \in Writers, SyncReturn(w)
  PROVE  GroupInv'
<1>1. /\ At(w) = "sync" /\ UNCHANGED <<flushing, queue, batch, syncing, rounds>>
      /\ Go(w, IF Flusher(w) THEN "signal" ELSE "idle")
  BY Zenon DEF SyncReturn
<1>2. /\ pc' \in [Writers -> Pcs] /\ At(w)' = (IF Flusher(w) THEN "signal" ELSE "idle")
      /\ (Flusher(w)' <=> Flusher(w))
      /\ \A x \in Writers : x # w => At(x)' = At(x) /\ (Flusher(x)' <=> Flusher(x))
  <2>1. CASE Flusher(w)
    BY Zenon, <1>1, <2>1, Went DEF Places
  <2>2. CASE ~Flusher(w)
    BY Zenon, <1>1, <2>2, Went DEF Places
  <2>3. QED
    BY Zenon, <2>1, <2>2
<1>3. w \notin Range(queue)
  BY Zenon, <1>1, Queued
<1>4. GroupType'
  BY Zenon, <1>1, <1>2 DEF GroupInv, GroupType
<1>5. RoleInv'
  BY Zenon, <1>1, <1>2 DEF GroupInv, RoleInv, Leads
<1>6. QueueInv'
  BY Zenon, <1>1, <1>2, <1>3, Queued DEF GroupInv, QueueInv
<1>7. CallInv'
  BY Zenon, <1>1, <1>2 DEF GroupInv, CallInv, InSync
<1>8. QED
  BY Zenon, <1>4, <1>5, <1>6, <1>7 DEF GroupInv

\* What a writer does next keeps the protocol's invariant.
LEMMA StepKeepsGroup ==
  ASSUME GroupInv, NEW w \in Writers, Step(w)
  PROVE  GroupInv'
<1>1. CASE Lead(w)
  BY Zenon, <1>1, TakeQueueStep DEF Lead
<1>2. CASE Apply(w)
  BY Zenon, <1>2, ApplyRequestsStep DEF Apply
<1>3. CASE DeleteLive(w)
  <2>1. At(w) = "del" /\ Go(w, "need") /\ rounds' = [rounds EXCEPT ![w] = 1]
        /\ UNCHANGED <<flushing, queue, batch, syncing>>
    BY Zenon, <1>3 DEF DeleteLive, DeleteApplied
  <2>2. QED
    BY Zenon, <2>1, DeletedStep
<1>4. CASE DeleteAbsent(w)
  BY Zenon, <1>4, DeletedStep DEF DeleteAbsent
<1>5. CASE SyncAll(w)
  <2>1. At(w) = "need" /\ Go(w, "sync") /\ UNCHANGED <<flushing, queue, batch, syncing, rounds>>
    BY Zenon, <1>5 DEF SyncAll, SyncCalled
  <2>2. syncing' \in BOOLEAN
    BY Zenon, <2>1 DEF GroupInv, GroupType
  <2>3. QED
    BY Zenon, <2>1, <2>2, SyncGo DEF InSync
<1>6. CASE SyncCovered(w)
  BY Zenon, <1>6, SyncReturnStep DEF SyncCovered
<1>7. CASE SyncUncovered(w)
  <2>1. CASE SyncWait(w)
    <3>1. syncing' \in BOOLEAN
      BY Zenon, <2>1 DEF SyncWait, GroupInv, GroupType
    <3>2. QED
      BY Zenon, <2>1, <3>1, SyncGo DEF SyncWait, InSync
  <2>2. CASE SyncLead(w)
    <3>1. syncing' \in BOOLEAN
      BY Zenon, <2>2 DEF SyncLead
    <3>2. QED
      BY Zenon, <2>2, <3>1, SyncGo DEF SyncLead, InSync
  <2>3. QED
    BY Zenon, <1>7, <2>1, <2>2 DEF SyncUncovered
<1>8. CASE Capture(w)
  <2>1. At(w) = "pass" /\ Go(w, "msync") /\ UNCHANGED <<flushing, queue, batch, syncing, rounds>>
    BY Zenon, <1>8 DEF Capture, PassCaptured
  <2>2. syncing' \in BOOLEAN
    BY Zenon, <2>1 DEF GroupInv, GroupType
  <2>3. QED
    BY Zenon, <2>1, <2>2, SyncGo DEF InSync
<1>9. CASE Msync(w)
  BY Zenon, <1>9, PassDoneStep DEF Msync
<1>10. CASE Answer(w)
  BY Zenon, <1>10, SignalDoneStep DEF Answer
<1>11. CASE Finish(w)
  BY Zenon, <1>11, FinishFlushStep DEF Finish
<1>12. QED
  BY Zenon, <1>1, <1>2, <1>3, <1>4, <1>5, <1>6, <1>7, <1>8, <1>9, <1>10, <1>11 DEF Step

\* Maintenance and recovery leave the protocol alone; a crash ends all calls.
LEMMA NextKeepsGroup ==
  ASSUME GroupInv, [Next]_vars
  PROVE  GroupInv'
<1>1. CASE UNCHANGED gvars
  BY Zenon, <1>1 DEF gvars, GroupInv, GroupType, RoleInv, QueueInv, CallInv, Leads, At, Flusher
<1>2. ASSUME NEW w \in Writers, NEW k \in Keys, CallPut(w, k) \/ CallDelete(w, k)
      PROVE  GroupInv'
  BY Zenon, <1>2, CommitFastStep, CommitQueuedStep, DeleteCalledStep DEF CallPut, CallDelete
<1>3. ASSUME NEW w \in Writers, Step(w) PROVE GroupInv'
  BY Zenon, <1>3, StepKeepsGroup
<1>4. CASE Crash
  <2>1. GInit'
    BY Zenon, <1>4 DEF Crash, GInit
  <2>2. QED
    BY <2>1, GroupInit, PTL
<1>5. CASE Evict \/ Reclaim \/ Compact \/ (\E g \in files : Unlink(g)) \/ Recover \/ Serve
  BY Zenon, <1>1, <1>5 DEF Evict, Reclaim, Compact, CompactBegin, CompactCopy, CompactFlush, CompactInstall,
                    Unlink, Recover, Serve
<1>6. CASE UNCHANGED vars
  BY Zenon, <1>1, <1>6 DEF vars
<1>7. QED
  BY Zenon, <1>2, <1>3, <1>4, <1>5, <1>6 DEF Next

\* Group commit applies every request exactly once, whoever flushes it: commit
\* and commitOne hand the role over without losing or repeating a request.
THEOREM RequestsAppliedOnce == Spec => []AppliedOnce
<1>1. Init => GroupInv
  BY Zenon, GroupInit DEF Init
<1>2. GroupInv /\ [Next]_vars => GroupInv'
  BY Zenon, NextKeepsGroup
<1>3. GroupInv => AppliedOnce
  BY DEF GroupInv, GroupType, CallInv, AppliedOnce
<1>4. QED
  BY <1>1, <1>2, <1>3, PTL DEF Spec

-----------------------------------------------------------------------------
(* Numbers. *)

\* Every non-empty set of naturals has a least element.
LEMMA LeastNat ==
  ASSUME NEW T, T \subseteq Nat, T # {}
  PROVE  \E x \in T : \A y \in T : x <= y
<1>1. PICK R : R = OpToRel(<, Nat)
  BY Zenon
<1>2. IsWellFoundedOn(R, Nat)
  BY Zenon, <1>1, NatLessThanWellFounded
<1>3. PICK x \in T : \A y \in T : ~ (<<y, x>> \in R)
  BY Zenon, <1>2, WFMin
<1>4. \A a, b \in Nat : a < b => <<a, b>> \in R
  BY Zenon, <1>1 DEF OpToRel
<1>5. \A y \in T : ~(y < x)
  BY Zenon, <1>3, <1>4
<1>6. \A y \in T : y \in Nat
  OBVIOUS
<1>7. QED
  BY <1>5, <1>6

\* ... and a greatest one when it is bounded.
LEMMA GreatestNat ==
  ASSUME NEW T, NEW n \in Nat, T \subseteq 0 .. n, T # {}
  PROVE  \E x \in T : \A y \in T : y <= x
<1>1. PICK U : U = {m \in Nat : \A y \in T : y <= m}
  BY Zenon
<1>2. U \subseteq Nat /\ n \in U
  BY <1>1
<1>3. PICK m \in U : \A y \in U : m <= y
  BY Zenon, <1>2, LeastNat
<1>4. m \in Nat /\ \A y \in T : y <= m
  BY Zenon, <1>1
<1>5. ASSUME m \notin T PROVE FALSE
  <2>1. \A y \in T : y \in Nat /\ y <= m - 1
    BY <1>4, <1>5
  <2>2. m - 1 \in Nat
    <3>1. PICK y \in T : TRUE
      OBVIOUS
    <3>2. QED
      BY <1>4, <2>1, <3>1
  <2>3. m - 1 \in U
    BY Zenon, <1>1, <2>1, <2>2
  <2>4. QED
    BY <1>3, <1>4, <2>3
<1>6. QED
  BY Zenon, <1>4, <1>5

\* In a finite set of naturals there is an element of every rank.
LEMMA Ranks ==
  ASSUME NEW S, S \subseteq Nat, IsFiniteSet(S), NEW i \in 1 .. Cardinality(S)
  PROVE  \E l \in S : Cardinality({m \in S : m < l}) = i - 1
<1> DEFINE below(l) == {m \in S : m < l}
<1>1. Cardinality(S) \in Nat /\ \A l \in S : IsFiniteSet(below(l)) /\ Cardinality(below(l)) \in Nat
  <2>1. \A l \in S : below(l) \subseteq S
    OBVIOUS
  <2>2. QED
    BY Zenon, <2>1, FS_Subset, FS_CardinalityType
<1>2. SUFFICES ASSUME ~ \E l \in S : Cardinality(below(l)) = i - 1 PROVE FALSE
  OBVIOUS
<1>3. PICK T : T = {j \in Nat : j < Cardinality(S) /\ ~ \E l \in S : Cardinality(below(l)) = j}
  BY Zenon
<1>4. i - 1 \in T /\ T \subseteq Nat
  BY <1>1, <1>2, <1>3
<1>5. PICK j \in T : \A y \in T : j <= y
  BY Zenon, <1>4, LeastNat
<1>6. j \in Nat /\ j < Cardinality(S) /\ ~ \E l \in S : Cardinality(below(l)) = j
  BY Zenon, <1>3
<1>7. CASE j = 0
  <2>1. S # {}
    BY <1>6, <1>7, FS_EmptySet
  <2>2. PICK l \in S : \A y \in S : l <= y
    BY Zenon, <2>1, LeastNat
  <2>3. below(l) = {}
    <3>1. \A y \in S : ~(y < l)
      BY <2>2
    <3>2. QED
      BY Zenon, <3>1
  <2>4. Cardinality(below(l)) = 0
    BY Zenon, <2>3, FS_EmptySet
  <2>5. QED
    BY Zenon, <1>6, <1>7, <2>4
<1>8. CASE j # 0
  <2>1. j - 1 \in Nat /\ j - 1 < Cardinality(S) /\ j - 1 \notin T
    BY <1>1, <1>5, <1>6, <1>8
  <2>2. PICK l \in S : Cardinality(below(l)) = j - 1
    BY Zenon, <1>3, <2>1
  <2>3. PICK B : B = below(l) \cup {l}
    BY Zenon
  <2>4. l \notin below(l)
    OBVIOUS
  <2>5. IsFiniteSet(B) /\ Cardinality(B) = j /\ B \subseteq S
    <3>1. PICK C : C = below(l)
      BY Zenon
    <3>2. IsFiniteSet(C) /\ Cardinality(C) = j - 1 /\ l \notin C /\ B = C \cup {l} /\ C \subseteq S
      BY Zenon, <1>1, <2>2, <2>3, <2>4, <3>1
    <3>3. IsFiniteSet(B) /\ Cardinality(B) = Cardinality(C) + 1
      BY Zenon, <3>2, FS_AddElement
    <3>4. QED
      BY <1>6, <3>2, <3>3
  <2>6. S \ B # {}
    <3>1. S # B
      BY <1>6, <2>5
    <3>2. QED
      BY Zenon, <2>5, <3>1
  <2>7. PICK h \in S \ B : \A y \in S \ B : h <= y
    BY Zenon, <2>6, LeastNat
  <2>8. \A m \in S : m < h <=> m \in B
    BY <2>3, <2>7
  <2>9. below(h) = B
    BY Zenon, <2>5, <2>8
  <2>10. QED
    BY Zenon, <1>6, <2>5, <2>7, <2>9
<1>9. QED
  BY Zenon, <1>7, <1>8

-----------------------------------------------------------------------------
(* Memory images. *)

\* A stamp, or a move to another segment, leaves a record of the same kind.
LEMMA RecordFacts ==
  ASSUME NEW n \in Nat, NEW r \in Records(n)
  PROVE  /\ \A s \in Ends(n) : [r EXCEPT !.sup = s] \in Records(n)
         /\ \A g \in Nat : [r EXCEPT !.seg = g] \in Records(n)
         /\ r.seq \in 0 .. n /\ r.sup \in Ends(n) /\ r.seg \in Nat
BY Zenon DEF Records

\* A log whose records are rewritten in place is a log of the same length.
LEMMA Relogged ==
  ASSUME NEW S, NEW s \in Seq(S), NEW f, f = [l \in DOMAIN s |-> f[l]], \A l \in DOMAIN s : f[l] \in S
  PROVE  f \in Seq(S) /\ DOMAIN f = DOMAIN s /\ Len(f) = Len(s)
<1>1. DOMAIN s = 1 .. Len(s) /\ Len(s) \in Nat
  OBVIOUS
<1>2. f \in [1 .. Len(s) -> S]
  BY Zenon, <1>1
<1>3. QED
  BY <1>1, <1>2

\* put keeps the memory image in order and adds to its log (applyOne).
LEMMA PutKeeps ==
  ASSUME NEW n \in Nat, NEW m \in Images(n), Numbered(m),
         NEW k \in Keys \cup {"none"}, NEW s \in 0 .. n, NEW w \in Writers
  PROVE  /\ Put(m, k, s, w) \in Images(n) /\ Numbered(Put(m, k, s, w))
         /\ m.next <= Put(m, k, s, w).next
         /\ DOMAIN m.log \subseteq DOMAIN Put(m, k, s, w).log
<1> DEFINE roll == m.act = NoSeg \/ Cardinality({l \in DOMAIN m.log : m.log[l].seg = m.act}) >= SegCap
           g == IF roll THEN m.next ELSE m.act
           old == {l \in DOMAIN m.log : m.log[l].key = k /\ m.log[l].seg \in m.segs /\ m.log[l].sup = Inf}
           ended == [l \in DOMAIN m.log |-> IF l \in old THEN [m.log[l] EXCEPT !.sup = s] ELSE m.log[l]]
           new == [key |-> k, seq |-> s, sup |-> Inf, seg |-> g, by |-> w]
<1>1. /\ m.log \in Seq(Records(n)) /\ m.segs \subseteq Nat /\ m.act \in Nat /\ m.next \in Nat
      /\ m.fresh \subseteq Nat /\ m.dirtySup \subseteq Nat
  BY Zenon DEF Images
<1>2. g \in Nat /\ g <= m.next
  BY <1>1 DEF Numbered
<1>3. ended \in Seq(Records(n)) /\ Len(ended) = Len(m.log) /\ DOMAIN ended = DOMAIN m.log
  <2>1. \A l \in DOMAIN m.log : m.log[l] \in Records(n)
    BY <1>1
  <2>2. s \in Ends(n)
    BY Zenon DEF Ends
  <2>3. \A l \in DOMAIN m.log : ended[l] \in Records(n)
    BY Zenon, <2>1, <2>2, RecordFacts
  <2>4. PICK f : f = ended
    BY Zenon
  <2>5. PICK e \in Seq(Records(n)) : e = m.log
    BY Zenon, <1>1
  <2>6. f = [l \in DOMAIN e |-> f[l]] /\ \A l \in DOMAIN e : f[l] \in Records(n)
    BY Zenon, <2>3, <2>4, <2>5
  <2>7. f \in Seq(Records(n)) /\ DOMAIN f = DOMAIN e /\ Len(f) = Len(e)
    BY Zenon, <2>6, Relogged
  <2>8. QED
    BY Zenon, <2>4, <2>5, <2>7
<1>4. new \in Records(n)
  BY Zenon, <1>2 DEF Records, Ends
<1>5. /\ Append(ended, new) \in Seq(Records(n))
      /\ DOMAIN m.log \subseteq DOMAIN Append(ended, new)
  <2>1. PICK e \in Seq(Records(n)) : e = ended
    BY Zenon, <1>3
  <2>2. PICK r \in Records(n) : r = new
    BY Zenon, <1>4
  <2>3. Append(e, r) \in Seq(Records(n)) /\ DOMAIN e \subseteq DOMAIN Append(e, r)
    OBVIOUS
  <2>4. QED
    BY Zenon, <1>3, <2>1, <2>2, <2>3
<1>6. PICK P : P = Put(m, k, s, w)
  BY Zenon
<1>7. P = [log |-> Append(ended, new), segs |-> m.segs \cup {g}, act |-> g,
           next |-> IF roll THEN m.next + 1 ELSE m.next,
           fresh |-> m.fresh \cup {Len(m.log) + 1},
           dirtySup |-> m.dirtySup \cup {l \in old : m.log[l].seg \in evicted}]
  BY Zenon, <1>6 DEF Put
<1>8. /\ m.segs \cup {g} \subseteq Nat /\ m.fresh \cup {Len(m.log) + 1} \subseteq Nat
      /\ m.dirtySup \cup {l \in old : m.log[l].seg \in evicted} \subseteq Nat
      /\ (IF roll THEN m.next + 1 ELSE m.next) \in Nat
  <2>1. DOMAIN m.log \subseteq Nat /\ Len(m.log) \in Nat
    BY SMTT(30), <1>1
  <2>2. QED
    BY <1>1, <1>2, <2>1
<1>9. P \in Images(n)
  BY Zenon, <1>2, <1>5, <1>7, <1>8 DEF Images
<1>10. /\ P.segs = m.segs \cup {g} /\ P.act = g /\ P.log = Append(ended, new)
       /\ P.next = IF roll THEN m.next + 1 ELSE m.next
  BY Zenon, <1>7
<1>11. m.next <= P.next /\ m.next \in Nat /\ P.next \in Nat
  <2>1. m.next \in Nat
    BY Zenon, <1>1
  <2>2. P.next = m.next \/ P.next = m.next + 1
    BY Zenon, <1>10
  <2>3. QED
    BY SMTT(30), <2>1, <2>2
<1>12. Numbered(P)
  <2>1. \A x \in m.segs \cup {m.act} : x \in Nat /\ x <= m.next
    BY Zenon, <1>1 DEF Numbered
  <2>2. PICK x : x = g /\ x \in Nat /\ x <= m.next
    BY Zenon, <1>2
  <2>3. P.segs \cup {P.act} = m.segs \cup {x}
    BY Zenon, <1>10, <2>2
  <2>4. QED
    BY SMTT(30), <2>1, <2>2, <2>3, <1>11 DEF Numbered
<1>13. QED
  BY Zenon, <1>5, <1>6, <1>9, <1>10, <1>11, <1>12

\* A batch of puts, one after the other, keeps it in order too (applyBatch).
LEMMA BatchKeeps ==
  ASSUME NEW n \in Nat, mem \in Images(n), Numbered(mem), batch \in Seq(Writers),
         req \in [Writers -> Reqs], NEW s \in 0 .. n
  PROVE  /\ AfterBatch(s) \in Images(n) /\ Numbered(AfterBatch(s))
         /\ mem.next <= AfterBatch(s).next
         /\ Locs \subseteq DOMAIN AfterBatch(s).log
<1> DEFINE put(m, i) == Put(m, req[batch[i]].key, s, batch[i])
           Built(f, j) == f = [i \in 0 .. j |-> IF i = 0 THEN mem ELSE put(f[i - 1], i)]
           Kept(m) == /\ m \in Images(n) /\ Numbered(m)
                      /\ mem.next <= m.next /\ DOMAIN mem.log \subseteq DOMAIN m.log
<1>1. PICK N \in Nat : N = Len(batch)
  OBVIOUS
<1>2. ASSUME NEW m, Kept(m), NEW i \in 1 .. N PROVE Kept(put(m, i))
  <2>1. batch[i] \in Writers
    BY <1>1
  <2>2. req[batch[i]].key \in Keys \cup {"none"}
    BY Zenon, <2>1 DEF Reqs
  <2>3. PICK q : q = put(m, i)
    BY Zenon
  <2>4. q \in Images(n) /\ Numbered(q) /\ m.next <= q.next /\ DOMAIN m.log \subseteq DOMAIN q.log
    BY Zenon, <1>2, <2>1, <2>2, <2>3, PutKeeps
  <2>5. m.next \in Nat /\ q.next \in Nat /\ mem.next \in Nat
    BY Zenon, <1>2, <2>4 DEF Images
  <2>6. Kept(q)
    BY <1>2, <2>4, <2>5
  <2>7. QED
    BY Zenon, <2>3, <2>6
<1> HIDE DEF put, Kept
<1>3. \E f : Built(f, N)
  <2>1. SUFFICES ASSUME ~ \E f : Built(f, N) PROVE FALSE
    OBVIOUS
  <2>2. PICK T : T = {j \in Nat : ~ \E f : Built(f, j)}
    BY Zenon
  <2>3. N \in T /\ T \subseteq Nat
    BY Zenon, <2>1, <2>2
  <2>4. PICK j \in T : \A y \in T : j <= y
    BY Zenon, <2>3, LeastNat
  <2>5. j \in Nat /\ ~ \E f : Built(f, j)
    BY Zenon, <2>2
  <2>6. j # 0
    <3>1. SUFFICES ASSUME j = 0 PROVE FALSE
      OBVIOUS
    <3>2. PICK f : f = [i \in 0 .. 0 |-> mem]
      BY Zenon
    <3>3. Built(f, 0)
      BY <3>2
    <3>4. QED
      BY Zenon, <2>5, <3>1, <3>3
  <2>7. PICK h \in Nat : j = h + 1
    BY <2>5, <2>6
  <2>8. h \notin T
    BY <2>4, <2>7
  <2>9. PICK f : Built(f, h)
    BY Zenon, <2>2, <2>8
  <2>10. PICK e : e = [i \in 0 .. j |-> IF i = j THEN put(f[h], j) ELSE f[i]]
    BY Zenon
  <2>11. \A i \in 0 .. j : e[i] = IF i = 0 THEN mem ELSE put(e[i - 1], i)
    <3>1. ASSUME NEW i \in 0 .. j PROVE e[i] = IF i = 0 THEN mem ELSE put(e[i - 1], i)
      <4>1. CASE i = 0
        <5>1. e[0] = f[0] /\ f[0] = mem
          BY <2>7, <2>9, <2>10
        <5>2. QED
          BY Zenon, <4>1, <5>1
      <4>2. CASE i \in 1 .. h
        <5>1. e[i] = f[i] /\ e[i - 1] = f[i - 1]
          BY <2>7, <2>10, <4>2
        <5>2. f[i] = put(f[i - 1], i)
          BY <2>9, <4>2
        <5>3. QED
          BY <4>2, <5>1, <5>2
      <4>3. CASE i = j
        <5>1. e[j] = put(f[h], j) /\ e[j - 1] = f[h] /\ j - 1 = h
          BY <2>7, <2>10
        <5>2. QED
          BY <2>7, <4>3, <5>1
      <4>4. QED
        BY <2>7, <4>1, <4>2, <4>3
    <3>2. QED
      BY Zenon, <3>1
  <2>12. e = [i \in 0 .. j |-> e[i]]
    BY Zenon, <2>10
  <2>13. Built(e, j)
    BY Zenon, <2>11, <2>12
  <2>14. QED
    BY Zenon, <2>5, <2>13
<1>4. PICK f : Built(f, N) /\ AfterBatch(s) = f[N]
  BY Zenon, <1>1, <1>3 DEF AfterBatch, put
<1>5. \A i \in 0 .. N : f[i] = IF i = 0 THEN mem ELSE put(f[i - 1], i)
  BY Zenon, <1>4
<1>6. Kept(f[N])
  <2>1. SUFFICES ASSUME ~Kept(f[N]) PROVE FALSE
    OBVIOUS
  <2>2. PICK T : T = {j \in 0 .. N : ~Kept(f[j])}
    BY Zenon
  <2>3. N \in T /\ T \subseteq Nat
    BY <2>1, <2>2
  <2>4. PICK j \in T : \A y \in T : j <= y
    BY Zenon, <2>3, LeastNat
  <2>5. j \in 0 .. N /\ ~Kept(f[j])
    BY Zenon, <2>2
  <2>6. Kept(mem)
    BY DEF Kept, Images
  <2>7. j # 0
    BY Zenon, <1>5, <2>5, <2>6
  <2>8. j \in 1 .. N /\ j - 1 \in 0 .. N /\ j - 1 \notin T
    BY <2>4, <2>5, <2>7
  <2>9. Kept(f[j - 1])
    BY Zenon, <2>2, <2>8
  <2>10. Kept(put(f[j - 1], j))
    BY Zenon, <1>2, <2>8, <2>9
  <2>11. QED
    BY Zenon, <1>5, <2>5, <2>7, <2>10
<1>7. QED
  BY Zenon, <1>4, <1>6 DEF Kept, Locs

\* What compaction copies are records of the log, one for each it selects.
LEMMA CopiesKeep ==
  ASSUME NEW n \in Nat, mem \in Images(n), NEW S \in SUBSET Locs, NEW g \in Nat
  PROVE  /\ Copies(S, g) \in Seq([src : Locs, rec : Records(n)])
         /\ Cardinality(S) \in Nat /\ Len(Copies(S, g)) = Cardinality(S)
         /\ \A i \in DOMAIN Copies(S, g) : Copies(S, g)[i].rec.seg = g
<1> DEFINE at == [i \in 1 .. Cardinality(S) |-> CHOOSE l \in S : Cardinality({m \in S : m < l}) = i - 1]
           rec(l) == [Rec(l) EXCEPT !.seg = g]
<1>1. Locs \subseteq Nat /\ IsFiniteSet(Locs) /\ \A l \in Locs : Rec(l) \in Records(n)
  <2>1. mem.log \in Seq(Records(n))
    BY Zenon DEF Images
  <2>2. Locs = 1 .. Len(mem.log) /\ Len(mem.log) \in Nat
    BY <2>1 DEF Locs
  <2>3. IsFiniteSet(Locs)
    BY <2>2, FS_Interval
  <2>4. QED
    BY <2>1, <2>2, <2>3 DEF Locs, Rec
<1>2. S \subseteq Nat /\ IsFiniteSet(S) /\ Cardinality(S) \in Nat
  BY Zenon, <1>1, FS_Subset, FS_CardinalityType
<1>3. \A i \in 1 .. Cardinality(S) : at[i] \in S
  BY Zenon, <1>2, Ranks
<1>4. PICK c : c = Copies(S, g)
  BY Zenon
<1>5. c = [i \in 1 .. Cardinality(S) |-> [src |-> at[i], rec |-> rec(at[i])]]
  <2>1. DOMAIN at = 1 .. Cardinality(S)
    OBVIOUS
  <2>2. QED
    BY Zenon, <1>4, <2>1 DEF Copies
<1> HIDE DEF at
<1>6. ASSUME NEW i \in 1 .. Cardinality(S)
      PROVE  c[i] \in [src : Locs, rec : Records(n)] /\ c[i].rec.seg = g
  <2>1. PICK l \in Locs : l = at[i]
    BY Zenon, <1>3
  <2>2. PICK r \in Records(n) : r = Rec(l)
    BY Zenon, <1>1
  <2>3. [r EXCEPT !.seg = g] \in Records(n) /\ [r EXCEPT !.seg = g].seg = g
    BY Zenon DEF Records
  <2>4. PICK q : q = [r EXCEPT !.seg = g]
    BY Zenon
  <2>5. q \in Records(n) /\ q.seg = g
    BY Zenon, <2>3, <2>4
  <2>6. c[i] = [src |-> l, rec |-> q]
    BY Zenon, <1>5, <2>1, <2>2, <2>4
  <2>7. PICK d : d = c[i]
    BY Zenon
  <2>8. d = [src |-> l, rec |-> q]
    BY Zenon, <2>6, <2>7
  <2>9. d \in [src : Locs, rec : Records(n)] /\ d.rec = q
    BY Zenon, <2>5, <2>8
  <2>10. QED
    BY Zenon, <2>5, <2>7, <2>9
<1>7. c \in [1 .. Cardinality(S) -> [src : Locs, rec : Records(n)]]
  BY Zenon, <1>5, <1>6
<1>8. c \in Seq([src : Locs, rec : Records(n)]) /\ Len(c) = Cardinality(S) /\ DOMAIN c = 1 .. Cardinality(S)
  <2>1. PICK N \in Nat : N = Cardinality(S)
    BY Zenon, <1>2
  <2>2. PICK E : E = [src : Locs, rec : Records(n)]
    BY Zenon
  <2>3. c \in [1 .. N -> E]
    BY Zenon, <1>7, <2>1, <2>2
  <2>4. c \in Seq(E) /\ Len(c) = N /\ DOMAIN c = 1 .. N
    BY <2>3
  <2>5. QED
    BY Zenon, <2>1, <2>2, <2>4
<1>9. QED
  BY Zenon, <1>2, <1>4, <1>6, <1>8

\* Later operations leave what is in memory in range.
LEMMA Widened ==
  ASSUME NEW n \in Nat
  PROVE  Ends(n) \subseteq Ends(n + 1) /\ Records(n) \subseteq Records(n + 1) /\ Images(n) \subseteq Images(n + 1)
<1>1. Ends(n) \subseteq Ends(n + 1) /\ 0 .. n \subseteq 0 .. n + 1
  BY DEF Ends
<1>2. Records(n) \subseteq Records(n + 1)
  BY Zenon, <1>1 DEF Records
<1>3. Seq(Records(n)) \subseteq Seq(Records(n + 1))
  BY <1>2
<1>4. Images(n) \subseteq Images(n + 1)
  BY Zenon, <1>3 DEF Images
<1>5. QED
  BY Zenon, <1>1, <1>2, <1>4

\* The calls still to be applied are finitely many ...
LEMMA OpenFinite == IsFiniteSet(Open) /\ Cardinality(Open) \in Nat
<1>1. Open \subseteq Writers
  BY Zenon DEF Open
<1>2. QED
  BY Zenon, <1>1, WritersAssumption, FS_Subset, FS_CardinalityType

\* ... and one less when one of them is.
LEMMA OneLess ==
  ASSUME NEW S, IsFiniteSet(S), NEW w \in S, NEW T \in SUBSET (S \ {w})
  PROVE  IsFiniteSet(T) /\ Cardinality(T) \in Nat /\ Cardinality(T) + 1 <= Cardinality(S)
<1>1. IsFiniteSet(S \ {w}) /\ Cardinality(S \ {w}) = Cardinality(S) - 1
  BY Zenon, FS_RemoveElement
<1>2. IsFiniteSet(T) /\ Cardinality(T) <= Cardinality(S \ {w})
  BY Zenon, <1>1, FS_Subset
<1>3. Cardinality(S) \in Nat /\ Cardinality(T) \in Nat
  BY Zenon, <1>2, FS_CardinalityType
<1>4. QED
  BY <1>1, <1>2, <1>3

-----------------------------------------------------------------------------
(* The records' steps. *)

\* The empty shard.
LEMMA DataInit == Init => DataInv
<1>1. SUFFICES ASSUME Init PROVE DataInv
  OBVIOUS
<1>2. ClockInv
  <2>1. Open = {}
    BY <1>1 DEF Init, GInit, Open
  <2>2. Cardinality(Open) = 0
    BY Zenon, <2>1, FS_EmptySet
  <2>3. QED
    BY <1>1, <2>2, BoundsAssumption DEF Init, ClockInv
<1>3. mem \in Images(ops) /\ Numbered(mem)
  <2>1. <<>> \in Seq(Records(ops))
    OBVIOUS
  <2>2. mem = [log |-> <<>>, segs |-> {}, act |-> 0, next |-> 1, fresh |-> {}, dirtySup |-> {}]
    BY Zenon, <1>1 DEF Init, NoSeg
  <2>3. QED
    BY <2>1, <2>2 DEF Images, Numbered
<1>4. Locs = {}
  BY SMTT(30), <1>1 DEF Init, Locs
<1>5. comp \in Comps /\ comp.dst = {} /\ comp.copies = {}
  BY Zenon, <1>1 DEF Init, NoComp, Comps
<1>6. req \in [Writers -> Reqs]
  BY Zenon, <1>1 DEF Init, NoReq, Reqs
<1>7. QED
  BY <1>1, <1>2, <1>3, <1>4, <1>5, <1>6 DEF Init, DataInv, StoreInv

\* What the invariant says about memory, record by record.
LEMMA StoreFacts ==
  ASSUME DataInv
  PROVE  /\ ops \in Nat /\ commitSeq \in Nat /\ MaxOps \in Nat /\ ops <= MaxOps /\ commitSeq <= ops
         /\ mem.log \in Seq(Records(ops)) /\ Len(mem.log) \in Nat /\ Locs = 1 .. Len(mem.log)
         /\ \A l \in Locs : Rec(l) = mem.log[l] /\ Rec(l) \in Records(ops)
         /\ mem.segs \subseteq Nat /\ mem.act \in Nat /\ mem.next \in Nat
         /\ mem.fresh \subseteq Nat /\ mem.dirtySup \subseteq Nat
         /\ commitSeq \in Ends(ops) /\ Inf \in Ends(ops)
<1>1. ops \in Nat /\ commitSeq \in Nat /\ MaxOps \in Nat /\ ops <= MaxOps /\ commitSeq <= ops
  BY OpenFinite, BoundsAssumption DEF DataInv, ClockInv
<1>2. /\ mem.log \in Seq(Records(ops)) /\ mem.segs \subseteq Nat /\ mem.act \in Nat /\ mem.next \in Nat
      /\ mem.fresh \subseteq Nat /\ mem.dirtySup \subseteq Nat
  BY Zenon DEF DataInv, StoreInv, Images
<1>3. Len(mem.log) \in Nat /\ Locs = 1 .. Len(mem.log)
  BY <1>2 DEF Locs
<1>4. \A l \in Locs : Rec(l) = mem.log[l] /\ Rec(l) \in Records(ops)
  BY <1>2, <1>3 DEF Rec
<1>5. commitSeq \in Ends(ops) /\ Inf \in Ends(ops)
  BY SMTT(30), <1>1 DEF Ends
<1>6. QED
  BY Zenon, <1>1, <1>2, <1>3, <1>4, <1>5

\* A step that changes no record, no file and no clock.
LEMMA ReqSteps ==
  ASSUME DataInv, UNCHANGED <<mem, commitSeq, files, dsup, comp, ops, rounds>>, req' \in [Writers -> Reqs]
  PROVE  DataInv'
BY Zenon DEF DataInv, ClockInv, StoreInv, Open, Numbered, Locs

\* A call uses up one operation (CommitFast, CommitQueued, DeleteCalled).
LEMMA CallStep ==
  ASSUME GroupInv, DataInv, NEW w \in Writers, NEW k \in Keys, Call(w, k), At(w) = "idle",
         rounds' = [rounds EXCEPT ![w] = 0]
  PROVE  DataInv'
<1>1. /\ ops < MaxOps /\ ops' = ops + 1 /\ req' = [req EXCEPT ![w] = [NoReq EXCEPT !.key = k]]
      /\ UNCHANGED <<mem, commitSeq, files, dsup, comp>>
  BY Zenon DEF Call, store, disk
<1>2. w \notin Open /\ Open' = Open \cup {w}
  <2>1. rounds[w] = 1
    BY Zenon DEF GroupInv, CallInv
  <2>2. \A x \in Writers : rounds'[x] = IF x = w THEN 0 ELSE rounds[x]
    BY Zenon DEF GroupInv, GroupType
  <2>3. QED
    BY <2>1, <2>2 DEF Open
<1>3. Cardinality(Open') = Cardinality(Open) + 1
  BY Zenon, <1>2, OpenFinite, FS_AddElement
<1>4. ClockInv'
  BY <1>1, <1>3, OpenFinite, StoreFacts DEF DataInv, ClockInv
<1>5. req' \in [Writers -> Reqs]
  <2>1. [NoReq EXCEPT !.key = k] = [key |-> k, seq |-> 0, need |-> 0]
    BY DEF NoReq
  <2>2. [key |-> k, seq |-> 0, need |-> 0] \in Reqs
    BY Zenon DEF Reqs
  <2>3. QED
    BY Zenon, <1>1, <2>1, <2>2 DEF DataInv, StoreInv
<1>6. StoreInv'
  <2>1. ops \in Nat
    BY Zenon, StoreFacts
  <2>2. mem' \in Images(ops') /\ \A l \in Locs' : dsup'[l] \in Ends(ops')
    BY Zenon, <1>1, <2>1, Widened DEF DataInv, StoreInv, Locs
  <2>3. QED
    BY Zenon, <1>1, <1>5, <2>2 DEF DataInv, StoreInv, Numbered, Locs
<1>7. QED
  BY Zenon, <1>4, <1>6 DEF DataInv

\* A larger image with the files of its segments.
LEMMA ImageGrows ==
  ASSUME DataInv, NEW m \in Images(ops), Numbered(m), mem.next <= m.next, Locs \subseteq DOMAIN m.log,
         mem' = m, ops' = ops, NEW G \in SUBSET (0 .. m.next), files' = files \cup G,
         dsup' = Grown(dsup, m), comp' \in Comps, comp'.dst \subseteq 0 .. m.next,
         \A c \in comp'.copies : c[1] \in DOMAIN m.log /\ c[2] \in DOMAIN m.log,
         req' \in [Writers -> Reqs]
  PROVE  StoreInv'
<1>1. mem.next \in Nat /\ m.next \in Nat
  BY Zenon, StoreFacts DEF Images
<1>2. files' \subseteq 0 .. m.next
  <2>1. files \subseteq 0 .. mem.next
    BY Zenon DEF DataInv, StoreInv
  <2>2. 0 .. mem.next \subseteq 0 .. m.next
    BY SMTT(30), <1>1
  <2>3. QED
    BY Zenon, <2>1, <2>2
<1>3. DOMAIN dsup' = DOMAIN m.log /\ \A l \in DOMAIN m.log : dsup'[l] \in Ends(ops)
  <2>1. DOMAIN dsup = Locs /\ \A l \in Locs : dsup[l] \in Ends(ops)
    BY Zenon DEF DataInv, StoreInv
  <2>2. Inf \in Ends(ops)
    BY Zenon, StoreFacts
  <2>3. QED
    BY Zenon, <2>1, <2>2 DEF Grown
<1>4. QED
  BY Zenon, <1>2, <1>3 DEF StoreInv, Locs, Numbered

\* A batch is applied at the next sequence, which one of its operations pays for.
LEMMA ApplyStep ==
  ASSUME GroupInv, DataInv, NEW w \in Writers, Apply(w)
  PROVE  DataInv'
<1>1. PICK s : s = commitSeq + 1
  BY Zenon
<1>2. PICK m : m = AfterBatch(s)
  BY Zenon
<1>3. /\ ApplyRequests(w) /\ mem' = m /\ commitSeq' = s /\ files' = files \cup m.segs /\ dsup' = Grown(dsup, m)
      /\ req' = [x \in Writers |-> IF x \in Range(batch) THEN [req[x] EXCEPT !.seq = s, !.need = s] ELSE req[x]]
      /\ UNCHANGED <<comp, ops>>
  BY Zenon, <1>1, <1>2 DEF Apply, bounds
<1>4. /\ w \in Range(batch) /\ Range(batch) \subseteq Writers
      /\ \A x \in Range(batch) : rounds[x] = 0 /\ rounds'[x] = 1
      /\ \A x \in Writers : x \notin Range(batch) => rounds'[x] = rounds[x]
  <2>1. At(w) = "apply" /\ rounds' = [x \in Writers |-> IF x \in Range(batch) THEN rounds[x] + 1 ELSE rounds[x]]
    BY Zenon, <1>3 DEF ApplyRequests
  <2>2. QED
    BY Zenon, <1>3, <2>1, ApplyRequestsStep, Queued DEF GroupInv, CallInv
<1>5. w \in Open /\ Open' \in SUBSET (Open \ {w})
  BY <1>4 DEF Open
<1>6. Cardinality(Open') \in Nat /\ Cardinality(Open') + 1 <= Cardinality(Open)
  BY Zenon, <1>5, OpenFinite, OneLess
<1>7. s \in 0 .. ops /\ s \in Nat
  BY SMTT(30), <1>1, <1>6, OpenFinite, StoreFacts DEF DataInv, ClockInv
<1>8. ClockInv'
  <2>1. commitSeq' = commitSeq + 1 /\ ops' = ops
    BY Zenon, <1>1, <1>3
  <2>2. QED
    BY SMTT(30), <1>6, <2>1, OpenFinite, StoreFacts DEF DataInv, ClockInv
<1>9. m \in Images(ops) /\ Numbered(m) /\ mem.next <= m.next /\ Locs \subseteq DOMAIN m.log
  BY Zenon, <1>2, <1>7, StoreFacts, BatchKeeps DEF DataInv, StoreInv, GroupInv, GroupType
<1>10. m.segs \in SUBSET (0 .. m.next)
  <2>1. m.segs \subseteq Nat /\ m.next \in Nat
    BY Zenon, <1>9 DEF Images
  <2>2. QED
    BY <1>9, <2>1 DEF Numbered
<1>11. req' \in [Writers -> Reqs]
  <2>1. ASSUME NEW x \in Writers PROVE req'[x] \in Reqs
    <3>1. PICK r \in Reqs : r = req[x]
      BY Zenon DEF DataInv, StoreInv
    <3>2. [r EXCEPT !.seq = s, !.need = s] \in Reqs
      BY Zenon, <1>7 DEF Reqs
    <3>3. QED
      BY Zenon, <1>3, <3>1, <3>2
  <2>2. QED
    BY Zenon, <1>3, <2>1
<1>12. /\ comp' \in Comps /\ comp'.dst \subseteq 0 .. m.next
       /\ \A c \in comp'.copies : c[1] \in DOMAIN m.log /\ c[2] \in DOMAIN m.log
  <2>1. mem.next \in Nat /\ m.next \in Nat
    BY Zenon, <1>9, StoreFacts DEF Images
  <2>2. 0 .. mem.next \subseteq 0 .. m.next
    BY SMTT(30), <1>9, <2>1
  <2>3. /\ comp' = comp /\ comp \in Comps /\ comp.dst \subseteq 0 .. mem.next
        /\ \A c \in comp.copies : c[1] \in Locs /\ c[2] \in Locs
    BY Zenon, <1>3 DEF DataInv, StoreInv
  <2>4. QED
    BY Zenon, <1>9, <2>2, <2>3
<1>13. StoreInv'
  BY Zenon, <1>3, <1>9, <1>10, <1>11, <1>12, ImageGrows
<1>14. QED
  BY Zenon, <1>8, <1>13 DEF DataInv

\* A log rewritten in place, with the flags of the image as they may be.
LEMMA ImageRewritten ==
  ASSUME NEW n \in Nat, NEW m \in Images(n), NEW log,
         log = [l \in DOMAIN m.log |-> log[l]], \A l \in DOMAIN m.log : log[l] \in Records(n),
         NEW segs \in SUBSET Nat, NEW act \in Nat, NEW fresh \in SUBSET Nat, NEW dirty \in SUBSET Nat
  PROVE  /\ [log |-> log, segs |-> segs, act |-> act, next |-> m.next, fresh |-> fresh, dirtySup |-> dirty]
              \in Images(n)
         /\ DOMAIN log = DOMAIN m.log
<1>1. m.log \in Seq(Records(n)) /\ m.next \in Nat
  BY Zenon DEF Images
<1>2. PICK e \in Seq(Records(n)) : e = m.log
  BY Zenon, <1>1
<1>3. log = [l \in DOMAIN e |-> log[l]] /\ \A l \in DOMAIN e : log[l] \in Records(n)
  BY Zenon, <1>2
<1>4. log \in Seq(Records(n)) /\ DOMAIN log = DOMAIN e
  BY Zenon, <1>3, Relogged
<1>5. QED
  BY Zenon, <1>1, <1>2, <1>4 DEF Images

\* A step that rewrites records in place, unlinks files and drops segments.
LEMMA ImageKept ==
  ASSUME DataInv, NEW log, log = [l \in Locs |-> log[l]], \A l \in Locs : log[l] \in Records(ops),
         NEW segs \in SUBSET (0 .. mem.next), NEW act \in 0 .. mem.next,
         NEW fresh \in SUBSET Nat, NEW dirty \in SUBSET Nat,
         mem' = [log |-> log, segs |-> segs, act |-> act, next |-> mem.next, fresh |-> fresh, dirtySup |-> dirty],
         ops' = ops, files' \subseteq files,
         DOMAIN dsup' = Locs, \A l \in Locs : dsup'[l] \in Ends(ops),
         comp' \in Comps, comp'.dst \subseteq 0 .. mem.next,
         \A c \in comp'.copies : c[1] \in Locs /\ c[2] \in Locs,
         req' \in [Writers -> Reqs]
  PROVE  StoreInv'
<1>1. ops \in Nat /\ mem.next \in Nat /\ mem \in Images(ops) /\ files \subseteq 0 .. mem.next
  BY Zenon, StoreFacts DEF DataInv, StoreInv
<1>2. PICK m : m = mem'
  BY Zenon
<1>3. m \in Images(ops) /\ DOMAIN log = Locs
  <2>1. segs \in SUBSET Nat /\ act \in Nat
    BY <1>1
  <2>2. QED
    BY Zenon, <1>1, <1>2, <2>1, ImageRewritten DEF Locs
<1>4. m.log = log /\ m.segs = segs /\ m.act = act /\ m.next = mem.next
  BY Zenon, <1>2
<1>5. Numbered(m)
  BY <1>1, <1>4 DEF Numbered
<1>6. DOMAIN m.log = Locs
  BY Zenon, <1>3, <1>4
<1>7. QED
  BY Zenon, <1>1, <1>2, <1>3, <1>4, <1>5, <1>6 DEF StoreInv, Locs, Numbered

\* What it may leave as it is.
LEMMA KeptFacts ==
  ASSUME DataInv
  PROVE  /\ mem.log = [l \in Locs |-> mem.log[l]] /\ \A l \in Locs : mem.log[l] \in Records(ops)
         /\ mem.segs \in SUBSET (0 .. mem.next) /\ mem.act \in 0 .. mem.next
         /\ mem = [log |-> mem.log, segs |-> mem.segs, act |-> mem.act, next |-> mem.next,
                   fresh |-> mem.fresh, dirtySup |-> mem.dirtySup]
         /\ DOMAIN dsup = Locs /\ \A l \in Locs : dsup[l] \in Ends(ops)
         /\ comp \in Comps /\ comp.dst \subseteq 0 .. mem.next
         /\ \A c \in comp.copies : c[1] \in Locs /\ c[2] \in Locs
         /\ req \in [Writers -> Reqs]
<1>1. /\ DOMAIN dsup = Locs /\ \A l \in Locs : dsup[l] \in Ends(ops)
      /\ comp \in Comps /\ comp.dst \subseteq 0 .. mem.next
      /\ \A c \in comp.copies : c[1] \in Locs /\ c[2] \in Locs
      /\ req \in [Writers -> Reqs] /\ Numbered(mem) /\ mem \in Images(ops)
  BY Zenon DEF DataInv, StoreInv
<1>2. mem.log = [l \in Locs |-> mem.log[l]] /\ \A l \in Locs : mem.log[l] \in Records(ops)
  BY SMTT(30), StoreFacts
<1>3. mem.segs \in SUBSET (0 .. mem.next) /\ mem.act \in 0 .. mem.next
  BY <1>1, StoreFacts DEF Numbered
<1>4. mem = [log |-> mem.log, segs |-> mem.segs, act |-> mem.act, next |-> mem.next,
             fresh |-> mem.fresh, dirtySup |-> mem.dirtySup]
  BY Zenon, <1>1 DEF Images
<1>5. QED
  BY Zenon, <1>1, <1>2, <1>3, <1>4

\* A delete takes effect at the next sequence, which its own operation pays for.
LEMMA DeleteLiveStep ==
  ASSUME GroupInv, DataInv, NEW w \in Writers, DeleteLive(w)
  PROVE  DataInv'
<1>1. PICK s : s = commitSeq + 1
  BY Zenon
<1>2. PICK C : C = CurrentOf(req[w].key)
  BY Zenon
<1>3. PICK log : log = [l \in Locs |-> IF l \in C THEN [Rec(l) EXCEPT !.sup = s] ELSE Rec(l)]
  BY Zenon
<1>4. /\ At(w) = "del" /\ rounds' = [rounds EXCEPT ![w] = 1] /\ commitSeq' = s
      /\ mem' = [mem EXCEPT !.log = log, !.dirtySup = @ \cup C]
      /\ req' = [req EXCEPT ![w].seq = s] /\ UNCHANGED <<files, dsup, comp, ops>>
  BY Zenon, <1>1, <1>2, <1>3 DEF DeleteLive, DeleteApplied, disk, bounds
<1>5. w \in Open /\ Open' \in SUBSET (Open \ {w})
  <2>1. rounds[w] = 0
    BY Zenon, <1>4 DEF GroupInv, CallInv
  <2>2. \A x \in Writers : rounds'[x] = IF x = w THEN 1 ELSE rounds[x]
    BY Zenon, <1>4 DEF GroupInv, GroupType
  <2>3. QED
    BY <2>1, <2>2 DEF Open
<1>6. Cardinality(Open') \in Nat /\ Cardinality(Open') + 1 <= Cardinality(Open)
  BY Zenon, <1>5, OpenFinite, OneLess
<1>7. s \in 0 .. ops /\ s \in Nat /\ s \in Ends(ops)
  BY <1>1, <1>6, OpenFinite, StoreFacts DEF DataInv, ClockInv, Ends
<1>8. ClockInv'
  <2>1. commitSeq' = commitSeq + 1 /\ ops' = ops
    BY Zenon, <1>1, <1>4
  <2>2. QED
    BY SMTT(30), <1>6, <2>1, OpenFinite, StoreFacts DEF DataInv, ClockInv
<1>9. log = [l \in Locs |-> log[l]] /\ \A l \in Locs : log[l] \in Records(ops)
  BY Zenon, <1>3, <1>7, StoreFacts, RecordFacts
<1>10. PICK dirty \in SUBSET Nat : dirty = mem.dirtySup \cup C
  <2>1. C \subseteq Locs
    BY Zenon, <1>2 DEF CurrentOf
  <2>2. mem.dirtySup \cup C \subseteq Nat
    BY <2>1, StoreFacts
  <2>3. QED
    BY Zenon, <2>2
<1>11. mem' = [log |-> log, segs |-> mem.segs, act |-> mem.act, next |-> mem.next, fresh |-> mem.fresh, dirtySup |-> dirty]
  BY Zenon, <1>4, <1>10, KeptFacts
<1>12. req' \in [Writers -> Reqs]
  <2>1. PICK r \in Reqs : r = req[w]
    BY Zenon, KeptFacts
  <2>2. [r EXCEPT !.seq = s] \in Reqs
    BY Zenon, <1>7 DEF Reqs
  <2>3. QED
    BY Zenon, <1>4, <2>1, <2>2, KeptFacts
<1>13. StoreInv'
  BY ZenonT(40), <1>4, <1>9, <1>11, <1>12, KeptFacts, StoreFacts, ImageKept
<1>14. QED
  BY Zenon, <1>8, <1>13 DEF DataInv

\* A delete of an absent key changes nothing.
LEMMA DeleteAbsentStep ==
  ASSUME GroupInv, DataInv, NEW w \in Writers, DeleteAbsent(w)
  PROVE  DataInv'
<1>1. /\ rounds' = [rounds EXCEPT ![w] = 1] /\ req' = [req EXCEPT ![w] = NoReq]
      /\ UNCHANGED <<mem, commitSeq, files, dsup, comp, ops>>
  BY Zenon DEF DeleteAbsent, store, disk, bounds
<1>2. Open' \in SUBSET Open
  <2>1. \A x \in Writers : rounds'[x] = IF x = w THEN 1 ELSE rounds[x]
    BY Zenon, <1>1 DEF GroupInv, GroupType
  <2>2. QED
    BY <2>1 DEF Open
<1>3. Cardinality(Open') \in Nat /\ Cardinality(Open') <= Cardinality(Open)
  BY Zenon, <1>2, OpenFinite, FS_Subset, FS_CardinalityType
<1>4. ClockInv'
  BY <1>1, <1>3, OpenFinite, StoreFacts DEF DataInv, ClockInv
<1>5. NoReq \in Reqs
  BY Zenon DEF NoReq, Reqs
<1>6. req' \in [Writers -> Reqs]
  BY Zenon, <1>1, <1>5, KeptFacts
<1>7. QED
  BY Zenon, <1>1, <1>4, <1>6 DEF DataInv, StoreInv, Numbered, Locs

\* An answer ends the call of one writer.
LEMMA AckedStep ==
  ASSUME DataInv, NEW w \in Writers,
         Acknowledge(w) \/ req' = req \/ req' = [req EXCEPT ![w].need = commitSeq],
         UNCHANGED <<mem, commitSeq, files, dsup, comp, ops, rounds>>
  PROVE  DataInv'
<1>1. req \in [Writers -> Reqs] /\ NoReq \in Reqs /\ commitSeq \in Nat
  BY Zenon, StoreFacts, KeptFacts DEF NoReq, Reqs
<1>2. req' \in [Writers -> Reqs]
  <2>1. CASE Acknowledge(w)
    BY Zenon, <1>1, <2>1 DEF Acknowledge
  <2>2. CASE req' = req
    BY Zenon, <1>1, <2>2
  <2>3. CASE req' = [req EXCEPT ![w].need = commitSeq]
    <3>1. PICK r \in Reqs : r = req[w]
      BY Zenon, <1>1
    <3>2. [r EXCEPT !.need = commitSeq] \in Reqs
      BY Zenon, <1>1 DEF Reqs
    <3>3. QED
      BY Zenon, <1>1, <2>3, <3>1, <3>2
  <2>4. QED
    BY Zenon, <2>1, <2>2, <2>3
<1>3. QED
  BY Zenon, <1>2, ReqSteps

\* A pass takes what is dirty, and what it flushes is what memory holds (syncPass).
LEMMA PassSteps ==
  ASSUME GroupInv, DataInv, NEW w \in Writers, Capture(w) \/ Msync(w)
  PROVE  DataInv'
<1>1. /\ UNCHANGED <<commitSeq, ops, files, comp, req, rounds>>
      /\ \/ mem' = [mem EXCEPT !.fresh = {}, !.dirtySup = {}] /\ dsup' = dsup
         \/ mem' = mem /\ \E P : dsup' = [l \in DOMAIN dsup |-> IF l \in P THEN Rec(l).sup ELSE dsup[l]]
  <2>1. CASE Capture(w)
    BY Zenon, <2>1 DEF Capture, PassCaptured, disk, bounds
  <2>2. CASE Msync(w)
    BY Zenon, <2>2 DEF Msync, PassDone, store, bounds
  <2>3. QED
    BY Zenon, <2>1, <2>2
<1>2. ClockInv'
  BY Zenon, <1>1 DEF DataInv, ClockInv, Open
<1>3. DOMAIN dsup' = Locs /\ \A l \in Locs : dsup'[l] \in Ends(ops)
  <2>1. \A l \in Locs : Rec(l).sup \in Ends(ops)
    BY Zenon, StoreFacts, RecordFacts
  <2>2. QED
    BY Zenon, <1>1, <2>1, KeptFacts
<1>4. PICK fresh \in SUBSET Nat, dirty \in SUBSET Nat :
        mem' = [log |-> mem.log, segs |-> mem.segs, act |-> mem.act, next |-> mem.next,
                fresh |-> fresh, dirtySup |-> dirty]
  <2>1. CASE mem' = [mem EXCEPT !.fresh = {}, !.dirtySup = {}]
    <3>1. mem' = [log |-> mem.log, segs |-> mem.segs, act |-> mem.act, next |-> mem.next,
                  fresh |-> {}, dirtySup |-> {}]
      BY Zenon, <2>1, KeptFacts
    <3>2. QED
      BY Zenon, <3>1
  <2>2. CASE mem' = mem
    BY Zenon, <2>2, KeptFacts, StoreFacts
  <2>3. QED
    BY Zenon, <1>1, <2>1, <2>2
<1>5. StoreInv'
  BY Zenon, <1>1, <1>3, <1>4, KeptFacts, ImageKept
<1>6. QED
  BY Zenon, <1>2, <1>5 DEF DataInv

\* The sealing pass and reclaim drop segments and pending flushes, nothing else.
LEMMA ReclaimSteps ==
  ASSUME DataInv, Evict \/ Reclaim
  PROVE  DataInv'
<1>1. CASE Evict
  BY Zenon, <1>1, KeptFacts, ReqSteps DEF Evict, disk, bounds, gvars
<1>2. CASE Reclaim
  <2>1. PICK dead : mem' = Without(mem, dead) /\ UNCHANGED <<gvars, commitSeq, disk, req, comp, bounds>>
    BY Zenon, <1>2 DEF Reclaim
  <2>2. PICK segs : segs = mem.segs \ dead
    BY Zenon
  <2>3. PICK fresh : fresh = {l \in mem.fresh : mem.log[l].seg \notin dead}
    BY Zenon
  <2>4. PICK dirty : dirty = {l \in mem.dirtySup : mem.log[l].seg \notin dead}
    BY Zenon
  <2>5. segs \in SUBSET (0 .. mem.next) /\ fresh \in SUBSET Nat /\ dirty \in SUBSET Nat
    BY Zenon, <2>2, <2>3, <2>4, KeptFacts, StoreFacts
  <2>6. mem' = [log |-> mem.log, segs |-> segs, act |-> mem.act, next |-> mem.next,
                fresh |-> fresh, dirtySup |-> dirty]
    BY Zenon, <2>1, <2>2, <2>3, <2>4, KeptFacts DEF Without
  <2>7. UNCHANGED <<commitSeq, ops, files, dsup, comp, req, rounds>>
    BY Zenon, <2>1 DEF gvars, disk, bounds
  <2>8. StoreInv'
    BY Zenon, <2>5, <2>6, <2>7, KeptFacts, ImageKept
  <2>9. ClockInv'
    BY Zenon, <2>7 DEF DataInv, ClockInv, Open
  <2>10. QED
    BY Zenon, <2>8, <2>9 DEF DataInv
<1>3. QED
  BY Zenon, <1>1, <1>2

\* Unlinking a retired file loses its records (reap).
LEMMA UnlinkStep ==
  ASSUME DataInv, NEW g \in files, Unlink(g)
  PROVE  DataInv'
<1>1. PICK log : log = [l \in Locs |-> IF l \in RecsOf(g) THEN Gone ELSE Rec(l)]
  BY Zenon
<1>2. /\ mem' = [mem EXCEPT !.log = log] /\ files' = files \ {g}
      /\ dsup' = [l \in Locs |-> IF l \in RecsOf(g) THEN 0 ELSE dsup[l]]
      /\ UNCHANGED <<commitSeq, ops, comp, req, rounds>>
  BY Zenon, <1>1 DEF Unlink, gvars, bounds
<1>3. Gone \in Records(ops) /\ 0 \in Ends(ops)
  BY StoreFacts DEF Gone, Records, Ends, NoSeg
<1>4. log = [l \in Locs |-> log[l]] /\ \A l \in Locs : log[l] \in Records(ops)
  BY Zenon, <1>1, <1>3, StoreFacts
<1>5. DOMAIN dsup' = Locs /\ \A l \in Locs : dsup'[l] \in Ends(ops)
  BY Zenon, <1>2, <1>3, KeptFacts
<1>6. mem' = [log |-> log, segs |-> mem.segs, act |-> mem.act, next |-> mem.next,
              fresh |-> mem.fresh, dirtySup |-> mem.dirtySup]
  BY Zenon, <1>2, KeptFacts
<1>7. files' \subseteq files /\ mem.fresh \in SUBSET Nat /\ mem.dirtySup \in SUBSET Nat
  BY Zenon, <1>2, StoreFacts
<1>8. StoreInv'
  BY Zenon, <1>2, <1>4, <1>5, <1>6, <1>7, KeptFacts, ImageKept
<1>9. ClockInv'
  BY Zenon, <1>2 DEF DataInv, ClockInv, Open
<1>10. QED
  BY Zenon, <1>8, <1>9 DEF DataInv

\* Phase 1 of compaction notes its sources and leaves the active segment.
LEMMA CompactBeginStep ==
  ASSUME DataInv, CompactBegin
  PROVE  DataInv'
<1>1. /\ mem' = [mem EXCEPT !.act = NoSeg]
      /\ comp' = [NoComp EXCEPT !.phase = "copy", !.srcs = SegsOf(Locs) \cap mem.segs, !.retain = commitSeq]
      /\ UNCHANGED <<commitSeq, ops, files, dsup, req, rounds>>
  BY Zenon DEF CompactBegin, gvars, disk, bounds
<1>2. mem' = [log |-> mem.log, segs |-> mem.segs, act |-> 0, next |-> mem.next,
              fresh |-> mem.fresh, dirtySup |-> mem.dirtySup]
  BY Zenon, <1>1, KeptFacts DEF NoSeg
<1>3. PICK S \in SUBSET Nat : S = SegsOf(Locs) \cap mem.segs
  <2>1. SegsOf(Locs) \cap mem.segs \subseteq Nat
    BY Zenon, StoreFacts
  <2>2. QED
    BY Zenon, <2>1
<1>4. comp' = [phase |-> "copy", srcs |-> S, retain |-> commitSeq, dst |-> {}, copies |-> {}]
  BY Zenon, <1>1, <1>3 DEF NoComp
<1>5. comp' \in Comps /\ comp'.dst = {} /\ comp'.copies = {}
  BY Zenon, <1>4, StoreFacts DEF Comps
<1>6. 0 \in 0 .. mem.next /\ mem.fresh \in SUBSET Nat /\ mem.dirtySup \in SUBSET Nat
  BY StoreFacts
<1>7. StoreInv'
  BY <1>1, <1>2, <1>5, <1>6, KeptFacts, ImageKept
<1>8. ClockInv'
  BY Zenon, <1>1 DEF DataInv, ClockInv, Open
<1>9. QED
  BY Zenon, <1>7, <1>8 DEF DataInv

\* Phase 2 appends copies of records of the log, in two new segments.
LEMMA CompactCopyStep ==
  ASSUME DataInv, CompactCopy
  PROVE  DataInv'
<1> DEFINE live == {l \in Locs : Rec(l).seg \in comp.srcs /\ Rec(l).sup = Inf}
           past == {l \in Locs : Rec(l).seg \in comp.srcs /\ Rec(l).sup # Inf /\ Rec(l).sup > comp.retain}
           E == [src : Locs, rec : Records(ops)]
<1>1. PICK new : new = Copies(live, mem.next) \o Copies(past, mem.next + 1)
  BY Zenon
<1>2. PICK recs : recs = [i \in DOMAIN new |-> new[i].rec]
  BY Zenon
<1>3. PICK dst : dst = {new[i].rec.seg : i \in DOMAIN new}
  BY Zenon
<1>4. PICK pairs : pairs = {<<new[i].src, Len(mem.log) + i>> : i \in 1 .. Cardinality(live)}
  BY Zenon
<1>5. /\ mem' = [mem EXCEPT !.log = mem.log \o recs, !.next = @ + 2]
      /\ comp' = [comp EXCEPT !.phase = "flush", !.dst = dst, !.copies = pairs]
      /\ files' = files \cup dst /\ dsup' = Grown(dsup, mem') /\ UNCHANGED <<commitSeq, ops, req, rounds>>
  BY Zenon, <1>1, <1>2, <1>3, <1>4 DEF CompactCopy, gvars, bounds
<1>6. /\ new \in Seq(E) /\ Cardinality(live) \in Nat /\ Cardinality(live) <= Len(new)
      /\ \A i \in DOMAIN new : new[i].rec.seg \in {mem.next, mem.next + 1}
  <2>1. PICK A : A = Copies(live, mem.next)
    BY Zenon
  <2>2. PICK B : B = Copies(past, mem.next + 1)
    BY Zenon
  <2>3. /\ ops \in Nat /\ mem \in Images(ops) /\ mem.next \in Nat /\ mem.next + 1 \in Nat
        /\ live \in SUBSET Locs /\ past \in SUBSET Locs
    BY SMTT(30), StoreFacts DEF DataInv, StoreInv
  <2>4. /\ A \in Seq(E) /\ Cardinality(live) \in Nat /\ Len(A) = Cardinality(live)
        /\ \A i \in DOMAIN A : A[i].rec.seg = mem.next
    BY Zenon, <2>1, <2>3, CopiesKeep
  <2>5. /\ B \in Seq(E) /\ Cardinality(past) \in Nat /\ Len(B) = Cardinality(past)
        /\ \A i \in DOMAIN B : B[i].rec.seg = mem.next + 1
    BY Zenon, <2>2, <2>3, CopiesKeep
  <2> HIDE DEF live, past, E
  <2>6. /\ new \in Seq(E) /\ Len(new) = Len(A) + Len(B) /\ DOMAIN new = 1 .. Len(A) + Len(B)
        /\ DOMAIN A = 1 .. Len(A) /\ DOMAIN B = 1 .. Len(B)
        /\ \A i \in 1 .. Len(A) : new[i] = A[i]
        /\ \A i \in Len(A) + 1 .. Len(A) + Len(B) : new[i] = B[i - Len(A)]
    <3>1. new = A \o B
      BY Zenon, <1>1, <2>1, <2>2
    <3>2. A \in Seq(E) /\ B \in Seq(E)
      BY Zenon, <2>4, <2>5
    <3>3. QED
      BY SMTT(30), <3>1, <3>2
  <2>7. ASSUME NEW i \in DOMAIN new PROVE new[i].rec.seg \in {mem.next, mem.next + 1}
    <3>1. CASE i \in 1 .. Len(A)
      BY Zenon, <2>4, <2>6, <3>1
    <3>2. CASE i \in Len(A) + 1 .. Len(A) + Len(B)
      <4>1. i - Len(A) \in DOMAIN B
        BY SMTT(30), <2>4, <2>5, <2>6, <3>2
      <4>2. QED
        BY Zenon, <2>5, <2>6, <3>2, <4>1
    <3>3. QED
      BY <2>4, <2>5, <2>6, <3>1, <3>2
  <2>8. QED
    BY <2>4, <2>5, <2>6, <2>7
<1> HIDE DEF live, past
<1>7. \A i \in DOMAIN new : new[i].src \in Locs /\ new[i].rec \in Records(ops)
  <2>1. \A e \in E : e.src \in Locs /\ e.rec \in Records(ops)
    OBVIOUS
  <2>2. \A i \in DOMAIN new : new[i] \in E
    <3> HIDE DEF E
    <3>1. QED
      BY <1>6
  <2>3. QED
    BY Zenon, <2>1, <2>2
<1>8. recs \in Seq(Records(ops)) /\ Len(recs) = Len(new) /\ DOMAIN new = 1 .. Len(new) /\ Len(new) \in Nat
  <2>1. PICK N \in Nat : N = Len(new) /\ DOMAIN new = 1 .. N
    BY <1>6
  <2>2. recs \in [1 .. N -> Records(ops)]
    BY Zenon, <1>2, <1>7, <2>1
  <2>3. QED
    BY <2>1, <2>2
<1>9. PICK log : log = mem.log \o recs
  BY Zenon
<1>10. log \in Seq(Records(ops)) /\ DOMAIN log = 1 .. Len(mem.log) + Len(new) /\ Locs \subseteq DOMAIN log
  <2>1. PICK a \in Seq(Records(ops)) : a = mem.log /\ Len(a) \in Nat /\ Locs = 1 .. Len(a)
    BY Zenon, StoreFacts
  <2>2. PICK S : S = Records(ops)
    BY Zenon
  <2>3. PICK b \in Seq(S) : b = recs
    BY Zenon, <1>8, <2>2
  <2>4. a \o b \in Seq(S) /\ DOMAIN (a \o b) = 1 .. Len(a) + Len(b)
    BY <2>1, <2>2
  <2>5. QED
    BY <1>8, <1>9, <2>1, <2>2, <2>3, <2>4
<1>11. PICK m : m = [log |-> log, segs |-> mem.segs, act |-> mem.act, next |-> mem.next + 2,
                     fresh |-> mem.fresh, dirtySup |-> mem.dirtySup]
  BY Zenon
<1>12. mem' = m
  <2>1. PICK q : q = mem.next + 2
    BY Zenon
  <2>2. mem' = [mem EXCEPT !.log = log, !.next = q]
    BY Zenon, <1>5, <1>9, <2>1
  <2>3. mem' = [log |-> log, segs |-> mem.segs, act |-> mem.act, next |-> q,
                fresh |-> mem.fresh, dirtySup |-> mem.dirtySup]
    BY Zenon, <2>2, KeptFacts
  <2>4. QED
    BY Zenon, <1>11, <2>1, <2>3
<1>13. m \in Images(ops)
  BY <1>10, <1>11, StoreFacts DEF Images
<1>14. m.next = mem.next + 2 /\ m.segs = mem.segs /\ m.act = mem.act /\ m.log = log
  BY Zenon, <1>11
<1>15. Numbered(m) /\ mem.next <= m.next
  BY <1>14, KeptFacts, StoreFacts DEF Numbered
<1>16. dst \in SUBSET (0 .. m.next)
  <2>1. mem.next \in 0 .. m.next /\ mem.next + 1 \in 0 .. m.next
    BY <1>14, StoreFacts
  <2>2. QED
    BY Zenon, <1>3, <1>6, <2>1
<1>17. \A c \in pairs : c \in Nat \X Nat /\ c[1] \in DOMAIN m.log /\ c[2] \in DOMAIN m.log
  <2>1. ASSUME NEW i \in 1 .. Cardinality(live)
        PROVE  new[i].src \in DOMAIN log /\ Len(mem.log) + i \in DOMAIN log /\ DOMAIN log \subseteq Nat
    <3>1. i \in DOMAIN new
      BY <1>6, <1>8
    <3>2. new[i].src \in DOMAIN log
      BY Zenon, <1>7, <1>10, <3>1
    <3>3. Len(mem.log) \in Nat
      BY Zenon, StoreFacts
    <3>4. QED
      BY <1>8, <1>10, <3>1, <3>2, <3>3
  <2>2. QED
    BY <1>4, <1>14, <2>1
<1>18. comp' \in Comps /\ comp'.dst = dst /\ comp'.copies = pairs
  <2>1. PICK c \in Comps : c = comp
    BY Zenon, KeptFacts
  <2>2. dst \in SUBSET Nat /\ pairs \in SUBSET (Nat \X Nat)
    BY <1>16, <1>17
  <2>3. QED
    BY Zenon, <1>5, <2>1, <2>2 DEF Comps
<1>19. StoreInv'
  BY Zenon, <1>5, <1>10, <1>12, <1>13, <1>14, <1>15, <1>16, <1>17, <1>18, KeptFacts, ImageGrows
<1>20. ClockInv'
  BY Zenon, <1>5 DEF DataInv, ClockInv, Open
<1>21. QED
  BY Zenon, <1>19, <1>20 DEF DataInv

\* The destinations are flushed as they stand in memory.
LEMMA CompactFlushStep ==
  ASSUME DataInv, CompactFlush
  PROVE  DataInv'
<1>1. /\ comp' = [comp EXCEPT !.phase = "install"]
      /\ dsup' = [l \in DOMAIN dsup |-> IF l \in DstRecs THEN Rec(l).sup ELSE dsup[l]]
      /\ UNCHANGED <<mem, commitSeq, ops, files, req, rounds>>
  BY Zenon DEF CompactFlush, gvars, store, bounds
<1>2. DOMAIN dsup' = Locs /\ \A l \in Locs : dsup'[l] \in Ends(ops)
  <2>1. \A l \in Locs : Rec(l).sup \in Ends(ops)
    BY Zenon, StoreFacts, RecordFacts
  <2>2. QED
    BY Zenon, <1>1, <2>1, KeptFacts
<1>3. comp' \in Comps /\ comp'.dst = comp.dst /\ comp'.copies = comp.copies
  <2>1. PICK c \in Comps : c = comp
    BY Zenon, KeptFacts
  <2>2. QED
    BY Zenon, <1>1, <2>1 DEF Comps
<1>4. mem' = [log |-> mem.log, segs |-> mem.segs, act |-> mem.act, next |-> mem.next,
              fresh |-> mem.fresh, dirtySup |-> mem.dirtySup]
  BY Zenon, <1>1, KeptFacts
<1>5. files' \subseteq files /\ mem.fresh \in SUBSET Nat /\ mem.dirtySup \in SUBSET Nat
  BY Zenon, <1>1, StoreFacts
<1>6. StoreInv'
  BY Zenon, <1>1, <1>2, <1>3, <1>4, <1>5, KeptFacts, ImageKept
<1>7. ClockInv'
  BY Zenon, <1>1 DEF DataInv, ClockInv, Open
<1>8. QED
  BY Zenon, <1>6, <1>7 DEF DataInv

\* Phase 3 hands the sources' stamps to their copies.
LEMMA CompactInstallStep ==
  ASSUME DataInv, CompactInstall
  PROVE  DataInv'
<1>1. PICK log : log = [l \in Locs |-> IF \E c \in comp.copies : c[2] = l
                                       THEN [Rec(l) EXCEPT !.sup = Rec((CHOOSE c \in comp.copies : c[2] = l)[1]).sup]
                                       ELSE Rec(l)]
  BY Zenon
<1>2. /\ mem' = [Without(mem, comp.srcs) EXCEPT !.log = log, !.segs = @ \cup comp.dst]
      /\ comp' = NoComp /\ UNCHANGED <<commitSeq, ops, files, dsup, req, rounds>>
  BY Zenon, <1>1 DEF CompactInstall, gvars, disk, bounds
<1>3. log = [l \in Locs |-> log[l]] /\ \A l \in Locs : log[l] \in Records(ops)
  <2>1. ASSUME NEW l \in Locs PROVE log[l] \in Records(ops)
    <3>1. CASE \E c \in comp.copies : c[2] = l
      <4>1. PICK c \in comp.copies : c = CHOOSE d \in comp.copies : d[2] = l
        BY Zenon, <3>1
      <4>2. c[1] \in Locs
        BY Zenon, KeptFacts
      <4>3. PICK s \in Ends(ops) : s = Rec(c[1]).sup
        BY Zenon, <4>2, StoreFacts, RecordFacts
      <4>4. log[l] = [Rec(l) EXCEPT !.sup = s]
        BY Zenon, <1>1, <3>1, <4>1, <4>3
      <4>5. QED
        BY <4>3, <4>4, StoreFacts, RecordFacts
    <3>2. CASE ~ \E c \in comp.copies : c[2] = l
      BY Zenon, <1>1, <3>2, StoreFacts
    <3>3. QED
      BY Zenon, <3>1, <3>2
  <2>2. QED
    BY Zenon, <1>1, <2>1
<1>4. PICK segs : segs = (mem.segs \ comp.srcs) \cup comp.dst
  BY Zenon
<1>5. PICK fresh : fresh = {l \in mem.fresh : mem.log[l].seg \notin comp.srcs}
  BY Zenon
<1>6. PICK dirty : dirty = {l \in mem.dirtySup : mem.log[l].seg \notin comp.srcs}
  BY Zenon
<1>7. segs \in SUBSET (0 .. mem.next) /\ fresh \in SUBSET Nat /\ dirty \in SUBSET Nat
  BY Zenon, <1>4, <1>5, <1>6, KeptFacts, StoreFacts
<1>8. mem' = [log |-> log, segs |-> segs, act |-> mem.act, next |-> mem.next,
              fresh |-> fresh, dirtySup |-> dirty]
  <2>1. PICK m : m = Without(mem, comp.srcs)
    BY Zenon
  <2>2. m = [log |-> mem.log, segs |-> mem.segs \ comp.srcs, act |-> mem.act, next |-> mem.next,
             fresh |-> fresh, dirtySup |-> dirty]
    BY Zenon, <1>5, <1>6, <2>1, KeptFacts DEF Without
  <2>3. mem' = [m EXCEPT !.log = log, !.segs = segs]
    BY <1>2, <1>4, <2>1, <2>2
  <2>4. QED
    BY Zenon, <2>2, <2>3
<1>9. comp' \in Comps /\ comp'.dst = {} /\ comp'.copies = {}
  BY Zenon, <1>2 DEF NoComp, Comps
<1>10. StoreInv'
  <2>1. files' \subseteq files /\ ops' = ops /\ dsup' = dsup /\ req' = req
    BY Zenon, <1>2
  <2>2. QED
    BY Zenon, <1>3, <1>7, <1>8, <1>9, <2>1, KeptFacts, ImageKept
<1>11. ClockInv'
  BY Zenon, <1>2 DEF DataInv, ClockInv, Open
<1>12. QED
  BY Zenon, <1>10, <1>11 DEF DataInv

\* A crash leaves records and stamps that were in memory or on disk, or none.
LEMMA CrashStep ==
  ASSUME DataInv, Crash
  PROVE  DataInv'
<1> DEFINE left(K, st) ==
             [l \in Locs |-> IF l \in K THEN [Rec(l) EXCEPT !.sup = IF l \in st THEN @ ELSE dsup[l]] ELSE Gone]
           Cut(log) ==
             /\ mem' = [mem EXCEPT !.log = log, !.segs = files, !.act = NoSeg, !.fresh = {}, !.dirtySup = {}]
             /\ dsup' = [l \in Locs |-> log[l].sup]
<1>1. PICK K, st, log : log = left(K, st) /\ Cut(log)
  <2>1. \E T \in SUBSET Unfinished : \E K \in Survivors(T) : \E st \in Stamps(K) : Cut(left(K, st))
    BY ZenonT(40) DEF Crash
  <2> HIDE DEF left, Cut
  <2>2. QED
    BY Zenon, <2>1
<1>2. /\ comp' = NoComp /\ req' = [w \in Writers |-> NoReq] /\ rounds' = [w \in Writers |-> 1]
      /\ UNCHANGED <<commitSeq, files, ops>>
  BY Zenon DEF Crash
<1>3. Gone \in Records(ops)
  BY StoreFacts DEF Gone, Records, Ends, NoSeg
<1>4. log = [l \in Locs |-> log[l]] /\ \A l \in Locs : log[l] \in Records(ops)
  <2>1. ASSUME NEW l \in Locs PROVE log[l] \in Records(ops)
    <3>1. PICK s \in Ends(ops) : s = IF l \in st THEN Rec(l).sup ELSE dsup[l]
      BY Zenon, StoreFacts, KeptFacts, RecordFacts
    <3>2. l \in K => log[l] = [Rec(l) EXCEPT !.sup = s]
      BY Zenon, <1>1, <3>1
    <3>3. QED
      BY Zenon, <1>1, <1>3, <3>1, <3>2, StoreFacts, RecordFacts
  <2>2. QED
    BY Zenon, <1>1, <2>1
<1>5. DOMAIN dsup' = Locs /\ \A l \in Locs : dsup'[l] \in Ends(ops)
  BY Zenon, <1>1, <1>4, StoreFacts, RecordFacts
<1>6. mem' = [log |-> log, segs |-> files, act |-> 0, next |-> mem.next, fresh |-> {}, dirtySup |-> {}]
  <2>1. mem' = [mem EXCEPT !.log = log, !.segs = files, !.act = 0, !.fresh = {}, !.dirtySup = {}]
    BY Zenon, <1>1 DEF NoSeg
  <2>2. QED
    BY Zenon, <2>1, KeptFacts
<1>7. files \in SUBSET (0 .. mem.next) /\ 0 \in 0 .. mem.next
  <2>1. files \subseteq 0 .. mem.next
    BY Zenon DEF DataInv, StoreInv
  <2>2. mem.next \in Nat
    BY Zenon, StoreFacts
  <2>3. QED
    BY SMTT(30), <2>1, <2>2
<1>8. comp' \in Comps /\ comp'.dst = {} /\ comp'.copies = {}
  BY Zenon, <1>2 DEF NoComp, Comps
<1>9. req' \in [Writers -> Reqs]
  BY Zenon, <1>2 DEF NoReq, Reqs
<1>10. StoreInv'
  BY Zenon, <1>2, <1>4, <1>5, <1>6, <1>7, <1>8, <1>9, ImageKept
<1>11. ClockInv'
  <2>1. Open' = {}
    BY <1>2 DEF Open
  <2>2. Cardinality(Open') = 0
    BY Zenon, <2>1, FS_EmptySet
  <2>3. QED
    BY <1>2, <2>2, StoreFacts DEF ClockInv
<1>12. QED
  BY Zenon, <1>10, <1>11 DEF DataInv

-----------------------------------------------------------------------------
(* Recovery. *)

\* The order of the files rests on numbers: a segment's first sequence.
LEMMA FirstSeqs ==
  ASSUME DataInv, NEW g
  PROVE  FirstSeq(g) \in 0 .. Inf
<1>1. ops \in Nat /\ MaxOps \in Nat /\ ops <= MaxOps /\ Inf = MaxOps + 1
  BY Zenon, StoreFacts DEF Inf
<1>2. CASE RecsOf(g) = {}
  BY <1>1, <1>2 DEF FirstSeq
<1>3. CASE RecsOf(g) # {}
  <2>1. RecsOf(g) \subseteq Locs /\ RecsOf(g) \subseteq Nat
    BY StoreFacts DEF RecsOf
  <2>2. \E l \in RecsOf(g) : \A m \in RecsOf(g) : l <= m
    BY Zenon, <1>3, <2>1, LeastNat
  <2>3. PICK l \in RecsOf(g) : FirstSeq(g) = Rec(l).seq
    BY Zenon, <1>3, <2>2 DEF FirstSeq
  <2>4. Rec(l).seq \in 0 .. ops
    BY Zenon, <2>1, <2>3, StoreFacts, RecordFacts
  <2>5. QED
    BY SMTT(30), <1>1, <2>3, <2>4
<1>4. QED
  BY Zenon, <1>2, <1>3

\* There is a last file, which may take new records (loadShard).
LEMMA LastFile ==
  ASSUME DataInv, mem.segs # {}
  PROVE  \E g \in mem.segs : \A f \in mem.segs : f = g \/ Before(f, g)
<1>1. mem.segs \subseteq 0 .. mem.next /\ mem.next \in Nat /\ Inf \in Nat
  BY KeptFacts, StoreFacts DEF Inf
<1>2. PICK V : V = {FirstSeq(g) : g \in mem.segs}
  BY Zenon
<1>3. V \subseteq 0 .. Inf /\ V # {}
  BY Zenon, <1>2, FirstSeqs
<1>4. PICK v \in V : \A y \in V : y <= v
  BY Zenon, <1>1, <1>3, GreatestNat
<1>5. PICK G : G = {g \in mem.segs : FirstSeq(g) = v}
  BY Zenon
<1>6. G \subseteq 0 .. mem.next /\ G # {}
  BY Zenon, <1>1, <1>2, <1>4, <1>5
<1>7. PICK g \in G : \A f \in G : f <= g
  BY Zenon, <1>1, <1>6, GreatestNat
<1>8. g \in mem.segs /\ FirstSeq(g) = v
  BY Zenon, <1>5
<1>9. ASSUME NEW f \in mem.segs PROVE f = g \/ Before(f, g)
  <2>1. FirstSeq(f) \in Nat /\ FirstSeq(g) \in Nat /\ f \in Nat /\ g \in Nat
    BY <1>1, <1>8, FirstSeqs
  <2>2. FirstSeq(f) <= FirstSeq(g)
    BY Zenon, <1>2, <1>4, <1>8
  <2>3. FirstSeq(f) = FirstSeq(g) => f <= g
    BY Zenon, <1>5, <1>7, <1>8
  <2>4. QED
    BY <2>1, <2>2, <2>3 DEF Before
<1>10. QED
  BY Zenon, <1>8, <1>9

\* Of two records at most one beats the other.
LEMMA BeatsOnce ==
  ASSUME DataInv, NEW l \in Locs, NEW m \in Locs, Beats(l, m)
  PROVE  ~Beats(m, l)
<1>1. /\ l \in Nat /\ m \in Nat /\ Rec(l).seq \in Nat /\ Rec(m).seq \in Nat
      /\ Rec(l).seg \in Nat /\ Rec(m).seg \in Nat
  BY StoreFacts, RecordFacts
<1>2. PICK f \in Nat : f = Rec(l).seg
  BY Zenon, <1>1
<1>3. PICK g \in Nat : g = Rec(m).seg
  BY Zenon, <1>1
<1>4. FirstSeq(f) \in Nat /\ FirstSeq(g) \in Nat
  <2>1. Inf \in Nat
    BY StoreFacts DEF Inf
  <2>2. QED
    BY SMTT(30), <2>1, FirstSeqs
<1>5. ~(Before(f, g) /\ Before(g, f)) /\ ~Before(f, f)
  BY <1>4 DEF Before
<1>6. QED
  BY <1>1, <1>2, <1>3, <1>5 DEF Beats

\* The recovered sequence covers everything the files hold.
LEMMA RecoveredSeqs ==
  ASSUME DataInv
  PROVE  /\ RecoveredSeq \in 0 .. ops
         /\ \A l \in Found : /\ Rec(l).seq <= RecoveredSeq
                             /\ Rec(l).sup # Inf => Rec(l).sup <= RecoveredSeq
<1>1. PICK seen : seen = {0} \cup {Rec(l).seq : l \in Found} \cup ({Rec(l).sup : l \in Found} \ {Inf})
  BY Zenon
<1>2. Found \subseteq Locs /\ ops \in Nat
  BY Zenon, StoreFacts DEF Found
<1>3. \A l \in Found : Rec(l).seq \in 0 .. ops /\ (Rec(l).sup # Inf => Rec(l).sup \in 0 .. ops)
  BY Zenon, <1>2, StoreFacts, RecordFacts DEF Ends
<1>4. seen \subseteq 0 .. ops /\ seen # {}
  BY <1>1, <1>2, <1>3
<1>5. \E s \in seen : \A y \in seen : y <= s
  BY Zenon, <1>2, <1>4, GreatestNat
<1>6. PICK r : r = RecoveredSeq
  BY Zenon
<1>7. r \in seen /\ \A y \in seen : y <= r
  BY Zenon, <1>1, <1>5, <1>6 DEF RecoveredSeq
<1>8. \A l \in Found : Rec(l).seq \in seen /\ (Rec(l).sup # Inf => Rec(l).sup \in seen)
  BY Zenon, <1>1
<1>9. QED
  BY Zenon, <1>4, <1>6, <1>7, <1>8

\* Open leaves one current version of a key and a sequence above all others.
LEMMA RecoverStep ==
  ASSUME GroupInv, DataInv, StatusInv, Recover
  PROVE  DataInv' /\ RecoveredUnique'
<1>1. PICK act : /\ act = NoSeg \/ (mem.segs # {} /\ act = CHOOSE g \in mem.segs : \A f \in mem.segs : f = g \/ Before(f, g))
                 /\ mem' = [mem EXCEPT !.log = Rebuilt, !.act = act]
  <2>1. PICK last : last = CHOOSE g \in mem.segs : \A f \in mem.segs : f = g \/ Before(f, g)
    BY Zenon
  <2>2. mem' = [mem EXCEPT !.log = Rebuilt, !.act = IF mem.segs = {} \/ last \in interned THEN NoSeg ELSE last]
    BY SMTT(30), <2>1 DEF Recover
  <2>3. CASE mem.segs = {} \/ last \in interned
    BY Zenon, <2>2, <2>3
  <2>4. CASE ~(mem.segs = {} \/ last \in interned)
    BY Zenon, <2>1, <2>2, <2>4
  <2>5. QED
    BY Zenon, <2>3, <2>4
<1>2. /\ status = "down" /\ status' = "open" /\ commitSeq' = RecoveredSeq
      /\ UNCHANGED <<ops, files, dsup, comp, req, rounds>>
  BY Zenon DEF Recover, gvars, disk, bounds
<1>3. act \in 0 .. mem.next
  BY <1>1, LastFile, KeptFacts, StoreFacts DEF NoSeg
<1>4. PICK log : log = Rebuilt
  BY Zenon
<1>5. /\ log = [l \in Locs |-> log[l]]
      /\ \A l \in Locs : log[l] = IF l \in Found /\ Rec(l).sup = Inf /\ ~Winner(l)
                                  THEN [Rec(l) EXCEPT !.sup = Rec(l).seq] ELSE Rec(l)
  BY Zenon, <1>4 DEF Rebuilt
<1>6. ASSUME NEW l \in Locs
      PROVE  /\ log[l] \in Records(ops)
             /\ log[l].key = Rec(l).key /\ log[l].seg = Rec(l).seg /\ log[l].seq = Rec(l).seq
             /\ log[l].sup = IF l \in Found /\ Rec(l).sup = Inf /\ ~Winner(l) THEN Rec(l).seq ELSE Rec(l).sup
  <2>1. PICK r \in Records(ops) : r = Rec(l)
    BY Zenon, StoreFacts
  <2>2. PICK s \in Ends(ops) : s = r.seq
    BY Zenon, RecordFacts, StoreFacts DEF Ends
  <2>3. PICK q : q = [r EXCEPT !.sup = s]
    BY Zenon
  <2>4. q \in Records(ops) /\ q.key = r.key /\ q.seg = r.seg /\ q.seq = r.seq /\ q.sup = s
    BY Zenon, <2>3 DEF Records
  <2>5. log[l] = IF l \in Found /\ Rec(l).sup = Inf /\ ~Winner(l) THEN q ELSE r
    BY Zenon, <1>5, <2>1, <2>2, <2>3
  <2>6. QED
    BY Zenon, <2>1, <2>2, <2>4, <2>5
<1>7. mem' = [log |-> log, segs |-> mem.segs, act |-> act, next |-> mem.next,
              fresh |-> mem.fresh, dirtySup |-> mem.dirtySup]
  <2>1. mem' = [mem EXCEPT !.log = log, !.act = act]
    BY Zenon, <1>1, <1>4
  <2>2. QED
    BY Zenon, <2>1, KeptFacts
<1>8. StoreInv'
  <2>1. mem.fresh \in SUBSET Nat /\ mem.dirtySup \in SUBSET Nat
    BY Zenon, StoreFacts
  <2>2. /\ files' \subseteq files /\ ops' = ops /\ dsup' = dsup /\ req' = req /\ comp' = comp
        /\ log = [l \in Locs |-> log[l]] /\ \A l \in Locs : log[l] \in Records(ops)
    BY Zenon, <1>2, <1>5, <1>6
  <2>3. QED
    BY Zenon, <1>3, <1>7, <2>1, <2>2, KeptFacts, ImageKept
<1>9. ClockInv'
  <2>1. \A w \in Writers : rounds[w] = 1
    BY Zenon, <1>2 DEF StatusInv, GroupInv, CallInv
  <2>2. Open' = {}
    BY <1>2, <2>1 DEF Open
  <2>3. Cardinality(Open') = 0
    BY Zenon, <2>2, FS_EmptySet
  <2>4. QED
    BY <1>2, <2>3, StoreFacts, RecoveredSeqs DEF ClockInv
<1>10. /\ Locs' = Locs /\ mem'.segs = mem.segs
       /\ \A l \in Locs : Rec(l)' = log[l]
       /\ Found \subseteq Locs /\ \A l \in Locs : l \in Found <=> Rec(l).seg \in mem.segs
  <2>1. mem'.log = log /\ mem'.segs = mem.segs
    BY Zenon, <1>7
  <2>2. DOMAIN log = Locs
    BY Zenon, <1>5
  <2>3. QED
    BY Zenon, <2>1, <2>2 DEF Locs, Rec, Found
<1>11. ASSUME NEW l \in Locs, (Rec(l).seg)' \in mem'.segs, (Rec(l).sup)' = Inf
       PROVE  l \in Found /\ Winner(l)
  <2>1. l \in Found /\ log[l].sup = Inf
    BY <1>6, <1>10, <1>11
  <2>2. Rec(l).seq # Inf
    BY SMTT(30), StoreFacts, RecordFacts DEF Inf
  <2>3. QED
    BY Zenon, <1>6, <2>1, <2>2
<1>12. ASSUME NEW k \in Keys, NEW l \in CurrentOf(k)', NEW m \in CurrentOf(k)'
       PROVE  l = m
  <2>1. /\ l \in Locs /\ (Rec(l).key)' = k /\ (Rec(l).seg)' \in mem'.segs /\ (Rec(l).sup)' = Inf
        /\ m \in Locs /\ (Rec(m).key)' = k /\ (Rec(m).seg)' \in mem'.segs /\ (Rec(m).sup)' = Inf
    BY Zenon, <1>10 DEF CurrentOf, Current, Inf
  <2>2. Rec(l).key = k /\ Rec(m).key = k
    BY Zenon, <1>6, <1>10, <2>1
  <2>3. l \in Found /\ m \in Found /\ Winner(l) /\ Winner(m)
    BY Zenon, <1>11, <2>1
  <2>4. l = m \/ (Beats(l, m) /\ Beats(m, l))
    BY Zenon, <2>2, <2>3 DEF Winner
  <2>5. QED
    BY Zenon, <2>1, <2>4, BeatsOnce
<1>13. ASSUME NEW l \in Locs, (Rec(l).seg)' \in mem'.segs
       PROVE  (Rec(l).seq)' <= commitSeq' /\ ((Rec(l).sup)' # Inf => (Rec(l).sup)' <= commitSeq')
  <2>1. l \in Found
    <3>1. (Rec(l).seg)' = log[l].seg
      BY Zenon, <1>10
    <3>2. log[l].seg = Rec(l).seg
      BY Zenon, <1>6
    <3>3. QED
      BY Zenon, <1>10, <1>13, <3>1, <3>2
  <2>2. QED
    BY Zenon, <1>2, <1>6, <1>10, <2>1, RecoveredSeqs
<1>14. RecoveredUnique'
  BY Zenon, <1>10, <1>12, <1>13 DEF RecoveredUnique, Inf
<1>15. QED
  BY Zenon, <1>8, <1>9, <1>14 DEF DataInv

-----------------------------------------------------------------------------
(* The invariant. *)

\* A writer inside a call keeps the records in order.
LEMMA StepKeepsData ==
  ASSUME GroupInv, DataInv, NEW w \in Writers, Step(w)
  PROVE  DataInv'
<1>1. CASE Lead(w)
  <2>1. UNCHANGED <<mem, commitSeq, files, dsup, comp, ops, rounds, req>>
    BY Zenon, <1>1 DEF Lead, TakeQueue, store, disk, bounds
  <2>2. QED
    BY Zenon, <2>1, AckedStep
<1>2. CASE Apply(w)
  BY Zenon, <1>2, ApplyStep
<1>3. CASE DeleteLive(w)
  BY Zenon, <1>3, DeleteLiveStep
<1>4. CASE DeleteAbsent(w)
  BY Zenon, <1>4, DeleteAbsentStep
<1>5. CASE SyncAll(w)
  <2>1. UNCHANGED <<mem, commitSeq, files, dsup, comp, ops, rounds>> /\ req' = [req EXCEPT ![w].need = commitSeq]
    BY Zenon, <1>5 DEF SyncAll, SyncCalled, store, disk, bounds
  <2>2. QED
    BY Zenon, <2>1, AckedStep
<1>6. CASE SyncCovered(w)
  <2>1. UNCHANGED <<mem, commitSeq, files, dsup, comp, ops, rounds>> /\ (req' = req \/ Acknowledge(w))
    BY Zenon, <1>6 DEF SyncCovered, SyncReturn, store, disk, bounds
  <2>2. QED
    BY Zenon, <2>1, AckedStep
<1>7. CASE SyncUncovered(w)
  <2>1. UNCHANGED <<mem, commitSeq, files, dsup, comp, ops, rounds, req>>
    BY Zenon, <1>7 DEF SyncUncovered, SyncWait, SyncLead, store, disk, bounds
  <2>2. QED
    BY Zenon, <2>1, AckedStep
<1>8. CASE Capture(w) \/ Msync(w)
  BY Zenon, <1>8, PassSteps
<1>9. CASE Answer(w)
  <2>1. /\ UNCHANGED <<mem, commitSeq, files, dsup, comp, ops, rounds>> /\ SignalDone(w)
        /\ req' = req \/ Acknowledge(Head(batch))
    BY Zenon, <1>9 DEF Answer, SignalDone, store, disk, bounds
  <2>2. PICK x \in Writers : x = Head(batch)
    BY Zenon, <2>1, SignalDoneStep
  <2>3. QED
    BY Zenon, <2>1, <2>2, AckedStep
<1>10. CASE Finish(w)
  <2>1. UNCHANGED <<mem, commitSeq, files, dsup, comp, ops, rounds>> /\ Acknowledge(w)
    BY Zenon, <1>10 DEF Finish, FinishFlush, store, disk, bounds
  <2>2. QED
    BY Zenon, <2>1, AckedStep
<1>11. QED
  BY Zenon, <1>1, <1>2, <1>3, <1>4, <1>5, <1>6, <1>7, <1>8, <1>9, <1>10 DEF Step

\* Only a shard that is up has writers inside calls.
LEMMA StepsWhenUp ==
  ASSUME StatusInv, NEW w \in Writers, Step(w)
  PROVE  status = "up" /\ status' = "up"
<1>1. At(w) # "idle"
  BY Zenon DEF Step, Lead, TakeQueue, Apply, ApplyRequests, DeleteLive, DeleteApplied, DeleteAbsent, SyncAll, SyncCalled,
         SyncCovered, SyncReturn, SyncUncovered, SyncWait, SyncLead, Capture, PassCaptured, Msync, PassDone,
         Answer, SignalDone, Finish, FinishFlush
<1>2. status' = status
  BY Zenon DEF Step, Lead, Apply, DeleteLive, DeleteAbsent, SyncAll, SyncCovered, SyncUncovered, Capture, Msync,
         Answer, Finish
<1>3. QED
  BY Zenon, <1>1, <1>2 DEF StatusInv

\* Every step keeps the invariant of the whole.
LEMMA NextKeepsDur ==
  ASSUME DurInv, [Next]_vars
  PROVE  DurInv'
<1>1. GroupInv'
  BY Zenon, NextKeepsGroup DEF DurInv
<1>2. GroupInv /\ DataInv /\ StatusInv /\ RecoveredUnique
  BY Zenon DEF DurInv
<1>3. ASSUME status' = "up", DataInv' PROVE DurInv'
  BY Zenon, <1>1, <1>3 DEF DurInv, StatusInv, RecoveredUnique
<1>4. ASSUME NEW w \in Writers, NEW k \in Keys, CallPut(w, k) \/ CallDelete(w, k)
      PROVE  DurInv'
  <2>1. /\ Call(w, k) /\ At(w) = "idle" /\ rounds' = [rounds EXCEPT ![w] = 0]
        /\ status = "up" /\ status' = status
    BY Zenon, <1>4 DEF CallPut, CallDelete, Call, CommitFast, CommitQueued, DeleteCalled
  <2>2. QED
    BY Zenon, <1>2, <1>3, <2>1, CallStep
<1>5. ASSUME NEW w \in Writers, Step(w) PROVE DurInv'
  BY Zenon, <1>2, <1>3, <1>5, StepsWhenUp, StepKeepsData
<1>6. CASE Evict \/ Reclaim
  <2>1. status' = "up"
    BY Zenon, <1>6 DEF Evict, Reclaim
  <2>2. QED
    BY Zenon, <1>2, <1>3, <1>6, <2>1, ReclaimSteps
<1>7. ASSUME NEW g \in files, Unlink(g) PROVE DurInv'
  <2>1. status' = "up"
    BY Zenon, <1>7 DEF Unlink
  <2>2. QED
    BY Zenon, <1>2, <1>3, <1>7, <2>1, UnlinkStep
<1>8. CASE Compact
  <2>1. status' = "up"
    BY Zenon, <1>2, <1>8 DEF Compact, CompactBegin, CompactCopy, CompactFlush, CompactInstall, StatusInv
  <2>2. DataInv'
    BY Zenon, <1>2, <1>8, CompactBeginStep, CompactCopyStep, CompactFlushStep, CompactInstallStep DEF Compact
  <2>3. QED
    BY Zenon, <1>3, <2>1, <2>2
<1>9. CASE Crash
  <2>1. /\ status' = "down" /\ comp' = NoComp
        /\ pc' = [w \in Writers |-> [at |-> "idle", flusher |-> FALSE]]
    BY Zenon, <1>9 DEF Crash
  <2>2. StatusInv' /\ RecoveredUnique'
    BY Zenon, <2>1 DEF StatusInv, RecoveredUnique, NoComp, At
  <2>3. QED
    BY Zenon, <1>1, <1>2, <1>9, <2>2, CrashStep DEF DurInv
<1>10. CASE Recover
  <2>1. StatusInv'
    BY Zenon, <1>2, <1>10 DEF StatusInv, Recover, gvars, At
  <2>2. QED
    BY Zenon, <1>1, <1>2, <1>10, <2>1, RecoverStep DEF DurInv
<1>11. CASE Serve
  <2>1. status' = "up" /\ UNCHANGED <<mem, commitSeq, files, dsup, comp, ops, rounds, req>>
    BY Zenon, <1>11 DEF Serve, gvars, store, disk, bounds
  <2>2. req' \in [Writers -> Reqs]
    BY Zenon, <1>2, <2>1, KeptFacts
  <2>3. QED
    BY Zenon, <1>2, <1>3, <2>1, <2>2, ReqSteps
<1>12. CASE UNCHANGED vars
  <2>1. UNCHANGED <<mem, commitSeq, files, dsup, comp, ops, rounds, req, status, pc>>
    BY Zenon, <1>12 DEF vars, gvars, store, disk, bounds
  <2>2. req' \in [Writers -> Reqs]
    BY Zenon, <1>2, <2>1, KeptFacts
  <2>3. DataInv'
    BY Zenon, <1>2, <2>1, <2>2, ReqSteps
  <2>4. StatusInv' /\ RecoveredUnique'
    <3>1. StatusInv'
      BY Zenon, <1>2, <2>1 DEF StatusInv, At
    <3>2. RecoveredUnique /\ mem' = mem /\ commitSeq' = commitSeq /\ status' = status
      BY Zenon, <1>2, <2>1
    <3>3. RecoveredUnique'
      BY SMTT(30), <3>2 DEF RecoveredUnique, CurrentOf, Current, Rec, Locs
    <3>4. QED
      BY Zenon, <3>1, <3>3
  <2>5. QED
    BY Zenon, <1>1, <2>3, <2>4 DEF DurInv
<1>13. QED
  BY Zenon, <1>4, <1>5, <1>6, <1>7, <1>8, <1>9, <1>10, <1>11, <1>12 DEF Next

\* The invariant of group commit, the records in memory and on disk, and recovery.
THEOREM DurabilityInvariance == Spec => []DurInv
<1>1. Init => DurInv
  <2>1. SUFFICES ASSUME Init PROVE DurInv
    OBVIOUS
  <2>2. GroupInv /\ DataInv
    BY Zenon, <2>1, GroupInit, DataInit DEF Init
  <2>3. StatusInv /\ RecoveredUnique
    BY Zenon, <2>1 DEF Init, StatusInv, RecoveredUnique
  <2>4. QED
    BY Zenon, <2>2, <2>3 DEF DurInv
<1>2. DurInv /\ [Next]_vars => DurInv'
  BY Zenon, NextKeepsDur
<1>3. QED
  BY <1>1, <1>2, PTL DEF Spec

\* After a crash at any point, and any number of crashes before it, Open leaves
\* at most one current record of a key, so that scans agree with lookups, and a
\* commit sequence that no record and no stamp exceeds (rebuildDir, loadShard).
THEOREM RecoveryUnique == Spec => []RecoveredUnique
BY DurabilityInvariance, PTL DEF DurInv
=============================================================================
