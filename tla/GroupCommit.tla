---------------------------- MODULE GroupCommit ----------------------------
(***************************************************************************)
(* Group commit on one shard (collections/commit.go): who applies whose    *)
(* writes, and who waits for which durability pass.                        *)
(*                                                                         *)
(* A writer that finds no flush in progress becomes the flusher of its own *)
(* write. The others queue up; a flusher that is done appoints the first   *)
(* of them, who commits the whole queue as one batch. Deletes and          *)
(* transactions do not queue: they apply under the shard's lock and only   *)
(* share the durability passes. What is applied, and what a pass flushes,  *)
(* is left to the module that extends this one.                            *)
(***************************************************************************)
EXTENDS Integers, FiniteSets, Sequences, Functions

CONSTANT Writers   \* goroutines that call into the shard

VARIABLES
  flushing,  \* sh.flushing: somebody has the flusher role
  queue,     \* sh.queue: writers with a commitReq, in order
  batch,     \* the requests the flusher took, as a sequence of writers
  pc,        \* where each writer is
  syncing,   \* sh.syncing: a durability pass is in flight
  rounds     \* history: how often each writer's last call has been applied

gvars == <<flushing, queue, batch, pc, syncing, rounds>>

\* "idle": no call open. "wait": queued. "lead": appointed flusher.
\* "apply": flusher about to apply its batch. "del": about to delete.
\* "need": in sync. "sync": in syncFor. "cond": asleep in scond.Wait. "pass": leads a pass.
\* "msync": flushes what the pass captured. "signal": wakes its batch.
\* The flag tells a flusher from a deleter while they share syncFor.
Places == {"idle", "wait", "lead", "apply", "del", "need", "sync", "cond", "pass", "msync", "signal"}
InSync == {"need", "sync", "cond", "pass", "msync"}

At(w) == pc[w].at
Flusher(w) == pc[w].flusher
Go(w, p) == pc' = [pc EXCEPT ![w].at = p]

-----------------------------------------------------------------------------
(* The leader/handoff protocol. *)

\* commit, commitOne without a flush in progress: become the flusher.
CommitFast(w) ==
  /\ At(w) = "idle"
  /\ ~flushing
  /\ flushing' = TRUE
  /\ batch' = <<w>>
  /\ pc' = [pc EXCEPT ![w] = [at |-> "apply", flusher |-> TRUE]]
  /\ rounds' = [rounds EXCEPT ![w] = 0]
  /\ UNCHANGED <<queue, syncing>>

\* commit, commitOne during a flush: queue up and block.
CommitQueued(w) ==
  /\ At(w) = "idle"
  /\ flushing
  /\ queue' = Append(queue, w)
  /\ pc' = [pc EXCEPT ![w] = [at |-> "wait", flusher |-> FALSE]]
  /\ rounds' = [rounds EXCEPT ![w] = 0]
  /\ UNCHANGED <<flushing, batch, syncing>>

\* A leader that takes the requests of the others and leaves the queue alone.
TakeQueueKept(w) ==
  /\ At(w) = "lead"
  /\ batch' = queue
  /\ pc' = [pc EXCEPT ![w] = [at |-> "apply", flusher |-> TRUE]]
  /\ UNCHANGED <<flushing, queue, syncing, rounds>>

\* flushAsLeader: the appointed writer drains the queue, its own request included.
TakeQueue(w) ==
  /\ At(w) = "lead"
  /\ batch' = queue
  /\ queue' = <<>>
  /\ pc' = [pc EXCEPT ![w] = [at |-> "apply", flusher |-> TRUE]]
  /\ UNCHANGED <<flushing, syncing, rounds>>

\* applyWrites, applyOne, applyBatch: one critical section for the whole batch.
ApplyRequests(w) ==
  /\ At(w) = "apply"
  /\ Go(w, "sync")
  /\ rounds' = [x \in Writers |-> IF x \in Range(batch) THEN rounds[x] + 1 ELSE rounds[x]]
  /\ UNCHANGED <<flushing, queue, batch, syncing>>

\* flushAsLeader closes the done channels of its batch, one after another.
SignalDone(w) ==
  /\ At(w) = "signal"
  /\ Flusher(w)
  /\ batch # <<>>
  /\ batch' = Tail(batch)
  /\ pc' = IF Head(batch) = w THEN pc ELSE [pc EXCEPT ![Head(batch)].at = "idle"]
  /\ UNCHANGED <<flushing, queue, syncing, rounds>>

\* finishFlush: give the role up, or hand it to the first in the queue.
FinishFlush(w) ==
  /\ At(w) = "signal"
  /\ Flusher(w)
  /\ batch = <<>>
  /\ flushing' = (queue # <<>>)
  /\ LET home == [pc EXCEPT ![w] = [at |-> "idle", flusher |-> FALSE]] IN
     pc' = IF queue = <<>> THEN home ELSE [home EXCEPT ![Head(queue)].at = "lead"]
  /\ UNCHANGED <<queue, batch, syncing, rounds>>

-----------------------------------------------------------------------------
(* Deletes and transactions, and the durability passes all of them share. *)

\* Delete or Txn.Commit is called.
DeleteCalled(w) ==
  /\ At(w) = "idle"
  /\ pc' = [pc EXCEPT ![w] = [at |-> "del", flusher |-> FALSE]]
  /\ rounds' = [rounds EXCEPT ![w] = 0]
  /\ UNCHANGED <<flushing, queue, batch, syncing>>

\* Its critical section.
DeleteApplied(w) ==
  /\ At(w) = "del"
  /\ Go(w, "need")
  /\ rounds' = [rounds EXCEPT ![w] = 1]
  /\ UNCHANGED <<flushing, queue, batch, syncing>>

\* sync: read the sequence to wait for, which may have moved on by now.
SyncCalled(w) ==
  /\ At(w) = "need"
  /\ Go(w, "sync")
  /\ UNCHANGED <<flushing, queue, batch, syncing, rounds>>

\* syncFor returns; a deleter's call ends, a flusher goes on to its batch.
SyncReturn(w) ==
  /\ At(w) = "sync"
  /\ Go(w, IF Flusher(w) THEN "signal" ELSE "idle")
  /\ UNCHANGED <<flushing, queue, batch, syncing, rounds>>

\* syncFor waits on scond while a pass is in flight.
SyncWait(w) ==
  /\ At(w) = "sync"
  /\ syncing
  /\ Go(w, "cond")
  /\ UNCHANGED <<flushing, queue, batch, syncing, rounds>>

\* syncFor leads the next pass.
SyncLead(w) ==
  /\ At(w) = "sync"
  /\ ~syncing
  /\ syncing' = TRUE
  /\ Go(w, "pass")
  /\ UNCHANGED <<flushing, queue, batch, rounds>>

\* syncPass captures what is dirty under the shard's lock.
PassCaptured(w) ==
  /\ At(w) = "pass"
  /\ Go(w, "msync")
  /\ UNCHANGED <<flushing, queue, batch, syncing, rounds>>

\* A pass that does not wake those who slept through it.
PassDoneSilent(w) ==
  /\ At(w) = "msync"
  /\ syncing' = FALSE
  /\ Go(w, "sync")
  /\ UNCHANGED <<flushing, queue, batch, rounds>>

\* syncFor after syncPass: publish what is covered and wake all sleepers.
PassDone(w) ==
  /\ At(w) = "msync"
  /\ syncing' = FALSE
  /\ pc' = [x \in Writers |-> IF x = w \/ At(x) = "cond" THEN [pc[x] EXCEPT !.at = "sync"] ELSE pc[x]]
  /\ UNCHANGED <<flushing, queue, batch, rounds>>

-----------------------------------------------------------------------------
GInit ==
  /\ flushing = FALSE
  /\ queue = <<>>
  /\ batch = <<>>
  /\ pc = [w \in Writers |-> [at |-> "idle", flusher |-> FALSE]]
  /\ syncing = FALSE
  /\ rounds = [w \in Writers |-> 1]

-----------------------------------------------------------------------------
(* Properties. *)

\* A request is applied at most once however often the role changes hands, and
\* exactly once by the time its call waits for durability or has returned.
AppliedOnce ==
  \A w \in Writers :
    /\ rounds[w] <= 1
    /\ At(w) \in InSync \cup {"signal", "idle"} => rounds[w] = 1
=============================================================================
