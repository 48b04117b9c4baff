-------------------------------- MODULE Rpc --------------------------------
(***************************************************************************)
(* The RPC layer (dbrpc): callers that share multiplexed connections to    *)
(* one server.  A Client sends requests under its own ids and one read     *)
(* loop hands every response frame to the call that waits for it; the      *)
(* server starts a goroutine for every request frame, keeps the open       *)
(* transactions in one map, and aborts those of a connection that ends.    *)
(*                                                                         *)
(* A caller of kind "unit" runs one non-idempotent unit of work (read a    *)
(* record, write it back with the unit's own change) and commits it with   *)
(* CommitIdempotent; "plain" does so with Commit; "query" reads a finite   *)
(* stream of rows; "watch" reads a change feed until it is told to stop.   *)
(* "local" is a writer inside the server's process, which changes the same *)
(* record with no connection between.                                      *)
(* What a caller does with an error is what errors.go prescribes: replay   *)
(* on a fresh connection after ErrConnClosed, retry on the same one after  *)
(* a conflict, surface everything else.                                    *)
(*                                                                         *)
(* A table is its shards' records with the sequence of their last change:  *)
(* the one data record, whose value is the sequence of changes in it, and  *)
(* a marker per unit.  disk is what a server that dies is sure to find.    *)
(***************************************************************************)
EXTENDS Integers, Sequences, FiniteSets

CONSTANTS
  Callers,      \* every caller
  Kind,         \* caller -> "unit", "plain", "query", "watch" or "local"
  Crews,        \* the sets of callers that may run together
  MaxConns,     \* connections that may ever be dialled, numbered in that order
  Data,         \* the data record's key; a unit's marker has the unit as its key
  ShardOf,      \* key -> the shard that holds it
  Rows,         \* the rows a query's result has
  Events,       \* the changes a feed has to report before it goes quiet
  StreamBuf,    \* frames the channel of a stream holds (256)
  NetBuf,       \* frames the transport holds before a write blocks
  MaxTries,     \* caller -> its attempts at its unit of work
  MaxFaults     \* crew -> times a transport may fail or the server die

ASSUME RpcConstants ==
  /\ Kind \in [Callers -> {"unit", "plain", "query", "watch", "local"}]
  /\ Crews \subseteq SUBSET Callers
  /\ {Rows, Events, MaxConns} \subseteq Nat
  /\ MaxTries \in [Callers -> 1 .. MaxConns]
  /\ MaxFaults \in [Crews -> Nat]
  /\ {StreamBuf, NetBuf} \subseteq Nat \ {0}
  /\ DOMAIN ShardOf = {Data} \cup {p \in Callers : Kind[p] = "unit"}
  /\ Data \notin Callers

VARIABLES
  conn,      \* connection -> its two ends
  pend,      \* connection -> the ids of Client.pending
  down,      \* connection -> the response frames under way
  work,      \* the requests sent and not finished, each with its goroutine's state
  live,      \* Server.txns: the ids of the open transactions
  txn,       \* every transaction begun, in id order
  store,     \* key -> its value and the sequence of its last change
  clock,     \* shard -> the sequence of its last commit
  disk,      \* key -> what is known to be on disk
  app,       \* caller -> where it is
  crew,      \* the callers that run
  aborted,   \* history: the transactions given up without a commit
  faults     \* times a transport has failed or the server died

vars == <<conn, pend, down, work, live, txn, store, clock, disk, app, crew, aborted, faults>>
server == <<live, txn, store, clock, disk, aborted>>
client == <<pend, app>>

Conns == 1 .. MaxConns
Keys == DOMAIN ShardOf
Shards == {ShardOf[k] : k \in Keys}
Units == {p \in Callers : Kind[p] = "unit"}
Locals == {p \in Callers : Kind[p] = "local"}
Streams == {p \in Callers : Kind[p] \in {"query", "watch"}}
None == 0
Absent == "absent"
Marker == "marker"

-----------------------------------------------------------------------------
(* The client: Client, sendIDTimed, callCtx, callStream, failAll. *)

Idle == [at |-> "dial", conn |-> None, n |-> 0, tries |-> 0, op |-> "", txn |-> None,
         ch |-> <<>>, closed |-> FALSE, drain |-> FALSE, got |-> 0, stop |-> "no",
         res |-> ""]

\* The request a caller sends next, and the goroutine the server starts for it.
Request(p, op) ==
  [p |-> p, n |-> app[p].n + 1, c |-> app[p].conn, op |-> op, t |-> app[p].txn,
   at |-> "run", left |-> {}, lost |-> {}, wrote |-> {}, rows |-> 0]

Id(h) == <<h.p, h.n>>

\* A call answered with closeErr: the caller replays its unit on another connection.
Closed(p, a) ==
  IF a.tries < MaxTries[p] THEN [a EXCEPT !.at = "dial", !.txn = None, !.ch = <<>>]
  ELSE [a EXCEPT !.at = "done", !.res = "unknown"]

\* sendIDTimed: register the call and write its frame.  A connection that is gone fails the
\* call at once (closeErr), or in WriteMsg.
Send(p, op, next) ==
  LET h == Request(p, op) IN
  IF conn[h.c].at = "up"
  THEN /\ work' = work \cup {h}
       /\ pend' = [pend EXCEPT ![h.c] = @ \cup {Id(h)}]
       /\ app' = [app EXCEPT ![p] = [next EXCEPT !.n = h.n, !.op = op]]
  ELSE /\ app' = [app EXCEPT ![p] = Closed(p, @)]
       /\ UNCHANGED <<work, pend>>

\* What a caller does with the answer to a unary call (Tx.Commit, CommitIdempotent, simple ...).
Returned(p, a, st, arg) ==
  CASE st = "err" -> [a EXCEPT !.at = "done", !.res = "error"]
    [] st = "conflict" ->
         IF a.tries < MaxTries[p]
         THEN [a EXCEPT !.at = "begin", !.tries = @ + 1, !.txn = None]
         ELSE [a EXCEPT !.at = "done", !.res = "conflict"]
    [] a.op = "begin" -> [a EXCEPT !.at = "set", !.txn = arg]
    [] a.op = "set" -> [a EXCEPT !.at = "end"]
    [] a.op = "abort" -> [a EXCEPT !.at = "done", !.res = "aborted"]
    [] OTHER -> [a EXCEPT !.at = "done", !.res = "ok"]

\* Pool.pick, or a fresh Client over a new connection.
Dial(p, c) ==
  /\ p \in crew /\ p \notin Locals /\ app[p].at = "dial"
  /\ conn[c].at # "broken" /\ \A d \in 1 .. c - 1 : conn[d].at # "new"
  /\ conn' = [conn EXCEPT ![c].at = "up"]
  /\ app' = [app EXCEPT ![p].at = "begin", ![p].conn = c, ![p].tries = @ + 1]
  /\ UNCHANGED <<pend, down, work, server, crew, faults>>

\* A transaction's next call, each sent when the one before it has been answered.
Call(p) ==
  /\ p \notin Streams
  /\ \/ app[p].at = "begin" /\ Send(p, "begin", [app[p] EXCEPT !.at = "wait"])
     \/ app[p].at = "set" /\ Send(p, "set", [app[p] EXCEPT !.at = "wait"])
     \/ app[p].at = "end" /\ Send(p, IF Kind[p] = "unit" THEN "idem" ELSE "commit",
                                  [app[p] EXCEPT !.at = "wait"])
  /\ UNCHANGED <<conn, down, server, crew, faults>>

Abort(p) ==
  /\ app[p].at = "end"
  /\ Send(p, "abort", [app[p] EXCEPT !.at = "wait"])
  /\ UNCHANGED <<conn, down, server, crew, faults>>

\* callStream: Query, WatchTable.
Stream(p) ==
  /\ p \in Streams /\ app[p].at = "begin"
  /\ Send(p, Kind[p], [app[p] EXCEPT !.at = "read"])
  /\ UNCHANGED <<conn, down, server, crew, faults>>

\* callCtx when ctx ends first: the call is unregistered and its answer, when it comes, dropped.
CancelCall(p) ==
  /\ app[p].at = "wait"
  /\ pend' = [pend EXCEPT ![app[p].conn] = @ \ {<<p, app[p].n>>}]
  /\ app' = [app EXCEPT ![p].at = "done", ![p].res = "cancelled"]
  /\ UNCHANGED <<conn, down, work, server, crew, faults>>

\* streamCtx / streamEach take one frame, or find the channel closed and return nil.
Consume(p) ==
  /\ Kind[p] = "query" /\ app[p].at = "read"
  /\ \/ /\ app[p].ch # <<>>
        /\ app' = [app EXCEPT ![p].ch = Tail(@), ![p].got = @ + 1]
     \/ /\ app[p].ch = <<>> /\ app[p].closed
        /\ app' = [app EXCEPT ![p].at = "done", ![p].res = "ok"]
  /\ UNCHANGED <<conn, pend, down, work, server, crew, faults>>

\* ctx ends, or yield says stop: the channel is left to a background drain.
Drain(p) ==
  /\ Kind[p] = "query" /\ app[p].at = "read"
  /\ app' = [app EXCEPT ![p].at = "done", ![p].res = "cancelled", ![p].drain = TRUE, ![p].ch = <<>>]
  /\ UNCHANGED <<conn, pend, down, work, server, crew, faults>>

\* WatchTable's goroutine takes a frame and offers the event, or ends with the stream.
Forward(p) ==
  /\ Kind[p] = "watch" /\ app[p].at = "read"
  /\ \/ /\ app[p].ch # <<>>
        /\ app' = [app EXCEPT ![p].ch = Tail(@), ![p].at = "offer"]
     \/ /\ app[p].ch = <<>> /\ app[p].closed
        /\ app' = [app EXCEPT ![p].at = "done", ![p].res = "ended"]
  /\ UNCHANGED <<conn, pend, down, work, server, crew, faults>>

\* The user of the feed takes the event offered; nothing makes it do so.
TakeEvent(p) ==
  /\ app[p].at = "offer"
  /\ app' = [app EXCEPT ![p].at = "read", ![p].got = @ + 1]
  /\ UNCHANGED <<conn, pend, down, work, server, crew, faults>>

\* stop(), once: a unary opWatchStop under a context that never ends.  Its error is ignored.
SendStop(p, next) ==
  IF next.stop # "no" THEN app' = [app EXCEPT ![p] = next] /\ UNCHANGED <<work, pend>>
  ELSE LET h == Request(p, "stop") IN
       IF conn[h.c].at = "up"
       THEN /\ work' = work \cup {h}
            /\ pend' = [pend EXCEPT ![h.c] = @ \cup {Id(h)}]
            /\ app' = [app EXCEPT ![p] = [next EXCEPT !.stop = "sent"]]
       ELSE /\ app' = [app EXCEPT ![p] = [next EXCEPT !.stop = "done"]]
            /\ UNCHANGED <<work, pend>>

\* The user calls the stop function; the goroutine reads on until the stream ends.
UserStop(p) ==
  /\ Kind[p] = "watch" /\ app[p].at \in {"read", "offer"} /\ app[p].stop = "no"
  /\ SendStop(p, app[p])
  /\ UNCHANGED <<conn, down, server, crew, faults>>

\* The user's ctx ends: the goroutine itself calls stop(), and drains when it returns.
CancelWatch(p) ==
  /\ Kind[p] = "watch" /\ app[p].at \in {"read", "offer"}
  /\ SendStop(p, [app[p] EXCEPT !.at = "stopping"])
  /\ UNCHANGED <<conn, down, server, crew, faults>>

Stopped(p) ==
  /\ app[p].at = "stopping" /\ app[p].stop = "done"
  /\ app' = [app EXCEPT ![p].at = "done", ![p].res = "cancelled", ![p].drain = TRUE, ![p].ch = <<>>]
  /\ UNCHANGED <<conn, pend, down, work, server, crew, faults>>

-----------------------------------------------------------------------------
(* readLoop and failAll. *)

\* A stream's request is its caller's first, a stop its second.
IsStream(id) == id[1] \in Streams /\ id[2] = app[id[1]].n

\* The loop holds a stream's frame and its channel is full.
Blocked(c) ==
  /\ down[c] # <<>>
  /\ LET f == Head(down[c])
     IN  /\ f.id \in pend[c] /\ IsStream(f.id) /\ f.st = "row"
         /\ ~app[f.id[1]].drain /\ Len(app[f.id[1]].ch) >= StreamBuf

\* A caller after the read loop has given it frame f.
Delivered(a, f) ==
  CASE IsStream(f.id) /\ f.st = "end" -> [a EXCEPT !.closed = TRUE]
    [] IsStream(f.id) -> IF a.drain THEN a ELSE [a EXCEPT !.ch = Append(@, f.st)]
    [] f.id[1] \in Streams -> [a EXCEPT !.stop = "done"]
    [] OTHER -> Returned(f.id[1], a, f.st, f.arg)

\* A read loop that drops a frame rather than wait for room.
ReadFrameDropping(c) ==
  /\ down[c] # <<>> /\ ~conn[c].failed
  /\ LET f == Head(down[c])
         p == f.id[1]
     IN  IF f.id \in pend[c] /\ ~Blocked(c)
         THEN /\ app' = [app EXCEPT ![p] = Delivered(@, f)]
              /\ pend' = [pend EXCEPT ![c] =
                            IF IsStream(f.id) /\ f.st # "end" THEN @ ELSE @ \ {f.id}]
         ELSE UNCHANGED <<app, pend>>
  /\ down' = [down EXCEPT ![c] = Tail(@)]
  /\ UNCHANGED <<conn, work, server, crew, faults>>

ReadFrame(c) ==
  /\ down[c] # <<>> /\ ~conn[c].failed /\ ~Blocked(c)
  /\ LET f == Head(down[c])
         p == f.id[1]
     IN  IF f.id \in pend[c]
         THEN /\ app' = [app EXCEPT ![p] = Delivered(@, f)]
              /\ pend' = [pend EXCEPT ![c] =
                            IF IsStream(f.id) /\ f.st # "end" THEN @ ELSE @ \ {f.id}]
         ELSE UNCHANGED <<app, pend>>
  /\ down' = [down EXCEPT ![c] = Tail(@)]
  /\ UNCHANGED <<conn, work, server, crew, faults>>

\* The read loop's ReadMsg fails (the loop must be back at ReadMsg): every pending call's channel
\* is closed.  What the transport still held is lost.
FailAll(c) ==
  /\ conn[c].at = "broken" /\ ~conn[c].failed /\ ~Blocked(c)
  /\ conn' = [conn EXCEPT ![c].failed = TRUE]
  /\ app' = [p \in Callers |->
       LET mine == {id \in pend[c] : id[1] = p}
       IN  IF mine = {} THEN app[p]
           ELSE IF p \notin Streams THEN Closed(p, app[p])
           ELSE [app[p] EXCEPT !.closed = @ \/ \E id \in mine : IsStream(id),
                               !.stop = IF \E id \in mine : ~IsStream(id) THEN "done" ELSE @]]
  /\ pend' = [pend EXCEPT ![c] = {}]
  /\ down' = [down EXCEPT ![c] = <<>>]
  /\ UNCHANGED <<work, server, crew, faults>>

-----------------------------------------------------------------------------
(* The server: ServeConnOpts, dispatch, handle. *)

\* sc.write: under the connection's lock, blocking while the transport is full; an error is ignored.
CanWrite(c) == conn[c].at = "broken" \/ Len(down[c]) < NetBuf
Out(h, st, arg) ==
  IF conn[h.c].at = "broken" THEN down
  ELSE [down EXCEPT ![h.c] = Append(@, [id |-> Id(h), st |-> st, arg |-> arg])]

\* The goroutine of h writes its answer and ends; or goes on to state g.
Answer(h, st, arg) ==
  /\ CanWrite(h.c)
  /\ down' = Out(h, st, arg)
  /\ work' = work \ {h}
Goto(h, g) == work' = (work \ {h}) \cup {g} /\ UNCHANGED down

\* take: LoadAndDelete decides who ends the transaction; removeTxn forgets it on its connection.
Take(t) == live' = live \ {t}
RemoveTxn(c, t) == conn' = [conn EXCEPT ![c].txns = @ \ {t}]

Over == [p |-> None, snap |-> <<>>, buf |-> <<>>]
Unread == [s \in Shards |-> -1]

\* case opBegin: the id is registered with the server and with the connection, open or not.
OpBegin(h) ==
  /\ h.at = "run" /\ h.op = "begin"
  /\ LET t == Len(txn) + 1
     IN  /\ txn' = Append(txn, [p |-> h.p, snap |-> Unread, buf |-> <<>>])
         /\ live' = live \cup {t}
         /\ conn' = [conn EXCEPT ![h.c].txns = @ \cup {t}]
         /\ Answer(h, "ok", t)
  /\ UNCHANGED <<client, store, clock, disk, aborted, crew, faults>>

\* withTxn that forgets to answer for an unknown transaction.
LoadSilent(h) ==
  /\ h.at = "run" /\ h.op = "set"
  /\ IF h.t \in live THEN Goto(h, [h EXCEPT !.at = "held"])
     ELSE work' = work \ {h} /\ UNCHANGED down
  /\ UNCHANGED <<conn, client, server, crew, faults>>

\* withTxn, up to the lock: the transaction is looked up ...
Load(h) ==
  /\ h.at = "run" /\ h.op = "set"
  /\ IF h.t \in live THEN Goto(h, [h EXCEPT !.at = "held"])
     ELSE Answer(h, "err", None)
  /\ UNCHANGED <<conn, client, server, crew, faults>>

\* A transaction's snapshot of a shard is taken when it first touches it (collections.Txn.snapOf).
SnapOf(x, s) == IF x.snap[s] = -1 THEN [x EXCEPT !.snap[s] = clock[s]] ELSE x

\* A buffered write of v to k replaces an earlier one (collections.Txn.Put).
Buffered(b, k, v) == [j \in DOMAIN b \cup {k} |-> IF j = k THEN v ELSE b[j]]
Put(x, k, v) == [SnapOf(x, ShardOf[k]) EXCEPT !.buf = Buffered(@, k, v)]

\* ... and the write runs on what was found: read the record, buffer it with the unit's change.
OpSetAttr(h) ==
  /\ h.at = "held"
  /\ txn' = IF txn[h.t] = Over THEN txn
            ELSE [txn EXCEPT ![h.t] =
                    Put(@, Data, Append(store[Data].val, [p |-> h.p, t |-> h.t]))]
  /\ Answer(h, "ok", None)
  /\ UNCHANGED <<conn, client, live, store, clock, disk, aborted, crew, faults>>

\* A commit that looks its transaction up and leaves it in the map.
LookToCommit(h) ==
  /\ h.at = "run" /\ h.op \in {"commit", "idem"}
  /\ IF h.t \in live
     THEN Goto(h, [h EXCEPT !.at = IF h.op = "idem" THEN "check" ELSE "apply",
                            !.left = {ShardOf[k] : k \in DOMAIN txn[h.t].buf}])
     ELSE Answer(h, "err", None)
  /\ UNCHANGED <<conn, live, client, txn, store, clock, disk, aborted, crew, faults>>

\* cases opCommit and opCommitIdem, up to the commit itself.
TakeToCommit(h) ==
  /\ h.at = "run" /\ h.op \in {"commit", "idem"}
  /\ IF h.t \in live
     THEN /\ Take(h.t) /\ RemoveTxn(h.c, h.t)
          /\ Goto(h, [h EXCEPT !.at = IF h.op = "idem" THEN "check" ELSE "apply",
                               !.left = {ShardOf[k] : k \in DOMAIN txn[h.t].buf}])
     ELSE Answer(h, "err", None) /\ UNCHANGED <<live, conn>>
  /\ UNCHANGED <<client, txn, store, clock, disk, aborted, crew, faults>>

\* A replay left to the conflict on the marker's key alone.
CheckNoMarker(h) ==
  /\ h.at = "check"
  /\ Goto(h, [h EXCEPT !.at = "mark"])
  /\ UNCHANGED <<conn, client, server, crew, faults>>

\* opCommitIdem: a marker that is there answers for the unit, whose writes are dropped.
CheckMarker(h) ==
  /\ h.at = "check"
  /\ IF store[h.p].val = Marker
     THEN /\ Answer(h, "ok", None)
          /\ txn' = [txn EXCEPT ![h.t] = Over]
          /\ aborted' = aborted \cup {h.t}
     ELSE Goto(h, [h EXCEPT !.at = "mark"]) /\ UNCHANGED <<txn, aborted>>
  /\ UNCHANGED <<conn, client, live, store, clock, disk, crew, faults>>

\* opCommitIdem: the marker joins the transaction.
WriteMarker(h) ==
  /\ h.at = "mark"
  /\ txn' = [txn EXCEPT ![h.t] = Put(@, h.p, Marker)]
  /\ Goto(h, [h EXCEPT !.at = "apply", !.left = @ \cup {ShardOf[h.p]}])
  /\ UNCHANGED <<conn, client, live, store, clock, disk, aborted, crew, faults>>

\* collections.Txn.Commit in one shard: every write whose record did not change since the
\* snapshot is applied, the others are conflicts.
ApplyShard(h, s) ==
  /\ h.at = "apply" /\ s \in h.left
  /\ LET x == txn[h.t]
         mine == {k \in DOMAIN x.buf : ShardOf[k] = s}
         lost == {k \in mine : store[k].seq > x.snap[s]}
     IN  /\ store' = [k \in Keys |-> IF k \in mine \ lost
                                     THEN [val |-> x.buf[k], seq |-> clock[s] + 1] ELSE store[k]]
         /\ clock' = [clock EXCEPT ![s] = IF mine = lost THEN @ ELSE @ + 1]
         /\ Goto(h, [h EXCEPT !.left = @ \ {s}, !.lost = @ \cup lost,
                               !.wrote = IF mine = lost THEN @ ELSE @ \cup {s}])
  /\ UNCHANGED <<conn, client, live, txn, disk, aborted, crew, faults>>

\* A commit that answers before it has synced.
CommitUnsynced(h) ==
  /\ h.at = "apply" /\ h.left = {}
  /\ Answer(h, IF h.lost = {} \/ (h.op = "idem" /\ h.p \in h.lost) THEN "ok" ELSE "conflict", None)
  /\ txn' = [txn EXCEPT ![h.t] = Over]
  /\ UNCHANGED <<conn, client, live, store, clock, disk, aborted, crew, faults>>

\* The commit has synced the shards it changed and answers; a conflict on its own marker is success.
CommitDone(h) ==
  /\ h.at = "apply" /\ h.left = {}
  /\ Answer(h, IF h.lost = {} \/ (h.op = "idem" /\ h.p \in h.lost) THEN "ok" ELSE "conflict", None)
  /\ disk' = [k \in Keys |-> IF ShardOf[k] \in h.wrote THEN store[k] ELSE disk[k]]
  /\ txn' = [txn EXCEPT ![h.t] = Over]
  /\ UNCHANGED <<conn, client, live, store, clock, aborted, crew, faults>>

\* case opAbort.
OpAbort(h) ==
  /\ h.at = "run" /\ h.op = "abort"
  /\ Answer(h, "ok", None)
  /\ IF h.t \in live
     THEN /\ Take(h.t) /\ RemoveTxn(h.c, h.t)
          /\ txn' = [txn EXCEPT ![h.t] = Over]
          /\ aborted' = aborted \cup {h.t}
     ELSE UNCHANGED <<live, conn, txn, aborted>>
  /\ UNCHANGED <<client, store, clock, disk, crew, faults>>

\* streamQuery: a frame per row, given up silently when the connection has ended, then the end.
StreamRow(h) ==
  /\ h.at = "run" /\ h.op = "query" /\ conn[h.c].serving /\ h.rows < Rows
  /\ CanWrite(h.c)
  /\ down' = Out(h, "row", None)
  /\ work' = (work \ {h}) \cup {[h EXCEPT !.rows = @ + 1]}
  /\ UNCHANGED <<conn, client, server, crew, faults>>

StreamDone(h) ==
  /\ h.at = "run" /\ h.op = "query"
  /\ \/ h.rows = Rows /\ Answer(h, "end", None)
     \/ h.rows < Rows /\ ~conn[h.c].serving /\ work' = work \ {h} /\ UNCHANGED down
  /\ UNCHANGED <<conn, client, server, crew, faults>>

\* streamWatch: the request registers its cancel function, then sends every event until cancelled.
WatchStart(h) ==
  /\ h.at = "run" /\ h.op = "watch"
  /\ conn' = [conn EXCEPT ![h.c].watches = @ \cup {Id(h)}]
  /\ Goto(h, [h EXCEPT !.at = "on"])
  /\ UNCHANGED <<client, server, crew, faults>>

WatchSend(h) ==
  /\ h.at = "on" /\ h.rows < Events /\ conn[h.c].serving
  /\ CanWrite(h.c)
  /\ down' = Out(h, "row", None)
  /\ work' = (work \ {h}) \cup {[h EXCEPT !.rows = @ + 1]}
  /\ UNCHANGED <<conn, client, server, crew, faults>>

WatchDone(h) ==
  /\ \/ h.at = "off"
     \/ h.at = "on" /\ ~conn[h.c].serving
  /\ Answer(h, "end", None)
  /\ conn' = [conn EXCEPT ![h.c].watches = @ \ {Id(h)}]
  /\ UNCHANGED <<client, server, crew, faults>>

\* case opWatchStop: the watch is cancelled if it has registered; the answer says OK either way.
StopWatch(h) ==
  /\ h.at = "run" /\ h.op = "stop" /\ CanWrite(h.c)
  /\ down' = Out(h, "ok", None)
  /\ work' = {IF g.p = h.p /\ g.op = "watch" /\ Id(g) \in conn[h.c].watches
              THEN [g EXCEPT !.at = "off"] ELSE g : g \in work \ {h}}
  /\ UNCHANGED <<conn, client, server, crew, faults>>

\* ServeConnOpts returns: abortTxns ends what the connection has open.  Frames it has not read are lost; a goroutine it started for one goes on.
ServeEnds(c) ==
  /\ conn[c].at = "broken" /\ conn[c].serving
  /\ LET mine == conn[c].txns \cap live
     IN  /\ live' = live \ mine
         /\ aborted' = aborted \cup mine
         /\ txn' = [t \in DOMAIN txn |-> IF t \in mine THEN Over ELSE txn[t]]
  /\ conn' = [conn EXCEPT ![c].serving = FALSE, ![c].txns = {}]
  /\ \E unread \in SUBSET {h \in work : h.c = c /\ h.at = "run" /\ h.rows = 0} : work' = work \ unread
  /\ UNCHANGED <<client, down, store, clock, disk, crew, faults>>

\* reapIdleTxns: an open transaction may have been idle for long enough at any time.
ReapIdleTxn(t) ==
  /\ t \in live
  /\ Take(t)
  /\ conn' = [c \in Conns |-> [conn[c] EXCEPT !.txns = @ \ {t}]]
  /\ txn' = [txn EXCEPT ![t] = Over]
  /\ aborted' = aborted \cup {t}
  /\ UNCHANGED <<client, down, work, store, clock, disk, crew, faults>>

\* reapIdemMarkers, with a retention longer than a unit's retries, as StartIdemReaper asks.
ReapMarker(p) ==
  /\ p \in crew \cap Units /\ store[p].val = Marker
  /\ app[p].at = "done" /\ \A h \in work : h.p # p
  /\ LET s == ShardOf[p]
         gone == [store EXCEPT ![p] = [val |-> Absent, seq |-> clock[s] + 1]]
     IN  /\ store' = gone
         /\ clock' = [clock EXCEPT ![s] = @ + 1]
         /\ disk' = [k \in Keys |-> IF ShardOf[k] = s THEN gone[k] ELSE disk[k]]
  /\ UNCHANGED <<conn, client, down, work, live, txn, aborted, crew, faults>>

\* A writer in the server's process changes the record and commits, synced.
LocalWrite(p) ==
  /\ p \in crew \cap Locals /\ app[p].at = "dial"
  /\ LET s == ShardOf[Data]
         new == [store EXCEPT ![Data] = [val |-> Append(@.val, [p |-> p, t |-> None]), seq |-> clock[s] + 1]]
     IN  /\ store' = new
         /\ clock' = [clock EXCEPT ![s] = @ + 1]
         /\ disk' = [k \in Keys |-> IF ShardOf[k] = s THEN new[k] ELSE disk[k]]
  /\ app' = [app EXCEPT ![p].at = "done", ![p].res = "ok"]
  /\ UNCHANGED <<conn, pend, down, work, live, txn, aborted, crew, faults>>

-----------------------------------------------------------------------------
(* What goes wrong. *)

\* A transport fails; each end finds out when it next reads.
Break(c) ==
  /\ conn[c].at = "up" /\ faults < MaxFaults[crew]
  /\ conn' = [conn EXCEPT ![c].at = "broken"]
  /\ faults' = faults + 1
  /\ UNCHANGED <<client, down, work, server, crew>>

\* The server dies and is started again: open transactions are gone, and of each shard's commits
\* that no one synced, all or none.
Crash ==
  /\ faults < MaxFaults[crew]
  /\ \E kept \in SUBSET Shards :
       LET left == [k \in Keys |-> IF ShardOf[k] \in kept THEN store[k] ELSE disk[k]]
       IN  store' = left /\ disk' = left
  /\ faults' = faults + 1
  /\ conn' = [c \in Conns |-> IF conn[c].at = "new" THEN conn[c]
                              ELSE [conn[c] EXCEPT !.at = "broken", !.serving = FALSE,
                                                   !.txns = {}, !.watches = {}]]
  /\ live' = {}
  /\ txn' = [t \in DOMAIN txn |-> Over]
  /\ work' = {}
  /\ UNCHANGED <<client, down, clock, aborted, crew>>

-----------------------------------------------------------------------------

Init ==
  /\ conn = [c \in Conns |-> [at |-> "new", serving |-> TRUE, failed |-> FALSE,
                              txns |-> {}, watches |-> {}]]
  /\ pend = [c \in Conns |-> {}] /\ down = [c \in Conns |-> <<>>]
  /\ work = {} /\ live = {} /\ txn = <<>>
  /\ store = [k \in Keys |-> [val |-> IF k = Data THEN <<>> ELSE Absent, seq |-> 0]]
  /\ clock = [s \in Shards |-> 0] /\ disk = store
  /\ app = [p \in Callers |-> Idle] /\ crew \in Crews
  /\ aborted = {} /\ faults = 0

CallerStep(p) == Call(p) \/ Stream(p) \/ Consume(p) \/ Forward(p) \/ Stopped(p)
CallerChoice(p) ==
  \/ \E c \in Conns : Dial(p, c)
  \/ Abort(p) \/ CancelCall(p) \/ Drain(p)
  \/ TakeEvent(p) \/ UserStop(p) \/ CancelWatch(p)

ServerStep(h) ==
  \/ OpBegin(h) \/ Load(h) \/ OpSetAttr(h)
  \/ TakeToCommit(h) \/ CheckMarker(h) \/ WriteMarker(h)
  \/ \E s \in Shards : ApplyShard(h, s)
  \/ CommitDone(h) \/ OpAbort(h)
  \/ StreamRow(h) \/ StreamDone(h) \/ WatchStart(h) \/ WatchSend(h) \/ WatchDone(h) \/ StopWatch(h)

Serving(p) == \E h \in {g \in work : g.p = p} : ServerStep(h)
Reaping == \E t \in live : ReapIdleTxn(t)
Ends(c) == ReadFrame(c) \/ FailAll(c) \/ ServeEnds(c)

Next ==
  \/ \E p \in Callers : CallerStep(p) \/ CallerChoice(p) \/ Serving(p) \/ ReapMarker(p) \/ LocalWrite(p)
  \/ \E c \in Conns : Ends(c) \/ Break(c)
  \/ Reaping
  \/ Crash

\* The goroutines run, each end of a connection that has failed finds out, and the reaper ticks.
Fairness ==
  /\ \A p \in Callers : WF_vars(CallerStep(p)) /\ WF_vars(Serving(p))
  /\ \A c \in Conns : WF_vars(Ends(c))
  /\ WF_vars(Reaping)

Spec == Init /\ [][Next]_vars /\ Fairness

-----------------------------------------------------------------------------
(* Properties. *)

Landed(p) == {i \in DOMAIN store[Data].val : store[Data].val[i].p = p}

\* CommitIdempotent: "replaying the SAME unit of work ... applies it at most once" -- whatever
\* connection breaks, reply is lost or server dies between an attempt and its replay, where one
\* shard holds the marker and the data.
AppliedOnce ==
  \A p \in Units : ShardOf[p] = ShardOf[Data] => \A i, j \in Landed(p) : i = j

\* A commit reported as done at the caller's first attempt is in the table, though the server dies
\* right after and another writer commits to the same record.
AckedLanded ==
  \A p \in Callers \ Streams : app[p].res = "ok" /\ app[p].tries <= 1 => Landed(p) # {}

\* take() lets "exactly one side" end a transaction: what a disconnect, the idle reaper or an abort
\* gave up never shows in the table, and no change is lost to a later writer either.
AbortedInvisible ==
  \A i \in DOMAIN store[Data].val : store[Data].val[i].t \notin aborted

\* A stream that ends without an error on a connection that did not fail has every row.
StreamExact ==
  \A p \in Callers :
    Kind[p] = "query" /\ app[p].res = "ok" /\ conn[app[p].conn].at = "up" => app[p].got = Rows

\* "the marker lands iff the data lands" (idempotency.go): a unit whose marker is in the store
\* has its write there too.
MarkerMeansData ==
  \A p \in Units : store[p].val = Marker => Landed(p) # {}

\* Every call returns and every stream of rows ends, unless a change feed that nobody reads holds
\* the read loop; and no transaction stays open, not even one that opBegin registers after its
\* connection has ended (the idle reaper runs).
AllSettles ==
  <>[](/\ live = {}
       /\ \A p \in Callers : app[p].at \in {"wait", "read"} /\ Kind[p] # "watch" => Blocked(app[p].conn))
=============================================================================
