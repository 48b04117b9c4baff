------------------------------ MODULE RpcProof ------------------------------
(***************************************************************************)
(* Proofs about Rpc: a unit of work is applied at most once, and what was  *)
(* given up never shows.  Both rest on one inductive invariant.  Its client *)
(* half says who may still use a transaction's id: it is in one frame, one *)
(* request or one idle caller, never in two of them.  Its server half says *)
(* what a transaction that is being committed still has to find unchanged. *)
(***************************************************************************)
EXTENDS Rpc, TLAPS

-----------------------------------------------------------------------------
(* Types. *)

\* Callers that wait for one answer at a time.
Unary == Callers \ Streams

AppFields == {"at", "conn", "n", "tries", "op", "txn", "ch", "closed", "drain",
              "got", "stop", "res"}
IsApp(a) ==
  /\ a = [f \in AppFields |-> a[f]]
  /\ a.conn \in Nat /\ a.n \in Nat /\ a.txn \in Nat /\ a.tries \in Nat

OpCodes == {"begin", "set", "commit", "idem", "abort", "query", "watch", "stop"}
Places == {"run", "held", "check", "mark", "apply", "on", "off"}
Requests == [p : Callers, n : Nat, c : Nat, op : OpCodes, t : Nat, at : Places,
             left : SUBSET Shards, lost : SUBSET Keys, wrote : SUBSET Shards, rows : Nat]
Frames == [id : Callers \X Nat, st : {"ok", "err", "conflict", "row", "end"}, arg : Nat]

Changes == [p : Callers, t : Nat]
Values == Seq(Changes) \cup {Absent, Marker}
Cells == [val : Values, seq : Nat]
Tables == {m \in [Keys -> Cells] : m[Data].val \in Seq(Changes)}

Bufs == UNION {[D -> Values] : D \in SUBSET Keys}
OpenTxns == [p : Callers, snap : [Shards -> Nat \cup {-1}], buf : Bufs]

ClientType ==
  /\ app = [p \in Callers |-> app[p]]
  /\ \A p \in Callers : IsApp(app[p])
  /\ pend \in [Conns -> SUBSET (Callers \X Nat)]
  /\ down \in [Conns -> Seq(Frames)]
  /\ work \subseteq Requests

ServerType ==
  /\ txn \in Seq(OpenTxns \cup {Over})
  /\ live \subseteq DOMAIN txn
  /\ aborted \subseteq DOMAIN txn
  /\ store \in Tables
  /\ disk \in Tables
  /\ clock \in [Shards -> Nat]

-----------------------------------------------------------------------------
(* The client half. *)

\* A registered call is the one its caller waits for (sendIDTimed, callCtx).
CallsAwaited ==
  \A c \in Conns : \A id \in pend[c] : id[1] \in Unary =>
    app[id[1]].at = "wait" /\ app[id[1]].n = id[2] /\ app[id[1]].conn = c

\* A caller numbers its requests, and each is answered once.
NumbersUsed ==
  /\ \A h \in work : h.p \in Unary => h.n <= app[h.p].n
  /\ \A h, g \in work : h.p \in Unary /\ h.p = g.p /\ h.n = g.n => h = g
  /\ \A c \in Conns : \A i \in DOMAIN down[c] :
       LET f == down[c][i] IN f.id[1] \in Unary =>
         f.id[2] <= app[f.id[1]].n /\ \A h \in work : Id(h) # f.id

\* The id of a transaction under way to its caller is known to no one else.
IdsUnderWay ==
  \A c \in Conns : \A i \in DOMAIN down[c] :
    LET t == down[c][i].arg IN t # None =>
      /\ t \in DOMAIN txn
      /\ \A h \in work : h.t # t
      /\ \A q \in Callers : app[q].txn # t
      /\ \A d \in Conns : \A j \in DOMAIN down[d] : down[d][j].arg = t => d = c /\ j = i

\* A transaction is named by one request at a time, its caller's latest.
IdsExclusive ==
  /\ \A h \in work : h.t # None => h.t \in DOMAIN txn /\ h.p \in Unary
  /\ \A h, g \in work : h.t # None /\ h.t = g.t => h = g
  /\ \A p \in Callers : app[p].txn # None => app[p].txn \in DOMAIN txn /\ p \in Unary
  /\ \A p, q \in Callers : app[p].txn # None /\ app[p].txn = app[q].txn => p = q
  /\ \A h \in work : \A q \in Callers : h.t # None /\ h.t = app[q].txn =>
       /\ h.p = q
       /\ app[q].at \notin {"dial", "begin", "set", "end"}
       /\ app[q].at = "wait" => h.n = app[q].n

\* A transaction is only ever named by the caller that began it.
Owns(p, t) == txn[t] = Over \/ txn[t].p = p
Ownership ==
  /\ \A h \in work : h.t # None => Owns(h.p, h.t)
  /\ \A p \in Callers : app[p].txn # None => Owns(p, app[p].txn)
  /\ \A c \in Conns : \A i \in DOMAIN down[c] :
       down[c][i].arg # None => Owns(down[c][i].id[1], down[c][i].arg)

ClientInv == CallsAwaited /\ NumbersUsed /\ IdsUnderWay /\ IdsExclusive /\ Ownership

-----------------------------------------------------------------------------
(* The server half. *)

Home == ShardOf[Data]
Committing == {h \in work : h.at \in {"check", "mark", "apply"}}

\* A request of callStream, or for its feed, is of a caller that reads a stream.
OfStream(h) == h.op \in {"query", "watch", "stop"} \/ h.at \in {"on", "off"}

\* take: who commits a transaction has it alone, open; no other request can end it.
Holders ==
  /\ \A h \in work : OfStream(h) => h.p \notin Unary
  /\ \A h \in work : h.at = "held" => h.t # None
  /\ \A h \in Committing : h.t \in DOMAIN txn \ (live \cup aborted) /\ txn[h.t] # Over
  /\ \A h \in Committing : h.op \in {"commit", "idem"}
  /\ \A h \in work : h.at \in {"check", "mark"} => h.op = "idem"
  /\ \A h \in work : h.op = "idem" => h.p \in Units
  /\ \A h \in work : h.p \in Units => h.op # "commit"
  /\ live \cap aborted = {}
  /\ \A t \in live : txn[t] # Over

\* What a transaction has buffered: markers, and a data record it read at its snapshot.
BuffersSound ==
  \A t \in DOMAIN txn : txn[t] # Over =>
    /\ \A s \in Shards : txn[t].snap[s] <= clock[s]
    /\ \A k \in DOMAIN txn[t].buf \ {Data} : txn[t].buf[k] = Marker
    /\ Data \in DOMAIN txn[t].buf => txn[t].snap[Home] >= 0
    /\ Data \in DOMAIN txn[t].buf /\ store[Data].seq <= txn[t].snap[Home] =>
         txn[t].buf[Data] = Append(store[Data].val, [p |-> txn[t].p, t |-> t])

\* The changes of p in a table m, and a caller that will send nothing more.
LandedIn(m, p) == {i \in DOMAIN m[Data].val : m[Data].val[i].p = p}
Finished(p) == app[p].at = "done" /\ \A h \in work : h.p # p

\* In a table, a unit's change is there at most once, and its marker with it until the unit is over.
MarkedOnce(m) ==
  \A p \in Units : ShardOf[p] = Home =>
    /\ \A i, j \in LandedIn(m, p) : i = j
    /\ LandedIn(m, p) # {} \/ m[p].seq > 0 => m[p].val = Marker \/ Finished(p)

\* A commit that has passed the marker check and not yet applied its writes will
\* find the data changed if an earlier attempt of its unit has landed since.
ReplaysConflict ==
  \A h \in work : h.at \in {"mark", "apply"} /\ h.op = "idem" /\ ShardOf[h.p] = Home =>
    /\ h.at = "apply" /\ Home \in h.left => h.p \in DOMAIN txn[h.t].buf
    /\ /\ LandedIn(store, h.p) # {} /\ Data \in DOMAIN txn[h.t].buf
       /\ h.at = "mark" \/ Home \in h.left
       => store[Data].seq > txn[h.t].snap[Home]

\* A change in a table is of a transaction that nothing can still give up.
Kept(t) ==
  /\ t \in DOMAIN txn \cup {None}
  /\ t \notin live \cup aborted
  /\ \A h \in work : h.at = "check" => h.t # t
ChangesKept(m) == \A i \in DOMAIN m[Data].val : Kept(m[Data].val[i].t)

ServerInv ==
  /\ Holders
  /\ BuffersSound
  /\ MarkedOnce(store) /\ MarkedOnce(disk)
  /\ ReplaysConflict
  /\ ChangesKept(store) /\ ChangesKept(disk)

RpcInv == ClientType /\ ServerType /\ ClientInv /\ ServerInv

-----------------------------------------------------------------------------
(* Facts about the constants, records and buffers. *)

\* The keys are the data record and the units, which wait for one answer at a
\* time; an open transaction has a snapshot of the data record's shard.
LEMMA Constants ==
  /\ Data \in Keys /\ Data \notin Units /\ Data \notin Callers
  /\ Units \subseteq Keys /\ Units \subseteq Unary /\ Units \subseteq Callers
  /\ Keys = Units \cup {Data}
  /\ Home \in Shards /\ \A k \in Keys : ShardOf[k] \in Shards
  /\ Over \notin OpenTxns
<1>1. Data \in Keys /\ Units \subseteq Keys /\ Keys = Units \cup {Data}
  BY Zenon, RpcConstants DEF Keys, Units
<1>2. Data \notin Units /\ Data \notin Callers /\ Units \subseteq Callers
  BY Zenon, RpcConstants DEF Units
<1>3. Units \subseteq Unary
  BY Zenon DEF Units, Unary, Streams
<1>4. Home \in Shards /\ \A k \in Keys : ShardOf[k] \in Shards
  BY Zenon, <1>1 DEF Home, Shards
<1>5. Over \notin OpenTxns
  <2> SUFFICES ASSUME Over \in OpenTxns PROVE FALSE
    OBVIOUS
  <2>1. Over.snap \in [Shards -> Nat \cup {-1}]
    BY Zenon DEF OpenTxns
  <2>2. DOMAIN Over.snap = Shards
    BY Zenon, <2>1
  <2>3. Over.snap = <<>>
    BY Zenon DEF Over
  <2>4. DOMAIN Over.snap = {}
    BY <2>3
  <2> QED
    BY Zenon, <2>2, <2>4, <1>4
<1> QED
  BY Zenon, <1>1, <1>2, <1>3, <1>4, <1>5

\* An id is never None, and what is registered under it is over or a transaction
\* with a snapshot per shard.
LEMMA TxnFacts ==
  ASSUME ServerType
  PROVE  /\ None \notin DOMAIN txn
         /\ \A t \in DOMAIN txn : txn[t] # Over =>
              /\ txn[t] \in OpenTxns /\ txn[t].buf \in Bufs /\ txn[t].snap \in [Shards -> Nat \cup {-1}]
              /\ \A r \in Shards : txn[t].snap[r] \in Int
<1>1. txn \in Seq(OpenTxns \cup {Over})
  BY Zenon DEF ServerType
<1>2. None \notin DOMAIN txn /\ \A t \in DOMAIN txn : txn[t] \in OpenTxns \cup {Over}
  BY <1>1 DEF None
<1>3. \A x \in OpenTxns : /\ x.buf \in Bufs /\ x.snap \in [Shards -> Nat \cup {-1}]
                          /\ \A r \in Shards : x.snap[r] \in Int
  BY DEF OpenTxns
<1> QED
  BY Zenon, <1>2, <1>3

\* take: whoever commits a transaction holds it, and no one can end it meanwhile.
LEMMA HolderFacts ==
  ASSUME ClientType, ServerType, ServerInv, NEW h \in Committing
  PROVE  /\ h \in Requests /\ h.t \in DOMAIN txn \ (live \cup aborted) /\ txn[h.t] # Over /\ h.t # None
         /\ h.op \in {"commit", "idem"} /\ (h.at \in {"check", "mark"} => h.op = "idem")
         /\ (h.op = "idem" => h.p \in Units) /\ (h.p \in Units => h.op = "idem")
<1>1. h \in work /\ Holders
  BY Zenon DEF Committing, ServerInv
<1>2. h \in Requests
  BY Zenon, <1>1 DEF ClientType
<1>3. h.t \in DOMAIN txn \ (live \cup aborted) /\ txn[h.t] # Over
  BY Zenon, <1>1 DEF Holders
<1>4. h.t # None
  BY Zenon, <1>3, TxnFacts
<1>5. /\ h.op \in {"commit", "idem"} /\ (h.at \in {"check", "mark"} => h.op = "idem")
      /\ (h.op = "idem" => h.p \in Units) /\ (h.p \in Units => h.op # "commit")
  BY Zenon, <1>1 DEF Holders
<1> QED
  BY Zenon, <1>2, <1>3, <1>4, <1>5

\* Tables that stay as they are stay marked: a unit that is over remains so.
LEMMA MarkersKept ==
  ASSUME MarkedOnce(store), MarkedOnce(disk), store' = store, disk' = disk,
         \A p \in Units : Finished(p) => Finished(p)'
  PROVE  MarkedOnce(store)' /\ MarkedOnce(disk)'
<1>1. MarkedOnce(store)'
  BY ZenonT(40) DEF MarkedOnce, LandedIn
<1>2. MarkedOnce(disk)'
  BY ZenonT(40) DEF MarkedOnce, LandedIn
<1> QED
  BY Zenon, <1>1, <1>2

\* What changes nothing the client half speaks of keeps that half.
LEMMA ClientIdles ==
  ASSUME ClientType, ClientInv, UNCHANGED <<pend, app, down, work, txn>>
  PROVE  ClientType' /\ ClientInv'
<1>1. ClientType'
  BY Zenon DEF ClientType
<1>2. CallsAwaited'
  BY Zenon DEF ClientInv, CallsAwaited
<1>3. NumbersUsed'
  BY Zenon DEF ClientInv, NumbersUsed
<1>4. IdsUnderWay'
  BY SMTT(30) DEF ClientInv, IdsUnderWay
<1>5. IdsExclusive'
  BY Zenon DEF ClientInv, IdsExclusive
<1>6. Ownership'
  BY Zenon DEF ClientInv, Ownership, Owns
<1> QED
  BY Zenon, <1>1, <1>2, <1>3, <1>4, <1>5, <1>6 DEF ClientInv

\* A buffered write is there, and leaves the buffer's other writes alone.
LEMMA BufferedWrites ==
  ASSUME NEW b \in Bufs, NEW k \in Keys, NEW v \in Values
  PROVE  /\ Buffered(b, k, v) \in Bufs
         /\ DOMAIN Buffered(b, k, v) = DOMAIN b \cup {k}
         /\ Buffered(b, k, v)[k] = v
         /\ \A j \in DOMAIN b : j # k => Buffered(b, k, v)[j] = b[j]
         /\ DOMAIN b \subseteq Keys
         /\ \A j \in DOMAIN b : b[j] \in Values
<1>1. PICK D \in SUBSET Keys : b \in [D -> Values]
  BY Zenon DEF Bufs
<1>2. Buffered(b, k, v) \in [D \cup {k} -> Values]
  BY Zenon, <1>1 DEF Buffered
<1>3. D \cup {k} \in SUBSET Keys
  OBVIOUS
<1>4. Buffered(b, k, v) \in Bufs
  BY Zenon, <1>2, <1>3 DEF Bufs
<1> QED
  BY Zenon, <1>1, <1>4 DEF Buffered

-----------------------------------------------------------------------------
(* How a step may change the client half. *)

\* The read loop takes a connection's first frame, or its frames are lost, or
\* the server appends frame f to those of connection d.
FramesMove(d, f) ==
  \A c \in Conns :
    \/ down'[c] = down[c]
    \/ down[c] # <<>> /\ down'[c] = Tail(down[c])
    \/ down'[c] = <<>>
    \/ c = d /\ down'[c] = Append(down[c], f)

\* An appended frame answers a request that is gone; the id it may carry is new.
FrameFits(f) ==
  /\ f \in Frames
  /\ f.id[1] \in Unary => f.id[2] <= app'[f.id[1]].n /\ \A h \in work' : Id(h) # f.id
  /\ f.arg # None => f.arg \in DOMAIN txn' \ DOMAIN txn /\ Owns(f.id[1], f.arg)'

\* Requests go on or end.
RequestsMove ==
  /\ \A g \in work' : g.p \in Unary => \E h \in work : h.p = g.p /\ h.n = g.n /\ h.t = g.t
  /\ \A h, g \in work' : h.p \in Unary /\ h.p = g.p /\ h.n = g.n => h = g
  /\ \A g \in work' : g.t # None => g.p \in Unary

\* Transactions keep their owners.
TxnsMove ==
  /\ DOMAIN txn \subseteq DOMAIN txn'
  /\ \A t \in DOMAIN txn : \A q \in Callers : Owns(q, t) => Owns(q, t)'

\* A caller whose call is no longer registered forgets its transaction, or
\* keeps it and does not go on while a request names it, or is told a new one.
CallerMoves(q) ==
  \/ app'[q] = app[q]
  \/ /\ q \in Unary => app'[q].at # "wait" /\ \A c \in Conns : \A id \in pend'[c] : id[1] # q
     /\ \/ app'[q].txn = None
        \/ /\ app'[q].txn = app[q].txn
           /\ \/ app'[q].at \notin {"dial", "begin", "set", "end"}
              \/ \A h \in work : h.t # app[q].txn

CallerTold(q) ==
  /\ q \in Unary
  /\ app'[q].at # "wait"
  /\ \A c \in Conns : \A id \in pend'[c] : id[1] # q
  /\ app'[q].txn \in DOMAIN txn /\ Owns(q, app'[q].txn)
  /\ \A h \in work : h.t # app'[q].txn
  /\ \A r \in Callers : app[r].txn # app'[q].txn
  /\ \A c \in Conns : \A i \in DOMAIN down'[c] : down'[c][i].arg # app'[q].txn

\* The frames of a step are old ones, in order, and the one appended.
LEMMA FramesOf ==
  ASSUME ClientType, ClientType', NEW d, NEW f, FramesMove(d, f)
  PROVE  \E sh \in [Conns -> {0, 1}] : \A c \in Conns : \A i \in DOMAIN down'[c] :
           \/ i + sh[c] \in DOMAIN down[c] /\ down'[c][i] = down[c][i + sh[c]]
           \/ c = d /\ i = Len(down[c]) + 1 /\ down'[c][i] = f
<1> DEFINE sh == [c \in Conns |-> IF down[c] # <<>> /\ down'[c] = Tail(down[c]) THEN 1 ELSE 0]
<1>1. sh \in [Conns -> {0, 1}]
  OBVIOUS
<1>2. ASSUME NEW c \in Conns, NEW i \in DOMAIN down'[c]
      PROVE  \/ i + sh[c] \in DOMAIN down[c] /\ down'[c][i] = down[c][i + sh[c]]
             \/ c = d /\ i = Len(down[c]) + 1 /\ down'[c][i] = f
  <2>1. PICK x : x = down[c]
    BY Zenon
  <2>2. PICK y : y = down'[c]
    BY Zenon
  <2>3. x \in Seq(Frames) /\ y \in Seq(Frames) /\ i \in 1 .. Len(y)
    BY <1>2, <2>1, <2>2 DEF ClientType
  <2> SUFFICES \/ i + sh[c] \in DOMAIN x /\ y[i] = x[i + sh[c]]
               \/ c = d /\ i = Len(x) + 1 /\ y[i] = f
    BY Zenon, <2>1, <2>2
  <2>8. sh[c] = IF x # <<>> /\ y = Tail(x) THEN 1 ELSE 0
    BY Zenon, <2>1, <2>2
  <2> HIDE DEF sh
  <2>4. CASE x # <<>> /\ y = Tail(x)
    <3>1. sh[c] = 1
      BY Zenon, <2>8, <2>4
    <3>2. i + 1 \in 1 .. Len(x) /\ y[i] = x[i + 1]
      BY <2>3, <2>4
    <3> QED
      BY <3>1, <3>2, <2>3
  <2>5. CASE ~(x # <<>> /\ y = Tail(x)) /\ y = x
    <3>1. sh[c] = 0
      BY Zenon, <2>8, <2>5
    <3> QED
      BY <3>1, <2>5, <2>3
  <2>6. CASE ~(x # <<>> /\ y = Tail(x)) /\ c = d /\ y = Append(x, f)
    <3>1. sh[c] = 0
      BY Zenon, <2>8, <2>6
    <3>2. Len(y) = Len(x) + 1 /\ y[Len(x) + 1] = f /\ \A j \in 1 .. Len(x) : y[j] = x[j]
      BY <2>3, <2>6
    <3> QED
      BY <3>1, <3>2, <2>6, <2>3
  <2>7. CASE y = <<>>
    BY <2>3, <2>7
  <2> QED
    BY Zenon, <2>1, <2>2, <2>4, <2>5, <2>6, <2>7 DEF FramesMove
<1> QED
  BY Zenon, <1>1, <1>2

\* A step of this kind keeps the client half: an id under way stays unknown,
\* a transaction stays with one request, and answers stay for those who wait.
LEMMA ClientMoves ==
  ASSUME ClientType, ClientInv, ClientType',
         NEW d, NEW f, FramesMove(d, f), d \in Conns => FrameFits(f),
         RequestsMove, TxnsMove,
         \A c \in Conns : pend'[c] \subseteq pend[c],
         \A q \in Callers : app'[q].n = app[q].n,
         NEW e, \A q \in Callers \ {e} : CallerMoves(q),
         e \in Callers => CallerMoves(e) \/ CallerTold(e)
  PROVE  ClientInv'
<1>1. PICK sh \in [Conns -> {0, 1}] : \A c \in Conns : \A i \in DOMAIN down'[c] :
           \/ i + sh[c] \in DOMAIN down[c] /\ down'[c][i] = down[c][i + sh[c]]
           \/ c = d /\ i = Len(down[c]) + 1 /\ down'[c][i] = f
  BY FramesOf
<1>2. ASSUME NEW c \in Conns, NEW i \in DOMAIN down'[c]
      PROVE  down'[c][i] \in Frames /\ i \in Nat /\ Len(down[c]) \in Nat
  <2>1. down'[c] \in Seq(Frames) /\ down[c] \in Seq(Frames)
    BY Zenon DEF ClientType
  <2> QED
    BY <2>1
<1>3. \A q \in Callers : CallerMoves(q) \/ CallerTold(q)
  OBVIOUS
<1>4. CallsAwaited'
  <2> SUFFICES ASSUME NEW c \in Conns, NEW id \in pend'[c], id[1] \in Unary
               PROVE  app'[id[1]].at = "wait" /\ app'[id[1]].n = id[2] /\ app'[id[1]].conn = c
    BY Zenon DEF CallsAwaited
  <2>1. id \in pend[c] /\ id[1] \in Callers
    BY Zenon DEF Unary
  <2>2. app'[id[1]] = app[id[1]]
    BY Zenon, <1>3, <2>1 DEF CallerMoves, CallerTold
  <2> QED
    BY <2>1, <2>2 DEF ClientInv, CallsAwaited
<1>5. NumbersUsed'
  <2>1. \A h \in work' : h.p \in Unary => h.n <= app'[h.p].n
    <3> SUFFICES ASSUME NEW g \in work', g.p \in Unary PROVE g.n <= app'[g.p].n
      OBVIOUS
    <3>1. PICK h \in work : h.p = g.p /\ h.n = g.n
      BY Zenon DEF RequestsMove
    <3> QED
      BY Zenon, <3>1 DEF ClientInv, NumbersUsed, Unary
  <2>2. \A h, g \in work' : h.p \in Unary /\ h.p = g.p /\ h.n = g.n => h = g
    BY Zenon DEF RequestsMove
  <2>3. ASSUME NEW c \in Conns, NEW i \in DOMAIN down'[c], down'[c][i].id[1] \in Unary
        PROVE  /\ down'[c][i].id[2] <= app'[down'[c][i].id[1]].n
               /\ \A h \in work' : Id(h) # down'[c][i].id
    <3>1. CASE i + sh[c] \in DOMAIN down[c] /\ down'[c][i] = down[c][i + sh[c]]
      <4>1. /\ down[c][i + sh[c]].id[2] <= app[down[c][i + sh[c]].id[1]].n
            /\ \A h \in work : Id(h) # down[c][i + sh[c]].id
        BY Zenon, <3>1, <2>3 DEF ClientInv, NumbersUsed
      <4>2. down'[c][i].id[2] <= app'[down'[c][i].id[1]].n
        BY Zenon, <4>1, <3>1, <2>3 DEF Unary
      <4>3. ASSUME NEW g \in work', Id(g) = down'[c][i].id PROVE FALSE
        <5>1. g.p \in Unary
          BY <4>3, <2>3 DEF Id
        <5>2. PICK h \in work : h.p = g.p /\ h.n = g.n
          BY Zenon, <5>1 DEF RequestsMove
        <5> QED
          BY Zenon, <4>1, <4>3, <3>1, <5>2 DEF Id
      <4> QED
        BY Zenon, <4>2, <4>3
    <3>2. CASE c = d /\ down'[c][i] = f
      BY Zenon, <3>2, <2>3 DEF FrameFits
    <3> QED
      BY Zenon, <3>1, <3>2, <1>1
  <2> QED
    BY Zenon, <2>1, <2>2, <2>3 DEF NumbersUsed
<1>6. ASSUME NEW g \in work', g.t # None
      PROVE  \E h \in work : h.p = g.p /\ h.n = g.n /\ h.t = g.t
  BY Zenon, <1>6 DEF RequestsMove
<1>7. IdsUnderWay'
  <2> SUFFICES ASSUME NEW c \in Conns, NEW i \in DOMAIN down'[c], down'[c][i].arg # None
               PROVE  /\ down'[c][i].arg \in DOMAIN txn'
                      /\ \A h \in work' : h.t # down'[c][i].arg
                      /\ \A q \in Callers : app'[q].txn # down'[c][i].arg
                      /\ \A b \in Conns : \A j \in DOMAIN down'[b] :
                           down'[b][j].arg = down'[c][i].arg => b = c /\ j = i
    BY Zenon DEF IdsUnderWay
  <2>1. CASE i + sh[c] \in DOMAIN down[c] /\ down'[c][i] = down[c][i + sh[c]]
    <3> DEFINE t == down[c][i + sh[c]].arg
    <3>1. /\ t \in DOMAIN txn
          /\ \A h \in work : h.t # t
          /\ \A q \in Callers : app[q].txn # t
          /\ \A b \in Conns : \A j \in DOMAIN down[b] : down[b][j].arg = t => b = c /\ j = i + sh[c]
      BY Zenon, <2>1 DEF ClientInv, IdsUnderWay
    <3>2. t = down'[c][i].arg /\ t # None
      BY Zenon, <2>1
    <3> HIDE DEF t
    <3>3. t \in DOMAIN txn' /\ \A h \in work' : h.t # t
      BY <3>1, <3>2, <1>6 DEF TxnsMove
    <3>4. ASSUME NEW q \in Callers PROVE app'[q].txn # t
      BY <3>1, <3>2, <1>3 DEF CallerMoves, CallerTold
    <3>5. ASSUME NEW b \in Conns, NEW j \in DOMAIN down'[b], down'[b][j].arg = t
          PROVE  b = c /\ j = i
      <4>1. CASE j + sh[b] \in DOMAIN down[b] /\ down'[b][j] = down[b][j + sh[b]]
        <5>1. b = c /\ j + sh[b] = i + sh[c]
          BY Zenon, <4>1, <3>1, <3>5
        <5>2. i \in Nat /\ j \in Nat /\ sh[c] \in {0, 1}
          BY Zenon, <1>2
        <5> QED
          BY <5>1, <5>2
      <4>2. CASE b = d /\ down'[b][j] = f
        BY Zenon, <4>2, <3>1, <3>2, <3>5 DEF FrameFits
      <4> QED
        BY Zenon, <4>1, <4>2, <1>1
    <3> QED
      BY Zenon, <3>2, <3>3, <3>4, <3>5
  <2>2. CASE c = d /\ i = Len(down[c]) + 1 /\ down'[c][i] = f
    <3>1. f.arg \in DOMAIN txn' /\ f.arg \notin DOMAIN txn /\ f.arg # None
      BY Zenon, <2>2 DEF FrameFits
    <3>2. ASSUME NEW h \in work' PROVE h.t # f.arg
      BY Zenon, <3>1, <1>6 DEF ClientInv, IdsExclusive
    <3>3. ASSUME NEW q \in Callers PROVE app'[q].txn # f.arg
      BY <3>1, <1>3 DEF ClientInv, IdsExclusive, CallerMoves, CallerTold
    <3>4. ASSUME NEW b \in Conns, NEW j \in DOMAIN down'[b], down'[b][j].arg = f.arg
          PROVE  b = c /\ j = i
      <4>1. CASE j + sh[b] \in DOMAIN down[b] /\ down'[b][j] = down[b][j + sh[b]]
        BY ZenonT(40), <4>1, <3>1, <3>4 DEF ClientInv, IdsUnderWay
      <4>2. CASE b = d /\ j = Len(down[b]) + 1
        BY Zenon, <4>2, <2>2
      <4> QED
        BY Zenon, <4>1, <4>2, <1>1
    <3> QED
      BY Zenon, <2>2, <3>1, <3>2, <3>3, <3>4
  <2> QED
    BY Zenon, <2>1, <2>2, <1>1
<1>8. IdsExclusive'
  <2>1. ASSUME NEW g \in work', g.t # None PROVE g.t \in DOMAIN txn' /\ g.p \in Unary
    BY <1>6, <2>1 DEF RequestsMove, TxnsMove, ClientInv, IdsExclusive
  <2>2. ASSUME NEW g1 \in work', NEW g2 \in work', g1.t # None, g1.t = g2.t PROVE g1 = g2
    <3>1. PICK h1 \in work : h1.p = g1.p /\ h1.n = g1.n /\ h1.t = g1.t
      BY Zenon, <1>6, <2>2
    <3>2. PICK h2 \in work : h2.p = g2.p /\ h2.n = g2.n /\ h2.t = g2.t
      BY Zenon, <1>6, <2>2
    <3>3. h1 = h2
      BY <3>1, <3>2, <2>2 DEF ClientInv, IdsExclusive
    <3> QED
      BY ZenonT(40), <3>1, <3>2, <3>3, <2>1, <2>2 DEF RequestsMove
  <2>3. ASSUME NEW q \in Callers, app'[q].txn # None
        PROVE  app'[q].txn \in DOMAIN txn' /\ q \in Unary
    BY Zenon, <2>3, <1>3 DEF CallerMoves, CallerTold, TxnsMove, ClientInv, IdsExclusive
  <2>4. ASSUME NEW q \in Callers, NEW r \in Callers, app'[q].txn # None, app'[q].txn = app'[r].txn
        PROVE  q = r
    <3>1. \A x \in Callers : CallerTold(x) => CallerMoves(x) \/ x = e
      OBVIOUS
    <3>2. \A x \in Callers : CallerMoves(x) => app'[x].txn = None \/ app'[x].txn = app[x].txn
      BY Zenon DEF CallerMoves
    <3>3. \A x \in Callers : CallerTold(x) => \A y \in Callers : app[y].txn # app'[x].txn
      BY Zenon DEF CallerTold
    <3> QED
      BY SMTT(30), <2>4, <1>3, <3>1, <3>2, <3>3 DEF ClientInv, IdsExclusive
  <2>5. ASSUME NEW g \in work', NEW q \in Callers, g.t # None, g.t = app'[q].txn
        PROVE  /\ g.p = q
               /\ app'[q].at \notin {"dial", "begin", "set", "end"}
               /\ app'[q].at = "wait" => g.n = app'[q].n
    <3>1. PICK h \in work : h.p = g.p /\ h.n = g.n /\ h.t = g.t
      BY Zenon, <1>6, <2>5
    <3>2. CallerMoves(q) /\ app'[q].txn = app[q].txn
      BY ZenonT(40), <3>1, <2>5, <1>3 DEF CallerMoves, CallerTold
    <3>3. /\ h.p = q /\ q \in Unary
          /\ app[q].at \notin {"dial", "begin", "set", "end"}
          /\ app[q].at = "wait" => h.n = app[q].n
      BY <3>1, <3>2, <2>5 DEF ClientInv, IdsExclusive
    <3> QED
      BY Zenon, <3>1, <3>2, <3>3, <2>5 DEF CallerMoves
  <2> QED
    BY Zenon, <2>1, <2>2, <2>3, <2>4, <2>5 DEF IdsExclusive
<1>9. Ownership'
  <2>1. ASSUME NEW g \in work', g.t # None PROVE Owns(g.p, g.t)'
    <3>1. PICK h \in work : h.p = g.p /\ h.n = g.n /\ h.t = g.t
      BY Zenon, <1>6, <2>1
    <3>2. Owns(g.p, g.t) /\ g.t \in DOMAIN txn /\ g.p \in Callers
      BY Zenon, <3>1, <2>1 DEF ClientInv, Ownership, IdsExclusive, Unary
    <3> QED
      BY Zenon, <3>2 DEF TxnsMove
  <2>2. ASSUME NEW q \in Callers, app'[q].txn # None
        PROVE  txn'[app'[q].txn] = Over \/ txn'[app'[q].txn].p = q
    <3>1. PICK t : t = app'[q].txn
      BY Zenon
    <3>2. Owns(q, t) /\ t \in DOMAIN txn
      BY Zenon, <3>1, <2>2, <1>3 DEF CallerMoves, CallerTold, ClientInv, Ownership, IdsExclusive
    <3>3. Owns(q, t)'
      BY Zenon, <3>2 DEF TxnsMove
    <3> QED
      BY Zenon, <3>1, <3>3 DEF Owns
  <2>3. ASSUME NEW c \in Conns, NEW i \in DOMAIN down'[c], down'[c][i].arg # None
        PROVE  txn'[down'[c][i].arg] = Over \/ txn'[down'[c][i].arg].p = down'[c][i].id[1]
    <3>1. CASE i + sh[c] \in DOMAIN down[c] /\ down'[c][i] = down[c][i + sh[c]]
      <4>1. PICK y : y = down'[c][i]
        BY Zenon
      <4>2. Owns(y.id[1], y.arg) /\ y.arg \in DOMAIN txn
        BY <4>1, <3>1, <2>3 DEF ClientInv, Ownership, IdsUnderWay
      <4>3. y.id[1] \in Callers
        BY Zenon, <1>2, <4>1 DEF Frames
      <4>4. Owns(y.id[1], y.arg)'
        BY Zenon, <4>2, <4>3 DEF TxnsMove
      <4> QED
        BY Zenon, <4>1, <4>4 DEF Owns
    <3>2. CASE c = d /\ down'[c][i] = f
      BY Zenon, <3>2, <2>3 DEF FrameFits, Owns
    <3> QED
      BY Zenon, <3>1, <3>2, <1>1
  <2>4. /\ \A g \in work' : g.t # None => txn'[g.t] = Over \/ txn'[g.t].p = g.p
        /\ \A q \in Callers : app'[q].txn # None =>
             txn'[app'[q].txn] = Over \/ txn'[app'[q].txn].p = q
        /\ \A c \in Conns : \A i \in DOMAIN down'[c] : down'[c][i].arg # None =>
             \/ txn'[down'[c][i].arg] = Over
             \/ txn'[down'[c][i].arg].p = down'[c][i].id[1]
    BY Zenon, <2>1, <2>2, <2>3 DEF Owns
  <2> QED
    BY Zenon, <2>4 DEF Ownership, Owns
<1> QED
  BY Zenon, <1>4, <1>5, <1>7, <1>8, <1>9 DEF ClientInv

\* A caller sends its next request, under a new number: no other request names
\* the transaction it names (sendIDTimed).
LEMMA ClientSends ==
  ASSUME ClientType, ClientInv, NEW p \in Callers, NEW op \in OpCodes,
         NEW b, IsApp(b), b.txn = app[p].txn, b.conn = app[p].conn,
         p \in Unary => b.n = app[p].n + 1 /\ b.at = "wait" /\ app[p].at \in {"begin", "set", "end"},
         NEW h, h = Request(p, op),
         work' = work \cup {h},
         pend' = [pend EXCEPT ![h.c] = @ \cup {Id(h)}],
         app' = [app EXCEPT ![p] = b],
         UNCHANGED <<down, txn>>
  PROVE  ClientType' /\ ClientInv'
<1>1. app[p].n \in Nat /\ app[p].conn \in Nat /\ app[p].txn \in Nat
  BY Zenon DEF ClientType, IsApp
<1>2. /\ h \in Requests
      /\ h.p = p /\ h.n = app[p].n + 1 /\ h.t = app[p].txn /\ h.c = app[p].conn /\ h.at = "run"
  <2>1. PICK n \in Nat : n = app[p].n + 1
    BY <1>1
  <2>2. PICK c \in Nat, t \in Nat : c = app[p].conn /\ t = app[p].txn
    BY Zenon, <1>1
  <2>3. h = [p |-> p, n |-> n, c |-> c, op |-> op, t |-> t, at |-> "run", left |-> {},
             lost |-> {}, wrote |-> {}, rows |-> 0]
    BY Zenon, <2>1, <2>2 DEF Request
  <2>4. h \in Requests
    BY <2>3 DEF Requests, Places
  <2> QED
    BY <2>1, <2>2, <2>3, <2>4
<1>3. Id(h) = <<p, app[p].n + 1>> /\ Id(h) \in Callers \X Nat
  BY <1>1, <1>2 DEF Id
<1>4. \A q \in Callers : app'[q] = IF q = p THEN b ELSE app[q]
  BY Zenon DEF ClientType
<1>5. ClientType'
  <2>1. app' = [q \in Callers |-> app'[q]] /\ \A q \in Callers : IsApp(app'[q])
    BY Zenon, <1>4 DEF ClientType
  <2>2. pend' \in [Conns -> SUBSET (Callers \X Nat)]
    BY ZenonT(40), <1>3 DEF ClientType
  <2> QED
    BY Zenon, <2>1, <2>2, <1>2 DEF ClientType
<1>6. \A c \in Conns : \A id \in pend'[c] : id \in pend[c] \/ (id = Id(h) /\ c = h.c)
  BY Zenon DEF ClientType
<1>7. CallsAwaited'
  <2> SUFFICES ASSUME NEW c \in Conns, NEW id \in pend'[c], id[1] \in Unary
               PROVE  app'[id[1]].at = "wait" /\ app'[id[1]].n = id[2] /\ app'[id[1]].conn = c
    BY Zenon DEF CallsAwaited
  <2>1. CASE id \in pend[c]
    <3>1. app[id[1]].at = "wait" /\ app[id[1]].n = id[2] /\ app[id[1]].conn = c
      BY Zenon, <2>1 DEF ClientInv, CallsAwaited
    <3> QED
      BY Zenon, <3>1, <1>4 DEF Unary
  <2>2. CASE id = Id(h) /\ c = h.c
    BY <2>2, <1>2, <1>3, <1>4
  <2> QED
    BY Zenon, <2>1, <2>2, <1>6
<1>8. \A q \in Unary : app'[q].n = IF q = p THEN app[q].n + 1 ELSE app[q].n
  BY SMTT(30), <1>4 DEF Unary
<1>9. NumbersUsed'
  <2>1. ASSUME NEW g \in work, g.p \in Unary PROVE g.n \in Nat /\ g.n <= app[g.p].n /\ app[g.p].n \in Nat
    BY Zenon, <2>1 DEF ClientInv, NumbersUsed, ClientType, Requests, IsApp, Unary
  <2>2. \A g \in work' : g.p \in Unary => g.n <= app'[g.p].n
    BY SMTT(30), <2>1, <1>1, <1>2, <1>8
  <2>3. \A g, k \in work' : g.p \in Unary /\ g.p = k.p /\ g.n = k.n => g = k
    BY SMTT(30), <2>1, <1>1, <1>2 DEF ClientInv, NumbersUsed
  <2>4. ASSUME NEW c \in Conns, NEW i \in DOMAIN down[c], down[c][i].id[1] \in Unary
        PROVE  /\ down[c][i].id[2] <= app'[down[c][i].id[1]].n
               /\ \A g \in work' : Id(g) # down[c][i].id
    <3>1. PICK f : f = down[c][i]
      BY Zenon
    <3>2. f.id[2] <= app[f.id[1]].n /\ \A g \in work : Id(g) # f.id
      BY Zenon, <3>1, <2>4 DEF ClientInv, NumbersUsed
    <3>3. f.id[2] \in Nat /\ app[f.id[1]].n \in Nat
      <4>1. down[c] \in Seq(Frames)
        BY Zenon DEF ClientType
      <4>2. f \in Frames
        BY <4>1, <3>1
      <4> QED
        BY Zenon, <4>2 DEF Frames, ClientType, IsApp
    <3>4. Id(h) # f.id
      BY <3>2, <3>3, <1>3, <1>1
    <3>5. f.id[2] <= app'[f.id[1]].n
      BY <3>1, <3>2, <3>3, <1>8, <2>4
    <3> QED
      BY Zenon, <3>1, <3>2, <3>4, <3>5
  <2> QED
    BY ZenonT(40), <2>2, <2>3, <2>4 DEF NumbersUsed
<1>10. \A q \in Callers : app'[q].txn = app[q].txn
  BY Zenon, <1>4
<1>11. app[p].txn # None => p \in Unary
  BY Zenon DEF ClientInv, IdsExclusive
<1>12. IdsUnderWay'
  <2> SUFFICES ASSUME NEW c \in Conns, NEW i \in DOMAIN down[c], down[c][i].arg # None
               PROVE  /\ down[c][i].arg \in DOMAIN txn
                      /\ \A g \in work' : g.t # down[c][i].arg
                      /\ \A q \in Callers : app'[q].txn # down[c][i].arg
                      /\ \A d \in Conns : \A j \in DOMAIN down[d] :
                           down[d][j].arg = down[c][i].arg => d = c /\ j = i
    BY SMTT(30) DEF IdsUnderWay
  <2> QED
    BY SMTT(30), <1>2, <1>10 DEF ClientInv, IdsUnderWay
<1>13. \A g \in work : g.t = app[p].txn => g.t = None
  BY Zenon, <1>11 DEF ClientInv, IdsExclusive
<1>14. IdsExclusive'
  <2>1. \A g \in work' : g.t # None => g.t \in DOMAIN txn /\ g.p \in Unary
    BY Zenon, <1>2, <1>11 DEF ClientInv, IdsExclusive
  <2>2. \A g, k \in work' : g.t # None /\ g.t = k.t => g = k
    BY SMTT(30), <1>2, <1>13 DEF ClientInv, IdsExclusive
  <2>3. \A q \in Callers : app'[q].txn # None => app'[q].txn \in DOMAIN txn /\ q \in Unary
    BY Zenon, <1>10 DEF ClientInv, IdsExclusive
  <2>4. \A q, r \in Callers : app'[q].txn # None /\ app'[q].txn = app'[r].txn => q = r
    BY ZenonT(40), <1>10 DEF ClientInv, IdsExclusive
  <2>5. ASSUME NEW g \in work', NEW q \in Callers, g.t # None, g.t = app'[q].txn
        PROVE  /\ g.p = q
               /\ app'[q].at \notin {"dial", "begin", "set", "end"}
               /\ app'[q].at = "wait" => g.n = app'[q].n
    <3>1. CASE g = h
      <4>1. q = p /\ p \in Unary
        BY Zenon, <3>1, <2>5, <1>2, <1>10, <1>11 DEF ClientInv, IdsExclusive
      <4> QED
        BY Zenon, <4>1, <3>1, <1>2, <1>4, <1>8
    <3>2. CASE g \in work
      <4>1. q # p
        BY Zenon, <3>2, <2>5, <1>10, <1>13
      <4> QED
        BY <4>1, <3>2, <2>5, <1>4 DEF ClientInv, IdsExclusive
    <3> QED
      BY Zenon, <3>1, <3>2
  <2> QED
    BY ZenonT(40), <2>1, <2>2, <2>3, <2>4, <2>5 DEF IdsExclusive
<1>15. Ownership'
  <2>1. \A g \in work' : g.t # None => Owns(g.p, g.t)
    BY Zenon, <1>2 DEF ClientInv, Ownership
  <2>2. \A q \in Callers : app'[q].txn # None => Owns(q, app'[q].txn)
    BY Zenon, <1>10 DEF ClientInv, Ownership
  <2> QED
    BY Zenon, <2>1, <2>2 DEF ClientInv, Ownership, Owns
<1> QED
  BY Zenon, <1>5, <1>7, <1>9, <1>12, <1>14, <1>15 DEF ClientInv

-----------------------------------------------------------------------------
(* The server half under steps that leave the server's state alone. *)

\* What a new request may look like: it holds no transaction to commit, and only
\* a unit commits idempotently.
RequestFits(g) ==
  /\ g.at \in {"run", "held", "on", "off"}
  /\ g.at = "held" => g.t # None
  /\ g.op = "idem" => g.p \in Units
  /\ g.p \in Units => g.op # "commit"
  /\ OfStream(g) => g.p \notin Unary

\* The server half depends on the requests only through those that hold a
\* transaction, and on the callers only through the units that are over.
LEMMA ServerRests ==
  ASSUME ServerType, ServerInv, UNCHANGED server,
         \A g \in work' : g \in work \/ RequestFits(g),
         \A p \in Units : Finished(p) => Finished(p)'
  PROVE  ServerType' /\ ServerInv'
<1>1. UNCHANGED <<live, txn, store, clock, disk, aborted>>
  BY Zenon DEF server
<1>2. ServerType'
  BY Zenon, <1>1 DEF ServerType
<1>3. \A g \in work' : g.at \in {"check", "mark", "apply"} => g \in work
  BY Zenon DEF RequestFits
<1>4. Holders'
  <2>1. \A g \in work' : g.at = "held" => g.t # None
    BY Zenon DEF RequestFits, ServerInv, Holders
  <2>2. \A g \in Committing' : g \in Committing
    BY Zenon, <1>3 DEF Committing
  <2>3. \A g \in work' : g.op = "idem" => g.p \in Units
    BY Zenon DEF RequestFits, ServerInv, Holders
  <2>4. \A g \in work' : g.p \in Units => g.op # "commit"
    BY Zenon DEF RequestFits, ServerInv, Holders
  <2>5. \A g \in work' : g.at \in {"check", "mark"} => g.op = "idem"
    BY Zenon, <1>3 DEF ServerInv, Holders
  <2>6. \A g \in work' : OfStream(g) => g.p \notin Unary
    BY Zenon DEF RequestFits, ServerInv, Holders
  <2> QED
    BY Zenon, <2>1, <2>2, <2>3, <2>4, <2>5, <2>6, <1>1 DEF ServerInv, Holders
<1>5. BuffersSound'
  BY Zenon, <1>1 DEF ServerInv, BuffersSound
<1>6. ASSUME NEW m, MarkedOnce(m) PROVE MarkedOnce(m)'
  BY Zenon, <1>6 DEF MarkedOnce, LandedIn
<1>7. MarkedOnce(store)' /\ MarkedOnce(disk)'
  BY Zenon, <1>1, <1>6, MarkersKept DEF ServerInv
<1>8. ReplaysConflict'
  BY Zenon, <1>1, <1>3 DEF ServerInv, ReplaysConflict, LandedIn
<1>9. \A t : Kept(t) => Kept(t)'
  BY Zenon, <1>1, <1>3 DEF Kept
<1>10. ChangesKept(store)' /\ ChangesKept(disk)'
  BY Zenon, <1>1, <1>9 DEF ServerInv, ChangesKept
<1> QED
  BY Zenon, <1>2, <1>4, <1>5, <1>7, <1>8, <1>10 DEF ServerInv

-----------------------------------------------------------------------------
(* The steps of a caller. *)

\* A caller that moves by itself, having no call registered, disturbs nothing.
LEMMA CallerAlone ==
  ASSUME ClientType, ClientInv, NEW p \in Callers, NEW b, IsApp(b), b.n = app[p].n,
         app' = [app EXCEPT ![p] = b], UNCHANGED <<down, work, txn>>,
         pend' \in [Conns -> SUBSET (Callers \X Nat)],
         \A c \in Conns : pend'[c] \subseteq pend[c],
         b.at # "wait",
         p \in Unary => \A c \in Conns : \A id \in pend'[c] : id[1] # p,
         b.txn = None \/ (b.txn = app[p].txn /\ (\/ b.at \notin {"dial", "begin", "set", "end"}
                                                 \/ \A h \in work : h.t # app[p].txn))
  PROVE  ClientType' /\ ClientInv'
<1>1. \A q \in Callers : app'[q] = IF q = p THEN b ELSE app[q]
  BY Zenon DEF ClientType
<1>2. app' = [q \in Callers |-> app'[q]] /\ \A q \in Callers : IsApp(app'[q])
  BY Zenon, <1>1 DEF ClientType
<1>3. ClientType'
  BY Zenon, <1>2 DEF ClientType
<1>4. FramesMove(0, 0)
  BY Zenon DEF FramesMove
<1>5. 0 \notin Conns
  BY SMTT(30) DEF Conns
<1>6. RequestsMove
  BY Zenon DEF RequestsMove, ClientInv, NumbersUsed, IdsExclusive
<1>7. TxnsMove
  BY Zenon DEF TxnsMove, Owns
<1>8. \A q \in Callers : app'[q].n = app[q].n
  BY Zenon, <1>1
<1>9. \A q \in Callers : CallerMoves(q)
  BY Zenon, <1>1 DEF CallerMoves
<1>10. ClientInv'
  BY Zenon, <1>3, <1>4, <1>5, <1>6, <1>7, <1>8, <1>9, ClientMoves
<1> QED
  BY Zenon, <1>3, <1>10

\* A caller that does not wait has no call registered.
LEMMA NotWaiting ==
  ASSUME ClientType, ClientInv, NEW p \in Unary, app[p].at # "wait"
  PROVE  \A c \in Conns : \A id \in pend[c] : id[1] # p
BY DEF ClientInv, CallsAwaited

\* A caller about to send has its transaction to itself.
LEMMA TxnFree ==
  ASSUME ClientInv, NEW p \in Callers, app[p].at \in {"dial", "begin", "set", "end"}
  PROVE  app[p].txn = None \/ \A h \in work : h.t # app[p].txn
BY Zenon DEF ClientInv, IdsExclusive

\* A caller whose call was closed dials again without its transaction, or is done.
LEMMA ClosedApp ==
  ASSUME NEW p \in Callers, NEW a, IsApp(a)
  PROVE  /\ IsApp(Closed(p, a))
         /\ Closed(p, a).n = a.n
         /\ \/ Closed(p, a).at = "dial" /\ Closed(p, a).txn = None
            \/ Closed(p, a).at = "done" /\ Closed(p, a).txn = a.txn
<1>1. PICK b : b = [a EXCEPT !.at = "dial", !.txn = None, !.ch = <<>>]
  BY Zenon
<1>2. PICK e : e = [a EXCEPT !.at = "done", !.res = "unknown"]
  BY Zenon
<1>3. IsApp(b) /\ b.n = a.n /\ b.at = "dial" /\ b.txn = None
  BY Zenon, <1>1 DEF IsApp, AppFields, None
<1>4. IsApp(e) /\ e.n = a.n /\ e.at = "done" /\ e.txn = a.txn
  BY Zenon, <1>2 DEF IsApp, AppFields
<1>5. Closed(p, a) = b \/ Closed(p, a) = e
  BY Zenon, <1>1, <1>2 DEF Closed
<1> QED
  BY Zenon, <1>3, <1>4, <1>5

\* A step of one caller that leaves frames, requests and the server alone.
LEMMA CallerStepKeeps ==
  ASSUME RpcInv, NEW p \in Callers, NEW b, IsApp(b), b.n = app[p].n,
         app' = [app EXCEPT ![p] = b], UNCHANGED <<down, work, server>>,
         \/ app[p].at # "wait" /\ pend' = pend
         \/ b.at = "done" /\ pend' = [pend EXCEPT ![app[p].conn] = @ \ {<<p, app[p].n>>}],
         b.at # "wait", app[p].at # "done",
         b.txn = None \/ (b.txn = app[p].txn /\ (\/ b.at \notin {"dial", "begin", "set", "end"}
                                                 \/ \A h \in work : h.t # app[p].txn))
  PROVE  RpcInv'
<1>1. ClientType /\ ServerType /\ ClientInv /\ ServerInv
  BY Zenon DEF RpcInv
<1>2. UNCHANGED txn
  BY Zenon DEF server
<1>3. pend' \in [Conns -> SUBSET (Callers \X Nat)] /\ \A c \in Conns : pend'[c] \subseteq pend[c]
  BY Zenon, <1>1 DEF ClientType
<1>4. ASSUME p \in Unary, NEW c \in Conns, NEW id \in pend'[c] PROVE id[1] # p
  <2>1. CASE app[p].at # "wait" /\ pend' = pend
    BY ZenonT(40), <1>1, <1>4, <2>1, NotWaiting
  <2>2. CASE pend' = [pend EXCEPT ![app[p].conn] = @ \ {<<p, app[p].n>>}]
    <3>1. id \in pend[c] /\ id \in Callers \X Nat
      BY Zenon, <1>1, <1>3 DEF ClientType
    <3>2. ASSUME id[1] = p PROVE FALSE
      <4>1. id[2] = app[p].n /\ c = app[p].conn
        BY Zenon, <1>1, <1>4, <3>1, <3>2 DEF ClientInv, CallsAwaited
      <4>2. id = <<p, app[p].n>>
        BY SMTT(30), <3>1, <3>2, <4>1
      <4> QED
        BY Zenon, <1>1, <1>4, <2>2, <4>1, <4>2 DEF ClientType
    <3> QED
      BY Zenon, <3>2
  <2> QED
    BY Zenon, <2>1, <2>2
<1>5. ClientType' /\ ClientInv'
  BY Zenon, <1>1, <1>2, <1>3, <1>4, CallerAlone
<1>6. \A q \in Units : Finished(q) => Finished(q)'
  BY Zenon, <1>1, Constants DEF Finished, ClientType
<1>7. ServerType' /\ ServerInv'
  BY Zenon, <1>1, <1>6, ServerRests
<1> QED
  BY Zenon, <1>5, <1>7 DEF RpcInv

\* The callers' steps that send nothing: dialling, cancelling a call, and what
\* the reader of a stream does.
LEMMA DialStep ==
  ASSUME RpcInv, NEW p \in Callers, NEW c \in Conns, Dial(p, c)
  PROVE  RpcInv'
<1>1. IsApp(app[p]) /\ app[p].at = "dial" /\ c \in Nat
  BY DEF RpcInv, ClientType, Dial, Conns
<1>2. PICK n \in Nat : n = app[p].tries + 1
  <2>1. app[p].tries \in Nat
    BY Zenon, <1>1 DEF IsApp
  <2> QED
    BY <2>1
<1>3. PICK b : b = [app[p] EXCEPT !.at = "begin", !.conn = c, !.tries = n]
  BY Zenon
<1>4. IsApp(b) /\ b.n = app[p].n /\ b.at = "begin" /\ b.txn = app[p].txn
  BY Zenon, <1>1, <1>3 DEF IsApp, AppFields
<1>5. app' = [app EXCEPT ![p] = b] /\ UNCHANGED <<down, work, server>> /\ pend' = pend
  BY Zenon, <1>2, <1>3 DEF Dial
<1>6. b.txn = None \/ \A h \in work : h.t # app[p].txn
  BY Zenon, <1>1, <1>4, TxnFree DEF RpcInv
<1> QED
  BY Zenon, <1>1, <1>4, <1>5, <1>6, CallerStepKeeps

LEMMA CancelCallStep ==
  ASSUME RpcInv, NEW p \in Callers, CancelCall(p)
  PROVE  RpcInv'
<1>1. IsApp(app[p]) /\ app[p].at = "wait"
  BY Zenon DEF RpcInv, ClientType, CancelCall
<1>2. PICK b : b = [app[p] EXCEPT !.at = "done", !.res = "cancelled"]
  BY Zenon
<1>3. IsApp(b) /\ b.n = app[p].n /\ b.at = "done" /\ b.txn = app[p].txn
  BY Zenon, <1>1, <1>2 DEF IsApp, AppFields
<1>4. /\ app' = [app EXCEPT ![p] = b] /\ UNCHANGED <<down, work, server>>
      /\ pend' = [pend EXCEPT ![app[p].conn] = @ \ {<<p, app[p].n>>}]
  BY Zenon, <1>2 DEF CancelCall
<1> QED
  BY Zenon, <1>1, <1>3, <1>4, CallerStepKeeps

LEMMA ReaderSteps ==
  ASSUME RpcInv, NEW p \in Callers,
         Consume(p) \/ Drain(p) \/ Forward(p) \/ TakeEvent(p) \/ Stopped(p)
  PROVE  RpcInv'
<1>1. IsApp(app[p])
  BY Zenon DEF RpcInv, ClientType
<1>2. ASSUME NEW b, app' = [app EXCEPT ![p] = b], UNCHANGED <<down, work, server>>, pend' = pend,
             app[p].at \in {"read", "offer", "stopping"},
             IsApp(b), b.n = app[p].n, b.txn = app[p].txn, b.at \in {"read", "offer", "done"}
      PROVE  RpcInv'
  BY Zenon, <1>2, CallerStepKeeps
<1>3. CASE Consume(p)
  <2>1. CASE app' = [app EXCEPT ![p].ch = Tail(@), ![p].got = @ + 1]
    <3>1. PICK b : b = [app[p] EXCEPT !.ch = Tail(@), !.got = @ + 1]
      BY Zenon
    <3>2. IsApp(b) /\ b.n = app[p].n /\ b.txn = app[p].txn /\ b.at = app[p].at
      BY Zenon, <1>1, <3>1 DEF IsApp, AppFields
    <3> QED
      BY Zenon, <1>2, <1>3, <2>1, <3>1, <3>2 DEF Consume
  <2>2. CASE app' = [app EXCEPT ![p].at = "done", ![p].res = "ok"]
    <3>1. PICK b : b = [app[p] EXCEPT !.at = "done", !.res = "ok"]
      BY Zenon
    <3>2. IsApp(b) /\ b.n = app[p].n /\ b.txn = app[p].txn /\ b.at = "done"
      BY Zenon, <1>1, <3>1 DEF IsApp, AppFields
    <3> QED
      BY Zenon, <1>2, <1>3, <2>2, <3>1, <3>2 DEF Consume
  <2> QED
    BY Zenon, <1>3, <2>1, <2>2 DEF Consume
<1>4. CASE Drain(p) \/ Stopped(p)
  <2>1. PICK b : b = [app[p] EXCEPT !.at = "done", !.res = "cancelled", !.drain = TRUE, !.ch = <<>>]
    BY Zenon
  <2>2. IsApp(b) /\ b.n = app[p].n /\ b.txn = app[p].txn /\ b.at = "done"
    BY Zenon, <1>1, <2>1 DEF IsApp, AppFields
  <2> QED
    BY Zenon, <1>2, <1>4, <2>1, <2>2 DEF Drain, Stopped
<1>5. CASE Forward(p)
  <2>1. CASE app' = [app EXCEPT ![p].ch = Tail(@), ![p].at = "offer"]
    <3>1. PICK b : b = [app[p] EXCEPT !.ch = Tail(@), !.at = "offer"]
      BY Zenon
    <3>2. IsApp(b) /\ b.n = app[p].n /\ b.txn = app[p].txn /\ b.at = "offer"
      BY Zenon, <1>1, <3>1 DEF IsApp, AppFields
    <3> QED
      BY Zenon, <1>2, <1>5, <2>1, <3>1, <3>2 DEF Forward
  <2>2. CASE app' = [app EXCEPT ![p].at = "done", ![p].res = "ended"]
    <3>1. PICK b : b = [app[p] EXCEPT !.at = "done", !.res = "ended"]
      BY Zenon
    <3>2. IsApp(b) /\ b.n = app[p].n /\ b.txn = app[p].txn /\ b.at = "done"
      BY Zenon, <1>1, <3>1 DEF IsApp, AppFields
    <3> QED
      BY Zenon, <1>2, <1>5, <2>2, <3>1, <3>2 DEF Forward
  <2> QED
    BY Zenon, <1>5, <2>1, <2>2 DEF Forward
<1>6. CASE TakeEvent(p)
  <2>1. PICK b : b = [app[p] EXCEPT !.at = "read", !.got = @ + 1]
    BY Zenon
  <2>2. IsApp(b) /\ b.n = app[p].n /\ b.txn = app[p].txn /\ b.at = "read"
    BY Zenon, <1>1, <2>1 DEF IsApp, AppFields
  <2> QED
    BY Zenon, <1>2, <1>6, <2>1, <2>2 DEF TakeEvent
<1> QED
  BY Zenon, <1>3, <1>4, <1>5, <1>6

\* A caller that is not over sends a request: what the server holds is untouched,
\* and no unit that was over comes back.
LEMMA RequestSent ==
  ASSUME RpcInv, NEW p \in Callers, NEW op \in OpCodes,
         NEW b, IsApp(b), b.txn = app[p].txn, b.conn = app[p].conn, app[p].at # "done",
         p \in Unary => b.n = app[p].n + 1 /\ b.at = "wait" /\ app[p].at \in {"begin", "set", "end"},
         op = "idem" => p \in Units, p \in Units => op # "commit",
         op \in {"query", "watch", "stop"} => p \notin Unary,
         NEW h, h = Request(p, op),
         work' = work \cup {h},
         pend' = [pend EXCEPT ![h.c] = @ \cup {Id(h)}],
         app' = [app EXCEPT ![p] = b],
         UNCHANGED <<down, server>>
  PROVE  RpcInv'
<1>1. ClientType /\ ServerType /\ ClientInv /\ ServerInv
  BY Zenon DEF RpcInv
<1>2. down' = down /\ txn' = txn /\ UNCHANGED server
  BY Zenon DEF server
<1>3. ClientType' /\ ClientInv'
  BY Zenon, <1>1, <1>2, ClientSends
<1>4. h.p = p /\ h.op = op /\ h.at = "run"
  BY Zenon DEF Request
<1>5. \A g \in work' : g \in work \/ RequestFits(g)
  BY Zenon, <1>4 DEF RequestFits, OfStream
<1>6. \A q \in Units : Finished(q) => Finished(q)'
  BY Zenon, <1>1, <1>4, Constants DEF Finished, ClientType
<1>7. ServerType' /\ ServerInv'
  BY Zenon, <1>1, <1>2, <1>5, <1>6, ServerRests
<1> QED
  BY Zenon, <1>3, <1>7 DEF RpcInv

\* sendIDTimed: the request is registered and sent, or the call fails at once.
LEMMA SendStep ==
  ASSUME RpcInv, NEW p \in Callers, NEW op \in OpCodes, NEW x \in {"wait", "read"},
         Send(p, op, [app[p] EXCEPT !.at = x]), UNCHANGED <<down, server>>,
         app[p].at \in {"begin", "set", "end"}, p \in Unary => x = "wait",
         op = "idem" => p \in Units, p \in Units => op # "commit",
         op \in {"query", "watch", "stop"} => p \notin Unary
  PROVE  RpcInv'
<1>1. IsApp(app[p])
  BY Zenon DEF RpcInv, ClientType
<1>2. PICK h : h = Request(p, op)
  BY Zenon
<1>3. PICK n \in Nat : n = app[p].n + 1
  <2>1. app[p].n \in Nat
    BY Zenon, <1>1 DEF IsApp
  <2> QED
    BY <2>1
<1>4. h.n = n
  BY Zenon, <1>2, <1>3 DEF Request
<1>5. CASE conn[h.c].at = "up"
  <2>1. PICK b : b = [[app[p] EXCEPT !.at = x] EXCEPT !.n = n, !.op = op]
    BY Zenon
  <2>2. /\ IsApp(b) /\ b.txn = app[p].txn /\ b.conn = app[p].conn
        /\ b.n = n /\ b.at = x
    BY Zenon, <1>1, <2>1 DEF IsApp, AppFields
  <2>3. /\ work' = work \cup {h}
        /\ pend' = [pend EXCEPT ![h.c] = @ \cup {Id(h)}]
        /\ app' = [app EXCEPT ![p] = b]
    BY Zenon, <1>2, <1>4, <1>5, <2>1 DEF Send
  <2> QED
    BY Zenon, <1>2, <1>3, <2>2, <2>3, RequestSent
<1>6. CASE conn[h.c].at # "up"
  <2>1. PICK b : b = Closed(p, app[p])
    BY Zenon
  <2>2. app' = [app EXCEPT ![p] = b] /\ work' = work /\ pend' = pend
    BY Zenon, <1>2, <1>6, <2>1 DEF Send
  <2>3. /\ IsApp(b) /\ b.n = app[p].n
        /\ \/ b.at = "dial" /\ b.txn = None
           \/ b.at = "done" /\ b.txn = app[p].txn
    BY Zenon, <1>1, <2>1, ClosedApp
  <2>4. UNCHANGED <<down, work, server>>
    BY Zenon, <2>2
  <2> QED
    BY Zenon, <2>2, <2>3, <2>4, CallerStepKeeps
<1> QED
  BY Zenon, <1>5, <1>6

\* stop() is a second request of a stream's caller, which waits for no answer.
LEMMA SendStopStep ==
  ASSUME RpcInv, NEW p \in Callers, Kind[p] = "watch", app[p].at \in {"read", "offer"},
         NEW next, IsApp(next), next.n = app[p].n, next.txn = app[p].txn, next.conn = app[p].conn,
         next.at \in {"read", "offer", "stopping"},
         SendStop(p, next), UNCHANGED <<down, server>>
  PROVE  RpcInv'
<1>1. p \notin Unary /\ p \notin Units
  BY Zenon DEF Unary, Streams, Units
<1>2. PICK h : h = Request(p, "stop")
  BY Zenon
<1>3. CASE next.stop = "no" /\ conn[h.c].at = "up"
  <2>1. PICK b : b = [next EXCEPT !.stop = "sent"]
    BY Zenon
  <2>2. IsApp(b) /\ b.txn = app[p].txn /\ b.conn = app[p].conn
    BY Zenon, <2>1 DEF IsApp, AppFields
  <2>3. /\ work' = work \cup {h}
        /\ pend' = [pend EXCEPT ![h.c] = @ \cup {Id(h)}]
        /\ app' = [app EXCEPT ![p] = b]
    BY Zenon, <1>2, <1>3, <2>1 DEF SendStop
  <2>4. "stop" \in OpCodes
    BY Zenon DEF OpCodes
  <2> QED
    BY Zenon, <1>1, <1>2, <2>2, <2>3, <2>4, RequestSent
<1>4. CASE ~(next.stop = "no" /\ conn[h.c].at = "up")
  <2>1. PICK b : b = IF next.stop # "no" THEN next ELSE [next EXCEPT !.stop = "done"]
    BY Zenon
  <2>2. app' = [app EXCEPT ![p] = b] /\ work' = work /\ pend' = pend
    BY Zenon, <1>2, <1>4, <2>1 DEF SendStop
  <2>3. IsApp(b) /\ b.n = app[p].n /\ b.txn = app[p].txn /\ b.at = next.at
    BY Zenon, <2>1 DEF IsApp, AppFields
  <2>4. UNCHANGED <<down, work, server>>
    BY Zenon, <2>2
  <2> QED
    BY Zenon, <2>2, <2>3, <2>4, CallerStepKeeps
<1> QED
  BY Zenon, <1>3, <1>4

\* The callers' steps that send.
LEMMA SendSteps ==
  ASSUME RpcInv, NEW p \in Callers,
         Call(p) \/ Abort(p) \/ Stream(p) \/ UserStop(p) \/ CancelWatch(p)
  PROVE  RpcInv'
<1>1. IsApp(app[p])
  BY Zenon DEF RpcInv, ClientType
<1>2. "begin" \in OpCodes /\ "set" \in OpCodes /\ "idem" \in OpCodes /\ "commit" \in OpCodes
      /\ "abort" \in OpCodes /\ "query" \in OpCodes /\ "watch" \in OpCodes
  BY Zenon DEF OpCodes
<1>3. CASE Call(p)
  <2>1. UNCHANGED <<down, server>>
    BY Zenon, <1>3 DEF Call
  <2>2. CASE app[p].at = "begin" /\ Send(p, "begin", [app[p] EXCEPT !.at = "wait"])
    BY Zenon, <1>2, <2>1, <2>2, SendStep
  <2>3. CASE app[p].at = "set" /\ Send(p, "set", [app[p] EXCEPT !.at = "wait"])
    BY Zenon, <1>2, <2>1, <2>3, SendStep
  <2>4. CASE app[p].at = "end" /\ Send(p, IF Kind[p] = "unit" THEN "idem" ELSE "commit",
                                       [app[p] EXCEPT !.at = "wait"])
    <3>1. CASE Kind[p] = "unit"
      <4>1. p \in Units
        BY Zenon, <3>1 DEF Units
      <4>2. Send(p, "idem", [app[p] EXCEPT !.at = "wait"])
        BY Zenon, <2>4, <3>1
      <4> QED
        BY Zenon, <1>2, <2>1, <2>4, <4>1, <4>2, SendStep
    <3>2. CASE Kind[p] # "unit"
      <4>1. p \notin Units
        BY Zenon, <3>2 DEF Units
      <4>2. Send(p, "commit", [app[p] EXCEPT !.at = "wait"])
        BY Zenon, <2>4, <3>2
      <4> QED
        BY Zenon, <1>2, <2>1, <2>4, <4>1, <4>2, SendStep
    <3> QED
      BY Zenon, <3>1, <3>2
  <2> QED
    BY Zenon, <1>3, <2>2, <2>3, <2>4 DEF Call
<1>4. CASE Abort(p)
  BY Zenon, <1>2, <1>4, SendStep DEF Abort
<1>5. CASE Stream(p)
  <2>1. p \notin Unary /\ p \notin Units /\ Kind[p] \in OpCodes /\ Kind[p] # "idem"
    BY Zenon, <1>2, <1>5 DEF Stream, Unary, Streams, Units
  <2>2. /\ app[p].at = "begin" /\ UNCHANGED <<down, server>>
        /\ Send(p, Kind[p], [app[p] EXCEPT !.at = "read"])
    BY Zenon, <1>5 DEF Stream
  <2> QED
    BY Zenon, <2>1, <2>2, SendStep
<1>6. CASE UserStop(p)
  BY Zenon, <1>1, <1>6, SendStopStep DEF UserStop
<1>7. CASE CancelWatch(p)
  <2>1. PICK next : next = [app[p] EXCEPT !.at = "stopping"]
    BY Zenon
  <2>2. /\ IsApp(next) /\ next.n = app[p].n /\ next.txn = app[p].txn /\ next.conn = app[p].conn
        /\ next.at = "stopping"
    BY Zenon, <1>1, <2>1 DEF IsApp, AppFields
  <2> QED
    BY Zenon, <1>7, <2>1, <2>2, SendStopStep DEF CancelWatch
<1> QED
  BY Zenon, <1>3, <1>4, <1>5, <1>6, <1>7

-----------------------------------------------------------------------------
(* The read loop. *)

\* What an answer makes of the caller that waited for it.
LEMMA ReturnedApp ==
  ASSUME NEW p \in Callers, NEW a, IsApp(a), NEW st, NEW arg \in Nat
  PROVE  /\ IsApp(Returned(p, a, st, arg))
         /\ Returned(p, a, st, arg).n = a.n
         /\ Returned(p, a, st, arg).at \in {"begin", "set", "end", "done"}
         /\ Returned(p, a, st, arg).txn \in {None, a.txn, arg}
<1>1. PICK n \in Nat : n = a.tries + 1
  <2>1. a.tries \in Nat
    BY Zenon DEF IsApp
  <2> QED
    BY <2>1
<1>2. PICK r : r = Returned(p, a, st, arg)
  BY Zenon
<1>3. \/ r = [a EXCEPT !.at = "done", !.res = "error"]
      \/ r = [a EXCEPT !.at = "begin", !.tries = n, !.txn = None]
      \/ r = [a EXCEPT !.at = "done", !.res = "conflict"]
      \/ r = [a EXCEPT !.at = "set", !.txn = arg]
      \/ r = [a EXCEPT !.at = "end"]
      \/ r = [a EXCEPT !.at = "done", !.res = "aborted"]
      \/ r = [a EXCEPT !.at = "done", !.res = "ok"]
  BY <1>1, <1>2 DEF Returned
<1>4. IsApp(r) /\ r.n = a.n /\ r.at \in {"begin", "set", "end", "done"} /\ r.txn \in {None, a.txn, arg}
  <2>1. CASE \/ r = [a EXCEPT !.at = "done", !.res = "error"]
             \/ r = [a EXCEPT !.at = "done", !.res = "conflict"]
             \/ r = [a EXCEPT !.at = "done", !.res = "aborted"]
             \/ r = [a EXCEPT !.at = "done", !.res = "ok"]
    BY ZenonT(40), <2>1 DEF IsApp, AppFields
  <2>2. CASE r = [a EXCEPT !.at = "begin", !.tries = n, !.txn = None]
    BY Zenon, <2>2 DEF IsApp, AppFields, None
  <2>3. CASE r = [a EXCEPT !.at = "set", !.txn = arg]
    BY Zenon, <2>3 DEF IsApp, AppFields
  <2>4. CASE r = [a EXCEPT !.at = "end"]
    BY Zenon, <2>4 DEF IsApp, AppFields
  <2> QED
    BY Zenon, <1>3, <2>1, <2>2, <2>3, <2>4
<1> QED
  BY Zenon, <1>2, <1>4

\* A stream's caller is given a frame in its channel, or its end.
LEMMA DeliveredToStream ==
  ASSUME NEW p \in Streams, NEW a, IsApp(a), NEW f, f.id[1] = p
  PROVE  /\ IsApp(Delivered(a, f))
         /\ Delivered(a, f).n = a.n /\ Delivered(a, f).txn = a.txn
<1>1. PICK r : r = Delivered(a, f)
  BY Zenon
<1>2. \/ r = [a EXCEPT !.closed = TRUE] \/ r = a
      \/ r = [a EXCEPT !.ch = Append(@, f.st)]
      \/ r = [a EXCEPT !.stop = "done"]
  BY <1>1 DEF Delivered
<1>3. IsApp(r) /\ r.n = a.n /\ r.txn = a.txn
  BY Zenon, <1>2 DEF IsApp, AppFields
<1> QED
  BY Zenon, <1>1, <1>3

\* The read loop hands a frame to the caller that waits for it, which may be told
\* a transaction's id, or drops it.
LEMMA ReadFrameStep ==
  ASSUME RpcInv, NEW c \in Conns, ReadFrame(c)
  PROVE  RpcInv'
<1>1. ClientType /\ ServerType /\ ClientInv /\ ServerInv
  BY Zenon DEF RpcInv
<1>2. PICK f : f = Head(down[c])
  BY Zenon
<1>3. PICK p : p = f.id[1]
  BY Zenon
<1>4. /\ down[c] # <<>> /\ down' = [down EXCEPT ![c] = Tail(@)]
      /\ UNCHANGED <<work, server>>
  BY Zenon DEF ReadFrame
<1>5. /\ down[c] \in Seq(Frames) /\ f \in Frames /\ f = down[c][1] /\ 1 \in DOMAIN down[c]
      /\ Tail(down[c]) \in Seq(Frames)
      /\ \A i \in DOMAIN Tail(down[c]) : i + 1 \in DOMAIN down[c] /\ i + 1 # 1
                                         /\ Tail(down[c])[i] = down[c][i + 1]
  <2>1. PICK s \in Seq(Frames) : s = down[c]
    BY Zenon, <1>1 DEF ClientType
  <2>2. s # <<>> /\ f = Head(s)
    BY Zenon, <2>1, <1>2, <1>4
  <2>3. /\ f \in Frames /\ f = s[1] /\ 1 \in DOMAIN s /\ Tail(s) \in Seq(Frames)
        /\ \A i \in DOMAIN Tail(s) : i + 1 \in DOMAIN s /\ i + 1 # 1 /\ Tail(s)[i] = s[i + 1]
    BY <2>2
  <2> QED
    BY Zenon, <2>1, <2>3
<1>6. p \in Callers /\ f.id \in Callers \X Nat /\ f.arg \in Nat
  BY Zenon, <1>3, <1>5 DEF Frames
<1>7. /\ \A d \in Conns : down'[d] = IF d = c THEN Tail(down[d]) ELSE down[d]
      /\ down' \in [Conns -> Seq(Frames)]
  BY Zenon, <1>1, <1>4, <1>5 DEF ClientType
<1>8. FramesMove(0, 0) /\ 0 \notin Conns
  BY SMTT(30), <1>4, <1>7 DEF FramesMove, Conns
<1>9. RequestsMove /\ TxnsMove /\ txn' = txn /\ work' = work /\ UNCHANGED server
  BY Zenon, <1>1, <1>4 DEF RequestsMove, TxnsMove, Owns, ClientInv, NumbersUsed, IdsExclusive, server
<1>10. CASE f.id \notin pend[c]
  <2>1. app' = app /\ pend' = pend
    BY Zenon, <1>2, <1>10 DEF ReadFrame
  <2>2. ClientType'
    BY Zenon, <1>1, <1>7, <1>9, <2>1 DEF ClientType
  <2>3. \A q \in Callers : CallerMoves(q) /\ app'[q].n = app[q].n
    BY Zenon, <2>1 DEF CallerMoves
  <2>4. ClientInv'
    BY Zenon, <1>1, <1>8, <1>9, <2>1, <2>2, <2>3, ClientMoves
  <2>5. \A q \in Units : Finished(q) => Finished(q)'
    BY Zenon, <1>9, <2>1 DEF Finished
  <2>6. ServerType' /\ ServerInv'
    BY Zenon, <1>1, <1>9, <2>5, ServerRests
  <2> QED
    BY Zenon, <2>2, <2>4, <2>6 DEF RpcInv
<1>11. CASE f.id \in pend[c]
  <2>1. PICK b : b = Delivered(app[p], f)
    BY Zenon
  <2>2. /\ app' = [app EXCEPT ![p] = b]
        /\ pend' = [pend EXCEPT ![c] = IF IsStream(f.id) /\ f.st # "end" THEN @ ELSE @ \ {f.id}]
    BY Zenon, <1>2, <1>3, <1>11, <2>1 DEF ReadFrame
  <2>3. pend' \in [Conns -> SUBSET (Callers \X Nat)] /\ \A d \in Conns : pend'[d] \subseteq pend[d]
    BY Zenon, <1>1, <2>2 DEF ClientType
  <2>4. \A q \in Callers : app'[q] = IF q = p THEN b ELSE app[q]
    BY Zenon, <1>1, <2>2 DEF ClientType
  <2>5. IsApp(app[p])
    BY Zenon, <1>1, <1>6 DEF ClientType
  <2>6. ASSUME IsApp(b), b.n = app[p].n,
               p \in Unary => app[p].at = "wait",
               CallerMoves(p) \/ CallerTold(p)
        PROVE  RpcInv'
    <3>1. app' = [q \in Callers |-> app'[q]] /\ \A q \in Callers : IsApp(app'[q])
      BY Zenon, <1>1, <2>2, <2>4, <2>6 DEF ClientType
    <3>2. ClientType'
      BY Zenon, <1>1, <1>7, <1>9, <2>3, <3>1 DEF ClientType
    <3>3. \A q \in Callers : app'[q].n = app[q].n
      BY Zenon, <2>4, <2>6
    <3>4. \A q \in Callers \ {p} : CallerMoves(q)
      BY Zenon, <2>4 DEF CallerMoves
    <3>5. ClientInv'
      BY Zenon, <1>1, <1>8, <1>9, <2>3, <2>6, <3>2, <3>3, <3>4, ClientMoves
    <3>6. \A q \in Units : Finished(q) => Finished(q)'
      BY Zenon, <1>9, <2>4, <2>6, Constants DEF Finished
    <3>7. ServerType' /\ ServerInv'
      BY Zenon, <1>1, <1>9, <3>6, ServerRests
    <3> QED
      BY Zenon, <3>2, <3>5, <3>7 DEF RpcInv
  <2>7. CASE p \in Streams
    <3>1. IsApp(b) /\ b.n = app[p].n /\ b.txn = app[p].txn
      BY <1>3, <2>1, <2>5, <2>7, DeliveredToStream
    <3>2. p \notin Unary /\ app[p].txn = None
      BY Zenon, <1>1, <1>6, <2>7 DEF Unary, ClientInv, IdsExclusive
    <3>3. CallerMoves(p)
      BY Zenon, <1>6, <2>4, <3>1, <3>2 DEF CallerMoves
    <3> QED
      BY Zenon, <2>6, <3>1, <3>2, <3>3
  <2>8. CASE p \notin Streams
    <3>1. p \in Unary /\ ~IsStream(f.id)
      BY Zenon, <1>3, <1>6, <2>8 DEF Unary, IsStream
    <3>2. b = Returned(p, app[p], f.st, f.arg)
      BY Zenon, <1>3, <2>1, <2>8, <3>1 DEF Delivered
    <3>3. /\ IsApp(b) /\ b.n = app[p].n
          /\ b.at \in {"begin", "set", "end", "done"}
          /\ b.txn \in {None, app[p].txn, f.arg}
      BY <1>6, <2>5, <3>2, ReturnedApp
    <3>4. app[p].at = "wait" /\ app[p].n = f.id[2] /\ app[p].conn = c
      BY Zenon, <1>1, <1>3, <1>11, <3>1 DEF ClientInv, CallsAwaited
    <3>5. ASSUME NEW d \in Conns, NEW id \in pend'[d], id[1] = p PROVE FALSE
      <4>1. id \in pend[d] /\ id \in Callers \X Nat
        BY Zenon, <2>3, <3>5
      <4>2. app[p].n = id[2] /\ app[p].conn = d
        BY Zenon, <1>1, <3>1, <3>5, <4>1 DEF ClientInv, CallsAwaited
      <4>3. id = f.id /\ d = c
        <5>1. id = <<id[1], id[2]>> /\ f.id = <<f.id[1], f.id[2]>>
          BY <1>6, <4>1
        <5> QED
          BY Zenon, <1>3, <3>4, <3>5, <4>2, <5>1
      <4>4. pend'[c] = pend[c] \ {f.id}
        BY Zenon, <1>1, <2>2, <3>1 DEF ClientType
      <4> QED
        BY Zenon, <3>5, <4>3, <4>4
    <3>6. app[p].txn = None \/ \A h \in work : h.t # app[p].txn
      <4> SUFFICES ASSUME app[p].txn # None, NEW h \in work, h.t = app[p].txn PROVE FALSE
        OBVIOUS
      <4>1. h.p = p /\ h.n = app[p].n
        BY Zenon, <1>1, <1>6, <3>4 DEF ClientInv, IdsExclusive
      <4>2. Id(h) = f.id
        BY SMTT(30), <1>3, <1>6, <3>4, <4>1 DEF Id
      <4> QED
        BY Zenon, <1>1, <1>3, <1>5, <3>1, <4>2 DEF ClientInv, NumbersUsed
    <3>7. CASE b.txn \in {None, app[p].txn}
      <4>1. CallerMoves(p)
        BY Zenon, <1>6, <2>4, <3>3, <3>5, <3>6, <3>7 DEF CallerMoves
      <4> QED
        BY Zenon, <2>6, <3>3, <3>4, <4>1
    <3>8. CASE b.txn = f.arg /\ f.arg # None
      <4>1. /\ f.arg \in DOMAIN txn
            /\ \A h \in work : h.t # f.arg
            /\ \A q \in Callers : app[q].txn # f.arg
            /\ \A d \in Conns : \A j \in DOMAIN down[d] : down[d][j].arg = f.arg => d = c /\ j = 1
        BY SMTT(30), <1>1, <1>5, <3>8 DEF ClientInv, IdsUnderWay
      <4>2. Owns(p, f.arg)
        BY Zenon, <1>1, <1>3, <1>5, <3>8 DEF ClientInv, Ownership
      <4>3. ASSUME NEW d \in Conns, NEW i \in DOMAIN down'[d] PROVE down'[d][i].arg # f.arg
        <5>1. CASE d = c
          <6>1. down'[d] = Tail(down[c])
            BY Zenon, <1>7, <5>1
          <6> QED
            BY <1>5, <4>1, <4>3, <5>1, <6>1
        <5>2. CASE d # c
          <6>1. down'[d] = down[d]
            BY Zenon, <1>7, <5>2
          <6> QED
            BY Zenon, <4>1, <4>3, <5>2, <6>1
        <5> QED
          BY Zenon, <5>1, <5>2
      <4>4. app'[p] = b
        BY Zenon, <1>6, <2>4
      <4>5. CallerTold(p)
        BY Zenon, <3>1, <3>3, <3>5, <3>8, <4>1, <4>2, <4>3, <4>4 DEF CallerTold
      <4> QED
        BY Zenon, <2>6, <3>3, <3>4, <4>5
    <3> QED
      BY Zenon, <3>3, <3>7, <3>8
  <2> QED
    BY Zenon, <2>7, <2>8
<1> QED
  BY Zenon, <1>10, <1>11

\* failAll: every call registered with the connection is answered with its error.
LEMMA FailAllStep ==
  ASSUME RpcInv, NEW c \in Conns, FailAll(c)
  PROVE  RpcInv'
<1>1. ClientType /\ ServerType /\ ClientInv /\ ServerInv
  BY Zenon DEF RpcInv
<1>2. /\ pend' = [pend EXCEPT ![c] = {}] /\ down' = [down EXCEPT ![c] = <<>>]
      /\ UNCHANGED <<work, server>>
  BY Zenon DEF FailAll
<1>3. app' = [p \in Callers |-> app'[p]]
  BY Zenon DEF FailAll
<1>4. /\ down' \in [Conns -> Seq(Frames)] /\ FramesMove(0, 0) /\ 0 \notin Conns
      /\ pend' \in [Conns -> SUBSET (Callers \X Nat)]
      /\ \A d \in Conns : pend'[d] = IF d = c THEN {} ELSE pend[d]
  BY SMTT(30), <1>1, <1>2 DEF ClientType, FramesMove, Conns
<1>5. RequestsMove /\ TxnsMove /\ txn' = txn /\ work' = work /\ UNCHANGED server
  BY Zenon, <1>1, <1>2 DEF RequestsMove, TxnsMove, Owns, ClientInv, NumbersUsed, IdsExclusive, server
<1>6. ASSUME NEW p \in Callers
      PROVE  /\ IsApp(app'[p]) /\ app'[p].n = app[p].n /\ CallerMoves(p)
             /\ p \in Unary /\ app[p].at = "done" => app'[p].at = "done"
  <2>1. IsApp(app[p])
    BY Zenon, <1>1 DEF ClientType
  <2>2. CASE {id \in pend[c] : id[1] = p} = {}
    <3>1. app'[p] = app[p]
      BY Zenon, <2>2 DEF FailAll
    <3> QED
      BY Zenon, <2>1, <3>1 DEF CallerMoves
  <2>3. CASE {id \in pend[c] : id[1] = p} # {} /\ p \in Unary
    <3>1. PICK b : b = Closed(p, app[p])
      BY Zenon
    <3>2. app'[p] = b
      BY Zenon, <2>3, <3>1 DEF FailAll, Unary
    <3>3. /\ IsApp(b) /\ b.n = app[p].n
          /\ \/ b.at = "dial" /\ b.txn = None
             \/ b.at = "done" /\ b.txn = app[p].txn
      BY Zenon, <2>1, <3>1, ClosedApp
    <3>4. app[p].at = "wait" /\ app[p].conn = c
      BY <1>1, <2>3 DEF ClientInv, CallsAwaited
    <3>5. \A d \in Conns : \A id \in pend'[d] : id[1] # p
      BY SMTT(30), <1>1, <1>4, <2>3, <3>4 DEF ClientInv, CallsAwaited
    <3>6. CallerMoves(p)
      BY Zenon, <3>2, <3>3, <3>5 DEF CallerMoves
    <3> QED
      BY Zenon, <3>2, <3>3, <3>4, <3>6
  <2>4. CASE {id \in pend[c] : id[1] = p} # {} /\ p \notin Unary
    <3>1. PICK v : v = (app[p].closed \/ \E id \in {i \in pend[c] : i[1] = p} : IsStream(id))
      BY Zenon
    <3>2. PICK w : w = IF \E id \in {i \in pend[c] : i[1] = p} : ~IsStream(id) THEN "done" ELSE app[p].stop
      BY Zenon
    <3>3. app'[p] = [app[p] EXCEPT !.closed = v, !.stop = w]
      BY Zenon, <2>4, <3>1, <3>2 DEF FailAll, Unary
    <3>4. IsApp(app'[p]) /\ app'[p].n = app[p].n /\ app'[p].txn = app[p].txn
      BY Zenon, <2>1, <3>3 DEF IsApp, AppFields
    <3>5. app[p].txn = None
      BY Zenon, <1>1, <2>4 DEF ClientInv, IdsExclusive
    <3> QED
      BY Zenon, <2>4, <3>4, <3>5 DEF CallerMoves
  <2> QED
    BY Zenon, <2>2, <2>3, <2>4
<1>7. ClientType'
  BY Zenon, <1>1, <1>3, <1>4, <1>5, <1>6 DEF ClientType
<1>8. ClientInv'
  BY Zenon, <1>1, <1>4, <1>5, <1>6, <1>7, ClientMoves
<1>9. \A p \in Units : Finished(p) => Finished(p)'
  BY Zenon, <1>5, <1>6, Constants DEF Finished
<1>10. ServerType' /\ ServerInv'
  BY Zenon, <1>1, <1>5, <1>9, ServerRests
<1> QED
  BY Zenon, <1>7, <1>8, <1>10 DEF RpcInv

-----------------------------------------------------------------------------
(* The server's goroutines and the client half. *)

\* A goroutine ends, or goes on under its request's id, which is no one else's.
LEMMA RequestGoesOn ==
  ASSUME ClientType, ClientInv, NEW h \in work, NEW G, G \subseteq Requests,
         \A g \in G : g.p = h.p /\ g.n = h.n /\ g.t = h.t,
         \A g, k \in G : g = k,
         work' = (work \ {h}) \cup G
  PROVE  /\ RequestsMove
         /\ work' \subseteq Requests
         /\ h.p \in Unary => \A g \in work \ {h} : Id(g) # Id(h)
<1>1. \A g \in work \ {h} : h.p \in Unary => ~(g.p = h.p /\ g.n = h.n)
  BY Zenon DEF ClientInv, NumbersUsed
<1>2. \A g \in work' : g.p \in Unary => \E k \in work : k.p = g.p /\ k.n = g.n /\ k.t = g.t
  OBVIOUS
<1>3. \A g, k \in work' : g.p \in Unary /\ g.p = k.p /\ g.n = k.n => g = k
  BY ZenonT(40), <1>1 DEF ClientInv, NumbersUsed
<1>4. \A g \in work' : g.t # None => g.p \in Unary
  BY Zenon DEF ClientInv, IdsExclusive
<1>5. work' \subseteq Requests
  BY Zenon DEF ClientType
<1>6. ASSUME h.p \in Unary, NEW g \in work \ {h}, Id(g) = Id(h) PROVE FALSE
  <2>1. g.p = h.p /\ g.n = h.n
    BY Zenon, <1>6 DEF Id
  <2> QED
    BY Zenon, <1>1, <1>6, <2>1
<1> QED
  BY Zenon, <1>2, <1>3, <1>4, <1>5, <1>6 DEF RequestsMove

\* What a goroutine may do to the client half: write a frame to its connection.
LEMMA ServerKeepsClient ==
  ASSUME ClientType, ClientInv, NEW h \in work, UNCHANGED client,
         work' \subseteq Requests, RequestsMove, TxnsMove,
         NEW st \in {"ok", "err", "conflict", "row", "end"}, NEW arg \in Nat,
         \/ down' = down
         \/ /\ down' = Out(h, st, arg)
            /\ h.p \in Unary => \A g \in work' : Id(g) # Id(h)
            /\ arg # None => arg \in DOMAIN txn' \ DOMAIN txn /\ txn'[arg].p = h.p
  PROVE  ClientType' /\ ClientInv'
<1>1. app' = app /\ pend' = pend
  BY Zenon DEF client
<1>2. PICK f : f = [id |-> Id(h), st |-> st, arg |-> arg]
  BY Zenon
<1>3. h.p \in Callers /\ h.n \in Nat
  BY Zenon DEF ClientType, Requests
<1>4. f \in Frames /\ f.id = Id(h) /\ f.id[1] = h.p /\ f.id[2] = h.n /\ f.arg = arg
  BY Zenon, <1>2, <1>3 DEF Frames, Id
<1>5. CASE down' = down
  <2>1. ClientType'
    BY Zenon, <1>1, <1>5 DEF ClientType
  <2>2. FramesMove(0, 0) /\ 0 \notin Conns
    BY SMTT(30), <1>5 DEF FramesMove, Conns
  <2>3. \A q \in Callers : CallerMoves(q) /\ app'[q].n = app[q].n
    BY Zenon, <1>1 DEF CallerMoves
  <2> QED
    BY Zenon, <1>1, <2>1, <2>2, <2>3, ClientMoves
<1>6. CASE /\ down' = Out(h, st, arg)
           /\ h.p \in Unary => \A g \in work' : Id(g) # Id(h)
           /\ arg # None => arg \in DOMAIN txn' \ DOMAIN txn /\ txn'[arg].p = h.p
  <2>1. \A c \in Conns : down'[c] = down[c] \/ (c = h.c /\ down'[c] = Append(down[c], f))
    BY Zenon, <1>2, <1>6 DEF Out, ClientType
  <2>2. down' \in [Conns -> Seq(Frames)]
    <3>1. \A c \in Conns : Append(down[c], f) \in Seq(Frames)
      BY <1>4 DEF ClientType
    <3> QED
      BY Zenon, <1>2, <1>6, <3>1 DEF Out, ClientType
  <2>3. ClientType'
    BY Zenon, <1>1, <2>2 DEF ClientType
  <2>4. FramesMove(h.c, f)
    BY Zenon, <2>1 DEF FramesMove
  <2>5. h.p \in Unary => h.n <= app'[h.p].n
    BY Zenon, <1>1 DEF ClientInv, NumbersUsed
  <2>6. FrameFits(f)
    BY Zenon, <1>4, <1>6, <2>5 DEF FrameFits, Owns
  <2>7. \A q \in Callers : CallerMoves(q) /\ app'[q].n = app[q].n
    BY Zenon, <1>1 DEF CallerMoves
  <2> QED
    BY Zenon, <1>1, <2>3, <2>4, <2>6, <2>7, ClientMoves
<1> QED
  BY Zenon, <1>5, <1>6

\* A request is answered and its goroutine ends.
LEMMA AnswerKeepsClient ==
  ASSUME ClientType, ClientInv, NEW h \in work, UNCHANGED client, TxnsMove,
         NEW st \in {"ok", "err", "conflict", "row", "end"}, NEW arg \in Nat, Answer(h, st, arg),
         arg # None => arg \in DOMAIN txn' \ DOMAIN txn /\ txn'[arg].p = h.p
  PROVE  ClientType' /\ ClientInv'
<1>1. down' = Out(h, st, arg) /\ work' = work \ {h}
  BY Zenon DEF Answer
<1>2. RequestsMove /\ work' \subseteq Requests /\ (h.p \in Unary => \A g \in work' : Id(g) # Id(h))
  <2>1. PICK G : G = {}
    BY Zenon
  <2>2. work' = (work \ {h}) \cup G /\ G \subseteq Requests
    BY Zenon, <1>1, <2>1
  <2> QED
    BY Zenon, <1>1, <2>1, <2>2, RequestGoesOn
<1>3. \/ down' = down
      \/ /\ down' = Out(h, st, arg)
         /\ h.p \in Unary => \A g \in work' : Id(g) # Id(h)
         /\ arg # None => arg \in DOMAIN txn' \ DOMAIN txn /\ txn'[arg].p = h.p
  BY Zenon, <1>1, <1>2
<1> QED
  BY Zenon, <1>2, <1>3, ServerKeepsClient

\* A goroutine goes on to its next state.
LEMMA GotoKeepsClient ==
  ASSUME ClientType, ClientInv, NEW h \in work, UNCHANGED client, TxnsMove,
         NEW g \in Requests, g.p = h.p, g.n = h.n, g.t = h.t, Goto(h, g)
  PROVE  ClientType' /\ ClientInv'
<1>1. down' = down /\ work' = (work \ {h}) \cup {g}
  BY Zenon DEF Goto
<1>2. RequestsMove /\ work' \subseteq Requests
  <2>1. PICK G : G = {g}
    BY Zenon
  <2>2. work' = (work \ {h}) \cup G /\ G \subseteq Requests
    BY Zenon, <1>1, <2>1
  <2> QED
    BY SMTT(30), <2>1, <2>2, RequestGoesOn
<1>3. ASSUME NEW st \in {"ok", "err", "conflict", "row", "end"}, NEW arg \in Nat
      PROVE  ClientType' /\ ClientInv'
  BY Zenon, <1>1, <1>2, <1>3, ServerKeepsClient
<1>4. "ok" \in {"ok", "err", "conflict", "row", "end"} /\ 0 \in Nat
  OBVIOUS
<1> QED
  BY Zenon, <1>3, <1>4

-----------------------------------------------------------------------------
(* Goroutines that leave the server's transactions and tables alone. *)

\* Transactions that are not touched keep their owners.
LEMMA TxnsRest ==
  ASSUME txn' = txn
  PROVE  TxnsMove
BY Zenon DEF TxnsMove, Owns

\* A unit that is over stays over while its caller and its requests rest.
LEMMA FinishedRests ==
  ASSUME app' = app, \A g \in work' : \E h \in work : h.p = g.p
  PROVE  \A p \in Units : Finished(p) => Finished(p)'
BY Zenon DEF Finished

\* The server's state is untouched, and whoever holds a transaction held it before.
LEMMA ServerIdles ==
  ASSUME RpcInv, UNCHANGED client, UNCHANGED server, ClientType', ClientInv',
         \A g \in work' : g \in work \/ RequestFits(g),
         \A g \in work' : \E h \in work : h.p = g.p
  PROVE  RpcInv'
<1>1. \A p \in Units : Finished(p) => Finished(p)'
  BY Zenon, FinishedRests DEF client
<1>2. ServerType' /\ ServerInv'
  BY Zenon, <1>1, ServerRests DEF RpcInv
<1> QED
  BY Zenon, <1>2 DEF RpcInv

\* A request answered with no effect on the server.
LEMMA AnswerStep ==
  ASSUME RpcInv, NEW h \in work, NEW st \in {"ok", "err", "conflict", "row", "end"},
         Answer(h, st, None), UNCHANGED client, UNCHANGED server
  PROVE  RpcInv'
<1>1. TxnsMove
  BY Zenon, TxnsRest DEF server
<1>2. PICK arg : arg = None
  BY Zenon
<1>3. arg \in Nat /\ Answer(h, st, arg)
  BY Zenon, <1>2 DEF None
<1>4. ClientType' /\ ClientInv'
  BY Zenon, <1>1, <1>2, <1>3, AnswerKeepsClient DEF RpcInv
<1>5. work' \subseteq work
  BY Zenon DEF Answer
<1> QED
  BY Zenon, <1>4, <1>5, ServerIdles

\* A request that goes on with no effect on the server.
LEMMA GotoStep ==
  ASSUME RpcInv, NEW h \in work, NEW g \in Requests, g.p = h.p, g.n = h.n, g.t = h.t,
         Goto(h, g), RequestFits(g), UNCHANGED client, UNCHANGED server
  PROVE  RpcInv'
<1>1. TxnsMove
  BY Zenon, TxnsRest DEF server
<1>2. ClientType' /\ ClientInv'
  BY Zenon, <1>1, GotoKeepsClient DEF RpcInv
<1>3. \A k \in work' : k \in work \/ k = g
  BY Zenon DEF Goto
<1> QED
  BY Zenon, <1>2, <1>3, ServerIdles

\* withTxn looks the transaction up, or answers that it is unknown.
LEMMA LoadStep ==
  ASSUME RpcInv, NEW h \in work, Load(h)
  PROVE  RpcInv'
<1>1. h \in Requests
  BY Zenon DEF RpcInv, ClientType
<1>2. UNCHANGED client /\ UNCHANGED server
  BY Zenon DEF Load
<1>3. CASE h.t \in live
  <2>1. PICK g : g = [h EXCEPT !.at = "held"]
    BY Zenon
  <2>2. g \in Requests /\ g.p = h.p /\ g.n = h.n /\ g.t = h.t /\ g.op = h.op /\ g.at = "held"
    BY Zenon, <1>1, <2>1 DEF Requests, Places
  <2>3. h.t # None
    BY Zenon, <1>3, TxnFacts DEF RpcInv, ServerType
  <2>4. RequestFits(g)
    BY Zenon, <2>2, <2>3 DEF RequestFits, OfStream, Load
  <2> QED
    BY Zenon, <1>2, <1>3, <2>1, <2>2, <2>4, GotoStep DEF Load
<1>4. CASE h.t \notin live
  <2>1. Answer(h, "err", None)
    BY Zenon, <1>4 DEF Load
  <2>2. "err" \in {"ok", "err", "conflict", "row", "end"}
    BY Zenon
  <2> QED
    BY Zenon, <1>2, <2>1, <2>2, AnswerStep
<1> QED
  BY Zenon, <1>3, <1>4

\* A stream's frame is written and its goroutine goes on: no call waits for it.
LEMMA StreamFrame ==
  ASSUME RpcInv, NEW h \in work, OfStream(h), h.at \in {"run", "on"}, NEW G, G \subseteq {[h EXCEPT !.rows = @ + 1]},
         NEW st \in {"row", "end"}, down' = Out(h, st, None), work' = (work \ {h}) \cup G,
         UNCHANGED client, UNCHANGED server
  PROVE  RpcInv'
<1>1. ClientType /\ ClientInv /\ h \in Requests /\ h.p \notin Unary
  BY Zenon DEF RpcInv, ClientType, ServerInv, Holders
<1>2. PICK n \in Nat : n = h.rows + 1
  BY <1>1 DEF Requests
<1>3. \A g \in G : g \in Requests /\ g.p = h.p /\ g.n = h.n /\ g.t = h.t /\ g.op = h.op /\ g.at = h.at
  <2>1. \A g \in G : g = [h EXCEPT !.rows = n]
    BY Zenon, <1>2
  <2> QED
    BY <1>1, <1>2, <2>1 DEF Requests
<1>4. G \subseteq Requests /\ \A g, k \in G : g = k
  BY Zenon, <1>3
<1>5. RequestsMove /\ work' \subseteq Requests
  <2>1. \A g \in G : g.p = h.p /\ g.n = h.n /\ g.t = h.t
    BY Zenon, <1>3
  <2> QED
    BY Zenon, <1>1, <1>4, <2>1, RequestGoesOn
<1>6. TxnsMove
  BY Zenon, TxnsRest DEF server
<1>7. PICK arg : arg = None
  BY Zenon
<1>8. arg \in Nat /\ down' = Out(h, st, arg)
  BY Zenon, <1>7 DEF None
<1>9. ClientType' /\ ClientInv'
  BY Zenon, <1>1, <1>5, <1>6, <1>7, <1>8, ServerKeepsClient
<1>10. \A g \in G : RequestFits(g)
  BY Zenon, <1>1, <1>3 DEF RequestFits, OfStream, RpcInv, ServerInv, Holders
<1>11. \A g \in work' : g \in work \/ RequestFits(g)
  BY Zenon, <1>10
<1>12. \A g \in work' : \E k \in work : k.p = g.p
  BY Zenon, <1>3
<1> QED
  BY Zenon, <1>9, <1>11, <1>12, ServerIdles

\* streamQuery and streamWatch: rows, events, the end.
LEMMA StreamSteps ==
  ASSUME RpcInv, NEW h \in work,
         StreamRow(h) \/ StreamDone(h) \/ WatchStart(h) \/ WatchSend(h) \/ WatchDone(h)
  PROVE  RpcInv'
<1>1. h \in Requests /\ UNCHANGED client /\ UNCHANGED server
  BY Zenon DEF RpcInv, ClientType, StreamRow, StreamDone, WatchStart, WatchSend, WatchDone
<1>2. "end" \in {"ok", "err", "conflict", "row", "end"}
  BY Zenon
<1>3. CASE StreamRow(h) \/ WatchSend(h)
  <2>1. PICK G : G = {[h EXCEPT !.rows = @ + 1]}
    BY Zenon
  <2>2. /\ OfStream(h) /\ h.at \in {"run", "on"} /\ down' = Out(h, "row", None)
        /\ work' = (work \ {h}) \cup G /\ G \subseteq {[h EXCEPT !.rows = @ + 1]}
    BY Zenon, <1>3, <2>1 DEF StreamRow, WatchSend, OfStream
  <2>3. PICK st : st = "row"
    BY Zenon
  <2>4. st \in {"row", "end"} /\ down' = Out(h, st, None)
    BY Zenon, <2>2, <2>3
  <2> QED
    BY Zenon, <1>1, <2>2, <2>4, StreamFrame
<1>4. CASE StreamDone(h)
  <2>1. CASE Answer(h, "end", None)
    BY Zenon, <1>1, <1>2, <2>1, AnswerStep
  <2>2. CASE work' = work \ {h} /\ UNCHANGED down
    <3>1. PICK G : G = {}
      BY Zenon
    <3>2. work' = (work \ {h}) \cup G /\ G \subseteq Requests
      BY Zenon, <2>2, <3>1
    <3>3. RequestsMove /\ work' \subseteq Requests
      BY <3>1, <3>2, RequestGoesOn DEF RpcInv
    <3>4. TxnsMove
      BY Zenon, <1>1, TxnsRest DEF server
    <3>5. ASSUME NEW st \in {"ok", "err", "conflict", "row", "end"}, NEW arg \in Nat
          PROVE  ClientType' /\ ClientInv'
      BY Zenon, <1>1, <2>2, <3>3, <3>4, <3>5, ServerKeepsClient DEF RpcInv
    <3>6. ClientType' /\ ClientInv'
      BY Zenon, <1>2, <3>5, Zenon DEF None
    <3>7. work' \subseteq work
      BY Zenon, <2>2
    <3> QED
      BY Zenon, <1>1, <3>6, <3>7, ServerIdles
  <2> QED
    BY Zenon, <1>4, <2>1, <2>2 DEF StreamDone
<1>5. CASE WatchStart(h)
  <2>1. PICK g : g = [h EXCEPT !.at = "on"]
    BY Zenon
  <2>2. g \in Requests /\ g.p = h.p /\ g.n = h.n /\ g.t = h.t /\ g.op = h.op /\ g.at = "on"
    BY Zenon, <1>1, <2>1 DEF Requests, Places
  <2>3. h.op = "watch" /\ h.p \notin Unary /\ Goto(h, g)
    BY Zenon, <1>5, <2>1 DEF WatchStart, OfStream, RpcInv, ServerInv, Holders
  <2>4. RequestFits(g)
    BY Zenon, <2>2, <2>3 DEF RequestFits, OfStream
  <2> QED
    BY Zenon, <1>1, <2>2, <2>3, <2>4, GotoStep
<1>6. CASE WatchDone(h)
  BY Zenon, <1>1, <1>2, <1>6, AnswerStep DEF WatchDone
<1> QED
  BY Zenon, <1>3, <1>4, <1>5, <1>6

\* opWatchStop turns its caller's feed off and answers.
LEMMA StopWatchStep ==
  ASSUME RpcInv, NEW h \in work, StopWatch(h)
  PROVE  RpcInv'
<1> DEFINE Off(g) == IF g.p = h.p /\ g.op = "watch" /\ Id(g) \in conn[h.c].watches
                     THEN [g EXCEPT !.at = "off"] ELSE g
<1>1. /\ down' = Out(h, "ok", None) /\ work' = {Off(g) : g \in work \ {h}}
      /\ UNCHANGED client /\ UNCHANGED server
  BY Zenon DEF StopWatch
<1>2. ClientType /\ ClientInv /\ work \subseteq Requests
  BY Zenon DEF RpcInv, ClientType
<1>3. h.p \notin Unary
  BY Zenon DEF RpcInv, ServerInv, Holders, OfStream, StopWatch
<1>4. ASSUME NEW g \in work
      PROVE  /\ Off(g) \in Requests /\ Off(g).p = g.p /\ Off(g).n = g.n /\ Off(g).t = g.t
             /\ g.p \in Unary => Off(g) = g
             /\ Off(g) = g \/ RequestFits(Off(g))
  <2>1. g \in Requests
    BY Zenon, <1>2
  <2>2. CASE g.p = h.p /\ g.op = "watch" /\ Id(g) \in conn[h.c].watches
    <3>1. Off(g) = [g EXCEPT !.at = "off"]
      BY Zenon, <2>2
    <3>2. PICK k : k = [g EXCEPT !.at = "off"]
      BY Zenon
    <3>3. /\ k \in Requests /\ k.p = g.p /\ k.n = g.n /\ k.t = g.t /\ k.op = "watch" /\ k.at = "off"
      BY Zenon, <2>1, <2>2, <3>2 DEF Requests, Places
    <3>4. RequestFits(k)
      BY Zenon, <1>3, <2>2, <3>3 DEF RequestFits, OfStream
    <3> QED
      BY Zenon, <1>3, <2>2, <3>1, <3>2, <3>3, <3>4
  <2>3. CASE ~(g.p = h.p /\ g.op = "watch" /\ Id(g) \in conn[h.c].watches)
    <3>1. Off(g) = g
      BY Zenon, <2>3
    <3> QED
      BY Zenon, <2>1, <3>1
  <2> QED
    BY Zenon, <2>2, <2>3
<1> HIDE DEF Off
<1>5. ASSUME NEW g \in work'
      PROVE  /\ g \in Requests
             /\ \E k \in work : k.p = g.p /\ k.n = g.n /\ k.t = g.t
             /\ g.p \in Unary => g \in work
             /\ g \in work \/ RequestFits(g)
  <2>1. PICK k \in work : g = Off(k)
    BY Zenon, <1>1, <1>5
  <2> QED
    BY Zenon, <1>4, <2>1
<1>6. RequestsMove
  <2>1. \A g, k \in work' : g.p \in Unary /\ g.p = k.p /\ g.n = k.n => g = k
    BY Zenon, <1>2, <1>5 DEF ClientInv, NumbersUsed
  <2>2. \A g \in work' : g.t # None => g.p \in Unary
    BY Zenon, <1>2, <1>5 DEF ClientInv, IdsExclusive
  <2> QED
    BY Zenon, <1>5, <2>1, <2>2 DEF RequestsMove
<1>7. TxnsMove
  BY Zenon, <1>1, TxnsRest DEF server
<1>8. PICK st : st = "ok"
  BY Zenon
<1>9. PICK arg : arg = None
  BY Zenon
<1>10. /\ st \in {"ok", "err", "conflict", "row", "end"} /\ arg \in Nat
       /\ down' = Out(h, st, arg) /\ work' \subseteq Requests
  BY Zenon, <1>1, <1>5, <1>8, <1>9 DEF None
<1>11. ClientType' /\ ClientInv'
  BY Zenon, <1>1, <1>2, <1>3, <1>6, <1>7, <1>9, <1>10, ServerKeepsClient
<1> QED
  BY Zenon, <1>1, <1>5, <1>11, ServerIdles

-----------------------------------------------------------------------------
(* Transactions that end. *)

\* The transactions of E are over, the others as they were.
Ended(E) == txn' = [t \in DOMAIN txn |-> IF t \in E THEN Over ELSE txn[t]]

\* Ending transactions keeps their numbers, types and owners.
LEMMA EndedTxns ==
  ASSUME ServerType, NEW E, Ended(E)
  PROVE  /\ txn' \in Seq(OpenTxns \cup {Over})
         /\ DOMAIN txn' = DOMAIN txn
         /\ \A t \in DOMAIN txn : txn'[t] = IF t \in E THEN Over ELSE txn[t]
         /\ TxnsMove
<1>1. txn \in Seq(OpenTxns \cup {Over})
  BY Zenon DEF ServerType
<1>2. DOMAIN txn = 1 .. Len(txn) /\ Len(txn) \in Nat
  BY <1>1
<1>3. \A t \in DOMAIN txn : txn[t] \in OpenTxns \cup {Over}
  BY <1>1
<1>4. txn' \in [1 .. Len(txn) -> OpenTxns \cup {Over}]
  BY Zenon, <1>2, <1>3 DEF Ended
<1>5. txn' \in Seq(OpenTxns \cup {Over})
  BY <1>2, <1>4
<1>6. DOMAIN txn' = DOMAIN txn /\ \A t \in DOMAIN txn : txn'[t] = IF t \in E THEN Over ELSE txn[t]
  BY Zenon DEF Ended
<1>7. TxnsMove
  BY Zenon, <1>6 DEF TxnsMove, Owns
<1> QED
  BY Zenon, <1>5, <1>6, <1>7

\* One transaction ended by an assignment to its entry.
LEMMA EndedOne ==
  ASSUME ServerType, NEW t \in DOMAIN txn, txn' = [txn EXCEPT ![t] = Over]
  PROVE  Ended({t})
<1>1. txn = [i \in DOMAIN txn |-> txn[i]]
  <2>1. txn \in Seq(OpenTxns \cup {Over})
    BY Zenon DEF ServerType
  <2> QED
    BY <2>1
<1> QED
  BY Zenon, <1>1 DEF Ended

\* Whoever gives transactions up took them from the map, or holds them before it
\* has applied a write: none of their changes is in a table.
LEMMA GivenUp ==
  ASSUME ServerType, ServerInv, NEW E \in SUBSET DOMAIN txn, Ended(E),
         live' = live \ E, aborted' = aborted \cup E, UNCHANGED <<store, clock, disk>>,
         work' \subseteq work, app' = app,
         \A t \in E : t \in live \/ \E h \in work : h.at = "check" /\ h.t = t,
         \A g \in work' : g.at \in {"check", "mark", "apply"} => g.t \notin E
  PROVE  ServerType' /\ ServerInv'
<1>1. /\ txn' \in Seq(OpenTxns \cup {Over})
      /\ DOMAIN txn' = DOMAIN txn
      /\ \A t \in DOMAIN txn : txn'[t] = IF t \in E THEN Over ELSE txn[t]
  BY Zenon, EndedTxns
<1>2. ServerType'
  BY Zenon, <1>1 DEF ServerType
<1>3. \A p \in Units : Finished(p) => Finished(p)'
  BY Zenon, FinishedRests
<1>4. Holders'
  <2>1. ASSUME NEW g \in Committing'
        PROVE  g.t \in DOMAIN txn \ (live \cup aborted) /\ txn[g.t] # Over /\ g.t \notin E /\ g \in Committing
    BY Zenon, <2>1 DEF Committing, ServerInv, Holders
  <2>2. \A g \in Committing' : g.t \in DOMAIN txn' \ (live' \cup aborted') /\ txn'[g.t] # Over
    BY Zenon, <1>1, <2>1
  <2>3. live' \cap aborted' = {} /\ \A t \in live' : txn'[t] # Over
    BY Zenon, <1>1 DEF ServerInv, Holders, ServerType
  <2> QED
    BY Zenon, <2>1, <2>2, <2>3 DEF ServerInv, Holders
<1>5. BuffersSound'
  <2> SUFFICES ASSUME NEW t \in DOMAIN txn', txn'[t] # Over
               PROVE  /\ \A s \in Shards : txn'[t].snap[s] <= clock[s]
                      /\ \A k \in DOMAIN txn'[t].buf \ {Data} : txn'[t].buf[k] = Marker
                      /\ Data \in DOMAIN txn'[t].buf => txn'[t].snap[Home] >= 0
                      /\ Data \in DOMAIN txn'[t].buf /\ store[Data].seq <= txn'[t].snap[Home] =>
                           txn'[t].buf[Data] = Append(store[Data].val, [p |-> txn'[t].p, t |-> t])
    BY Zenon DEF BuffersSound
  <2>1. txn'[t] = txn[t] /\ t \in DOMAIN txn
    BY Zenon, <1>1
  <2> QED
    BY SMTT(30), <2>1 DEF ServerInv, BuffersSound
<1>6. MarkedOnce(store)' /\ MarkedOnce(disk)'
  BY Zenon, <1>3, MarkersKept DEF ServerInv
<1>7. ReplaysConflict'
  <2>1. ASSUME NEW h \in work', h.at \in {"mark", "apply"} PROVE h \in work /\ txn'[h.t] = txn[h.t]
    <3>1. h \in Committing /\ h.t \notin E
      BY Zenon, <2>1 DEF Committing
    <3> QED
      BY Zenon, <1>1, <3>1 DEF ServerInv, Holders, Committing
  <2> QED
    BY ZenonT(40), <2>1 DEF ServerInv, ReplaysConflict, LandedIn
<1>8. ASSUME NEW t, Kept(t) PROVE Kept(t)'
  <2>1. None \notin DOMAIN txn
    BY Zenon, TxnFacts
  <2>2. t \notin E
    BY Zenon, <1>8, <2>1 DEF Kept
  <2> QED
    BY Zenon, <1>1, <1>8, <2>2 DEF Kept
<1>9. ChangesKept(store)' /\ ChangesKept(disk)'
  <2>1. ASSUME NEW i \in DOMAIN store[Data].val PROVE Kept(store[Data].val[i].t)'
    <3>1. PICK t : t = store[Data].val[i].t
      BY Zenon
    <3>2. Kept(t)'
      BY Zenon, <1>8, <3>1 DEF ServerInv, ChangesKept
    <3> QED
      BY Zenon, <3>1, <3>2 DEF Kept
  <2>2. ASSUME NEW i \in DOMAIN disk[Data].val PROVE Kept(disk[Data].val[i].t)'
    <3>1. PICK t : t = disk[Data].val[i].t
      BY Zenon
    <3>2. Kept(t)'
      BY Zenon, <1>8, <3>1 DEF ServerInv, ChangesKept
    <3> QED
      BY Zenon, <3>1, <3>2 DEF Kept
  <2> QED
    BY Zenon, <2>1, <2>2 DEF ChangesKept
<1> QED
  BY Zenon, <1>2, <1>4, <1>5, <1>6, <1>7, <1>9 DEF ServerInv

\* opAbort gives up what it takes from the map.
LEMMA OpAbortStep ==
  ASSUME RpcInv, NEW h \in work, OpAbort(h)
  PROVE  RpcInv'
<1>1. ClientType /\ ServerType /\ ClientInv /\ ServerInv
  BY Zenon DEF RpcInv
<1>2. /\ Answer(h, "ok", None) /\ UNCHANGED client /\ app' = app /\ UNCHANGED <<store, clock, disk>>
      /\ work' \subseteq work
  BY Zenon DEF OpAbort, client, Answer
<1>3. "ok" \in {"ok", "err", "conflict", "row", "end"}
  BY Zenon
<1>4. CASE h.t \notin live
  <2>1. UNCHANGED server
    BY Zenon, <1>4 DEF OpAbort, server
  <2> QED
    BY Zenon, <1>2, <1>3, <2>1, AnswerStep
<1>5. CASE h.t \in live
  <2>1. PICK E : E = {h.t}
    BY Zenon
  <2>2. /\ live' = live \ E /\ aborted' = aborted \cup E /\ E \in SUBSET DOMAIN txn
        /\ txn' = [txn EXCEPT ![h.t] = Over]
    BY Zenon, <1>1, <1>5, <2>1 DEF OpAbort, Take, ServerType
  <2>3. Ended(E)
    BY Zenon, <1>1, <2>1, <2>2, EndedOne
  <2>4. \A g \in work' : g.at \in {"check", "mark", "apply"} => g.t \notin E
    BY Zenon, <1>1, <1>2, <1>5, <2>1 DEF ServerInv, Holders, Committing
  <2>5. \A t \in E : t \in live
    BY Zenon, <1>5, <2>1
  <2>6. ServerType' /\ ServerInv'
    BY Zenon, <1>1, <1>2, <2>2, <2>3, <2>4, <2>5, GivenUp
  <2>7. TxnsMove
    BY Zenon, <1>1, <2>3, EndedTxns
  <2>8. PICK arg : arg = None
    BY Zenon
  <2>9. arg \in Nat /\ Answer(h, "ok", arg)
    BY Zenon, <1>2, <2>8 DEF None
  <2>10. ClientType' /\ ClientInv'
    BY Zenon, <1>1, <1>2, <1>3, <2>7, <2>8, <2>9, AnswerKeepsClient
  <2> QED
    BY Zenon, <2>6, <2>10 DEF RpcInv
<1> QED
  BY Zenon, <1>4, <1>5

\* opCommitIdem finds the marker and drops the attempt's writes, or goes on: then
\* no earlier attempt of its unit has landed.
LEMMA CheckMarkerStep ==
  ASSUME RpcInv, NEW h \in work, CheckMarker(h)
  PROVE  RpcInv'
<1>1. ClientType /\ ServerType /\ ClientInv /\ ServerInv
  BY Zenon DEF RpcInv
<1>2. UNCHANGED client /\ app' = app /\ UNCHANGED <<live, store, clock, disk>> /\ h.at = "check"
  BY Zenon DEF CheckMarker, client
<1>3. /\ h \in Committing /\ h.t \in DOMAIN txn \ (live \cup aborted) /\ txn[h.t] # Over
      /\ h.op = "idem" /\ h.p \in Units /\ h \in Requests /\ h.t # None
  BY Zenon, <1>1, <1>2, HolderFacts DEF Committing
<1>4. \A g \in work \ {h} : g.t # h.t
  BY Zenon, <1>1, <1>3 DEF ClientInv, IdsExclusive
<1>5. CASE store[h.p].val = Marker
  <2>1. PICK E : E = {h.t}
    BY Zenon
  <2>2. /\ live' = live \ E /\ aborted' = aborted \cup E /\ E \in SUBSET DOMAIN txn
        /\ txn' = [txn EXCEPT ![h.t] = Over] /\ Answer(h, "ok", None) /\ work' = work \ {h}
    BY Zenon, <1>2, <1>3, <1>5, <2>1 DEF CheckMarker, Answer
  <2>3. Ended(E)
    BY Zenon, <1>1, <1>3, <2>1, <2>2, EndedOne
  <2>4. \A g \in work' : g.t \notin E
    BY Zenon, <1>4, <2>1, <2>2
  <2>5. \A t \in E : \E g \in work : g.at = "check" /\ g.t = t
    BY Zenon, <1>2, <2>1
  <2>6. work' \subseteq work
    BY Zenon, <2>2
  <2>7. ServerType' /\ ServerInv'
    BY Zenon, <1>1, <1>2, <2>2, <2>3, <2>4, <2>5, <2>6, GivenUp
  <2>8. TxnsMove
    BY Zenon, <1>1, <2>3, EndedTxns
  <2>9. PICK arg : arg = None
    BY Zenon
  <2>10. PICK st : st = "ok"
    BY Zenon
  <2>11. arg \in Nat /\ st \in {"ok", "err", "conflict", "row", "end"} /\ Answer(h, st, arg)
    BY Zenon, <2>2, <2>9, <2>10 DEF None
  <2>12. ClientType' /\ ClientInv'
    BY Zenon, <1>1, <1>2, <2>8, <2>9, <2>11, AnswerKeepsClient
  <2> QED
    BY Zenon, <2>7, <2>12 DEF RpcInv
<1>6. CASE store[h.p].val # Marker
  <2>1. PICK g : g = [h EXCEPT !.at = "mark"]
    BY Zenon
  <2>2. /\ g \in Requests /\ g.p = h.p /\ g.n = h.n /\ g.t = h.t /\ g.op = "idem"
        /\ g.at = "mark" /\ g.left = h.left
    BY Zenon, <1>3, <2>1 DEF Requests, Places
  <2>3. Goto(h, g) /\ work' = (work \ {h}) \cup {g} /\ txn' = txn /\ aborted' = aborted
    BY Zenon, <1>6, <2>1 DEF CheckMarker, Goto
  <2>4. ClientType' /\ ClientInv'
    BY Zenon, <1>1, <1>2, <2>2, <2>3, TxnsRest, GotoKeepsClient
  <2>5. ServerType'
    BY Zenon, <1>1, <1>2, <2>3 DEF ServerType
  <2>6. \A p \in Units : Finished(p) => Finished(p)'
    BY Zenon, <1>2, <2>2, <2>3, FinishedRests
  <2>7. Holders'
    <3>1. \A k \in Committing' : k \in Committing \/ k = g
      BY Zenon, <2>3 DEF Committing
    <3>2. \A k \in work' : k \in work \/ k = g
      BY Zenon, <2>3
    <3>3. ~OfStream(g)
      BY Zenon, <2>2 DEF OfStream
    <3> QED
      BY Zenon, <1>1, <1>2, <1>3, <2>2, <2>3, <3>1, <3>2, <3>3 DEF ServerInv, Holders
  <2>8. BuffersSound'
    BY Zenon, <1>1, <1>2, <2>3 DEF ServerInv, BuffersSound
  <2>9. MarkedOnce(store)' /\ MarkedOnce(disk)'
    BY Zenon, <1>1, <1>2, <2>6, MarkersKept DEF ServerInv
  <2>10. ReplaysConflict'
    <3>1. ~Finished(h.p)
      BY Zenon DEF Finished
    <3>2. ShardOf[h.p] = Home => LandedIn(store, h.p) = {}
      BY Zenon, <1>1, <1>3, <1>6, <3>1 DEF ServerInv, MarkedOnce
    <3> QED
      BY <1>1, <1>2, <2>2, <2>3, <3>2 DEF ServerInv, ReplaysConflict, LandedIn
  <2>11. ChangesKept(store)' /\ ChangesKept(disk)'
    BY Zenon, <1>1, <1>2, <2>2, <2>3 DEF ServerInv, ChangesKept, Kept
  <2> QED
    BY Zenon, <2>4, <2>5, <2>7, <2>8, <2>9, <2>10, <2>11 DEF RpcInv, ServerInv
<1> QED
  BY Zenon, <1>5, <1>6

\* abortTxns, and the reaper of idle transactions: what is still in the map is given up.
LEMMA TakenAway ==
  ASSUME RpcInv, NEW E \in SUBSET live, Ended(E),
         live' = live \ E, aborted' = aborted \cup E, UNCHANGED <<store, clock, disk>>,
         UNCHANGED client, down' = down, work' \subseteq work
  PROVE  RpcInv'
<1>1. ClientType /\ ServerType /\ ClientInv /\ ServerInv
  BY Zenon DEF RpcInv
<1>2. E \in SUBSET DOMAIN txn /\ app' = app /\ pend' = pend
  BY Zenon, <1>1 DEF ServerType, client
<1>3. \A g \in work' : g.at \in {"check", "mark", "apply"} => g.t \notin E
  BY Zenon, <1>1 DEF ServerInv, Holders, Committing
<1>4. \A t \in E : t \in live
  OBVIOUS
<1>5. ServerType' /\ ServerInv'
  BY Zenon, <1>1, <1>2, <1>3, <1>4, GivenUp
<1>6. TxnsMove
  BY Zenon, <1>1, EndedTxns
<1>7. RequestsMove
  BY Zenon, <1>1 DEF RequestsMove, ClientInv, NumbersUsed, IdsExclusive
<1>8. ClientType'
  BY Zenon, <1>1, <1>2 DEF ClientType
<1>9. FramesMove(0, 0) /\ 0 \notin Conns
  BY DEF FramesMove, Conns
<1>10. \A q \in Callers : CallerMoves(q) /\ app'[q].n = app[q].n
  BY Zenon, <1>2 DEF CallerMoves
<1>11. ClientInv'
  BY Zenon, <1>1, <1>2, <1>6, <1>7, <1>8, <1>9, <1>10, ClientMoves
<1> QED
  BY Zenon, <1>5, <1>8, <1>11 DEF RpcInv

\* ServeConnOpts returns, and the reaper ticks.
LEMMA ServeEndsStep ==
  ASSUME RpcInv, NEW c \in Conns, ServeEnds(c)
  PROVE  RpcInv'
<1>1. PICK E : E = conn[c].txns \cap live
  BY Zenon
<1>2. E \in SUBSET live
  BY Zenon, <1>1
<1>3. /\ live' = live \ E /\ aborted' = aborted \cup E /\ Ended(E)
      /\ UNCHANGED <<store, clock, disk>> /\ UNCHANGED client /\ down' = down /\ work' \subseteq work
  BY Zenon, <1>1 DEF ServeEnds, Ended
<1> QED
  BY Zenon, <1>2, <1>3, TakenAway

LEMMA ReapIdleStep ==
  ASSUME RpcInv, NEW t \in live, ReapIdleTxn(t)
  PROVE  RpcInv'
<1>1. PICK E : E = {t}
  BY Zenon
<1>2. t \in DOMAIN txn /\ ServerType
  BY Zenon DEF RpcInv, ServerType
<1>3. Ended(E)
  BY Zenon, <1>1, <1>2, EndedOne DEF ReapIdleTxn
<1>4. /\ live' = live \ E /\ aborted' = aborted \cup E /\ E \in SUBSET live
      /\ UNCHANGED <<store, clock, disk>> /\ UNCHANGED client /\ down' = down /\ work' \subseteq work
  BY Zenon, <1>1 DEF ReapIdleTxn, Take
<1> QED
  BY Zenon, <1>3, <1>4, TakenAway

\* opBegin: a new transaction, known to no one but the caller it is reported to.
LEMMA OpBeginStep ==
  ASSUME RpcInv, NEW h \in work, OpBegin(h)
  PROVE  RpcInv'
<1>1. ClientType /\ ServerType /\ ClientInv /\ ServerInv
  BY Zenon DEF RpcInv
<1>2. PICK t : t = Len(txn) + 1
  BY Zenon
<1>3. PICK x : x = [p |-> h.p, snap |-> Unread, buf |-> <<>>]
  BY Zenon
<1>4. /\ txn' = Append(txn, x) /\ live' = live \cup {t} /\ Answer(h, "ok", t) /\ work' = work \ {h}
      /\ UNCHANGED client /\ app' = app /\ UNCHANGED <<store, clock, disk, aborted>>
  BY Zenon, <1>2, <1>3 DEF OpBegin, Answer, client
<1>5. x \in OpenTxns /\ x # Over /\ DOMAIN x.buf = {} /\ x.p = h.p /\ x.snap = Unread
  <2>1. h.p \in Callers
    BY Zenon, <1>1 DEF ClientType, Requests
  <2>2. Unread \in [Shards -> Nat \cup {-1}]
    BY Zenon DEF Unread
  <2>3. <<>> \in [{} -> Values] /\ {} \in SUBSET Keys /\ DOMAIN <<>> = {}
    OBVIOUS
  <2>4. <<>> \in Bufs
    BY Zenon, <2>3 DEF Bufs
  <2>5. x \in OpenTxns
    BY Zenon, <1>3, <2>1, <2>2, <2>4 DEF OpenTxns
  <2> QED
    BY Zenon, <1>3, <2>3, <2>5, Constants
<1>6. /\ txn' \in Seq(OpenTxns \cup {Over}) /\ DOMAIN txn' = DOMAIN txn \cup {t}
      /\ t \notin DOMAIN txn /\ t \in Nat /\ txn'[t] = x /\ \A i \in DOMAIN txn : txn'[i] = txn[i]
  <2>1. txn \in Seq(OpenTxns \cup {Over}) /\ x \in OpenTxns \cup {Over}
    BY Zenon, <1>1, <1>5 DEF ServerType
  <2> QED
    BY SMTT(30), <1>2, <1>4, <2>1
<1>7. TxnsMove
  BY Zenon, <1>6 DEF TxnsMove, Owns
<1>8. PICK st : st = "ok"
  BY Zenon
<1>9. /\ st \in {"ok", "err", "conflict", "row", "end"} /\ Answer(h, st, t)
      /\ t \in DOMAIN txn' \ DOMAIN txn /\ txn'[t].p = h.p
  BY Zenon, <1>4, <1>5, <1>6, <1>8
<1>10. ClientType' /\ ClientInv'
  BY Zenon, <1>1, <1>4, <1>6, <1>7, <1>9, AnswerKeepsClient
<1>11. ServerType'
  BY Zenon, <1>1, <1>4, <1>6 DEF ServerType
<1>12. \A p \in Units : Finished(p) => Finished(p)'
  BY Zenon, <1>4, FinishedRests
<1>13. Holders'
  <2>1. \A g \in Committing' : g \in Committing /\ g.t # t
    BY SMTT(30), <1>1, <1>4, <1>6 DEF Committing, ServerInv, Holders
  <2> QED
    BY Zenon, <1>1, <1>4, <1>5, <1>6, <2>1 DEF ServerInv, Holders, ServerType
<1>14. BuffersSound'
  <2> SUFFICES ASSUME NEW i \in DOMAIN txn', txn'[i] # Over
               PROVE  /\ \A s \in Shards : txn'[i].snap[s] <= clock[s]
                      /\ \A k \in DOMAIN txn'[i].buf \ {Data} : txn'[i].buf[k] = Marker
                      /\ Data \in DOMAIN txn'[i].buf => txn'[i].snap[Home] >= 0
                      /\ Data \in DOMAIN txn'[i].buf /\ store[Data].seq <= txn'[i].snap[Home] =>
                           txn'[i].buf[Data] = Append(store[Data].val, [p |-> txn'[i].p, t |-> i])
    BY Zenon, <1>4 DEF BuffersSound
  <2>1. CASE i = t
    <3>1. \A s \in Shards : clock[s] \in Nat /\ Unread[s] = -1
      BY Zenon, <1>1 DEF ServerType, Unread
    <3>2. \A s \in Shards : x.snap[s] <= clock[s]
      BY SMTT(30), <1>5, <3>1
    <3> QED
      BY Zenon, <1>5, <1>6, <2>1, <3>2
  <2>2. CASE i \in DOMAIN txn
    BY Zenon, <1>1, <1>6, <2>2 DEF ServerInv, BuffersSound
  <2> QED
    BY Zenon, <1>6, <2>1, <2>2
<1>15. MarkedOnce(store)' /\ MarkedOnce(disk)'
  BY Zenon, <1>1, <1>4, <1>12, MarkersKept DEF ServerInv
<1>16. ReplaysConflict'
  <2>1. ASSUME NEW g \in work', g.at \in {"mark", "apply"} PROVE g \in work /\ txn'[g.t] = txn[g.t]
    BY Zenon, <1>1, <1>4, <1>6, <2>1 DEF ServerInv, Holders, Committing
  <2> QED
    BY Zenon, <1>1, <1>4, <2>1 DEF ServerInv, ReplaysConflict, LandedIn
<1>17. ASSUME NEW i, Kept(i) PROVE Kept(i)'
  <2>1. i # t
    BY SMTT(30), <1>2, <1>6, <1>17, <1>1 DEF Kept, None, ServerType
  <2> QED
    BY Zenon, <1>4, <1>6, <1>17, <2>1 DEF Kept
<1>18. ChangesKept(store)' /\ ChangesKept(disk)'
  BY Zenon, <1>1, <1>4, <1>17 DEF ServerInv, ChangesKept, Kept
<1> QED
  BY Zenon, <1>10, <1>11, <1>13, <1>14, <1>15, <1>16, <1>18 DEF RpcInv, ServerInv

-----------------------------------------------------------------------------
(* Transactions that are written to, and taken. *)

\* An open transaction's snapshot and buffer change; the others rest.
LEMMA TxnRewritten ==
  ASSUME ServerType, NEW t \in DOMAIN txn, NEW y \in OpenTxns, y.p = txn[t].p,
         txn' = [txn EXCEPT ![t] = y]
  PROVE  /\ txn' \in Seq(OpenTxns \cup {Over})
         /\ DOMAIN txn' = DOMAIN txn
         /\ txn'[t] = y /\ y # Over
         /\ \A i \in DOMAIN txn : i # t => txn'[i] = txn[i]
         /\ txn[t] # Over => TxnsMove
<1>1. txn \in Seq(OpenTxns \cup {Over})
  BY Zenon DEF ServerType
<1>2. /\ txn' \in Seq(OpenTxns \cup {Over}) /\ DOMAIN txn' = DOMAIN txn
      /\ txn'[t] = y /\ \A i \in DOMAIN txn : i # t => txn'[i] = txn[i]
  BY <1>1
<1>3. ASSUME txn[t] # Over PROVE TxnsMove
  BY Zenon, <1>2, <1>3 DEF TxnsMove, Owns
<1> QED
  BY Zenon, <1>2, <1>3, Constants

\* Txn.Put fixes the shard's snapshot at its first use and buffers the write.
LEMMA PutTxn ==
  ASSUME ServerType, NEW x \in OpenTxns, NEW k \in Keys, NEW v \in Values,
         \A r \in Shards : x.snap[r] <= clock[r],
         NEW y, y = Put(x, k, v)
  PROVE  /\ y \in OpenTxns /\ y.p = x.p
         /\ DOMAIN y.buf = DOMAIN x.buf \cup {k} /\ y.buf[k] = v
         /\ \A j \in DOMAIN x.buf : j # k => y.buf[j] = x.buf[j]
         /\ \A r \in Shards : y.snap[r] <= clock[r]
         /\ y.snap[ShardOf[k]] >= 0
         /\ \A r \in Shards : x.snap[r] >= 0 => y.snap[r] = x.snap[r]
<1>1. PICK s : s = ShardOf[k]
  BY Zenon
<1>2. PICK d : d = x.buf
  BY Zenon
<1>3. PICK b : b = Buffered(d, k, v)
  BY Zenon
<1>4. s \in Shards /\ d \in Bufs
  BY Zenon, <1>1, <1>2, Constants DEF OpenTxns
<1>5. /\ b \in Bufs /\ DOMAIN b = DOMAIN d \cup {k} /\ b[k] = v
      /\ \A j \in DOMAIN d : j # k => b[j] = d[j]
  BY SMTT(30), <1>3, <1>4, BufferedWrites
<1>6. PICK n : n = IF x.snap[s] = -1 THEN [x.snap EXCEPT ![s] = clock[s]] ELSE x.snap
  BY Zenon
<1>7. x.snap \in [Shards -> Nat \cup {-1}] /\ clock \in [Shards -> Nat]
  BY Zenon DEF ServerType, OpenTxns
<1>8. y = [x EXCEPT !.snap = n, !.buf = b]
  <2>1. CASE x.snap[s] = -1
    <3>1. SnapOf(x, s) = [x EXCEPT !.snap = n]
      BY Zenon, <1>6, <2>1 DEF SnapOf, OpenTxns
    <3>2. y = [[x EXCEPT !.snap = n] EXCEPT !.buf = Buffered(@, k, v)]
      BY Zenon, <1>1, <3>1 DEF Put
    <3> QED
      BY Zenon, <1>2, <1>3, <3>2 DEF OpenTxns
  <2>2. CASE x.snap[s] # -1
    <3>1. SnapOf(x, s) = x /\ n = x.snap
      BY Zenon, <1>6, <2>2 DEF SnapOf
    <3>2. y = [x EXCEPT !.buf = Buffered(@, k, v)]
      BY Zenon, <1>1, <3>1 DEF Put
    <3> QED
      BY Zenon, <1>2, <1>3, <3>1, <3>2 DEF OpenTxns
  <2> QED
    BY Zenon, <2>1, <2>2
<1>9. /\ n \in [Shards -> Nat \cup {-1}] /\ n[s] >= 0
      /\ \A r \in Shards : n[r] <= clock[r]
      /\ \A r \in Shards : x.snap[r] >= 0 => n[r] = x.snap[r]
  BY <1>4, <1>6, <1>7
<1>10. y \in OpenTxns /\ y.p = x.p /\ y.buf = b /\ y.snap = n
  BY Zenon, <1>5, <1>8, <1>9 DEF OpenTxns
<1> QED
  BY Zenon, <1>1, <1>2, <1>5, <1>9, <1>10

\* opSetAttr reads the record and buffers it with the unit's change: the data
\* record of a buffer is the store's, one change longer, until the store changes.
LEMMA OpSetAttrStep ==
  ASSUME RpcInv, NEW h \in work, OpSetAttr(h)
  PROVE  RpcInv'
<1>1. ClientType /\ ServerType /\ ClientInv /\ ServerInv
  BY Zenon DEF RpcInv
<1>2. /\ h.at = "held" /\ Answer(h, "ok", None) /\ work' = work \ {h} /\ UNCHANGED client /\ app' = app
      /\ UNCHANGED <<live, store, clock, disk, aborted>>
  BY Zenon DEF OpSetAttr, Answer, client
<1>3. /\ h.t # None /\ h.t \in DOMAIN txn /\ h.p \in Unary /\ h \in Requests /\ h.p \in Callers /\ h.t \in Nat
      /\ \A g \in work \ {h} : g.t # h.t
  BY Zenon, <1>1, <1>2 DEF ServerInv, Holders, ClientInv, IdsExclusive, ClientType, Requests
<1>4. PICK st : st = "ok"
  BY Zenon
<1>5. PICK arg : arg = None
  BY Zenon
<1>6. st \in {"ok", "err", "conflict", "row", "end"} /\ arg \in Nat /\ Answer(h, st, arg) /\ Answer(h, st, None)
  BY Zenon, <1>2, <1>4, <1>5 DEF None
<1>7. CASE txn[h.t] = Over
  <2>1. UNCHANGED server
    BY Zenon, <1>2, <1>7 DEF OpSetAttr, server
  <2> QED
    BY Zenon, <1>2, <1>6, <2>1, AnswerStep
<1>8. CASE txn[h.t] # Over
  <2>1. PICK x : x = txn[h.t]
    BY Zenon
  <2>2. x \in OpenTxns /\ x.buf \in Bufs /\ x.p = h.p
    <3>1. txn \in Seq(OpenTxns \cup {Over})
      BY Zenon, <1>1 DEF ServerType
    <3>2. x \in OpenTxns
      BY <1>3, <1>8, <2>1, <3>1
    <3> QED
      BY Zenon, <1>1, <1>3, <1>8, <2>1, <3>2 DEF OpenTxns, ClientInv, Ownership, Owns
  <2>3. PICK v : v = Append(store[Data].val, [p |-> h.p, t |-> h.t])
    BY Zenon
  <2>4. v \in Values
    <3>1. store[Data].val \in Seq(Changes) /\ [p |-> h.p, t |-> h.t] \in Changes
      BY Zenon, <1>1, <1>3 DEF ServerType, Tables, Changes
    <3>2. v \in Seq(Changes)
      BY <2>3, <3>1
    <3> QED
      BY Zenon, <3>2 DEF Values
  <2>5. PICK y : y = Put(x, Data, v)
    BY Zenon
  <2>6. txn' = [txn EXCEPT ![h.t] = y]
    BY Zenon, <1>8, <2>1, <2>3, <2>5 DEF OpSetAttr
  <2>7. \A s \in Shards : x.snap[s] <= clock[s]
    BY Zenon, <1>1, <1>3, <1>8, <2>1 DEF ServerInv, BuffersSound
  <2>8. Data \in Keys
    BY Zenon, Constants
  <2>9. /\ y \in OpenTxns /\ y.p = x.p
        /\ DOMAIN y.buf = DOMAIN x.buf \cup {Data} /\ y.buf[Data] = v
        /\ \A k \in DOMAIN x.buf : k # Data => y.buf[k] = x.buf[k]
        /\ \A s \in Shards : y.snap[s] <= clock[s]
        /\ y.snap[ShardOf[Data]] >= 0
    BY SMTT(30), <1>1, <2>2, <2>4, <2>5, <2>7, <2>8, PutTxn
  <2>10. y.snap[Home] >= 0
    BY Zenon, <2>9 DEF Home
  <2>11. /\ txn' \in Seq(OpenTxns \cup {Over}) /\ DOMAIN txn' = DOMAIN txn
         /\ txn'[h.t] = y /\ y # Over /\ TxnsMove
         /\ \A i \in DOMAIN txn : i # h.t => txn'[i] = txn[i]
    BY Zenon, <1>1, <1>3, <1>8, <2>1, <2>6, <2>9, TxnRewritten
  <2>12. ClientType' /\ ClientInv'
    BY Zenon, <1>1, <1>2, <1>5, <1>6, <2>11, AnswerKeepsClient
  <2>13. ServerType'
    BY Zenon, <1>1, <1>2, <2>11 DEF ServerType
  <2>14. \A p \in Units : Finished(p) => Finished(p)'
    BY Zenon, <1>2, FinishedRests
  <2>15. Holders'
    <3>1. \A g \in Committing' : g \in Committing /\ g.t # h.t
      BY Zenon, <1>2, <1>3 DEF Committing
    <3> QED
      BY Zenon, <1>1, <1>2, <2>11, <3>1 DEF ServerInv, Holders, ServerType
  <2>16. BuffersSound'
    <3> SUFFICES ASSUME NEW i \in DOMAIN txn', txn'[i] # Over
                 PROVE  /\ \A s \in Shards : txn'[i].snap[s] <= clock[s]
                        /\ \A k \in DOMAIN txn'[i].buf \ {Data} : txn'[i].buf[k] = Marker
                        /\ Data \in DOMAIN txn'[i].buf => txn'[i].snap[Home] >= 0
                        /\ Data \in DOMAIN txn'[i].buf /\ store[Data].seq <= txn'[i].snap[Home] =>
                             txn'[i].buf[Data] = Append(store[Data].val, [p |-> txn'[i].p, t |-> i])
      BY Zenon, <1>2 DEF BuffersSound
    <3>1. CASE i = h.t
      <4>1. \A k \in DOMAIN x.buf \ {Data} : x.buf[k] = Marker
        BY Zenon, <1>1, <1>3, <1>8, <2>1 DEF ServerInv, BuffersSound
      <4> QED
        BY Zenon, <2>2, <2>3, <2>9, <2>10, <2>11, <3>1, <4>1
    <3>2. CASE i # h.t
      BY SMTT(30), <1>1, <2>11, <3>2 DEF ServerInv, BuffersSound
    <3> QED
      BY Zenon, <3>1, <3>2
  <2>17. MarkedOnce(store)' /\ MarkedOnce(disk)'
    BY Zenon, <1>1, <1>2, <2>14, MarkersKept DEF ServerInv
  <2>18. ReplaysConflict'
    <3>1. ASSUME NEW g \in work', g.at \in {"mark", "apply"} PROVE g \in work /\ txn'[g.t] = txn[g.t]
      BY Zenon, <1>1, <1>2, <1>3, <2>11, <3>1 DEF ServerInv, Holders, Committing
    <3> QED
      BY Zenon, <1>1, <1>2, <3>1 DEF ServerInv, ReplaysConflict, LandedIn
  <2>19. ChangesKept(store)' /\ ChangesKept(disk)'
    BY Zenon, <1>1, <1>2, <2>11 DEF ServerInv, ChangesKept, Kept
  <2> QED
    BY Zenon, <2>12, <2>13, <2>15, <2>16, <2>17, <2>18, <2>19 DEF RpcInv, ServerInv
<1> QED
  BY Zenon, <1>7, <1>8

\* opCommit and opCommitIdem take the transaction: from here on it is theirs alone.
LEMMA TakeToCommitStep ==
  ASSUME RpcInv, NEW h \in work, TakeToCommit(h)
  PROVE  RpcInv'
<1>1. ClientType /\ ServerType /\ ClientInv /\ ServerInv
  BY Zenon DEF RpcInv
<1>2. /\ h.at = "run" /\ h.op \in {"commit", "idem"} /\ UNCHANGED client /\ app' = app /\ h \in Requests
      /\ UNCHANGED <<txn, store, clock, disk, aborted>>
  BY Zenon, <1>1 DEF TakeToCommit, client, ClientType
<1>3. CASE h.t \notin live
  <2>1. Answer(h, "err", None) /\ UNCHANGED server
    BY Zenon, <1>3 DEF TakeToCommit, server
  <2>2. "err" \in {"ok", "err", "conflict", "row", "end"}
    BY Zenon
  <2> QED
    BY Zenon, <1>2, <2>1, <2>2, AnswerStep
<1>4. CASE h.t \in live
  <2>1. PICK a : a = IF h.op = "idem" THEN "check" ELSE "apply"
    BY Zenon
  <2>2. PICK l : l = {ShardOf[k] : k \in DOMAIN txn[h.t].buf}
    BY Zenon
  <2>3. PICK g : g = [h EXCEPT !.at = a, !.left = l]
    BY Zenon
  <2>4. Goto(h, g) /\ work' = (work \ {h}) \cup {g} /\ live' = live \ {h.t}
    BY Zenon, <1>4, <2>1, <2>2, <2>3 DEF TakeToCommit, Take, Goto
  <2>5. /\ h.t \in DOMAIN txn /\ h.t \notin aborted /\ txn[h.t] # Over /\ h.t # None
    BY Zenon, <1>1, <1>4, TxnFacts DEF ServerType, ServerInv, Holders
  <2>6. l \subseteq Shards
    <3>4. DOMAIN txn[h.t].buf \subseteq Keys
      BY Zenon, <1>1, <2>5, TxnFacts DEF Bufs
    <3> QED
      BY Zenon, <2>2, <3>4 DEF Shards
  <2>7. /\ g \in Requests /\ g.p = h.p /\ g.n = h.n /\ g.t = h.t /\ g.op = h.op
        /\ g.at = a /\ g.left = l
    BY Zenon, <1>2, <2>1, <2>3, <2>6 DEF Requests, Places
  <2>8. ClientType' /\ ClientInv'
    BY Zenon, <1>1, <1>2, <2>4, <2>7, TxnsRest, GotoKeepsClient
  <2>9. ServerType'
    BY Zenon, <1>1, <1>2, <2>4 DEF ServerType
  <2>10. \A p \in Units : Finished(p) => Finished(p)'
    BY Zenon, <1>2, <2>4, <2>7, FinishedRests
  <2>11. \A k \in work \ {h} : k.t # h.t
    BY Zenon, <1>1, <2>5 DEF ClientInv, IdsExclusive
  <2>12. Holders'
    <3>1. \A k \in Committing' : k \in Committing \/ k = g
      BY Zenon, <2>4 DEF Committing
    <3>2. \A k \in work' : k \in work \/ k = g
      BY Zenon, <2>4
    <3>3. ~OfStream(g) /\ g.at # "held" /\ (g.at \in {"check", "mark"} => g.op = "idem")
      BY Zenon, <1>2, <2>1, <2>7 DEF OfStream
    <3> QED
      BY Zenon, <1>1, <1>2, <2>4, <2>5, <2>7, <3>1, <3>2, <3>3 DEF ServerInv, Holders
  <2>13. BuffersSound'
    BY Zenon, <1>1, <1>2 DEF ServerInv, BuffersSound
  <2>14. MarkedOnce(store)' /\ MarkedOnce(disk)'
    BY Zenon, <1>1, <1>2, <2>10, MarkersKept DEF ServerInv
  <2>15. ReplaysConflict'
    <3>1. \A k \in work' : k.at \in {"mark", "apply"} /\ k.op = "idem" => k \in work
      BY Zenon, <1>2, <2>1, <2>4, <2>7
    <3> QED
      BY Zenon, <1>1, <1>2, <3>1 DEF ServerInv, ReplaysConflict, LandedIn
  <2>16. ASSUME NEW i, Kept(i) PROVE Kept(i)'
    BY Zenon, <1>2, <1>4, <2>4, <2>7, <2>16 DEF Kept
  <2>17. ChangesKept(store)' /\ ChangesKept(disk)'
    BY ZenonT(40), <1>1, <1>2, <2>16 DEF ServerInv, ChangesKept, Kept
  <2> QED
    BY Zenon, <2>8, <2>9, <2>12, <2>13, <2>14, <2>15, <2>17 DEF RpcInv, ServerInv
<1> QED
  BY Zenon, <1>3, <1>4

\* The marker joins the transaction, whose snapshot of the data record's shard
\* is the one its data was read at.
LEMMA WriteMarkerStep ==
  ASSUME RpcInv, NEW h \in work, WriteMarker(h)
  PROVE  RpcInv'
<1>1. ClientType /\ ServerType /\ ClientInv /\ ServerInv
  BY Zenon DEF RpcInv
<1>2. /\ h.at = "mark" /\ UNCHANGED client /\ app' = app /\ UNCHANGED <<live, store, clock, disk, aborted>>
  BY Zenon DEF WriteMarker, client
<1>3. /\ h \in Committing /\ h.t \in DOMAIN txn \ (live \cup aborted) /\ txn[h.t] # Over
      /\ h.op = "idem" /\ h.p \in Units /\ h \in Requests /\ h.t # None
  BY Zenon, <1>1, <1>2, HolderFacts DEF Committing
<1>4. \A g \in work \ {h} : g.t # h.t
  BY Zenon, <1>1, <1>3 DEF ClientInv, IdsExclusive
<1>5. PICK x : x = txn[h.t]
  BY Zenon
<1>6. x \in OpenTxns
  <2>1. txn \in Seq(OpenTxns \cup {Over})
    BY Zenon, <1>1 DEF ServerType
  <2> QED
    BY <1>3, <1>5, <2>1
<1>7. PICK q : q = h.p
  BY Zenon
<1>8. q \in Keys /\ q # Data /\ ShardOf[q] \in Shards /\ Marker \in Values
  BY Zenon, <1>3, <1>7, Constants DEF Values
<1>9. PICK y : y = Put(x, q, Marker)
  BY Zenon
<1>10. /\ \A s \in Shards : x.snap[s] <= clock[s]
       /\ \A k \in DOMAIN x.buf \ {Data} : x.buf[k] = Marker
       /\ Data \in DOMAIN x.buf => x.snap[Home] >= 0
       /\ Data \in DOMAIN x.buf /\ store[Data].seq <= x.snap[Home] =>
            x.buf[Data] = Append(store[Data].val, [p |-> x.p, t |-> h.t])
  BY Zenon, <1>1, <1>3, <1>5 DEF ServerInv, BuffersSound
<1>11. /\ y \in OpenTxns /\ y.p = x.p
       /\ DOMAIN y.buf = DOMAIN x.buf \cup {q} /\ y.buf[q] = Marker
       /\ \A k \in DOMAIN x.buf : k # q => y.buf[k] = x.buf[k]
       /\ \A s \in Shards : y.snap[s] <= clock[s]
       /\ \A s \in Shards : x.snap[s] >= 0 => y.snap[s] = x.snap[s]
  BY SMTT(30), <1>1, <1>6, <1>8, <1>9, <1>10, PutTxn
<1>12. Data \in DOMAIN y.buf => Data \in DOMAIN x.buf /\ y.snap[Home] = x.snap[Home] /\ y.buf[Data] = x.buf[Data]
  BY Zenon, <1>8, <1>10, <1>11, Constants
<1>13. txn' = [txn EXCEPT ![h.t] = y]
  BY Zenon, <1>5, <1>7, <1>9 DEF WriteMarker
<1>14. /\ txn' \in Seq(OpenTxns \cup {Over}) /\ DOMAIN txn' = DOMAIN txn
       /\ txn'[h.t] = y /\ y # Over /\ TxnsMove
       /\ \A i \in DOMAIN txn : i # h.t => txn'[i] = txn[i]
  BY Zenon, <1>1, <1>3, <1>5, <1>11, <1>13, TxnRewritten
<1>15. PICK g : g = [h EXCEPT !.at = "apply", !.left = @ \cup {ShardOf[h.p]}]
  BY Zenon
<1>16. /\ g \in Requests /\ g.p = h.p /\ g.n = h.n /\ g.t = h.t /\ g.op = "idem" /\ g.at = "apply"
  BY Zenon, <1>3, <1>7, <1>8, <1>15 DEF Requests, Places
<1>17. Goto(h, g) /\ work' = (work \ {h}) \cup {g}
  BY Zenon, <1>15 DEF WriteMarker, Goto
<1>18. ClientType' /\ ClientInv'
  BY Zenon, <1>1, <1>2, <1>14, <1>16, <1>17, GotoKeepsClient
<1>19. ServerType'
  BY Zenon, <1>1, <1>2, <1>14 DEF ServerType
<1>20. \A p \in Units : Finished(p) => Finished(p)'
  BY Zenon, <1>2, <1>16, <1>17, FinishedRests
<1>21. Holders'
  <2>1. \A k \in Committing' : (k \in Committing /\ k.t # h.t) \/ k = g
    BY Zenon, <1>4, <1>17 DEF Committing
  <2>2. \A k \in work' : k \in work \/ k = g
    BY Zenon, <1>17
  <2>3. ~OfStream(g)
    BY Zenon, <1>16 DEF OfStream
  <2> QED
    BY Zenon, <1>1, <1>2, <1>3, <1>14, <1>16, <2>1, <2>2, <2>3 DEF ServerInv, Holders, ServerType
<1>22. BuffersSound'
  <2> SUFFICES ASSUME NEW i \in DOMAIN txn', txn'[i] # Over
               PROVE  /\ \A s \in Shards : txn'[i].snap[s] <= clock[s]
                      /\ \A k \in DOMAIN txn'[i].buf \ {Data} : txn'[i].buf[k] = Marker
                      /\ Data \in DOMAIN txn'[i].buf => txn'[i].snap[Home] >= 0
                      /\ Data \in DOMAIN txn'[i].buf /\ store[Data].seq <= txn'[i].snap[Home] =>
                           txn'[i].buf[Data] = Append(store[Data].val, [p |-> txn'[i].p, t |-> i])
    BY Zenon, <1>2 DEF BuffersSound
  <2>1. CASE i = h.t
    BY Zenon, <1>10, <1>11, <1>12, <1>14, <2>1
  <2>2. CASE i # h.t
    <3>1. i \in DOMAIN txn /\ txn'[i] = txn[i] /\ BuffersSound
      BY Zenon, <1>1, <1>14, <2>2 DEF ServerInv
    <3> QED
      BY Zenon, <3>1 DEF BuffersSound
  <2> QED
    BY Zenon, <2>1, <2>2
<1>23. MarkedOnce(store)' /\ MarkedOnce(disk)'
  BY Zenon, <1>1, <1>2, <1>20, MarkersKept DEF ServerInv
<1>24. ReplaysConflict'
  <2>1. ASSUME NEW k \in work', k # g, k.at \in {"mark", "apply"} PROVE k \in work /\ txn'[k.t] = txn[k.t]
    BY Zenon, <1>1, <1>4, <1>14, <1>17, <2>1 DEF ServerInv, Holders, Committing
  <2>2. ShardOf[h.p] = Home /\ LandedIn(store, h.p) # {} /\ Data \in DOMAIN y.buf =>
          store[Data].seq > y.snap[Home]
    BY Zenon, <1>1, <1>2, <1>3, <1>5, <1>12 DEF ServerInv, ReplaysConflict
  <2>3. h.p \in DOMAIN y.buf
    BY Zenon, <1>7, <1>11
  <2> QED
    BY ZenonT(40), <1>1, <1>2, <1>14, <1>16, <2>1, <2>2, <2>3 DEF ServerInv, ReplaysConflict, LandedIn
<1>25. ChangesKept(store)' /\ ChangesKept(disk)'
  BY Zenon, <1>1, <1>2, <1>14, <1>16, <1>17 DEF ServerInv, ChangesKept, Kept
<1> QED
  BY Zenon, <1>18, <1>19, <1>21, <1>22, <1>23, <1>24, <1>25 DEF RpcInv, ServerInv

-----------------------------------------------------------------------------
(* The commit itself. *)

\* Txn.Commit in one shard.  The data record is replaced only by what was read at
\* its present sequence, one change longer; every other commit then finds it changed.
LEMMA ApplyShardStep ==
  ASSUME RpcInv, NEW h \in work, NEW s \in Shards, ApplyShard(h, s)
  PROVE  RpcInv'
<1>1. ClientType /\ ServerType /\ ClientInv /\ ServerInv
  BY Zenon DEF RpcInv
<1>2. PICK x : x = txn[h.t]
  BY Zenon
<1>3. PICK mine : mine = {k \in DOMAIN x.buf : ShardOf[k] = s}
  BY Zenon
<1>4. PICK lost : lost = {k \in mine : store[k].seq > x.snap[s]}
  BY Zenon
<1>5. PICK g : g = [h EXCEPT !.left = @ \ {s}, !.lost = @ \cup lost,
                             !.wrote = IF mine = lost THEN @ ELSE @ \cup {s}]
  BY Zenon
<1>6. /\ h.at = "apply" /\ s \in h.left
      /\ store' = [k \in Keys |-> IF k \in mine \ lost
                                  THEN [val |-> x.buf[k], seq |-> clock[s] + 1] ELSE store[k]]
      /\ clock' = [clock EXCEPT ![s] = IF mine = lost THEN @ ELSE @ + 1]
      /\ Goto(h, g) /\ work' = (work \ {h}) \cup {g}
      /\ UNCHANGED client /\ app' = app /\ UNCHANGED <<live, txn, disk, aborted>>
  BY Zenon, <1>2, <1>3, <1>4, <1>5 DEF ApplyShard, Goto, client
<1>7. /\ h \in Committing /\ h.t \in DOMAIN txn \ (live \cup aborted) /\ txn[h.t] # Over
      /\ h \in Requests /\ h.t # None /\ h.op \in {"commit", "idem"}
      /\ h.p \in Units => h.op = "idem"
  BY Zenon, <1>1, <1>6, HolderFacts DEF Committing
<1>8. \A k \in work \ {h} : k.t # h.t
  BY Zenon, <1>1, <1>7 DEF ClientInv, IdsExclusive
<1>9. x \in OpenTxns /\ x.buf \in Bufs /\ x.p = h.p
  <2>2. x \in OpenTxns
    BY Zenon, <1>1, <1>2, <1>7, TxnFacts
  <2> QED
    BY Zenon, <1>1, <1>2, <1>7, <2>2 DEF OpenTxns, ClientInv, Ownership, Owns
<1>10. DOMAIN x.buf \subseteq Keys /\ \A k \in DOMAIN x.buf : x.buf[k] \in Values
  BY Zenon, <1>9 DEF Bufs
<1>11. /\ \A k \in DOMAIN x.buf \ {Data} : x.buf[k] = Marker
       /\ Data \in DOMAIN x.buf => x.snap[Home] >= 0
       /\ Data \in DOMAIN x.buf /\ store[Data].seq <= x.snap[Home] =>
            x.buf[Data] = Append(store[Data].val, [p |-> x.p, t |-> h.t])
  BY Zenon, <1>1, <1>2, <1>7 DEF ServerInv, BuffersSound
<1>12. /\ clock \in [Shards -> Nat] /\ clock' \in [Shards -> Nat]
       /\ \A r \in Shards : clock[r] <= clock'[r]
       /\ store \in [Keys -> Cells] /\ Data \in Keys /\ Home \in Shards
       /\ store[Data].val \in Seq(Changes)
       /\ \A k \in Keys : store[k].seq \in Nat /\ store[k].val \in Values
       /\ x.snap \in [Shards -> Nat \cup {-1}]
  <2>1. clock \in [Shards -> Nat] /\ store \in [Keys -> Cells] /\ store[Data].val \in Seq(Changes)
    BY Zenon, <1>1 DEF ServerType, Tables
  <2>2. clock' \in [Shards -> Nat] /\ \A r \in Shards : clock[r] <= clock'[r]
    BY SMTT(30), <1>6, <2>1
  <2>3. \A k \in Keys : store[k].seq \in Nat /\ store[k].val \in Values
    BY Zenon, <2>1 DEF Cells
  <2>4. x.snap \in [Shards -> Nat \cup {-1}]
    BY Zenon, <1>9 DEF OpenTxns
  <2> QED
    BY Zenon, <2>1, <2>2, <2>3, <2>4, Constants
<1>nums. /\ \A r \in Shards : clock[r] \in Nat /\ clock'[r] \in Nat /\ clock[r] <= clock'[r] /\ x.snap[r] \in Int
         /\ \A k \in Keys : store[k].seq \in Nat
         /\ Data \in Keys /\ Home \in Shards
  BY SMTT(30), <1>12
<1>13. \A k \in Keys : \/ k \notin mine \ lost /\ store'[k] = store[k]
                       \/ /\ k \in mine \ lost /\ ShardOf[k] = s /\ k \in DOMAIN x.buf
                          /\ store[k].seq <= x.snap[s]
                          /\ store'[k].val = x.buf[k] /\ store'[k].seq = clock[s] + 1
  <2> SUFFICES ASSUME NEW k \in Keys
               PROVE  \/ k \notin mine \ lost /\ store'[k] = store[k]
                      \/ /\ k \in mine \ lost /\ ShardOf[k] = s /\ k \in DOMAIN x.buf
                         /\ store[k].seq <= x.snap[s]
                         /\ store'[k].val = x.buf[k] /\ store'[k].seq = clock[s] + 1
    OBVIOUS
  <2>1. CASE k \in mine \ lost
    <3>1. store'[k] = [val |-> x.buf[k], seq |-> clock[s] + 1]
      BY Zenon, <1>6, <2>1
    <3>2. ShardOf[k] = s /\ k \in DOMAIN x.buf /\ ~(store[k].seq > x.snap[s])
      BY Zenon, <1>3, <1>4, <2>1
    <3>3. store[k].seq <= x.snap[s]
      BY SMTT(30), <1>nums, <3>2
    <3> QED
      BY SMTT(30), <2>1, <3>1, <3>2, <3>3
  <2>2. CASE k \notin mine \ lost
    BY Zenon, <1>6, <2>2
  <2> QED
    BY Zenon, <2>1, <2>2
\* The data record: untouched, or the old one with h's change.
<1>14. \/ store'[Data] = store[Data]
       \/ /\ s = Home /\ Data \in DOMAIN x.buf /\ store[Data].seq <= x.snap[Home]
          /\ store'[Data].val = Append(store[Data].val, [p |-> h.p, t |-> h.t])
          /\ store'[Data].seq = clock[Home] + 1
  BY Zenon, <1>9, <1>11, <1>12, <1>13 DEF Home
<1>15. g \in Requests /\ g.p = h.p /\ g.n = h.n /\ g.t = h.t /\ g.op = h.op /\ g.at = "apply" /\ g.left = h.left \ {s}
  <2>1. lost \subseteq Keys
    BY Zenon, <1>3, <1>4, <1>10
  <2> QED
    BY Zenon, <1>5, <1>6, <1>7, <2>1 DEF Requests
<1>16. ClientType' /\ ClientInv'
  BY Zenon, <1>1, <1>6, <1>15, TxnsRest, GotoKeepsClient
<1>17. \A k \in work' : k \in work \/ k = g
  BY Zenon, <1>6
<1>18. \A p \in Units : Finished(p) => Finished(p)'
  BY Zenon, <1>6, <1>15, FinishedRests
<1>19. ServerType'
  <2>1. store' \in [Keys -> Cells]
    <3>1. \A k \in Keys : store'[k] \in Cells
      <4> SUFFICES ASSUME NEW k \in Keys PROVE store'[k] \in Cells
        OBVIOUS
      <4>1. CASE k \in mine \ lost
        <5>1. store'[k] = [val |-> x.buf[k], seq |-> clock[s] + 1] /\ k \in DOMAIN x.buf
          BY Zenon, <1>3, <1>6, <4>1
        <5>2. clock[s] + 1 \in Nat
          BY SMTT(30), <1>12
        <5> QED
          BY SMTT(30), <1>10, <5>1, <5>2 DEF Cells
      <4>2. CASE k \notin mine \ lost
        BY Zenon, <1>6, <1>12, <4>2
      <4> QED
        BY Zenon, <4>1, <4>2
    <3> QED
      BY Zenon, <1>6, <3>1
  <2>2. store'[Data].val \in Seq(Changes)
    <3>1. [p |-> h.p, t |-> h.t] \in Changes
      BY Zenon, <1>7 DEF Requests, Changes
    <3>2. PICK o \in Seq(Changes) : o = store[Data].val
      BY Zenon, <1>12
    <3>3. PICK c \in Changes : c = [p |-> h.p, t |-> h.t]
      BY Zenon, <3>1
    <3>4. store'[Data].val = o \/ store'[Data].val = Append(o, c)
      BY Zenon, <1>14, <3>2, <3>3
    <3> QED
      BY <3>4
  <2> QED
    BY Zenon, <1>1, <1>6, <1>12, <2>1, <2>2 DEF ServerType, Tables
<1>20. Holders'
  <2>1. \A k \in Committing' : k \in Committing \/ k = g
    BY Zenon, <1>17 DEF Committing
  <2>2. ~OfStream(g)
    BY Zenon, <1>7, <1>15 DEF OfStream
  <2> QED
    BY Zenon, <1>1, <1>6, <1>7, <1>15, <1>17, <2>1, <2>2 DEF ServerInv, Holders
<1>21. BuffersSound'
  <2> SUFFICES ASSUME NEW i \in DOMAIN txn, txn[i] # Over
               PROVE  /\ \A r \in Shards : txn[i].snap[r] <= clock'[r]
                      /\ \A k \in DOMAIN txn[i].buf \ {Data} : txn[i].buf[k] = Marker
                      /\ Data \in DOMAIN txn[i].buf => txn[i].snap[Home] >= 0
                      /\ Data \in DOMAIN txn[i].buf /\ store'[Data].seq <= txn[i].snap[Home] =>
                           txn[i].buf[Data] = Append(store'[Data].val, [p |-> txn[i].p, t |-> i])
    BY Zenon, <1>6 DEF BuffersSound
  <2>1. txn[i].snap \in [Shards -> Nat \cup {-1}]
    BY Zenon, <1>1, TxnFacts
  <2>2. /\ \A r \in Shards : txn[i].snap[r] <= clock[r]
        /\ \A k \in DOMAIN txn[i].buf \ {Data} : txn[i].buf[k] = Marker
        /\ Data \in DOMAIN txn[i].buf => txn[i].snap[Home] >= 0
        /\ Data \in DOMAIN txn[i].buf /\ store[Data].seq <= txn[i].snap[Home] =>
             txn[i].buf[Data] = Append(store[Data].val, [p |-> txn[i].p, t |-> i])
    BY Zenon, <1>1 DEF ServerInv, BuffersSound
  <2>3. \A r \in Shards : txn[i].snap[r] \in Int /\ txn[i].snap[r] <= clock'[r]
    <3>1. \A r \in Shards : txn[i].snap[r] \in Int
      BY <2>1
    <3> QED
      BY SMTT(30), <1>nums, <2>2, <3>1
  <2>4. store'[Data] = store[Data] \/ ~(store'[Data].seq <= txn[i].snap[Home])
    <3>1. txn[i].snap[Home] <= clock[Home] /\ txn[i].snap[Home] \in Int /\ clock[Home] \in Nat
      BY Zenon, <1>nums, <2>2, <2>3
    <3> QED
      BY SMTT(30), <1>14, <3>1
  <2> QED
    BY Zenon, <2>2, <2>3, <2>4
<1>22. ASSUME NEW p \in Units, ShardOf[p] = Home
       PROVE  /\ \A i, j \in LandedIn(store', p) : i = j
              /\ LandedIn(store', p) # {} \/ store'[p].seq > 0 => store'[p].val = Marker \/ Finished(p)
  <2>1. /\ \A i, j \in LandedIn(store, p) : i = j
        /\ LandedIn(store, p) # {} \/ store[p].seq > 0 => store[p].val = Marker \/ Finished(p)
    BY Zenon, <1>1, <1>22 DEF ServerInv, MarkedOnce
  <2>2. p \in Keys /\ p # Data
    BY Zenon, Constants
  <2>3. store'[p] = store[p] \/ store'[p].val = Marker
    BY Zenon, <1>11, <1>13, <2>2
  <2>4. CASE store'[Data] = store[Data]
    <3>1. LandedIn(store', p) = LandedIn(store, p)
      BY Zenon, <2>4 DEF LandedIn
    <3> QED
      BY Zenon, <2>1, <2>3, <3>1
  <2>5. CASE store'[Data] # store[Data]
    <3>1. PICK o : o = store[Data].val
      BY Zenon
    <3>2. PICK c : c = [p |-> h.p, t |-> h.t]
      BY Zenon
    <3>3. PICK v : v = store'[Data].val
      BY Zenon
    <3>4. /\ o \in Seq(Changes) /\ v = Append(o, c) /\ c.p = h.p
          /\ s = Home /\ Data \in DOMAIN x.buf /\ store[Data].seq <= x.snap[Home]
      BY Zenon, <1>12, <1>14, <2>5, <3>1, <3>2, <3>3
    <3>5. /\ DOMAIN v = DOMAIN o \cup {Len(o) + 1} /\ v[Len(o) + 1] = c
          /\ \A i \in DOMAIN o : v[i] = o[i] /\ i # Len(o) + 1
      BY SMTT(30), <3>4
    <3>6. LandedIn(store', p) = {i \in DOMAIN v : v[i].p = p} /\ LandedIn(store, p) = {i \in DOMAIN o : o[i].p = p}
      BY Zenon, <3>1, <3>3 DEF LandedIn
    <3>7. CASE p # h.p
      <4>1. LandedIn(store', p) = LandedIn(store, p)
        BY Zenon, <3>4, <3>5, <3>6, <3>7
      <4> QED
        BY Zenon, <2>1, <2>3, <4>1
    <3>8. CASE p = h.p
      <4>1. h.op = "idem" /\ Home \in h.left
        BY Zenon, <1>6, <1>7, <3>4, <3>8
      <4>2. h.p \in DOMAIN x.buf
        BY Zenon, <1>1, <1>2, <1>6, <1>22, <3>8, <4>1 DEF ServerInv, ReplaysConflict
      <4>3. LandedIn(store, p) = {}
        <5>1. LandedIn(store, h.p) # {} => store[Data].seq > x.snap[Home]
          BY Zenon, <1>1, <1>2, <1>6, <1>22, <3>4, <3>8, <4>1 DEF ServerInv, ReplaysConflict
        <5> QED
          BY SMTT(30), <1>12, <3>4, <3>8, <5>1
      <4>4. \A i \in LandedIn(store', p) : i = Len(o) + 1
        BY Zenon, <3>5, <3>6, <4>3
      <4>5. store'[p].val = Marker
        <5>1. CASE p \in mine \ lost
          BY Zenon, <1>11, <1>13, <2>2, <5>1
        <5>2. CASE p \notin mine \ lost
          <6>1. store[p].seq > x.snap[Home] /\ x.snap[Home] >= 0
            BY Zenon, <1>3, <1>4, <1>11, <1>22, <3>4, <3>8, <4>2, <5>2
          <6>2. store[p].seq > 0
            BY SMTT(30), <1>nums, <2>2, <6>1
          <6>3. ~Finished(p)
            BY Zenon, <3>8 DEF Finished
          <6>4. store[p].val = Marker
            BY Zenon, <2>1, <6>2, <6>3
          <6> QED
            BY Zenon, <2>3, <6>4
        <5> QED
          BY Zenon, <5>1, <5>2
      <4> QED
        BY Zenon, <4>4, <4>5
    <3> QED
      BY Zenon, <3>7, <3>8
  <2> QED
    BY Zenon, <2>4, <2>5
<1>23. MarkedOnce(store)' /\ MarkedOnce(disk)'
  <2>1. MarkedOnce(store)'
    BY Zenon, <1>18, <1>22 DEF MarkedOnce, LandedIn
  <2>2. MarkedOnce(disk)'
    BY Zenon, <1>1, <1>6, <1>18 DEF ServerInv, MarkedOnce, LandedIn
  <2> QED
    BY Zenon, <2>1, <2>2
<1>24. ReplaysConflict'
  <2> SUFFICES ASSUME NEW k \in work', k.at \in {"mark", "apply"}, k.op = "idem", ShardOf[k.p] = Home
               PROVE  /\ k.at = "apply" /\ Home \in k.left => k.p \in DOMAIN txn[k.t].buf
                      /\ /\ LandedIn(store', k.p) # {} /\ Data \in DOMAIN txn[k.t].buf
                         /\ k.at = "mark" \/ Home \in k.left
                         => store'[Data].seq > txn[k.t].snap[Home]
    BY Zenon, <1>6 DEF ReplaysConflict, LandedIn
  <2>1. CASE k = g
    <3>1. CASE Home \in g.left
      <4>1. store'[Data] = store[Data] /\ Home \in h.left
        BY Zenon, <1>14, <1>15, <3>1
      <4>2. LandedIn(store', h.p) = LandedIn(store, h.p)
        BY Zenon, <4>1 DEF LandedIn
      <4> QED
        BY Zenon, <1>1, <1>6, <1>15, <2>1, <4>1, <4>2 DEF ServerInv, ReplaysConflict
    <3>2. CASE Home \notin g.left
      BY Zenon, <1>15, <2>1, <3>2
    <3> QED
      BY Zenon, <3>1, <3>2
  <2>2. CASE k # g
    <3>1. k \in work /\ k.t \in DOMAIN txn /\ txn[k.t] # Over
      BY Zenon, <1>1, <1>17, <2>2 DEF ServerInv, Holders, Committing
    <3>2. /\ k.at = "apply" /\ Home \in k.left => k.p \in DOMAIN txn[k.t].buf
          /\ /\ LandedIn(store, k.p) # {} /\ Data \in DOMAIN txn[k.t].buf
             /\ k.at = "mark" \/ Home \in k.left
             => store[Data].seq > txn[k.t].snap[Home]
      BY Zenon, <1>1, <3>1 DEF ServerInv, ReplaysConflict
    <3>3. CASE store'[Data] = store[Data]
      <4>1. LandedIn(store', k.p) = LandedIn(store, k.p)
        BY Zenon, <3>3 DEF LandedIn
      <4> QED
        BY Zenon, <3>2, <3>3, <4>1
    <3>4. CASE store'[Data] # store[Data]
      <4>1. txn[k.t].snap[Home] <= clock[Home] /\ txn[k.t].snap \in [Shards -> Nat \cup {-1}]
        BY ZenonT(40), <1>1, <1>12, <3>1, TxnFacts DEF ServerInv, BuffersSound
      <4>2. store'[Data].seq > txn[k.t].snap[Home]
        <5>1. txn[k.t].snap[Home] \in Int /\ clock[Home] \in Nat
          BY SMTT(30), <1>nums, <4>1
        <5> QED
          BY SMTT(30), <1>14, <3>4, <4>1, <5>1
      <4> QED
        BY Zenon, <3>2, <4>2
    <3> QED
      BY Zenon, <3>3, <3>4
  <2> QED
    BY Zenon, <2>1, <2>2
<1>25. ASSUME NEW i, Kept(i) PROVE Kept(i)'
  BY Zenon, <1>6, <1>15, <1>17, <1>25 DEF Kept
<1>26. Kept(h.t)'
  BY Zenon, <1>6, <1>7, <1>8, <1>15, <1>17 DEF Kept
<1>27. ChangesKept(store)' /\ ChangesKept(disk)'
  <2>1. ASSUME NEW i \in DOMAIN store'[Data].val
        PROVE  store'[Data].val[i].t = h.t \/ Kept(store'[Data].val[i].t)
    <3>1. PICK o \in Seq(Changes) : o = store[Data].val
      BY Zenon, <1>12
    <3>2. store'[Data].val = o \/ store'[Data].val = Append(o, [p |-> h.p, t |-> h.t])
      BY Zenon, <1>14, <3>1
    <3>3. store'[Data].val[i].t = h.t \/ (i \in DOMAIN o /\ store'[Data].val[i] = o[i])
      BY SMTT(30), <2>1, <3>1, <3>2
    <3> QED
      BY Zenon, <1>1, <3>1, <3>3 DEF ServerInv, ChangesKept
  <2>2. ChangesKept(store)'
    BY Zenon, <1>25, <1>26, <2>1 DEF ChangesKept, Kept
  <2>3. ChangesKept(disk)'
    BY ZenonT(40), <1>1, <1>6, <1>25 DEF ServerInv, ChangesKept, Kept
  <2> QED
    BY Zenon, <2>2, <2>3
<1> QED
  BY Zenon, <1>16, <1>19, <1>20, <1>21, <1>23, <1>24, <1>27 DEF RpcInv, ServerInv

\* A table of which some shards are one table's and the rest another's: a unit's
\* marker and the data record come from the same one where they share a shard.
LEMMA TablesMix ==
  ASSUME NEW a \in Tables, NEW b \in Tables, NEW S, NEW m,
         m = [k \in Keys |-> IF ShardOf[k] \in S THEN a[k] ELSE b[k]],
         MarkedOnce(a), MarkedOnce(b), ChangesKept(a), ChangesKept(b)
  PROVE  m \in Tables /\ MarkedOnce(m) /\ ChangesKept(m)
<1>1. Data \in Keys /\ Units \subseteq Keys
  BY Zenon, Constants
<1>2. a \in [Keys -> Cells] /\ b \in [Keys -> Cells] /\ a[Data].val \in Seq(Changes) /\ b[Data].val \in Seq(Changes)
  BY Zenon DEF Tables
<1>3. m \in [Keys -> Cells]
  BY Zenon, <1>2
<1>4. CASE Home \in S
  <2>1. m[Data] = a[Data] /\ \A p \in Units : ShardOf[p] = Home => m[p] = a[p]
    BY Zenon, <1>1, <1>4 DEF Home
  <2>2. m \in Tables
    BY Zenon, <1>2, <1>3, <2>1 DEF Tables
  <2>3. \A p \in Units : LandedIn(m, p) = LandedIn(a, p)
    BY Zenon, <2>1 DEF LandedIn
  <2>4. MarkedOnce(m)
    BY Zenon, <2>1, <2>3 DEF MarkedOnce
  <2>5. ChangesKept(m)
    BY Zenon, <2>1 DEF ChangesKept
  <2> QED
    BY Zenon, <2>2, <2>4, <2>5
<1>5. CASE Home \notin S
  <2>1. m[Data] = b[Data] /\ \A p \in Units : ShardOf[p] = Home => m[p] = b[p]
    BY Zenon, <1>1, <1>5 DEF Home
  <2>2. m \in Tables
    BY Zenon, <1>2, <1>3, <2>1 DEF Tables
  <2>3. \A p \in Units : LandedIn(m, p) = LandedIn(b, p)
    BY Zenon, <2>1 DEF LandedIn
  <2>4. MarkedOnce(m)
    BY Zenon, <2>1, <2>3 DEF MarkedOnce
  <2>5. ChangesKept(m)
    BY Zenon, <2>1 DEF ChangesKept
  <2> QED
    BY Zenon, <2>2, <2>4, <2>5
<1> QED
  BY Zenon, <1>4, <1>5

\* The commit syncs the shards it changed, ends its transaction and answers.
LEMMA CommitDoneStep ==
  ASSUME RpcInv, NEW h \in work, CommitDone(h)
  PROVE  RpcInv'
<1>1. ClientType /\ ServerType /\ ClientInv /\ ServerInv
  BY Zenon DEF RpcInv
<1>2. PICK st : st = IF h.lost = {} \/ (h.op = "idem" /\ h.p \in h.lost) THEN "ok" ELSE "conflict"
  BY Zenon
<1>3. PICK arg : arg = None
  BY Zenon
<1>4. /\ h.at = "apply" /\ Answer(h, st, arg) /\ work' = work \ {h}
      /\ txn' = [txn EXCEPT ![h.t] = Over]
      /\ disk' = [k \in Keys |-> IF ShardOf[k] \in h.wrote THEN store[k] ELSE disk[k]]
      /\ UNCHANGED client /\ app' = app /\ UNCHANGED <<live, store, clock, aborted>>
  BY Zenon, <1>2, <1>3 DEF CommitDone, Answer, client
<1>5. /\ h.t \in DOMAIN txn \ (live \cup aborted) /\ h.t # None
  BY Zenon, <1>1, <1>4, HolderFacts DEF Committing
<1>6. \A k \in work \ {h} : k.t # h.t
  BY Zenon, <1>1, <1>5 DEF ClientInv, IdsExclusive
<1>7. PICK E : E = {h.t}
  BY Zenon
<1>8. Ended(E)
  BY Zenon, <1>1, <1>4, <1>5, <1>7, EndedOne
<1>9. /\ txn' \in Seq(OpenTxns \cup {Over}) /\ DOMAIN txn' = DOMAIN txn /\ TxnsMove
      /\ \A t \in DOMAIN txn : txn'[t] = IF t \in E THEN Over ELSE txn[t]
  BY Zenon, <1>1, <1>8, EndedTxns
<1>10. ClientType' /\ ClientInv'
  <2>1. st \in {"ok", "err", "conflict", "row", "end"} /\ arg \in Nat
    BY Zenon, <1>2, <1>3 DEF None
  <2> QED
    BY Zenon, <1>1, <1>3, <1>4, <1>9, <2>1, AnswerKeepsClient
<1>11. PICK m : m = disk'
  BY Zenon
<1>12. m \in Tables /\ MarkedOnce(m) /\ ChangesKept(m)
  BY ZenonT(40), <1>1, <1>4, <1>11, TablesMix DEF ServerType, ServerInv
<1>13. ServerType'
  BY Zenon, <1>1, <1>4, <1>9, <1>11, <1>12 DEF ServerType
<1>14. \A p \in Units : Finished(p) => Finished(p)'
  BY Zenon, <1>4, FinishedRests
<1>15. Holders'
  <2>1. \A k \in Committing' : k \in Committing /\ k.t # h.t
    BY Zenon, <1>4, <1>6 DEF Committing
  <2> QED
    BY Zenon, <1>1, <1>4, <1>5, <1>7, <1>9, <2>1 DEF ServerInv, Holders, ServerType
<1>16. BuffersSound'
  <2> SUFFICES ASSUME NEW i \in DOMAIN txn', txn'[i] # Over
               PROVE  /\ \A s \in Shards : txn'[i].snap[s] <= clock[s]
                      /\ \A k \in DOMAIN txn'[i].buf \ {Data} : txn'[i].buf[k] = Marker
                      /\ Data \in DOMAIN txn'[i].buf => txn'[i].snap[Home] >= 0
                      /\ Data \in DOMAIN txn'[i].buf /\ store[Data].seq <= txn'[i].snap[Home] =>
                           txn'[i].buf[Data] = Append(store[Data].val, [p |-> txn'[i].p, t |-> i])
    BY Zenon, <1>4 DEF BuffersSound
  <2>1. txn'[i] = txn[i] /\ i \in DOMAIN txn
    BY Zenon, <1>9
  <2> QED
    BY Zenon, <1>1, <2>1 DEF ServerInv, BuffersSound
<1>17. MarkedOnce(store)' /\ MarkedOnce(disk)'
  <2>1. MarkedOnce(store)'
    BY ZenonT(40), <1>1, <1>4, <1>14 DEF ServerInv, MarkedOnce, LandedIn
  <2>2. MarkedOnce(disk)'
    BY Zenon, <1>11, <1>12, <1>14 DEF MarkedOnce, LandedIn
  <2> QED
    BY Zenon, <2>1, <2>2
<1>18. ReplaysConflict'
  <2>1. ASSUME NEW k \in work', k.at \in {"mark", "apply"} PROVE k \in work /\ txn'[k.t] = txn[k.t]
    BY Zenon, <1>1, <1>4, <1>6, <1>7, <1>9, <2>1 DEF ServerInv, Holders, Committing
  <2> QED
    BY Zenon, <1>1, <1>4, <2>1 DEF ServerInv, ReplaysConflict, LandedIn
<1>19. ASSUME NEW i, Kept(i) PROVE Kept(i)'
  BY Zenon, <1>4, <1>9, <1>19 DEF Kept
<1>20. ChangesKept(store)' /\ ChangesKept(disk)'
  <2>1. ChangesKept(store)'
    BY Zenon, <1>1, <1>4, <1>19 DEF ServerInv, ChangesKept, Kept
  <2>2. ChangesKept(disk)'
    BY Zenon, <1>11, <1>12, <1>19 DEF ChangesKept, Kept
  <2> QED
    BY Zenon, <2>1, <2>2
<1> QED
  BY Zenon, <1>10, <1>13, <1>15, <1>16, <1>17, <1>18, <1>20 DEF RpcInv, ServerInv

\* The client half under steps of the server that touch no transaction and no
\* frame; caller e may end.
LEMMA ClientRests ==
  ASSUME ClientType, ClientInv, UNCHANGED <<pend, down, work, txn>>,
         NEW e \in Callers, NEW b, IsApp(b), app' = app \/ app' = [app EXCEPT ![e] = b],
         b.n = app[e].n, b.txn = app[e].txn, b.at = "done", app[e].at # "wait"
  PROVE  ClientType' /\ ClientInv'
<1>1. ClientType'
  BY Zenon DEF ClientType
<1>2. \A q \in Callers : app'[q] = app[q] \/ (q = e /\ app'[q] = b)
  BY Zenon DEF ClientType
<1>3. e \in Unary => \A c \in Conns : \A id \in pend'[c] : id[1] # e
  BY DEF ClientInv, CallsAwaited
<1>4. \A q \in Callers : CallerMoves(q) /\ app'[q].n = app[q].n
  BY Zenon, <1>2, <1>3 DEF CallerMoves
<1>5. FramesMove(0, 0) /\ 0 \notin Conns /\ RequestsMove /\ TxnsMove
  BY SMTT(30) DEF FramesMove, Conns, RequestsMove, TxnsMove, Owns, ClientInv, NumbersUsed, IdsExclusive
<1>6. ClientInv'
  BY Zenon, <1>1, <1>4, <1>5, ClientMoves
<1> QED
  BY Zenon, <1>1, <1>6

\* A commit inside the server's process to one shard, synced: a reaped marker, or
\* another writer's change.  Open transactions find the data as it was, or changed.
LEMMA TableWritten ==
  ASSUME ServerType, ServerInv, NEW m \in Tables, MarkedOnce(m), ChangesKept(m), NEW s \in Shards,
         store' = m, clock' = [clock EXCEPT ![s] = @ + 1],
         disk' = [k \in Keys |-> IF ShardOf[k] = s THEN m[k] ELSE disk[k]],
         UNCHANGED <<work, live, txn, aborted>>,
         m[Data] = store[Data] \/ m[Data].seq = clock[Home] + 1,
         \A p \in Units : Finished(p) => Finished(p)'
  PROVE  ServerType' /\ ServerInv'
<1>1. PICK S : S = {s}
  BY Zenon
<1>2. PICK d : d = disk'
  BY Zenon
<1>3. d = [k \in Keys |-> IF ShardOf[k] \in S THEN m[k] ELSE disk[k]]
  BY Zenon, <1>1, <1>2
<1>4. disk \in Tables /\ MarkedOnce(disk) /\ ChangesKept(disk)
  BY Zenon DEF ServerType, ServerInv
<1>5. PICK e : e = disk
  BY Zenon
<1>6. d \in Tables /\ MarkedOnce(d) /\ ChangesKept(d)
  BY Zenon, <1>3, <1>4, <1>5, TablesMix
<1>7. clock \in [Shards -> Nat]
  BY Zenon DEF ServerType
<1>8. clock' \in [Shards -> Nat] /\ \A r \in Shards : clock[r] \in Nat /\ clock'[r] \in Nat /\ clock[r] <= clock'[r]
  BY SMTT(30), <1>7
<1>9. ServerType'
  BY Zenon, <1>2, <1>6, <1>8 DEF ServerType
<1>10. Holders'
  BY Zenon DEF ServerInv, Holders, Committing
<1>11. ASSUME NEW t \in DOMAIN txn, txn[t] # Over
       PROVE  /\ \A r \in Shards : txn[t].snap[r] \in Int /\ txn[t].snap[r] <= clock[r]
              /\ m[Data] = store[Data] \/ m[Data].seq > txn[t].snap[Home]
  <2>3. \A r \in Shards : txn[t].snap[r] \in Int
    BY Zenon, <1>11, TxnFacts
  <2>4. \A r \in Shards : txn[t].snap[r] <= clock[r]
    BY Zenon, <1>11 DEF ServerInv, BuffersSound
  <2>5. Home \in Shards
    BY Zenon, Constants
  <2>6. m[Data].seq = clock[Home] + 1 => m[Data].seq > txn[t].snap[Home]
    BY SMTT(30), <1>8, <2>3, <2>4, <2>5
  <2> QED
    BY Zenon, <2>3, <2>4, <2>6
<1>12. BuffersSound'
  <2> SUFFICES ASSUME NEW i \in DOMAIN txn, txn[i] # Over
               PROVE  /\ \A r \in Shards : txn[i].snap[r] <= clock'[r]
                      /\ \A k \in DOMAIN txn[i].buf \ {Data} : txn[i].buf[k] = Marker
                      /\ Data \in DOMAIN txn[i].buf => txn[i].snap[Home] >= 0
                      /\ Data \in DOMAIN txn[i].buf /\ m[Data].seq <= txn[i].snap[Home] =>
                           txn[i].buf[Data] = Append(m[Data].val, [p |-> txn[i].p, t |-> i])
    BY Zenon DEF BuffersSound
  <2>1. \A r \in Shards : txn[i].snap[r] <= clock'[r]
    BY SMTT(30), <1>8, <1>11
  <2>2. m[Data] = store[Data] \/ ~(m[Data].seq <= txn[i].snap[Home])
    <3>1. m[Data].seq \in Nat /\ txn[i].snap[Home] \in Int
      BY Zenon, <1>11, Constants DEF Tables, Cells
    <3>2. m[Data] = store[Data] \/ m[Data].seq > txn[i].snap[Home]
      BY Zenon, <1>11
    <3> QED
      BY <3>1, <3>2
  <2>3. /\ \A k \in DOMAIN txn[i].buf \ {Data} : txn[i].buf[k] = Marker
        /\ Data \in DOMAIN txn[i].buf => txn[i].snap[Home] >= 0
        /\ Data \in DOMAIN txn[i].buf /\ store[Data].seq <= txn[i].snap[Home] =>
             txn[i].buf[Data] = Append(store[Data].val, [p |-> txn[i].p, t |-> i])
    BY Zenon DEF ServerInv, BuffersSound
  <2> QED
    BY Zenon, <2>1, <2>2, <2>3
<1>13. MarkedOnce(store)' /\ MarkedOnce(disk)'
  <2>1. MarkedOnce(store)'
    BY ZenonT(40) DEF MarkedOnce, LandedIn
  <2>2. MarkedOnce(disk)'
    BY SMTT(30), <1>2, <1>6 DEF MarkedOnce, LandedIn
  <2> QED
    BY Zenon, <2>1, <2>2
<1>14. ReplaysConflict'
  <2> SUFFICES ASSUME NEW k \in work, k.at \in {"mark", "apply"}, k.op = "idem", ShardOf[k.p] = Home
               PROVE  /\ k.at = "apply" /\ Home \in k.left => k.p \in DOMAIN txn[k.t].buf
                      /\ /\ LandedIn(m, k.p) # {} /\ Data \in DOMAIN txn[k.t].buf
                         /\ k.at = "mark" \/ Home \in k.left
                         => m[Data].seq > txn[k.t].snap[Home]
    BY Zenon DEF ReplaysConflict, LandedIn
  <2>1. k.t \in DOMAIN txn /\ txn[k.t] # Over
    BY Zenon DEF ServerInv, Holders, Committing
  <2>2. /\ k.at = "apply" /\ Home \in k.left => k.p \in DOMAIN txn[k.t].buf
        /\ /\ LandedIn(store, k.p) # {} /\ Data \in DOMAIN txn[k.t].buf
           /\ k.at = "mark" \/ Home \in k.left
           => store[Data].seq > txn[k.t].snap[Home]
    BY Zenon DEF ServerInv, ReplaysConflict
  <2>3. m[Data] = store[Data] \/ m[Data].seq > txn[k.t].snap[Home]
    BY Zenon, <1>11, <2>1
  <2>4. m[Data] = store[Data] => LandedIn(m, k.p) = LandedIn(store, k.p)
    BY Zenon DEF LandedIn
  <2> QED
    BY Zenon, <2>2, <2>3, <2>4
<1>15. ChangesKept(store)' /\ ChangesKept(disk)'
  <2>1. ChangesKept(store)'
    <3>1. \A i \in DOMAIN m[Data].val : Kept(m[Data].val[i].t)
      BY Zenon DEF ChangesKept
    <3> QED
      BY Zenon, <3>1 DEF ChangesKept, Kept
  <2>2. ChangesKept(disk)'
    <3>1. \A i \in DOMAIN d[Data].val : Kept(d[Data].val[i].t)
      BY Zenon, <1>6 DEF ChangesKept
    <3> QED
      BY ZenonT(40), <1>2, <3>1 DEF ChangesKept, Kept
  <2> QED
    BY Zenon, <2>1, <2>2
<1> QED
  BY Zenon, <1>9, <1>10, <1>12, <1>13, <1>14, <1>15 DEF ServerInv

\* reapIdemMarkers: the marker of a unit that is over goes.
LEMMA ReapMarkerStep ==
  ASSUME RpcInv, NEW p \in Callers, ReapMarker(p)
  PROVE  RpcInv'
<1>1. ClientType /\ ServerType /\ ClientInv /\ ServerInv
  BY Zenon DEF RpcInv
<1>2. PICK s : s = ShardOf[p]
  BY Zenon
<1>3. PICK c : c = [val |-> Absent, seq |-> clock[s] + 1]
  BY Zenon
<1>4. PICK m : m = [store EXCEPT ![p] = c]
  BY Zenon
<1>5. /\ p \in Units /\ Finished(p)
      /\ store' = m /\ clock' = [clock EXCEPT ![s] = @ + 1]
      /\ disk' = [k \in Keys |-> IF ShardOf[k] = s THEN m[k] ELSE disk[k]]
      /\ UNCHANGED <<work, live, txn, aborted>> /\ app' = app /\ pend' = pend /\ down' = down
  BY SMTT(30), <1>2, <1>3, <1>4 DEF ReapMarker, Finished, client
<1>6. p \in Keys /\ p # Data /\ s \in Shards /\ Data \in Keys
  BY Zenon, <1>2, <1>5, Constants
<1>7. store \in [Keys -> Cells] /\ store[Data].val \in Seq(Changes) /\ clock[s] \in Nat
  BY Zenon, <1>1, <1>6 DEF ServerType, Tables
<1>8. c \in Cells
  BY SMTT(30), <1>3, <1>7 DEF Cells, Values
<1>9. /\ m[Data] = store[Data] /\ \A k \in Keys : k # p => m[k] = store[k]
      /\ m \in [Keys -> Cells]
  BY Zenon, <1>4, <1>6, <1>7, <1>8
<1>10. m \in Tables
  BY Zenon, <1>7, <1>9 DEF Tables
<1>11. \A q \in Units : LandedIn(m, q) = LandedIn(store, q)
  BY Zenon, <1>9 DEF LandedIn
<1>12. MarkedOnce(m)
  BY Zenon, <1>1, <1>5, <1>9, <1>11, Constants DEF ServerInv, MarkedOnce
<1>13. ChangesKept(m)
  BY Zenon, <1>1, <1>9 DEF ServerInv, ChangesKept
<1>14. \A q \in Units : Finished(q) => Finished(q)'
  BY Zenon, <1>5, FinishedRests
<1>15. ServerType' /\ ServerInv'
  BY Zenon, <1>1, <1>5, <1>6, <1>9, <1>10, <1>12, <1>13, <1>14, TableWritten
<1>16. ClientType' /\ ClientInv'
  BY Zenon, <1>1, <1>5, ClientIdles
<1> QED
  BY Zenon, <1>15, <1>16 DEF RpcInv

\* A writer in the server's process adds its change: no unit's, and no transaction's.
LEMMA LocalWriteStep ==
  ASSUME RpcInv, NEW p \in Callers, LocalWrite(p)
  PROVE  RpcInv'
<1>1. ClientType /\ ServerType /\ ClientInv /\ ServerInv
  BY Zenon DEF RpcInv
<1>2. PICK o : o = store[Data].val
  BY Zenon
<1>3. PICK v : v = Append(o, [p |-> p, t |-> None])
  BY Zenon
<1>4. PICK c : c = [val |-> v, seq |-> clock[Home] + 1]
  BY Zenon
<1>5. PICK m : m = [store EXCEPT ![Data] = c]
  BY Zenon
<1>6. PICK b : b = [app[p] EXCEPT !.at = "done", !.res = "ok"]
  BY Zenon
<1>7. /\ p \in Locals /\ app[p].at = "dial"
      /\ store' = m /\ clock' = [clock EXCEPT ![Home] = @ + 1]
      /\ disk' = [k \in Keys |-> IF ShardOf[k] = Home THEN m[k] ELSE disk[k]]
      /\ app' = [app EXCEPT ![p] = b]
      /\ UNCHANGED <<work, live, txn, aborted>> /\ pend' = pend /\ down' = down
  <2>1. m = [store EXCEPT ![Data] = [val |-> Append(@.val, [p |-> p, t |-> None]), seq |-> clock[ShardOf[Data]] + 1]]
    BY Zenon, <1>2, <1>3, <1>4, <1>5 DEF Home
  <2>2. /\ store' = m /\ clock' = [clock EXCEPT ![Home] = @ + 1]
        /\ disk' = [k \in Keys |-> IF ShardOf[k] = Home THEN m[k] ELSE disk[k]]
    <3>1. store' = m
      BY Zenon, <2>1 DEF LocalWrite
    <3>2. clock' = [clock EXCEPT ![Home] = @ + 1]
      BY Zenon DEF LocalWrite, Home
    <3>3. disk' = [k \in Keys |-> IF ShardOf[k] = ShardOf[Data] THEN store'[k] ELSE disk[k]]
      BY DEF LocalWrite
    <3> QED
      BY Zenon, <3>1, <3>2, <3>3 DEF Home
  <2>3. app' = [app EXCEPT ![p] = b]
    BY Zenon, <1>6 DEF LocalWrite
  <2> QED
    BY Zenon, <2>2, <2>3 DEF LocalWrite
<1>8. p \notin Units /\ Data \in Keys /\ Home \in Shards
  BY Zenon, <1>7, Constants DEF Locals, Units
<1>9. store \in [Keys -> Cells] /\ o \in Seq(Changes) /\ clock[Home] \in Nat
  BY Zenon, <1>1, <1>2, <1>8 DEF ServerType, Tables
<1>10. PICK n \in Changes : n = [p |-> p, t |-> None]
  BY Zenon DEF Changes, None
<1>11. /\ v = Append(o, n) /\ v \in Seq(Changes) /\ n.p = p /\ n.t = None
       /\ DOMAIN v = DOMAIN o \cup {Len(o) + 1} /\ v[Len(o) + 1] = n
       /\ \A i \in DOMAIN o : v[i] = o[i]
  BY <1>3, <1>9, <1>10
<1>12. c \in Cells /\ c.val = v /\ c.seq = clock[Home] + 1
  BY SMTT(30), <1>4, <1>9, <1>11 DEF Cells, Values
<1>13. /\ m[Data] = c /\ \A k \in Keys : k # Data => m[k] = store[k]
       /\ m \in [Keys -> Cells]
  BY Zenon, <1>5, <1>8, <1>9, <1>12
<1>14. m \in Tables
  BY Zenon, <1>11, <1>12, <1>13 DEF Tables
<1>15. \A q \in Units : LandedIn(m, q) = LandedIn(store, q)
  <2>1. ASSUME NEW q \in Units PROVE {i \in DOMAIN v : v[i].p = q} = {i \in DOMAIN o : o[i].p = q}
    BY Zenon, <1>8, <1>11, <2>1
  <2> QED
    BY SMTT(30), <1>2, <1>12, <1>13, <2>1 DEF LandedIn
<1>16. MarkedOnce(m)
  BY Zenon, <1>1, <1>13, <1>15, Constants DEF ServerInv, MarkedOnce
<1>17. Kept(None)
  <2>1. None \notin DOMAIN txn
    BY Zenon, <1>1, TxnFacts
  <2> QED
    BY Zenon, <1>1, <2>1 DEF Kept, ServerType, ServerInv, Holders, Committing
<1>18. ChangesKept(m)
  <2>1. \A i \in DOMAIN o : Kept(o[i].t)
    BY Zenon, <1>1, <1>2 DEF ServerInv, ChangesKept
  <2>2. \A i \in DOMAIN v : Kept(v[i].t)
    BY Zenon, <1>11, <1>17, <2>1
  <2> QED
    BY Zenon, <1>12, <1>13, <2>2 DEF ChangesKept
<1>19. IsApp(b) /\ b.n = app[p].n /\ b.txn = app[p].txn /\ b.at = "done"
  BY ZenonT(40), <1>1, <1>6 DEF ClientType, IsApp, AppFields
<1>20. \A q \in Units : Finished(q) => Finished(q)'
  BY <1>1, <1>7, <1>8 DEF Finished, ClientType
<1>21. ServerType' /\ ServerInv'
  BY Zenon, <1>1, <1>7, <1>8, <1>12, <1>13, <1>14, <1>16, <1>18, <1>20, TableWritten
<1>22. ClientType' /\ ClientInv'
  BY Zenon, <1>1, <1>7, <1>19, ClientRests
<1> QED
  BY Zenon, <1>21, <1>22 DEF RpcInv

-----------------------------------------------------------------------------
(* What goes wrong. *)

\* The server dies: no request and no transaction is left, and of each shard the
\* data record and the markers are the store's or the disk's together.
LEMMA CrashStep ==
  ASSUME RpcInv, Crash
  PROVE  RpcInv'
<1>1. ClientType /\ ServerType /\ ClientInv /\ ServerInv
  BY Zenon DEF RpcInv
<1>2. PICK S \in SUBSET Shards :
        /\ store' = [k \in Keys |-> IF ShardOf[k] \in S THEN store[k] ELSE disk[k]]
        /\ disk' = store'
  BY Zenon DEF Crash
<1>3. PICK m : m = store'
  BY Zenon
<1>4. m \in Tables /\ MarkedOnce(m) /\ ChangesKept(m)
  BY ZenonT(40), <1>1, <1>2, <1>3, TablesMix DEF ServerType, ServerInv
<1>5. /\ live' = {} /\ work' = {} /\ txn' = [t \in DOMAIN txn |-> Over]
      /\ UNCHANGED <<clock, aborted>> /\ app' = app /\ pend' = pend /\ down' = down
  BY Zenon DEF Crash, client
<1>6. PICK E : E = DOMAIN txn
  BY Zenon
<1>7. Ended(E)
  BY Zenon, <1>5, <1>6 DEF Ended
<1>8. /\ txn' \in Seq(OpenTxns \cup {Over}) /\ DOMAIN txn' = DOMAIN txn /\ TxnsMove
      /\ \A t \in DOMAIN txn : txn'[t] = Over
  BY Zenon, <1>1, <1>6, <1>7, EndedTxns
<1>9. ClientType'
  BY Zenon, <1>1, <1>5 DEF ClientType
<1>10. FramesMove(0, 0) /\ 0 \notin Conns /\ RequestsMove
  BY SMTT(30), <1>5 DEF FramesMove, Conns, RequestsMove
<1>11. \A q \in Callers : CallerMoves(q) /\ app'[q].n = app[q].n
  BY Zenon, <1>5 DEF CallerMoves
<1>12. ClientInv'
  BY Zenon, <1>1, <1>5, <1>8, <1>9, <1>10, <1>11, ClientMoves
<1>13. ServerType'
  BY Zenon, <1>1, <1>2, <1>3, <1>4, <1>5, <1>8 DEF ServerType
<1>14. \A p \in Units : Finished(p) => Finished(p)'
  BY Zenon, <1>5, FinishedRests
<1>15. Holders' /\ BuffersSound' /\ ReplaysConflict'
  BY Zenon, <1>5, <1>8 DEF Holders, Committing, BuffersSound, ReplaysConflict
<1>16. MarkedOnce(store)' /\ MarkedOnce(disk)'
  <2>1. store' = m /\ disk' = m
    BY Zenon, <1>2, <1>3
  <2>2. MarkedOnce(store)'
    BY Zenon, <1>4, <1>14, <2>1 DEF MarkedOnce, LandedIn
  <2>3. MarkedOnce(disk)'
    BY Zenon, <1>4, <1>14, <2>1 DEF MarkedOnce, LandedIn
  <2> QED
    BY Zenon, <2>2, <2>3
<1>17. ChangesKept(store)' /\ ChangesKept(disk)'
  <2>1. \A i \in DOMAIN m[Data].val : Kept(m[Data].val[i].t)
    BY Zenon, <1>4 DEF ChangesKept
  <2>2. ASSUME NEW t, Kept(t) PROVE Kept(t)'
    BY Zenon, <1>5, <1>8, <2>2 DEF Kept
  <2> QED
    BY Zenon, <1>2, <1>3, <2>1, <2>2 DEF ChangesKept
<1> QED
  BY Zenon, <1>9, <1>12, <1>13, <1>15, <1>16, <1>17 DEF RpcInv, ServerInv

\* A transport that fails changes neither half, and neither does a stutter.
LEMMA RpcRests ==
  ASSUME RpcInv, UNCHANGED client, UNCHANGED server, UNCHANGED <<down, work>>
  PROVE  RpcInv'
<1>1. UNCHANGED <<pend, app, down, work, live, txn, store, clock, disk, aborted>>
  BY Zenon DEF client, server
<1>2. ServerType'
  BY Zenon, <1>1 DEF RpcInv, ServerType
<1>3. ClientType' /\ ClientInv'
  BY Zenon, <1>1, ClientIdles DEF RpcInv
<1>4. ServerInv'
  <2>1. Holders' /\ BuffersSound' /\ ReplaysConflict'
    BY Zenon, <1>1 DEF RpcInv, ServerInv, Holders, Committing, BuffersSound, ReplaysConflict
  <2>2. MarkedOnce(store)' /\ MarkedOnce(disk)'
    <3>1. \A p \in Units : Finished(p) => Finished(p)'
      BY Zenon, <1>1 DEF Finished
    <3> QED
      BY Zenon, <1>1, <3>1, MarkersKept DEF RpcInv, ServerInv
  <2>3. ChangesKept(store)' /\ ChangesKept(disk)'
    BY Zenon, <1>1 DEF RpcInv, ServerInv, ChangesKept, Kept
  <2> QED
    BY Zenon, <2>1, <2>2, <2>3 DEF ServerInv
<1> QED
  BY Zenon, <1>2, <1>3, <1>4 DEF RpcInv

-----------------------------------------------------------------------------
(* The invariant, and what follows. *)

\* At the start nothing has been sent and the tables hold no change.
LEMMA RpcInit ==
  ASSUME Init
  PROVE  RpcInv
<1>1. /\ pend = [c \in Conns |-> {}] /\ down = [c \in Conns |-> <<>>] /\ work = {} /\ live = {}
      /\ txn = <<>> /\ aborted = {} /\ clock = [s \in Shards |-> 0] /\ disk = store
      /\ store = [k \in Keys |-> [val |-> IF k = Data THEN <<>> ELSE Absent, seq |-> 0]]
      /\ app = [p \in Callers |-> Idle]
  BY Zenon DEF Init
<1>2. IsApp(Idle) /\ Idle.txn = None
  BY Zenon DEF IsApp, AppFields, Idle, None
<1>3. ClientType
  BY SMTT(30), <1>1, <1>2 DEF ClientType
<1>4. store \in Tables /\ store[Data].val = <<>> /\ \A k \in Keys : store[k].seq = 0
  <2>1. \A k \in Keys : store[k] \in Cells
    BY <1>1 DEF Cells, Values
  <2>2. Data \in Keys
    BY Zenon, Constants
  <2>3. store[Data].val = <<>> /\ \A k \in Keys : store[k].seq = 0
    BY Zenon, <1>1, <2>2
  <2>4. store \in [Keys -> Cells]
    BY Zenon, <1>1, <2>1
  <2>5. store[Data].val \in Seq(Changes)
    BY SMTT(30), <2>3
  <2> QED
    BY Zenon, <2>3, <2>4, <2>5 DEF Tables
<1>5. ServerType
  BY SMTT(30), <1>1, <1>4 DEF ServerType
<1>6. \A c \in Conns : DOMAIN down[c] = {} /\ pend[c] = {}
  BY SMTT(30), <1>1
<1>7. \A p \in Callers : app[p].txn = None
  BY Zenon, <1>1, <1>2
<1>8. ClientInv
  BY Zenon, <1>1, <1>6, <1>7 DEF ClientInv, CallsAwaited, NumbersUsed, IdsUnderWay, IdsExclusive, Ownership
<1>9. DOMAIN txn = {} /\ DOMAIN store[Data].val = {}
  <2>1. DOMAIN <<>> = {}
    OBVIOUS
  <2> QED
    BY Zenon, <1>1, <1>4, <2>1
<1>10. Holders /\ BuffersSound /\ ReplaysConflict
  BY Zenon, <1>1, <1>9 DEF Holders, Committing, BuffersSound, ReplaysConflict
<1>11. MarkedOnce(store) /\ ChangesKept(store)
  BY SMTT(30), <1>4, <1>9, Constants DEF MarkedOnce, LandedIn, ChangesKept
<1> QED
  BY Zenon, <1>1, <1>3, <1>5, <1>8, <1>10, <1>11 DEF RpcInv, ServerInv

\* Every step of the callers, the read loops, the server and the faults keeps it.
LEMMA RpcStep ==
  ASSUME RpcInv, [Next]_vars
  PROVE  RpcInv'
<1>1. CASE UNCHANGED vars
  BY Zenon, <1>1, RpcRests DEF vars, client, server
<1>2. ASSUME NEW p \in Callers, CallerStep(p) \/ CallerChoice(p) PROVE RpcInv'
  BY Zenon, <1>2, SendSteps, ReaderSteps, DialStep, CancelCallStep DEF CallerStep, CallerChoice
<1>3. ASSUME NEW p \in Callers, Serving(p) PROVE RpcInv'
  <2>1. PICK h \in work : ServerStep(h)
    BY Zenon, <1>3 DEF Serving
  <2>2. CASE OpBegin(h) \/ Load(h) \/ OpSetAttr(h) \/ TakeToCommit(h)
    BY Zenon, <2>2, OpBeginStep, LoadStep, OpSetAttrStep, TakeToCommitStep
  <2>3. CASE CheckMarker(h) \/ WriteMarker(h) \/ CommitDone(h) \/ OpAbort(h)
    BY Zenon, <2>3, CheckMarkerStep, WriteMarkerStep, CommitDoneStep, OpAbortStep
  <2>4. CASE \E s \in Shards : ApplyShard(h, s)
    BY Zenon, <2>4, ApplyShardStep
  <2>5. CASE StreamRow(h) \/ StreamDone(h) \/ WatchStart(h) \/ WatchSend(h) \/ WatchDone(h)
    BY Zenon, <2>5, StreamSteps
  <2>6. CASE StopWatch(h)
    BY Zenon, <2>6, StopWatchStep
  <2> QED
    BY Zenon, <2>1, <2>2, <2>3, <2>4, <2>5, <2>6 DEF ServerStep
<1>4. ASSUME NEW p \in Callers, ReapMarker(p) \/ LocalWrite(p) PROVE RpcInv'
  BY Zenon, <1>4, ReapMarkerStep, LocalWriteStep
<1>5. ASSUME NEW c \in Conns, Ends(c) PROVE RpcInv'
  BY Zenon, <1>5, ReadFrameStep, FailAllStep, ServeEndsStep DEF Ends
<1>6. ASSUME NEW c \in Conns, Break(c) PROVE RpcInv'
  BY Zenon, <1>6, RpcRests DEF Break
<1>7. CASE Reaping
  BY Zenon, <1>7, ReapIdleStep DEF Reaping
<1>8. CASE Crash
  BY Zenon, <1>8, CrashStep
<1> QED
  BY Zenon, <1>1, <1>2, <1>3, <1>4, <1>5, <1>6, <1>7, <1>8 DEF Next

\* The invariant holds throughout: whoever runs, however connections break, replies
\* are lost, calls are cancelled and the server dies.
THEOREM RpcInvariance == Spec => []RpcInv
<1>1. Init => RpcInv
  BY Zenon, RpcInit
<1>2. RpcInv /\ [Next]_vars => RpcInv'
  BY Zenon, RpcStep
<1> QED
  BY <1>1, <1>2, PTL DEF Spec

\* CommitIdempotent applies a unit of work at most once where one shard holds the
\* marker and the data: for any callers, retries, connections and faults.
THEOREM UnitsAppliedOnce == Spec => []AppliedOnce
<1>1. RpcInv => AppliedOnce
  BY Zenon DEF RpcInv, ServerInv, MarkedOnce, LandedIn, Landed, Home, AppliedOnce
<1> QED
  BY <1>1, RpcInvariance, PTL

\* What a disconnect, the idle reaper, an abort or a replayed commit has given up
\* is never in the table.
THEOREM GivenUpInvisible == Spec => []AbortedInvisible
<1>1. RpcInv => AbortedInvisible
  BY Zenon DEF RpcInv, ServerInv, ChangesKept, Kept, AbortedInvisible
<1> QED
  BY <1>1, RpcInvariance, PTL
=============================================================================
