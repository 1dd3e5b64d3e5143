------------------------------ MODULE Transport ------------------------------
(***************************************************************************)
(* The connection engine of the client: serverPool, muxConn and request    *)
(* of transport.go, for one server.                                        *)
(*                                                                         *)
(* Every goroutine is a process: the callers blocked in exchange, the      *)
(* writer (run, then writeLoop) and the reader (readLoop) of each          *)
(* connection, whoever runs a teardown, and Client.Close.  One action is   *)
(* one critical section of muxConn.mu or serverPool.mu, or one             *)
(* compare-and-swap on request.state, together with the purely local work  *)
(* up to the next one.  Payloads are reduced to "not written", "partly     *)
(* written" and "fully written"; time to the event that a deadline passes. *)
(***************************************************************************)
EXTENDS Naturals, Sequences, FiniteSets

CONSTANTS
    Requests,    \* calls of exchange, each made once
    Conns,       \* identities of muxConn objects; a dead one is reused
    None,        \* the nil pointer
    MaxConns,    \* config.maxConns
    Timed,       \* requests with a deadline (ioTimeout or the context's own)
    Cancelable,  \* requests whose context may be canceled
    Batches,     \* pipelines answered by one response and the MN barrier
    Faults       \* what the environment may do, see FaultKinds

FaultKinds == {"dial", "sock", "error", "idle", "close"}

ASSUME TransportAssumption ==
    /\ None \notin Requests \cup Conns
    /\ MaxConns \in Nat \ {0}
    /\ Timed \subseteq Requests
    /\ Cancelable \subseteq Requests
    /\ Batches \subseteq Requests
    /\ Faults \subseteq FaultKinds

VARIABLES
    (* request, and the goroutine in exchange that waits for it *)
    state,       \* request.state; "new" before exchange creates it
    ctx,         \* the caller's context: live, canceled, expired
    caller,      \* where exchange is, see CallerPlaces
    rconn,       \* request.conn
    onWire,      \* request.onWire
    res,         \* what exchange returns: error, cause of a lost connection, written
    got,         \* request.responses, as the requests the frames answered
    puts,        \* how often the whole payload was handed to a socket
    (* serverPool *)
    conns,       \* serverPool.conns
    pclosed,     \* serverPool.closed
    root,        \* Client.rootCtx has been canceled
    drainq,      \* connections close still has to drain
    plist,       \* requests the holder of serverPool.mu has still to place
    ptarget,     \* the connection pickLocked chose for the first of them
    psignal,     \* add has appended it there and has still to signal
    prequeue,    \* detach's requeue
    pcause,      \* detach's cause
    (* muxConn *)
    mux,         \* the scalar fields of each connection
    pending,     \* muxConn.pending
    inflight,    \* muxConn.inflight
    writer,      \* the goroutine of run, writeLoop and flush
    reader,      \* the goroutine of readLoop
    tear,        \* the part of teardownLocked that runs after the unlock
    sock         \* the TCP connection and the server behind it

reqVars  == <<state, ctx, caller, rconn, onWire, res, got, puts>>
poolVars == <<conns, pclosed, root, drainq, plist, ptarget, psignal, prequeue, pcause>>
connVars == <<mux, pending, inflight, writer, reader, tear, sock>>
vars     == <<reqVars, poolVars, connVars>>

-----------------------------------------------------------------------------
(* Values *)

Causes  == {"nil", "dial", "rootcanceled", "io", "iotimeout", "deadline", "server"}
Errors  == Causes \cup {"unset", "ok", "lost", "canceled", "closed"}
Results == [err : Errors, why : Causes, wrote : {"none", "part", "all"}]

Result(e, wrote) == [err |-> e, why |-> "nil", wrote |-> wrote]
Lost(why)        == [err |-> "lost", why |-> why, wrote |-> "all"]
Unset            == Result("unset", "none")

(* idle; in enqueue; in its select; between its two compare-and-swaps;     *)
(* about to call expire or orphan; in the last wait, blind to its context. *)
CallerPlaces == {"idle", "adding", "waiting", "missed", "giveup", "blocked"}

Frames == [of : Requests, last : BOOLEAN, bad : BOOLEAN]

MuxFields ==
    [dial : {"unborn", "dialing", "up", "gone"}, closed : BOOLEAN,
     closing : BOOLEAN, served : BOOLEAN, wake : BOOLEAN, cause : Causes,
     blamed : Requests \cup {None}, rd : Requests \cup {None}]

WriterFields ==
    [pc : {"off", "idle", "claim", "flush", "settle", "fail", "tail", "requeue", "exit"},
     batch : Seq(Requests), n : Nat, err : {"nil", "io", "iotimeout"},
     part : BOOLEAN, closed : BOOLEAN, served : BOOLEAN]

ReaderFields ==
    [pc : {"off", "read", "deliver", "exit"}, head : Requests \cup {None}, fin : BOOLEAN]

TearFields == [on : BOOLEAN, lost : Seq(Requests), move : Seq(Requests)]

SockFields == [up : BOOLEAN, recv : Seq(Requests), back : Seq(Frames)]

NoMux    == [dial |-> "unborn", closed |-> TRUE, closing |-> FALSE,
             served |-> FALSE, wake |-> FALSE, cause |-> "nil",
             blamed |-> None, rd |-> None]
NewMux   == [NoMux EXCEPT !.dial = "dialing", !.closed = FALSE]
NoWriter == [pc |-> "off", batch |-> <<>>, n |-> 0, err |-> "nil",
             part |-> FALSE, closed |-> FALSE, served |-> FALSE]
NoReader == [pc |-> "off", head |-> None, fin |-> FALSE]
NoTear   == [on |-> FALSE, lost |-> <<>>, move |-> <<>>]
DeadSock == [up |-> FALSE, recv |-> <<>>, back |-> <<>>]
OpenSock == [DeadSock EXCEPT !.up = TRUE]

Elems(s) == {s[i] : i \in 1..Len(s)}

(* The order-preserving enumeration of a set I of positions: one function. *)
Enumerations(I) ==
    {f \in [1..Cardinality(I) -> I] :
        \A i, j \in 1..Cardinality(I) : i < j => f[i] < f[j]}
Extract(s, f) == [i \in DOMAIN f |-> s[f[i]]]

TypeOK ==
    /\ state \in [Requests -> {"new", "queued", "writing", "done"}]
    /\ ctx \in [Requests -> {"live", "canceled", "expired"}]
    /\ caller \in [Requests -> CallerPlaces]
    /\ rconn \in [Requests -> Conns \cup {None}]
    /\ onWire \in [Requests -> BOOLEAN]
    /\ res \in [Requests -> Results]
    /\ got \in [Requests -> Seq(Requests)]
    /\ puts \in [Requests -> Nat]
    /\ conns \in SUBSET Conns
    /\ pclosed \in BOOLEAN
    /\ root \in BOOLEAN
    /\ drainq \in SUBSET Conns
    /\ plist \in Seq(Requests)
    /\ ptarget \in Conns \cup {None}
    /\ psignal \in BOOLEAN
    /\ prequeue \in BOOLEAN
    /\ pcause \in Causes \cup {"closed"}
    /\ mux \in [Conns -> MuxFields]
    /\ pending \in [Conns -> Seq(Requests)]
    /\ inflight \in [Conns -> Seq(Requests)]
    /\ writer \in [Conns -> WriterFields]
    /\ reader \in [Conns -> ReaderFields]
    /\ tear \in [Conns -> TearFields]
    /\ sock \in [Conns -> SockFields]

Init ==
    /\ state = [r \in Requests |-> "new"]
    /\ ctx = [r \in Requests |-> "live"]
    /\ caller = [r \in Requests |-> "idle"]
    /\ rconn = [r \in Requests |-> None]
    /\ onWire = [r \in Requests |-> FALSE]
    /\ res = [r \in Requests |-> Unset]
    /\ got = [r \in Requests |-> <<>>]
    /\ puts = [r \in Requests |-> 0]
    /\ conns = {} /\ drainq = {}
    /\ pclosed = FALSE /\ root = FALSE
    /\ plist = <<>> /\ ptarget = None /\ psignal = FALSE
    /\ prequeue = FALSE /\ pcause = "nil"
    /\ mux = [c \in Conns |-> NoMux]
    /\ pending = [c \in Conns |-> <<>>]
    /\ inflight = [c \in Conns |-> <<>>]
    /\ writer = [c \in Conns |-> NoWriter]
    /\ reader = [c \in Conns |-> NoReader]
    /\ tear = [c \in Conns |-> NoTear]
    /\ sock = [c \in Conns |-> DeadSock]

-----------------------------------------------------------------------------
(* Helpers *)

(* request.complete: R gives each request its outcome, and the             *)
(* compare-and-swap drops the ones already settled.                        *)
Open(r) == state[r] \in {"queued", "writing"}

complete(R) ==
    /\ state' = [r \in Requests |-> IF r \in DOMAIN R /\ Open(r) THEN "done" ELSE state[r]]
    /\ res' = [r \in Requests |-> IF r \in DOMAIN R /\ Open(r) THEN R[r] ELSE res[r]]

(* armReadDeadlineLocked: the read deadline becomes that of the oldest     *)
(* request of queue q that nobody has settled (in the request states st).  *)
OldestLive(q, st) ==
    {q[i] : i \in {k \in 1..Len(q) : /\ st[q[k]] # "done"
                                     /\ \A j \in 1..(k - 1) : st[q[j]] = "done"}}

armReadDeadline(q, st) ==
    IF OldestLive(q, st) \cap Timed = {} THEN None
    ELSE CHOOSE r \in OldestLive(q, st) \cap Timed : TRUE

(* Slip: any in-flight request may take the connection down. *)
oldestLiveLocked_Any(c, r) == r \in Elems(inflight[c])

(* oldestLiveLocked *)
oldestLiveLocked(c, r) ==
    \E i \in 1..Len(inflight[c]) :
        /\ inflight[c][i] = r
        /\ \A j \in 1..(i - 1) : state[inflight[c][j]] = "done"

(* A deadline that stopped mattering to its caller still passes. *)
DeadlinePassed(r) == r \in Timed /\ ctx[r] # "live"

(* teardownLocked up to its unlock; tear keeps what runs after it. *)
BlamedOf(c, headSaw) ==
    IF headSaw /\ inflight[c] # <<>> THEN Head(inflight[c]) ELSE None

teardownLocked(c, cause, headSaw) ==
    IF mux[c].closed
    THEN UNCHANGED <<mux, pending, inflight, tear, sock>>
    ELSE /\ mux' = [mux EXCEPT ![c] = [@ EXCEPT !.closed = TRUE, !.cause = cause,
                                !.blamed = BlamedOf(c, headSaw), !.wake = TRUE]]
         /\ tear' = [tear EXCEPT ![c] = [on |-> TRUE, lost |-> inflight[c],
                                         move |-> pending[c]]]
         /\ inflight' = [inflight EXCEPT ![c] = <<>>]
         /\ pending' = [pending EXCEPT ![c] = <<>>]
         /\ sock' = [sock EXCEPT ![c] = DeadSock]

-----------------------------------------------------------------------------
(* serverPool, under serverPool.mu *)

Load(c) == Len(pending[c]) + Len(inflight[c])

(* Identities free for newConn: never used, or of a connection whose       *)
(* goroutines have all returned and that nobody can reach any more.        *)
Fresh ==
    {c \in Conns \ (conns \cup drainq) :
        /\ mux[c].closed /\ mux[c].dial \in {"unborn", "gone"}
        /\ writer[c].pc \in {"off", "exit"} /\ reader[c].pc \in {"off", "exit"}
        /\ ~tear[c].on /\ pending[c] = <<>> /\ ptarget # c
        /\ \A r \in Requests : ~(caller[r] = "giveup" /\ rconn[r] = c)}

(* Slip: the cap is tested one too late. *)
NeedsConn_OffByOne(kept) ==
    \/ kept = {}
    \/ (\A k \in kept : Load(k) > 0) /\ Cardinality(kept) <= MaxConns

NeedsConn(kept) ==
    \/ kept = {}
    \/ (\A k \in kept : Load(k) > 0) /\ Cardinality(kept) < MaxConns

(* pickLocked, with status and retire, and newConn: drops dead connections *)
(* and the idle ones R, and settles on connection c.                       *)
pickLocked(c) ==
    \E R \in SUBSET {k \in conns : "idle" \in Faults /\ ~mux[k].closed /\ Load(k) = 0} :
        LET kept == {k \in conns \ R : ~mux[k].closed}
            mux1 == [k \in Conns |-> IF k \in R
                        THEN [mux[k] EXCEPT !.closed = TRUE, !.wake = TRUE]
                        ELSE mux[k]]
            sock1 == [k \in Conns |-> IF k \in R THEN DeadSock ELSE sock[k]]
        IN  IF NeedsConn(kept)
            THEN /\ Fresh # {}
                 /\ c = CHOOSE k \in Fresh : TRUE
                 /\ conns' = kept \cup {c}
                 /\ mux' = [mux1 EXCEPT ![c] = NewMux]
                 /\ sock' = sock1
                 /\ inflight' = [inflight EXCEPT ![c] = <<>>]
                 /\ writer' = [writer EXCEPT ![c] = NoWriter]
                 /\ reader' = [reader EXCEPT ![c] = NoReader]
            ELSE /\ c \in kept /\ \A k \in kept : Load(c) <= Load(k)
                 /\ conns' = kept
                 /\ mux' = mux1
                 /\ sock' = sock1
                 /\ UNCHANGED <<inflight, writer, reader>>

(* exchange up to enqueue's choice of a connection. *)
Exchange(r) ==
    /\ state[r] = "new" /\ ctx[r] = "live"
    /\ ~pclosed /\ plist = <<>>
    /\ \E c \in Conns : pickLocked(c) /\ ptarget' = c
    /\ state' = [state EXCEPT ![r] = "queued"]
    /\ caller' = [caller EXCEPT ![r] = "adding"]
    /\ plist' = <<r>>
    /\ UNCHANGED <<ctx, rconn, onWire, res, got, puts, pclosed, root, drainq,
                   psignal, prequeue, pcause, pending, tear>>

CtxErr(r) == IF ctx[r] = "expired" THEN "deadline" ELSE "canceled"

(* exchange returning at once: a dead context, or a closed pool. *)
ExchangeRefused(r) ==
    /\ state[r] = "new"
    /\ \/ /\ ctx[r] # "live"
          /\ res' = [res EXCEPT ![r] = Result(CtxErr(r), "none")]
       \/ /\ ctx[r] = "live" /\ pclosed /\ plist = <<>>
          /\ res' = [res EXCEPT ![r] = Result("closed", "none")]
    /\ state' = [state EXCEPT ![r] = "done"]
    /\ caller' = [caller EXCEPT ![r] = "waiting"]
    /\ UNCHANGED <<ctx, rconn, onWire, got, puts, poolVars, connVars>>

(* muxConn.add up to its unlock.  It runs under serverPool.mu, but no      *)
(* longer in the critical section of muxConn.mu in which status was read.  *)
PoolAdd ==
    /\ plist # <<>> /\ ptarget # None /\ ~psignal
    /\ pending' = [pending EXCEPT ![ptarget] = Append(@, Head(plist))]
    /\ psignal' = TRUE
    /\ UNCHANGED <<reqVars, conns, pclosed, root, drainq, plist, ptarget, prequeue, pcause,
                   mux, inflight, writer, reader, tear, sock>>

(* Slip: a busy connection is not signaled. *)
signal_Quiet(c) ==
    mux' = [mux EXCEPT ![c] = [@ EXCEPT !.wake = @ \/ inflight[c] = <<>>]]

signal(c) ==
    mux' = [mux EXCEPT ![c] = [@ EXCEPT !.wake = TRUE]]

(* add's signal, after the unlock, and the end of enqueue or of one turn   *)
(* of detach's loop.                                                       *)
PoolSignal ==
    /\ plist # <<>> /\ ptarget # None /\ psignal
    /\ signal(ptarget)
    /\ psignal' = FALSE
    /\ caller' = [caller EXCEPT ![Head(plist)] = IF @ = "adding" THEN "waiting" ELSE @]
    /\ plist' = Tail(plist)
    /\ ptarget' = None
    /\ UNCHANGED <<state, ctx, rconn, onWire, res, got, puts, conns, pclosed, root,
                   drainq, prequeue, pcause, pending, inflight, writer, reader, tear, sock>>

(* detach's loop over the requests it re-homes: skip a settled one, ...    *)
DetachSkip ==
    /\ plist # <<>> /\ ptarget = None
    /\ state[Head(plist)] # "queued"
    /\ plist' = Tail(plist)
    /\ UNCHANGED <<reqVars, conns, pclosed, root, drainq, ptarget, psignal, prequeue, pcause,
                   connVars>>

(* ... choose another connection for it, ...                               *)
DetachPick ==
    /\ plist # <<>> /\ ptarget = None
    /\ state[Head(plist)] = "queued" /\ prequeue
    /\ \E c \in Conns : pickLocked(c) /\ ptarget' = c
    /\ UNCHANGED <<reqVars, pclosed, root, drainq, plist, psignal, prequeue, pcause,
                   pending, tear>>

(* ... or fail it with nothing written.                                    *)
DetachFail ==
    /\ plist # <<>> /\ ptarget = None
    /\ state[Head(plist)] = "queued" /\ ~prequeue
    /\ complete([r \in {Head(plist)} |-> Result(pcause, "none")])
    /\ plist' = Tail(plist)
    /\ UNCHANGED <<ctx, caller, rconn, onWire, got, puts, conns, pclosed, root, drainq,
                   ptarget, psignal, prequeue, pcause, connVars>>

(* The start of detach: take serverPool.mu with requests q to place. *)
detach(q, cause, requeue) ==
    /\ plist = <<>>
    /\ plist' = q
    /\ prequeue' = (requeue /\ ~pclosed)
    /\ pcause' = (IF pclosed THEN "closed" ELSE cause)

-----------------------------------------------------------------------------
(* exchange waiting on its request *)

(* The context ends: by cancellation, or because the deadline passes,      *)
(* which the write deadline of a batch also sees for an answered request.  *)
Cancel(r) ==
    /\ r \in Cancelable /\ ctx[r] = "live" /\ state[r] # "done"
    /\ ctx' = [ctx EXCEPT ![r] = "canceled"]
    /\ UNCHANGED <<state, caller, rconn, onWire, res, got, puts, poolVars, connVars>>

Deadline(r) ==
    /\ r \in Timed /\ ctx[r] = "live"
    /\ Open(r) \/ \E c \in Conns : r \in Elems(writer[c].batch)
    /\ ctx' = [ctx EXCEPT ![r] = "expired"]
    /\ UNCHANGED <<state, caller, rconn, onWire, res, got, puts, poolVars, connVars>>

(* ctx.Done wins the select: exchange tries two compare-and-swaps, one     *)
(* after the other and each of them once.  The first one succeeds, ...     *)
GiveUpQueued(r) ==
    /\ caller[r] = "waiting" /\ ctx[r] # "live" /\ state[r] = "queued"
    /\ state' = [state EXCEPT ![r] = "done"]
    /\ res' = [res EXCEPT ![r] = Result(CtxErr(r), "none")]
    /\ UNCHANGED <<ctx, caller, rconn, onWire, got, puts, poolVars, connVars>>

(* ... or fails.  (A request that is done by the time of either makes both *)
(* fail: exchange returns what done brought, with no step of its own.)     *)
MissQueued(r) ==
    /\ caller[r] = "waiting" /\ ctx[r] # "live" /\ state[r] = "writing"
    /\ caller' = [caller EXCEPT ![r] = "missed"]
    /\ UNCHANGED <<state, ctx, rconn, onWire, res, got, puts, poolVars, connVars>>

(* Slip: only a canceled context is noticed while the command is written. *)
GiveUpWriting_Waits(r) ==
    /\ caller[r] = "missed" /\ ctx[r] = "canceled" /\ state[r] = "writing"
    /\ state' = [state EXCEPT ![r] = "done"]
    /\ res' = [res EXCEPT ![r] = Result(CtxErr(r), "all")]
    /\ caller' = [caller EXCEPT ![r] = "giveup"]
    /\ UNCHANGED <<ctx, rconn, onWire, got, puts, poolVars, connVars>>

(* The second succeeds, ...                                                *)
GiveUpWriting(r) ==
    /\ caller[r] = "missed" /\ state[r] = "writing"
    /\ state' = [state EXCEPT ![r] = "done"]
    /\ res' = [res EXCEPT ![r] = Result(CtxErr(r), "all")]
    /\ caller' = [caller EXCEPT ![r] = "giveup"]
    /\ UNCHANGED <<ctx, rconn, onWire, got, puts, poolVars, connVars>>

(* ... or fails too, because flush has put the request back to queued.     *)
(* From here exchange waits for done alone.                                *)
MissWriting(r) ==
    /\ caller[r] = "missed" /\ state[r] = "queued"
    /\ caller' = [caller EXCEPT ![r] = "blocked"]
    /\ UNCHANGED <<state, ctx, rconn, onWire, res, got, puts, poolVars, connVars>>

(* expire and orphan *)
Expire(r) ==
    LET c == rconn[r] IN
    /\ caller[r] = "giveup" /\ ctx[r] = "expired"
    /\ caller' = [caller EXCEPT ![r] = "waiting"]
    /\ IF ~mux[c].closed /\ oldestLiveLocked(c, r)
       THEN teardownLocked(c, "deadline", TRUE)
       ELSE /\ mux' = [mux EXCEPT ![c] = [@ EXCEPT !.rd = armReadDeadline(inflight[c], state)]]
            /\ UNCHANGED <<pending, inflight, tear, sock>>
    /\ UNCHANGED <<state, ctx, rconn, onWire, res, got, puts, poolVars, writer, reader>>

Orphan(r) ==
    LET c == rconn[r] IN
    /\ caller[r] = "giveup" /\ ctx[r] = "canceled"
    /\ caller' = [caller EXCEPT ![r] = "waiting"]
    /\ mux' = [mux EXCEPT ![c] = [@ EXCEPT !.rd =
                IF mux[c].closed THEN mux[c].rd ELSE armReadDeadline(inflight[c], state)]]
    /\ UNCHANGED <<state, ctx, rconn, onWire, res, got, puts, poolVars, pending,
                   inflight, writer, reader, tear, sock>>

-----------------------------------------------------------------------------
(* run, writeLoop and flush *)

DialOK(c) ==
    /\ mux[c].dial = "dialing"
    /\ IF mux[c].closed
       THEN /\ mux' = [mux EXCEPT ![c] = [@ EXCEPT !.dial = "gone"]]
            /\ UNCHANGED <<writer, reader, sock>>
       ELSE /\ mux' = [mux EXCEPT ![c] = [@ EXCEPT !.dial = "up"]]
            /\ sock' = [sock EXCEPT ![c] = OpenSock]
            /\ writer' = [writer EXCEPT ![c] = [NoWriter EXCEPT !.pc = "idle"]]
            /\ reader' = [reader EXCEPT ![c] = [NoReader EXCEPT !.pc = "read"]]
    /\ UNCHANGED <<reqVars, poolVars, pending, inflight, tear>>

(* The dial fails, or Client.Close has canceled the context it runs under. *)
DialFail(c) ==
    /\ mux[c].dial = "dialing"
    /\ root \/ "dial" \in Faults
    /\ IF mux[c].closed
       THEN mux' = [mux EXCEPT ![c] = [@ EXCEPT !.dial = "gone"]]
       ELSE mux' = [mux EXCEPT ![c] = [@ EXCEPT !.dial = "gone", !.closed = TRUE,
                        !.wake = TRUE, !.cause = IF root THEN "rootcanceled" ELSE "dial"]]
    /\ tear' = [tear EXCEPT ![c] = IF mux[c].closed THEN @
                    ELSE [on |-> TRUE, lost |-> inflight[c], move |-> pending[c]]]
    /\ pending' = [pending EXCEPT ![c] = IF mux[c].closed THEN @ ELSE <<>>]
    /\ UNCHANGED <<reqVars, poolVars, inflight, writer, reader, sock>>

WriterWake(c) ==
    /\ writer[c].pc = "idle" /\ mux[c].wake
    /\ mux' = [mux EXCEPT ![c] = [@ EXCEPT !.wake = FALSE]]
    /\ writer' = [writer EXCEPT ![c] = [@ EXCEPT !.pc = "claim"]]
    /\ UNCHANGED <<reqVars, poolVars, pending, inflight, reader, tear, sock>>

WriterExit(c) ==
    /\ writer[c].pc = "claim" /\ mux[c].closed
    /\ writer' = [writer EXCEPT ![c] = [NoWriter EXCEPT !.pc = "exit"]]
    /\ UNCHANGED <<reqVars, poolVars, mux, pending, inflight, reader, tear, sock>>

(* The compare-and-swap by which the writer claims a request, and the      *)
(* order in which claimed requests await their responses.                  *)
Claimable(r) == state[r] = "queued"

(* Slips: the batch jumps the queue, or is appended as one element. *)
Enlist_Front(q, batch) == batch \o q
Enlist_Nested(q, batch) == Append(q, batch)

Enlist(q, batch) == q \o batch

(* One turn of writeLoop: claim everything queued. *)
Claim(c) ==
    LET p == pending[c]
        I == {i \in 1..Len(p) : Claimable(p[i])}
    IN
    /\ writer[c].pc = "claim" /\ ~mux[c].closed
    /\ \E f \in Enumerations(I) :
        LET b   == Extract(p, f)
            st1 == [r \in Requests |-> IF r \in Elems(b) THEN "writing" ELSE state[r]]
        IN
        /\ state' = st1
        /\ inflight' = [inflight EXCEPT ![c] = Enlist(@, b)]
        /\ writer' = [writer EXCEPT ![c] =
              IF b = <<>> THEN [NoWriter EXCEPT !.pc = "idle"]
                          ELSE [NoWriter EXCEPT !.pc = "flush", !.batch = b]]
        /\ mux' = [mux EXCEPT ![c] = [@ EXCEPT !.rd =
              IF b # <<>> /\ inflight[c] = <<>> THEN armReadDeadline(b, st1) ELSE mux[c].rd]]
    /\ rconn' = [r \in Requests |-> IF r \in Elems(p) THEN c ELSE rconn[r]]
    /\ pending' = [pending EXCEPT ![c] = <<>>]
    /\ UNCHANGED <<ctx, caller, onWire, res, got, puts, poolVars, reader, tear, sock>>

(* flush handing the next payload of the batch to the socket. *)
Write(c) ==
    LET w == writer[c] IN
    /\ w.pc = "flush" /\ w.n < Len(w.batch) /\ ~mux[c].closed
    /\ writer' = [writer EXCEPT ![c] = [@ EXCEPT !.n = w.n + 1]]
    /\ puts' = [puts EXCEPT ![w.batch[w.n + 1]] = @ + 1]
    /\ sock' = [sock EXCEPT ![c] =
          IF @.up THEN [@ EXCEPT !.recv = Append(sock[c].recv, w.batch[w.n + 1])] ELSE @]
    /\ UNCHANGED <<state, ctx, caller, rconn, onWire, res, got, poolVars, mux, pending,
                   inflight, reader, tear>>

(* The write returned without error. *)
FlushDone(c) ==
    LET w == writer[c] IN
    /\ w.pc = "flush" /\ w.n = Len(w.batch)
    /\ IF mux[c].closed
       THEN /\ writer' = [writer EXCEPT ![c] = [@ EXCEPT !.pc = "settle",
                            !.closed = TRUE, !.served = mux[c].served]]
            /\ UNCHANGED onWire
       ELSE /\ onWire' = [r \in Requests |-> onWire[r] \/ r \in Elems(w.batch)]
            /\ writer' = [writer EXCEPT ![c] = [NoWriter EXCEPT !.pc = "claim"]]
    /\ UNCHANGED <<state, ctx, caller, rconn, res, got, puts, poolVars, mux, pending,
                   inflight, reader, tear, sock>>

(* The unwritten tail leaves the in-flight list. *)
CutTail(q, unwritten) == SubSeq(q, 1, Len(q) - unwritten)

(* The write failed with part of payload n+1 written or not: the socket    *)
(* broke or was closed, or the earliest deadline of the batch passed.      *)
FlushFail(c, part, err) ==
    LET w == writer[c] IN
    /\ w.pc = "flush" /\ w.n < Len(w.batch)
    /\ \/ err = "io" /\ (mux[c].closed \/ ~sock[c].up)
       \/ err = "iotimeout" /\ ~mux[c].closed /\ \E r \in Elems(w.batch) : DeadlinePassed(r)
    /\ IF mux[c].closed
       THEN UNCHANGED <<onWire, inflight>>
       ELSE /\ onWire' = [r \in Requests |-> onWire[r] \/ \E i \in 1..w.n : w.batch[i] = r]
            /\ inflight' = [inflight EXCEPT ![c] = CutTail(@, Len(w.batch) - w.n)]
    /\ writer' = [writer EXCEPT ![c] = [@ EXCEPT !.pc = "settle", !.err = err,
                    !.part = part, !.closed = mux[c].closed, !.served = mux[c].served]]
    /\ UNCHANGED <<state, ctx, caller, rconn, res, got, puts, poolVars, mux, pending,
                   reader, tear, sock>>

(* Slip: a requeue does not look at how much was written. *)
Requeued_Written(c, i) == writer[c].served /\ state[writer[c].batch[i]] = "writing"

(* flush's switch: what each request of the batch comes to. *)
Requeued(c, i) ==
    LET w == writer[c] IN
    /\ i > w.n + (IF w.part THEN 1 ELSE 0)
    /\ w.served /\ state[w.batch[i]] = "writing"

FlushResult(c, i) ==
    LET w == writer[c] IN
    IF i <= w.n THEN IF w.batch[i] = mux[c].blamed
                     THEN Result(mux[c].cause, "all") ELSE Lost(mux[c].cause)
    ELSE IF w.part /\ i = w.n + 1 THEN Result(w.err, "part")
    ELSE Result(w.err, "none")

SettleBatch(c) ==
    LET w == writer[c]
        I == {i \in 1..Len(w.batch) : Requeued(c, i)}
        S == {i \in 1..Len(w.batch) : i \notin I /\ (i <= w.n => w.closed)}
        settles(r) == Open(r) /\ \E i \in S : w.batch[i] = r
    IN
    /\ w.pc = "settle"
    /\ state' = [r \in Requests |-> IF settles(r) THEN "done"
                                    ELSE IF \E i \in I : w.batch[i] = r THEN "queued"
                                    ELSE state[r]]
    /\ res' = [r \in Requests |-> IF settles(r)
                 THEN FlushResult(c, CHOOSE i \in S : w.batch[i] = r) ELSE res[r]]
    /\ \E f \in Enumerations(I) :
         writer' = [writer EXCEPT ![c] = [@ EXCEPT !.batch = Extract(w.batch, f),
                      !.pc = IF w.err = "nil" THEN "claim" ELSE "fail"]]
    /\ UNCHANGED <<ctx, caller, rconn, onWire, got, puts, poolVars, mux, pending,
                   inflight, reader, tear, sock>>

(* flush's last two calls: fail, and detach for the requests to move. *)
WriterFail(c) ==
    /\ writer[c].pc = "fail"
    /\ teardownLocked(c, writer[c].err, FALSE)
    /\ writer' = [writer EXCEPT ![c] =
                    [@ EXCEPT !.pc = IF mux[c].closed THEN "requeue" ELSE "tail"]]
    /\ UNCHANGED <<reqVars, poolVars, reader>>

WriterRequeue(c) ==
    /\ writer[c].pc = "requeue" \/ (writer[c].pc = "tail" /\ ~tear[c].on)
    /\ detach(writer[c].batch, writer[c].err, writer[c].served)
    /\ writer' = [writer EXCEPT ![c] = [NoWriter EXCEPT !.pc = "claim"]]
    /\ UNCHANGED <<reqVars, conns, pclosed, root, drainq, ptarget, psignal, mux, pending,
                   inflight, reader, tear, sock>>

-----------------------------------------------------------------------------
(* teardownLocked after its unlock, run by whoever tore the connection down *)

TearSettle(c) ==
    LET r == Head(tear[c].lost) IN
    /\ tear[c].on /\ tear[c].lost # <<>>
    /\ complete([x \in {q \in {r} : onWire[q]} |->
          IF x = mux[c].blamed THEN Result(mux[c].cause, "all") ELSE Lost(mux[c].cause)])
    /\ tear' = [tear EXCEPT ![c] = [@ EXCEPT !.lost = Tail(tear[c].lost)]]
    /\ UNCHANGED <<ctx, caller, rconn, onWire, got, puts, poolVars, mux, pending,
                   inflight, writer, reader, sock>>

TearDetach(c) ==
    /\ tear[c].on /\ tear[c].lost = <<>>
    /\ detach(tear[c].move, mux[c].cause, mux[c].served)
    /\ conns' = conns \ {c}
    /\ tear' = [tear EXCEPT ![c] = NoTear]
    /\ UNCHANGED <<reqVars, pclosed, root, drainq, ptarget, psignal, mux, pending, inflight,
                   writer, reader, sock>>

-----------------------------------------------------------------------------
(* readLoop *)

(* Slip: a batch is complete at its first response. *)
Stops_First(r, frame) == TRUE

(* request.stop: one response, or for a batch the barrier's MN line. *)
Stops(r, frame) == r \notin Batches \/ frame.last

(* Slip: looks at the in-flight list before the answered head left it. *)
Drained_Early(c, rest) == mux[c].closing /\ inflight[c] = <<>>

(* readLoop's finished: a closing connection has answered everything. *)
Drained(c, rest) == mux[c].closing /\ rest = <<>>

ReadPart(c) ==
    LET h == Head(inflight[c])
        frame == Head(sock[c].back)
    IN
    /\ reader[c].pc = "read" /\ ~mux[c].closed
    /\ sock[c].back # <<>> /\ inflight[c] # <<>> /\ ~frame.bad /\ ~Stops(h, frame)
    /\ got' = [got EXCEPT ![h] = Append(@, frame.of)]
    /\ sock' = [sock EXCEPT ![c] = [@ EXCEPT !.back = Tail(sock[c].back)]]
    /\ UNCHANGED <<state, ctx, caller, rconn, onWire, res, puts, poolVars, mux, pending,
                   inflight, writer, reader, tear>>

(* The stop rule is satisfied: the request leaves the in-flight list, and  *)
(* a closing connection with nothing left in flight closes.                *)
ReadLast(c) ==
    LET h == Head(inflight[c])
        rest == Tail(inflight[c])
        frame == Head(sock[c].back)
        finished == Drained(c, rest)
    IN
    /\ reader[c].pc = "read" /\ ~mux[c].closed
    /\ sock[c].back # <<>> /\ inflight[c] # <<>> /\ ~frame.bad /\ Stops(h, frame)
    /\ got' = [got EXCEPT ![h] = Append(@, frame.of)]
    /\ inflight' = [inflight EXCEPT ![c] = rest]
    /\ mux' = [mux EXCEPT ![c] = [@ EXCEPT !.served = TRUE, !.closed = finished,
                                   !.rd = armReadDeadline(rest, state)]]
    /\ sock' = [sock EXCEPT ![c] = IF finished THEN DeadSock
                                   ELSE [@ EXCEPT !.back = Tail(sock[c].back)]]
    /\ reader' = [reader EXCEPT ![c] = [pc |-> "deliver", head |-> h, fin |-> finished]]
    /\ UNCHANGED <<state, ctx, caller, rconn, onWire, res, puts, poolVars, pending,
                   writer, tear>>

Deliver(c) ==
    /\ reader[c].pc = "deliver"
    /\ complete([r \in {reader[c].head} |-> Result("ok", "all")])
    /\ mux' = [mux EXCEPT ![c] = [@ EXCEPT !.wake = mux[c].wake \/ reader[c].fin]]
    /\ reader' = [reader EXCEPT ![c] =
          [NoReader EXCEPT !.pc = IF reader[c].fin THEN "exit" ELSE "read"]]
    /\ UNCHANGED <<ctx, caller, rconn, onWire, got, puts, poolVars, pending, inflight,
                   writer, tear, sock>>

(* What ends the loop: an error line or an unusable frame, a response      *)
(* without a request, a broken socket, the read deadline.                  *)
ReadCause(c) ==
    LET bad == sock[c].back # <<>> /\ (Head(sock[c].back).bad \/ inflight[c] = <<>>)
    IN (IF bad THEN {"server"} ELSE {})
       \cup (IF ~sock[c].up THEN {"io"} ELSE {})
       \cup (IF mux[c].rd # None /\ DeadlinePassed(mux[c].rd) THEN {"deadline"} ELSE {})

ReadFail(c) ==
    /\ reader[c].pc = "read" /\ ~mux[c].closed
    /\ \E cause \in ReadCause(c) : teardownLocked(c, cause, TRUE)
    /\ reader' = [reader EXCEPT ![c] = [NoReader EXCEPT !.pc = "exit"]]
    /\ UNCHANGED <<reqVars, poolVars, writer>>

ReaderExit(c) ==
    /\ reader[c].pc = "read" /\ mux[c].closed
    /\ reader' = [reader EXCEPT ![c] = [NoReader EXCEPT !.pc = "exit"]]
    /\ UNCHANGED <<reqVars, poolVars, mux, pending, inflight, writer, tear, sock>>

-----------------------------------------------------------------------------
(* Client.Close *)

CancelRoot ==
    /\ "close" \in Faults /\ ~root
    /\ root' = TRUE
    /\ UNCHANGED <<reqVars, conns, pclosed, drainq, plist, ptarget, psignal, prequeue, pcause,
                   connVars>>

(* Slip: the connections are forgotten before they are drained. *)
PoolClose_Forgets ==
    /\ root /\ ~pclosed /\ plist = <<>>
    /\ pclosed' = TRUE
    /\ conns' = {} /\ drainq' = {}
    /\ UNCHANGED <<reqVars, root, plist, ptarget, psignal, prequeue, pcause, connVars>>

PoolClose ==
    /\ root /\ ~pclosed /\ plist = <<>>
    /\ pclosed' = TRUE
    /\ drainq' = conns
    /\ conns' = {}
    /\ UNCHANGED <<reqVars, root, plist, ptarget, psignal, prequeue, pcause, connVars>>

Drain(c) ==
    /\ c \in drainq
    /\ drainq' = drainq \ {c}
    /\ IF mux[c].closed
       THEN UNCHANGED <<state, res, mux, pending, sock>>
       ELSE /\ complete([r \in Elems(pending[c]) |-> Result("closed", "none")])
            /\ pending' = [pending EXCEPT ![c] = <<>>]
            /\ mux' = [mux EXCEPT ![c] = [@ EXCEPT !.closing = TRUE, !.wake = TRUE,
                                           !.closed = inflight[c] = <<>>]]
            /\ sock' = [sock EXCEPT ![c] = IF inflight[c] = <<>> THEN DeadSock ELSE @]
    /\ UNCHANGED <<ctx, caller, rconn, onWire, got, puts, conns, pclosed, root, plist,
                   ptarget, psignal, prequeue, pcause, inflight, writer, reader, tear>>

-----------------------------------------------------------------------------
(* The server: answers what it received, in order, or fails. *)

Answer(c) ==
    LET r == Head(sock[c].recv)
        frame(last) == [of |-> r, last |-> last, bad |-> FALSE]
    IN
    /\ sock[c].up /\ sock[c].recv # <<>>
    /\ sock' = [sock EXCEPT ![c] = [@ EXCEPT !.recv = Tail(sock[c].recv),
          !.back = sock[c].back \o (IF r \in Batches THEN <<frame(FALSE), frame(TRUE)>>
                                                       ELSE <<frame(TRUE)>>)]]
    /\ UNCHANGED <<reqVars, poolVars, mux, pending, inflight, writer, reader, tear>>

AnswerError(c) ==
    /\ "error" \in Faults
    /\ sock[c].up /\ sock[c].recv # <<>>
    /\ sock' = [sock EXCEPT ![c] = [@ EXCEPT !.recv = Tail(sock[c].recv),
          !.back = Append(sock[c].back,
                          [of |-> Head(sock[c].recv), last |-> FALSE, bad |-> TRUE])]]
    /\ UNCHANGED <<reqVars, poolVars, mux, pending, inflight, writer, reader, tear>>

Break(c) ==
    /\ "sock" \in Faults /\ sock[c].up
    /\ sock' = [sock EXCEPT ![c] = [@ EXCEPT !.up = FALSE, !.recv = <<>>]]
    /\ UNCHANGED <<reqVars, poolVars, mux, pending, inflight, writer, reader, tear>>

-----------------------------------------------------------------------------
Returned(r) == state[r] = "done" /\ caller[r] \in {"waiting", "missed", "blocked"}

(* Every call has returned and every connection is at rest. *)
Finished ==
    /\ \A r \in Requests : Returned(r)
    /\ UNCHANGED vars

CallerStep(r) ==
    \/ GiveUpQueued(r) \/ MissQueued(r) \/ GiveUpWriting(r) \/ MissWriting(r)
    \/ Expire(r) \/ Orphan(r)

WriterRuns(c) ==
    \/ DialOK(c) \/ DialFail(c)
    \/ WriterWake(c) \/ WriterExit(c) \/ Claim(c) \/ FlushDone(c)
    \/ \E part \in BOOLEAN, err \in {"io", "iotimeout"} : FlushFail(c, part, err)
    \/ SettleBatch(c) \/ WriterFail(c) \/ WriterRequeue(c)

WriterStep(c) == WriterRuns(c) \/ Write(c)

ReaderStep(c) ==
    ReadPart(c) \/ ReadLast(c) \/ Deliver(c) \/ ReadFail(c) \/ ReaderExit(c)

TearStep(c) == TearSettle(c) \/ TearDetach(c)

PoolStep == PoolAdd \/ PoolSignal \/ DetachSkip \/ DetachPick \/ DetachFail

CloseStep == PoolClose \/ \E c \in Conns : Drain(c)

Next ==
    \/ \E r \in Requests : Exchange(r) \/ ExchangeRefused(r) \/ Cancel(r) \/ Deadline(r)
                           \/ CallerStep(r)
    \/ \E c \in Conns : WriterStep(c) \/ ReaderStep(c) \/ TearStep(c)
                        \/ Answer(c) \/ AnswerError(c) \/ Break(c)
    \/ PoolStep
    \/ CancelRoot \/ CloseStep
    \/ Finished

Spec == Init /\ [][Next]_vars

(* Goroutines that can run do run; a deadline passes; a dial ends, because *)
(* dialTimeout bounds it; a write returns when its socket is closed or     *)
(* broken or its deadline has passed.  Nothing is assumed of the server,   *)
(* which may never read or answer.                                         *)
Fairness ==
    /\ \A r \in Requests : WF_vars(Deadline(r)) /\ WF_vars(CallerStep(r))
    /\ \A c \in Conns : WF_vars(WriterRuns(c)) /\ WF_vars(ReaderStep(c)) /\ WF_vars(TearStep(c))
    /\ WF_vars(PoolStep)
    /\ WF_vars(CloseStep)

LiveSpec == Spec /\ Fairness

(* A server that keeps reading and answering. *)
ServerFairness ==
    \A c \in Conns : WF_vars(Write(c)) /\ WF_vars(Answer(c))

-----------------------------------------------------------------------------
(* Properties *)

(* exchange keeps the contract of ExchangeSpec across requeues, teardowns, *)
(* abandoned commands and Close: no payload is written twice, no outcome   *)
(* is changed, and "written" never under-reports.                          *)
Contract == INSTANCE ExchangeSpec WITH
    Calls <- Requests, Outcomes <- Results, Pending <- Unset,
    sent <- puts, outcome <- res

ImplementsExchange == Contract!ASpec

(* readLoop hands every response to the request it answers, whatever was   *)
(* abandoned, cut from a failed flush or requeued before: the next frame   *)
(* on a live connection belongs to the head of inflight.                   *)
FrameForHead ==
    \A c \in Conns : ~mux[c].closed /\ sock[c].back # <<>> =>
        /\ inflight[c] # <<>>
        /\ Head(sock[c].back).of = Head(inflight[c])

(* A call that returns without error has all of its own responses and      *)
(* nobody else's: for a batch both the item's frame and the barrier's.     *)
OwnAnswers ==
    \A r \in Requests : res[r].err = "ok" =>
        got[r] = IF r \in Batches THEN <<r, r>> ELSE <<r>>

(* A request waiting on a live connection whose writer sleeps has left a   *)
(* signal in c.wake, or its add is about to: although the signal follows   *)
(* the unlock, no wake-up is lost (add, signal, writeLoop).                *)
NoLostWakeup ==
    \A c \in Conns : ~mux[c].closed /\ pending[c] # <<>> /\ writer[c].pc = "idle"
        => mux[c].wake \/ (psignal /\ ptarget = c)

(* pickLocked, detach and close together never have more than maxConns     *)
(* sockets open or being dialed, dead and draining connections included.   *)
LiveConns == {c \in Conns : ~mux[c].closed}

SocketBound == Cardinality(LiveConns) <= MaxConns

(* No connection leaks: one that is not closed is in the pool, or close    *)
(* is about to drain it, or it closes itself after its last response.      *)
LiveConnOwned == \A c \in LiveConns : c \in conns \cup drainq \/ mux[c].closing

(* expire and the read deadline: a connection that can still write comes   *)
(* down for a missed deadline only when every request older than the late  *)
(* one is settled; a younger request that times out is orphaned.           *)
LateOldest(c) ==
    \E i \in 1..Len(inflight[c]) :
        /\ DeadlinePassed(inflight[c][i])
        /\ \A j \in 1..(i - 1) : state[inflight[c][j]] = "done"

DeadlineTeardown ==
    [][\A c \in Conns :
        ~mux[c].closed /\ mux'[c].closed /\ mux'[c].cause = "deadline"
            => LateOldest(c) \/ writer[c].err # "nil"]_vars

(* A command with a deadline returns, whatever the server, the sockets,    *)
(* the other commands and Close do (WithTimeout), unless a requeue made    *)
(* both its compare-and-swaps fail.  Then it still returns, over the read  *)
(* deadline of its next connection, if it gets to the head of one: its     *)
(* request must not be stranded in a dead connection, nor wait behind      *)
(* another command, which the server may never answer.                     *)
Stranded(r) == \E c \in Conns : mux[c].closed /\ r \in Elems(pending[c])

HeldUp(r) ==
    \E c \in Conns : /\ inflight[c] # <<>> /\ Head(inflight[c]) # r
                     /\ r \in Elems(pending[c]) \cup Elems(inflight[c])

TimedReturns ==
    \A r \in Timed :
        state[r] # "new" ~> \/ Returned(r)
                            \/ caller[r] = "blocked" /\ (Stranded(r) \/ HeldUp(r))

(* Close ends: every connection closes and both its goroutines return,     *)
(* provided the server answers what it was sent.                           *)
Ended(c) ==
    /\ mux[c].closed /\ mux[c].dial # "dialing"
    /\ writer[c].pc \in {"off", "exit"} /\ reader[c].pc \in {"off", "exit"}

CloseDrains == ServerFairness => (root ~> \A c \in Conns : Ended(c))

-----------------------------------------------------------------------------
(* What comments of the code say and the code does not keep *)

(* fail: "Queued requests never touched the wire and move to another       *)
(* connection."  Nothing ever takes a request out of a closed connection,  *)
(* so it must hold none that is still waiting.                             *)
QueuedMove ==
    \A c \in Conns : mux[c].closed => \A r \in Elems(pending[c]) : ~Open(r)

(* teardownLocked: "Requests still being written are left to the writer".  *)
(* A written request fails only with the connection it was written on,     *)
(* never with one it had left unwritten and been requeued from.            *)
FailsWithItsConn ==
    [][\A r \in Requests :
        Open(r) /\ res'[r].err \in {"lost", "io"} /\ res'[r].wrote = "all"
            => mux[rconn[r]].closed]_vars

(* serverPool.close: "Commands already on the wire finish their exchange." *)
(* A drained connection has no cause of loss, so nothing on it is lost.    *)
LostHasCause == \A r \in Requests : res[r].err = "lost" => res[r].why # "nil"

(* WithTimeout: "A command whose deadline passes fails with                *)
(* context.DeadlineExceeded", so the connection's read deadline going off  *)
(* for r must not reach r as the loss of its connection.                   *)
LateIsDeadline ==
    \A r \in Requests : res[r] = Lost("deadline") /\ ctx[r] = "expired"
        => mux[rconn[r]].rd # r

(* WithTimeout: it "sets the total deadline for one command [...] from     *)
(* submission to response", and a command whose deadline passes fails: no  *)
(* requeue keeps its call waiting for good.                                *)
DeadlineEnds == \A r \in Timed : state[r] # "new" ~> Returned(r)

(* Client.Close: "queued ones fail with ErrClosed". *)
QueuedSeeClosed == \A r \in Requests : res[r].err # "rootcanceled"

=============================================================================
