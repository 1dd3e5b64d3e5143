-------------------------------- MODULE Fetch --------------------------------
(***************************************************************************)
(* Fetch and FetchMany (fetch.go): the state machine that elects one       *)
(* caller to recompute a missing or expiring entry, through a lease on the *)
(* server and, inside one process, through the fetchFlights and refreshing *)
(* maps.                                                                   *)
(*                                                                         *)
(* Fetch is fetchMany over one key except for what its flight does: it     *)
(* writes back before it publishes, and a caller that joins a flight       *)
(* leaves the lease it won to nobody.  A step is one command executed by   *)
(* the server, one critical section of fetchMu, one return of a loader or  *)
(* one wake-up of a waiter.  A value is the version of the source it was   *)
(* loaded from; 0 is the empty value.                                      *)
(***************************************************************************)
EXTENDS Naturals, FiniteSets

CONSTANTS
    Calls,       \* calls of Fetch and FetchMany
    Many,        \* the ones that are calls of FetchMany
    Keys,
    None,
    Procs,       \* clients, one per process
    Proc,        \* the client a call is made on
    Want,        \* the keys of a call
    Ahead,       \* calls with the RefreshAhead option
    Cancelable,  \* calls whose context may end
    Degrade,     \* config.degrade
    MaxAttempt,  \* len(fetchWaitBackoff)
    MaxEnv,      \* bound on what the application does besides Fetch
    Events       \* what else may happen, see EventKinds

EventKinds == {"fault", "loaderr", "empty", "lossy", "change", "delete",
               "invalidate", "evict", "storeempty", "close"}

ASSUME FetchAssumption ==
    /\ None \notin Calls
    /\ Many \subseteq Calls /\ Ahead \subseteq Calls /\ Cancelable \subseteq Calls
    /\ Proc \in [Calls -> Procs]
    /\ Want \in [Calls -> SUBSET Keys]
    /\ \A c \in Calls \ Many : \E k \in Keys : Want[c] = {k}
    /\ Degrade \in BOOLEAN
    /\ MaxAttempt \in Nat /\ MaxEnv \in Nat
    /\ Events \subseteq EventKinds

VARIABLES
    (* the server and the source of truth *)
    entry,       \* the item stored under each key
    clock,       \* the last CAS value given out
    source,      \* the version of each key at the origin
    floor,       \* its version when the key was last deleted or invalidated
    env,         \* application events so far
    (* the client of each process *)
    flights,     \* fetchFlights: the call whose flight is registered
    refreshing,  \* refreshing
    closed,      \* rootCtx is canceled
    (* each call *)
    pc,          \* where it is
    slot,        \* what it knows of each key
    token,       \* CAS of the read that won the key's lease; 0 once it is left to its TTL
    val,         \* the value it has for the key
    join,        \* the flight it waits on for the key
    own,         \* keys of the flights it registered
    attempt,     \* reads so far
    err,         \* the error it returns
    published,   \* what its flights show once their done channels are closed
    bg           \* the background refresh it started

serverVars == <<entry, clock, source, floor, env>>
clientVars == <<flights, refreshing, closed>>
callVars   == <<pc, slot, token, val, join, own, attempt, err, published>>
vars       == <<serverVars, clientVars, callVars, bg>>

Absent == [has |-> FALSE, val |-> 0, cas |-> 0, stale |-> FALSE, sent |-> FALSE]

NoRefresh == [pc |-> "off", mine |-> {}, todo |-> {}, val |-> [k \in Keys |-> 0]]

Slots == {"none", "todo", "hit", "refresh", "lead", "local", "busy", "joining",
          "remaining", "error"}
Errs  == {"nil", "cache", "loader", "ctx"}

TypeOK ==
    /\ entry \in [Keys -> [has : BOOLEAN, val : Nat, cas : Nat, stale : BOOLEAN,
                           sent : BOOLEAN]]
    /\ clock \in Nat
    /\ source \in [Keys -> Nat \ {0}]
    /\ floor \in [Keys -> Nat]
    /\ env \in 0..MaxEnv
    /\ flights \in [Procs -> [Keys -> Calls \cup {None}]]
    /\ refreshing \in [Procs -> SUBSET Keys]
    /\ closed \in [Procs -> BOOLEAN]
    /\ pc \in [Calls -> {"idle", "read", "busy", "go", "fly", "load", "back",
                         "publish", "join", "settle", "done"}]
    /\ slot \in [Calls -> [Keys -> Slots]]
    /\ token \in [Calls -> [Keys -> Nat]]
    /\ val \in [Calls -> [Keys -> Nat]]
    /\ join \in [Calls -> [Keys -> Calls \cup {None}]]
    /\ own \in [Calls -> SUBSET Keys]
    /\ attempt \in [Calls -> 0..MaxAttempt]
    /\ err \in [Calls -> Errs]
    /\ published \in [Calls -> {"no", "value", "error"}]
    /\ bg \in [Calls -> [pc : {"off", "load", "write"}, mine : SUBSET Keys,
                         todo : SUBSET Keys, val : [Keys -> Nat]]]

Init ==
    /\ entry = [k \in Keys |-> Absent]
    /\ clock = 0
    /\ source = [k \in Keys |-> 1]
    /\ floor = [k \in Keys |-> 0]
    /\ env = 0
    /\ flights = [p \in Procs |-> [k \in Keys |-> None]]
    /\ refreshing = [p \in Procs |-> {}]
    /\ closed = [p \in Procs |-> FALSE]
    /\ pc = [c \in Calls |-> "idle"]
    /\ slot = [c \in Calls |-> [k \in Keys |-> "none"]]
    /\ token = [c \in Calls |-> [k \in Keys |-> 0]]
    /\ val = [c \in Calls |-> [k \in Keys |-> 0]]
    /\ join = [c \in Calls |-> [k \in Keys |-> None]]
    /\ own = [c \in Calls |-> {}]
    /\ attempt = [c \in Calls |-> 0]
    /\ err = [c \in Calls |-> "nil"]
    /\ published = [c \in Calls |-> "no"]
    /\ bg = [c \in Calls |-> NoRefresh]

In(c, s) == {k \in Keys : slot[c][k] \in s}

(* The call returns, with error e or without one. *)
Return(c, e) ==
    /\ pc' = [pc EXCEPT ![c] = "done"]
    /\ err' = [err EXCEPT ![c] = e]

-----------------------------------------------------------------------------
(* The server's side of the commands Fetch sends (external) *)

(* mg with vivify, and RefreshBefore when ahead: what it answers for the   *)
(* item e, near its expiry or not.                                         *)
Won(e, ahead, near) ==
    IF e.has THEN ~e.sent /\ (e.stale \/ (ahead /\ near)) ELSE TRUE

ServerGet(e, ahead, near) ==
    IF e.has THEN [e EXCEPT !.sent = @ \/ Won(e, ahead, near)]
    ELSE [Absent EXCEPT !.has = TRUE, !.cas = clock + 1, !.sent = TRUE]

(* ms and md conditioned on a CAS value. *)
Matches(k, cas) == entry[k].has /\ entry[k].cas = cas

Stored(v) == [Absent EXCEPT !.has = TRUE, !.val = v, !.cas = clock + 1]

-----------------------------------------------------------------------------
(* Classification of a read *)

(* semanticGet: a won or busy answer counts as the placeholder of a miss   *)
(* when it is not stale and, with RefreshBefore, when it is empty.         *)
semanticGet(e, ahead, won) ==
    LET busy == e.has /\ e.sent
        placeholder == (won \/ busy) /\ ~e.stale /\ (~ahead \/ e.val = 0)
    IN [status |-> IF ~placeholder THEN "hit" ELSE IF won THEN "miss" ELSE "pending",
        lease  |-> IF busy THEN "busy" ELSE IF won THEN "granted" ELSE "none"]

(* Slip: an empty item is led without looking at who holds its lease. *)
classify_Eager(e, r) == IF e.val = 0 THEN "lead" ELSE "hit"

(* The switch of fetch and of fetchMany. *)
classify(e, r) ==
    CASE r.status = "hit" /\ e.val > 0 /\ r.lease = "granted" -> "refresh"
      [] r.status = "hit" /\ e.val > 0 /\ r.lease # "granted" -> "hit"
      [] r.status = "miss"                                    -> "lead"
      [] r.status = "hit" /\ e.val = 0 /\ r.lease # "busy"    -> "lead"
      [] OTHER                                                -> "busy"

Start(c) ==
    /\ pc[c] = "idle"
    /\ pc' = [pc EXCEPT ![c] = "read"]
    /\ slot' = [slot EXCEPT ![c] = [k \in Keys |-> IF k \in Want[c] THEN "todo" ELSE "none"]]
    /\ UNCHANGED <<serverVars, clientVars, token, val, join, own, attempt, err,
                   published, bg>>

(* The server executes the read of one key and the answer arrives. *)
Read(c, k) ==
    /\ pc[c] = "read" /\ slot[c][k] = "todo" /\ ~closed[Proc[c]]
    /\ \E near \in BOOLEAN :
        LET e    == entry[k]
            won  == Won(e, c \in Ahead, near)
            e1   == ServerGet(e, c \in Ahead, near)
            kind == classify(e, semanticGet(e, c \in Ahead, won))
        IN
        /\ entry' = [entry EXCEPT ![k] = e1]
        /\ clock' = IF e.has THEN clock ELSE clock + 1
        /\ slot' = [slot EXCEPT ![c][k] = kind]
        /\ token' = [token EXCEPT ![c][k] = IF kind \in {"lead", "refresh"} THEN e1.cas ELSE 0]
        /\ val' = [val EXCEPT ![c][k] = IF kind \in {"hit", "refresh"} THEN e1.val ELSE 0]
    /\ UNCHANGED <<source, floor, env, clientVars, pc, join, own, attempt, err,
                   published, bg>>

(* A bare EN: the server could not create the placeholder. *)
ReadLossy(c, k) ==
    /\ "lossy" \in Events
    /\ pc[c] = "read" /\ slot[c][k] = "todo" /\ ~closed[Proc[c]] /\ ~entry[k].has
    /\ slot' = [slot EXCEPT ![c][k] = "local"]
    /\ UNCHANGED <<serverVars, clientVars, pc, token, val, join, own, attempt, err,
                   published, bg>>

(* The read fails: the server may have executed it, lease included. *)
ReadError(c, k) ==
    /\ "fault" \in Events \/ closed[Proc[c]]
    /\ pc[c] = "read" /\ slot[c][k] = "todo"
    /\ slot' = [slot EXCEPT ![c][k] = "error"]
    /\ \/ UNCHANGED <<entry, clock>>
       \/ /\ ~closed[Proc[c]]
          /\ entry' = [entry EXCEPT ![k] = ServerGet(@, c \in Ahead, FALSE)]
          /\ clock' = IF entry[k].has THEN clock ELSE clock + 1
    /\ UNCHANGED <<source, floor, env, clientVars, pc, token, val, join, own, attempt,
                   err, published, bg>>

(* All answers are in: an error ends the call unless Degrade absorbs it.   *)
Sort(c) ==
    /\ pc[c] = "read" /\ In(c, {"todo"}) = {}
    /\ IF In(c, {"error"}) # {} /\ ~Degrade
       THEN Return(c, "cache") /\ UNCHANGED slot
       ELSE /\ slot' = [slot EXCEPT ![c] = [k \in Keys |->
                          IF slot[c][k] = "error" THEN "local" ELSE slot[c][k]]]
            /\ pc' = [pc EXCEPT ![c] = IF In(c, {"busy"}) # {} THEN "busy" ELSE "go"]
            /\ UNCHANGED err
    /\ UNCHANGED <<serverVars, clientVars, token, val, join, own, attempt, published,
                   bg>>

-----------------------------------------------------------------------------
(* Leases held elsewhere *)

(* joinFlight, one busy key after the other. *)
JoinFlight(c, k) ==
    LET f == flights[Proc[c]][k] IN
    /\ pc[c] = "busy" /\ slot[c][k] = "busy" /\ In(c, {"joining"}) = {}
    /\ slot' = [slot EXCEPT ![c][k] = IF f = None THEN "remaining" ELSE "joining"]
    /\ join' = [join EXCEPT ![c][k] = f]
    /\ UNCHANGED <<serverVars, clientVars, pc, token, val, own, attempt, err, published,
                   bg>>

(* A flight's loader error is the error of everyone who waits for it. *)
Joined(c, k) ==
    LET f == join[c][k] IN
    /\ pc[c] = "busy" /\ slot[c][k] = "joining" /\ published[f] # "no"
    /\ IF published[f] = "error"
       THEN Return(c, "loader") /\ UNCHANGED <<slot, val>>
       ELSE /\ slot' = [slot EXCEPT ![c][k] = "hit"]
            /\ val' = [val EXCEPT ![c][k] = val[f][k]]
            /\ UNCHANGED <<pc, err>>
    /\ join' = [join EXCEPT ![c][k] = None]
    /\ UNCHANGED <<serverVars, clientVars, token, own, attempt, published, bg>>

(* Slip: one wait more than the schedule has. *)
Again_OffByOne(c) == attempt[c] <= MaxAttempt

(* The wait is over: read again, or compute locally when the schedule is   *)
(* exhausted.                                                              *)
Again(c) == attempt[c] < MaxAttempt

Backoff(c) ==
    /\ pc[c] = "busy" /\ In(c, {"busy", "joining"}) = {}
    /\ slot' = [slot EXCEPT ![c] = [k \in Keys |->
                  IF slot[c][k] # "remaining" THEN slot[c][k]
                  ELSE IF Again(c) THEN "todo" ELSE "local"]]
    /\ IF In(c, {"remaining"}) # {} /\ Again(c)
       THEN /\ attempt' = [attempt EXCEPT ![c] = @ + 1]
            /\ pc' = [pc EXCEPT ![c] = "read"]
       ELSE /\ pc' = [pc EXCEPT ![c] = "go"]
            /\ UNCHANGED attempt
    /\ UNCHANGED <<serverVars, clientVars, token, val, join, own, err, published, bg>>

(* The caller's context ends during a read, while it waits for somebody    *)
(* else's flight, or between two reads.  FetchMany still settles its       *)
(* leases when that happens inside runFlights.                             *)
CtxDone(c) ==
    /\ c \in Cancelable
    /\ \/ pc[c] = "read" /\ In(c, {"todo"}) = {} /\ In(c, {"error"}) # {}
       \/ pc[c] = "busy" /\ In(c, {"joining"}) # {}
       \/ pc[c] = "busy" /\ In(c, {"busy"}) = {} /\ In(c, {"remaining"}) # {}
            /\ Again(c)
       \/ pc[c] = "join" /\ \E k \in Keys : join[c][k] # None
    /\ IF pc[c] = "join" /\ c \in Many
       THEN /\ err' = [err EXCEPT ![c] = "ctx"]
            /\ pc' = [pc EXCEPT ![c] = "settle"]
       ELSE Return(c, "ctx")
    /\ UNCHANGED <<serverVars, clientVars, slot, token, val, join, own, attempt,
                   published, bg>>

-----------------------------------------------------------------------------
(* The miss path *)

(* Slip: the refreshing map is not consulted. *)
spawnRefresh_Twice(c) ==
    LET mine == In(c, {"refresh"})
    IN /\ refreshing' = [refreshing EXCEPT ![Proc[c]] = @ \cup mine]
       /\ bg' = [bg EXCEPT ![c] = IF mine = {} THEN NoRefresh
                                  ELSE [NoRefresh EXCEPT !.pc = "load", !.mine = mine]]

(* Start the background refreshes, then compute what is left. *)
spawnRefresh(c) ==
    LET mine == IF closed[Proc[c]] THEN {} ELSE In(c, {"refresh"}) \ refreshing[Proc[c]]
    IN /\ refreshing' = [refreshing EXCEPT ![Proc[c]] = @ \cup mine]
       /\ bg' = [bg EXCEPT ![c] = IF mine = {} THEN NoRefresh
                                  ELSE [NoRefresh EXCEPT !.pc = "load", !.mine = mine]]

Go(c) ==
    /\ pc[c] = "go"
    /\ spawnRefresh(c)
    /\ pc' = [pc EXCEPT ![c] = IF In(c, {"lead", "local"}) = {} THEN "done" ELSE "fly"]
    /\ UNCHANGED <<serverVars, flights, closed, slot, token, val, join, own, attempt, err,
                   published>>

Joinable(c, k) == flights[Proc[c]][k] # None

(* Slip: key by key, waiting for each flight of somebody else before the   *)
(* next is registered.                                                     *)
Fly_KeyByKey(c) ==
    /\ pc[c] = "fly"
    /\ \E k \in In(c, {"lead", "local"}) \ own[c] :
         /\ ~Joinable(c, k)
         /\ flights' = [flights EXCEPT ![Proc[c]][k] = c]
         /\ own' = [own EXCEPT ![c] = @ \cup {k}]
         /\ pc' = [pc EXCEPT ![c] = IF In(c, {"lead", "local"}) \subseteq own'[c]
                                    THEN "load" ELSE "fly"]
    /\ UNCHANGED <<serverVars, refreshing, closed, slot, token, val, join, attempt, err,
                   published, bg>>

(* runFlight and runFlights: register a flight for every key that has      *)
(* none in this process, and join the others.                              *)
Fly(c) ==
    LET p    == Proc[c]
        mine == {k \in In(c, {"lead", "local"}) : ~Joinable(c, k)}
    IN
    /\ pc[c] = "fly"
    /\ flights' = [flights EXCEPT ![p] =
                     [k \in Keys |-> IF k \in mine THEN c ELSE flights[p][k]]]
    /\ own' = [own EXCEPT ![c] = mine]
    /\ join' = [join EXCEPT ![c] = [k \in Keys |->
                  IF k \in In(c, {"lead", "local"}) \ mine THEN flights[p][k] ELSE None]]
    /\ pc' = [pc EXCEPT ![c] = IF mine = {} THEN "join" ELSE "load"]
    /\ UNCHANGED <<serverVars, refreshing, closed, slot, token, val, attempt, err,
                   published, bg>>

(* What a loader may return for key k. *)
Loads(k) == {source[k]} \cup (IF "empty" \in Events THEN {0} ELSE {})

(* The loader returns: for a caller of Fetch its value is written back,    *)
(* for FetchMany it is published first.                                    *)
Load(c) ==
    /\ pc[c] = "load"
    /\ \/ /\ "loaderr" \in Events \/ closed[Proc[c]]
          /\ err' = [err EXCEPT ![c] = "loader"]
          /\ val' = [val EXCEPT ![c] = [k \in Keys |-> IF k \in own[c] THEN 0 ELSE val[c][k]]]
       \/ /\ \E v \in [Keys -> UNION {Loads(k) : k \in Keys}] :
                /\ \A k \in Keys : v[k] \in Loads(k)
                /\ val' = [val EXCEPT ![c] = [k \in Keys |->
                              IF k \in own[c] THEN v[k] ELSE val[c][k]]]
          /\ UNCHANGED err
    /\ pc' = [pc EXCEPT ![c] = IF c \in Many THEN "publish" ELSE "back"]
    /\ UNCHANGED <<serverVars, clientVars, slot, token, join, own, attempt, published,
                   bg>>

(* Slip: the write-back forgets CompareCAS. *)
writeBack_Blind(k, v, cas) ==
    /\ entry' = [entry EXCEPT ![k] = Stored(v)]
    /\ clock' = clock + 1

(* writeBack and releaseLease as the server executes them. *)
writeBack(k, v, cas) ==
    /\ entry' = [entry EXCEPT ![k] = IF Matches(k, cas) THEN Stored(v) ELSE @]
    /\ clock' = IF Matches(k, cas) THEN clock + 1 ELSE clock

releaseLease(k, cas) ==
    /\ entry' = [entry EXCEPT ![k] = IF Matches(k, cas) THEN Absent ELSE @]
    /\ UNCHANGED clock

(* A command that fails on the way only reaches OnError. *)
Lost(p) == ("fault" \in Events \/ closed[p]) /\ UNCHANGED <<entry, clock>>

(* Slip: a lease there is no value for is not released. *)
repay_KeepEmpty(c, k) ==
    IF err[c] = "nil" /\ val[c][k] > 0
    THEN writeBack(k, val[c][k], token[c][k])
    ELSE UNCHANGED <<entry, clock>>

(* The lease of key k is repaid with the value, or released. *)
repay(c, k) ==
    IF err[c] = "nil" /\ val[c][k] > 0
    THEN writeBack(k, val[c][k], token[c][k])
    ELSE releaseLease(k, token[c][k])

Repaid(c, k) ==
    \/ ~closed[Proc[c]] /\ repay(c, k) /\ UNCHANGED token
    \/ Lost(Proc[c]) /\ token' = [token EXCEPT ![c][k] = 0]

(* leadLoad: write back, then let the flight go.  localCompute has nothing *)
(* to repay.                                                               *)
Back(c) ==
    /\ pc[c] = "back"
    /\ IF In(c, {"lead"}) = {}
       THEN UNCHANGED <<entry, clock, token>>
       ELSE \E k \in In(c, {"lead"}) : Repaid(c, k)
    /\ pc' = [pc EXCEPT ![c] = "publish"]
    /\ UNCHANGED <<source, floor, env, clientVars, slot, val, join, own, attempt, err,
                   published, bg>>

(* Slip: waiters are not woken when the loader failed. *)
Publish_Silent(c) ==
    LET p == Proc[c] IN
    /\ pc[c] = "publish"
    /\ flights' = [flights EXCEPT ![p] =
                     [k \in Keys |-> IF k \in own[c] THEN None ELSE flights[p][k]]]
    /\ published' = [published EXCEPT ![c] = IF err[c] = "nil" THEN "value" ELSE "no"]
    /\ pc' = [pc EXCEPT ![c] = IF c \in Many THEN "join" ELSE "done"]
    /\ UNCHANGED <<serverVars, refreshing, closed, slot, token, val, join, own, attempt,
                   err, bg>>

Publish(c) ==
    LET p == Proc[c] IN
    /\ pc[c] = "publish"
    /\ flights' = [flights EXCEPT ![p] =
                     [k \in Keys |-> IF k \in own[c] THEN None ELSE flights[p][k]]]
    /\ published' = [published EXCEPT ![c] = IF err[c] = "nil" THEN "value" ELSE "error"]
    /\ pc' = [pc EXCEPT ![c] = IF c \in Many THEN "join" ELSE "done"]
    /\ UNCHANGED <<serverVars, refreshing, closed, slot, token, val, join, own, attempt,
                   err, bg>>

(* A flight of somebody else that this call joined is done. *)
Share(c, k) ==
    LET f == join[c][k] IN
    /\ pc[c] = "join" /\ f # None /\ published[f] # "no"
    /\ join' = [join EXCEPT ![c][k] = None]
    /\ IF published[f] = "error"
       THEN err' = [err EXCEPT ![c] = "loader"] /\ UNCHANGED val
       ELSE val' = [val EXCEPT ![c][k] = val[f][k]] /\ UNCHANGED err
    /\ UNCHANGED <<serverVars, clientVars, pc, slot, token, own, attempt, published, bg>>

(* Fetch returns what it joined; fetchMany settles its leases first. *)
JoinEnd(c) ==
    /\ pc[c] = "join" /\ \A k \in Keys : join[c][k] = None
    /\ pc' = [pc EXCEPT ![c] = IF c \in Many THEN "settle" ELSE "done"]
    /\ UNCHANGED <<serverVars, clientVars, slot, token, val, join, own, attempt, err,
                   published, bg>>

Settle(c, k) ==
    /\ pc[c] = "settle" /\ slot[c][k] = "lead"
    /\ Repaid(c, k)
    /\ slot' = [slot EXCEPT ![c][k] = "hit"]
    /\ UNCHANGED <<source, floor, env, clientVars, pc, val, join, own, attempt, err,
                   published, bg>>

SettleEnd(c) ==
    /\ pc[c] = "settle" /\ In(c, {"lead"}) = {}
    /\ pc' = [pc EXCEPT ![c] = "done"]
    /\ UNCHANGED <<serverVars, clientVars, slot, token, val, join, own, attempt, err,
                   published, bg>>

-----------------------------------------------------------------------------
(* The background goroutine of spawnRefresh and spawnRefreshMany *)

(* The loader returns; only non-empty values are written back. *)
BgLoad(c) ==
    /\ bg[c].pc = "load"
    /\ \/ /\ "loaderr" \in Events \/ closed[Proc[c]]
          /\ bg' = [bg EXCEPT ![c] = [@ EXCEPT !.pc = "write"]]
       \/ \E v \in [Keys -> {0} \cup UNION {Loads(k) : k \in Keys}] :
             /\ \A k \in Keys : v[k] \in IF k \in bg[c].mine THEN Loads(k) ELSE {0}
             /\ bg' = [bg EXCEPT ![c] = [@ EXCEPT !.pc = "write", !.val = v,
                                         !.todo = {k \in bg[c].mine : v[k] > 0}]]
    /\ UNCHANGED <<serverVars, clientVars, callVars>>

BgWrite(c, k) ==
    /\ bg[c].pc = "write" /\ k \in bg[c].todo
    /\ \/ ~closed[Proc[c]] /\ writeBack(k, bg[c].val[k], token[c][k])
       \/ Lost(Proc[c])
    /\ bg' = [bg EXCEPT ![c].todo = @ \ {k}]
    /\ UNCHANGED <<source, floor, env, clientVars, callVars>>

(* Slip: the map is cleaned only of what was written back. *)
BgEnd_Leaks(c) ==
    /\ bg[c].pc = "write" /\ bg[c].todo = {}
    /\ refreshing' = [refreshing EXCEPT ![Proc[c]] = @ \ {k \in bg[c].mine : bg[c].val[k] > 0}]
    /\ bg' = [bg EXCEPT ![c] = NoRefresh]
    /\ UNCHANGED <<serverVars, flights, closed, callVars>>

BgEnd(c) ==
    /\ bg[c].pc = "write" /\ bg[c].todo = {}
    /\ refreshing' = [refreshing EXCEPT ![Proc[c]] = @ \ bg[c].mine]
    /\ bg' = [bg EXCEPT ![c] = NoRefresh]
    /\ UNCHANGED <<serverVars, flights, closed, callVars>>

-----------------------------------------------------------------------------
(* What the application and the server do meanwhile *)

Event(kind) == kind \in Events /\ env < MaxEnv /\ env' = env + 1

(* The origin changes. *)
Change(k) ==
    /\ Event("change")
    /\ source' = [source EXCEPT ![k] = @ + 1]
    /\ UNCHANGED <<entry, clock, floor, clientVars, callVars, bg>>

(* Client.Delete, in any process. *)
Delete(k) ==
    /\ Event("delete")
    /\ entry' = [entry EXCEPT ![k] = Absent]
    /\ floor' = [floor EXCEPT ![k] = source[k]]
    /\ UNCHANGED <<clock, source, clientVars, callVars, bg>>

(* Client.Invalidate: the item stays, stale, with a new CAS and no token out. *)
Invalidate(k) ==
    /\ Event("invalidate") /\ entry[k].has
    /\ entry' = [entry EXCEPT ![k] = [@ EXCEPT !.cas = clock + 1, !.stale = TRUE,
                                                !.sent = FALSE]]
    /\ clock' = clock + 1
    /\ floor' = [floor EXCEPT ![k] = source[k]]
    /\ UNCHANGED <<source, clientVars, callVars, bg>>

(* The item expires, a lease's placeholder included, or is evicted. *)
Evict(k) ==
    /\ Event("evict") /\ entry[k].has
    /\ entry' = [entry EXCEPT ![k] = Absent]
    /\ UNCHANGED <<clock, source, floor, clientVars, callVars, bg>>

(* Somebody stores a zero-byte item. *)
StoreEmpty(k) ==
    /\ Event("storeempty")
    /\ entry' = [entry EXCEPT ![k] = Stored(0)]
    /\ clock' = clock + 1
    /\ UNCHANGED <<source, floor, clientVars, callVars, bg>>

(* Client.Close *)
Close(p) ==
    /\ "close" \in Events /\ ~closed[p]
    /\ closed' = [closed EXCEPT ![p] = TRUE]
    /\ UNCHANGED <<serverVars, flights, refreshing, callVars, bg>>

Quiet == \A c \in Calls : pc[c] = "done" /\ bg[c].pc = "off"

Finished == Quiet /\ UNCHANGED vars

KeyStep(c, k) ==
    \/ Read(c, k) \/ ReadLossy(c, k) \/ ReadError(c, k)
    \/ JoinFlight(c, k) \/ Joined(c, k) \/ Share(c, k) \/ Settle(c, k)

CallStep(c) ==
    \/ Sort(c) \/ Backoff(c) \/ Go(c) \/ Fly(c) \/ Load(c) \/ Back(c) \/ Publish(c)
    \/ JoinEnd(c) \/ SettleEnd(c)
    \/ \E k \in Keys : KeyStep(c, k)

BgStep(c) == BgLoad(c) \/ BgEnd(c) \/ \E k \in Keys : BgWrite(c, k)

EnvStep ==
    \/ \E k \in Keys : Change(k) \/ Delete(k) \/ Invalidate(k) \/ Evict(k) \/ StoreEmpty(k)
    \/ \E p \in Procs : Close(p)

Next ==
    \/ \E c \in Calls : Start(c) \/ CallStep(c) \/ CtxDone(c) \/ BgStep(c)
    \/ EnvStep
    \/ Finished

Spec == Init /\ [][Next]_vars

(* Loaders return, woken waiters run, and commands are answered or fail:   *)
(* the last is an assumption about Transport, whose TimedReturns names the *)
(* requests that may hang in spite of their deadline.                      *)
Fairness == \A c \in Calls : WF_vars(CallStep(c)) /\ WF_vars(BgStep(c))

LiveSpec == Spec /\ Fairness

-----------------------------------------------------------------------------
(* Properties *)

(* writeBack: a value loaded before a Delete or an Invalidate never comes  *)
(* back as a fresh one after it, whoever computed it and however late it   *)
(* is written.                                                             *)
NoResurrection ==
    \A k \in Keys : entry[k].has /\ ~entry[k].stale /\ entry[k].val > 0
        => entry[k].val >= floor[k]

(* A call whose loader runs, in the foreground or in the background. *)
Leading(c, k) == pc[c] \in {"load", "back"} /\ k \in own[c]
Refreshing(c, k) == bg[c].pc = "load" /\ k \in bg[c].mine

(* The flight map and the refreshing map each keep one loader per key and  *)
(* process running, across Fetch, FetchMany, misses and Degrade.           *)
OneOfEachLoader ==
    \A c, d \in Calls, k \in Keys : c # d /\ Proc[c] = Proc[d] =>
        /\ ~(Leading(c, k) /\ Leading(d, k))
        /\ ~(Refreshing(c, k) /\ Refreshing(d, k))

(* The lease elects across processes: while a key's placeholder or stale   *)
(* item is leased, at most one call or refresh holds its current token.    *)
Holds(c, k) ==
    /\ Matches(k, token[c][k])
    /\ \/ slot[c][k] = "lead" /\ pc[c] # "done"
       \/ slot[c][k] = "refresh" /\ pc[c] \in {"read", "busy", "go"}
       \/ k \in bg[c].mine

OneHolder ==
    \A k \in Keys : entry[k].sent =>
        \A c, d \in Calls : Holds(c, k) /\ Holds(d, k) => c = d

(* leadLoad and releaseLease: a call that ran its own loader for a key it  *)
(* led does not leave its placeholder behind when it returns, unless the   *)
(* command that repays the lease failed.                                   *)
LeaseRepaid ==
    \A c \in Calls, k \in Keys :
        pc[c] = "done" /\ k \in own[c] /\ token[c][k] > 0 /\ Matches(k, token[c][k])
            => entry[k].val > 0

(* Nothing is left in the maps once every call and refresh has ended, so   *)
(* no later call waits on a flight that nobody flies.                      *)
MapsEmptied ==
    Quiet => \A p \in Procs : /\ refreshing[p] = {}
                              /\ \A k \in Keys : flights[p][k] = None

(* runFlights, joinFlight: every call returns.  Waiters are woken whatever *)
(* becomes of the flight they wait on, two calls that each lead a key the  *)
(* other one wants do not wait for each other, and the backoff ends.       *)
EveryCallReturns == \A c \in Calls : pc[c] # "idle" ~> pc[c] = "done"

-----------------------------------------------------------------------------
(* What comments of the code say and the code does not keep *)

(* Fetch: "a process runs at most one loader per key". *)
OneLoader ==
    \A c, d \in Calls, k \in Keys : Proc[c] = Proc[d] /\ Leading(c, k) => ~Refreshing(d, k)

(* A lease this call won and neither repaid nor released. *)
Unpaid(c, k) == pc[c] = "done" /\ slot[c][k] = "lead" /\ Matches(k, token[c][k])

(* leadLoad: "When nothing gets written back, the zero-byte item that      *)
(* granted the lease is released".                                         *)
LeadReleased == \A c \in Calls \ Many, k \in Keys : ~Unpaid(c, k)

(* fetchMany: "Settle every lease this caller won". *)
ManySettled == \A c \in Many, k \in Keys : ~Unpaid(c, k)

(* spawnRefreshMany: "Keys already refreshing in this process are left to  *)
(* that refresh": while a stale value is leased, somebody refreshes it.    *)
StaleRefreshed ==
    \A k \in Keys : entry[k].stale /\ entry[k].sent /\ entry[k].val > 0
        => \E c \in Calls : Holds(c, k)

(* Fetch: "every path ends in a value, the loader's own error, or the      *)
(* caller's context error".                                                *)
NoCacheError == \A c \in Calls \ Many : err[c] # "cache"

(* Fetch: "Fetch returns the cached value or computes it exactly once": no *)
(* call waits for, or recomputes, a value it has just read fresh.          *)
FreshServed ==
    [][\A c \in Calls, k \in Keys :
        slot[c][k] = "todo" /\ slot'[c][k] = "busy" =>
            ~(entry[k].has /\ entry[k].val > 0 /\ ~entry[k].stale)]_vars

=============================================================================
