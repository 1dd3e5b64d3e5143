-------------------------------- MODULE Batch --------------------------------
(***************************************************************************)
(* One call of MetaClient.Batch, GetMany, SetMany or DeleteMany: batch and *)
(* resolveGroup (batch.go), and the verbs' treatment of its results        *)
(* (get.go, set.go, delete.go).                                            *)
(*                                                                         *)
(* The operations are grouped by server; each group is one exchange whose  *)
(* payload is a pipeline of commands, most of them quiet, closed by mn.    *)
(* What exchange does to a pipeline is what Transport does to a request of *)
(* several frames: not written, cut after some bytes, written and answered *)
(* in part or up to the barrier, or given up while the server goes on.     *)
(* An operation counts two units of payload, so that it can be cut in half.*)
(***************************************************************************)
EXTENDS Router, FiniteSets

CONSTANTS
    ServerList,   \* config.servers
    Plans,        \* the calls an instance makes: verb, router and operations
    FirstItems,   \* what a key may hold at first
    Degrade,      \* config.degrade
    Faults,       \* what servers may do to a response, see FaultKinds
    MaxEnv        \* bound on writes of other clients

Servers == DOMAIN ServerList

Shapes == {<<"get", "plain">>, <<"get", "touch">>, <<"get", "vivify">>,
           <<"set", "plain">>, <<"set", "add">>, <<"set", "return">>,
           <<"delete", "plain">>, <<"delete", "return">>, <<"arith", "plain">>,
           <<"nil", "plain">>}

Operations == {[kind |-> s[1], opt |-> s[2], key |-> k] : s \in Shapes, k \in Keys}

FaultKinds == {"none", "blank", "alien", "twice", "flag", "omit"}

(* An item's value names the operation that wrote it; Foreign is the value *)
(* a key held at first.                                                    *)
Items == [has : BOOLEAN, by : Nat, empty : BOOLEAN, stale : BOOLEAN, won : BOOLEAN]

Foreign == 0

Absent == [has |-> FALSE, by |-> Foreign, empty |-> FALSE, stale |-> FALSE, won |-> FALSE]

ASSUME BatchAssumption ==
    /\ ServerList \in Seq(Addresses) /\ ServerList # <<>>
    /\ \A i, j \in Servers : ServerList[i] = ServerList[j] => i = j
    /\ \A p \in Plans :
         /\ p.verb \in {"batch", "getmany", "setmany", "deletemany"}
         /\ p.custom \in BOOLEAN
         /\ p.ops \in Seq(Operations)
         /\ p.verb = "getmany" => \A i \in DOMAIN p.ops : p.ops[i].kind = "get"
                                                          /\ p.ops[i].opt # "vivify"
    /\ Degrade \in BOOLEAN
    /\ \A it \in FirstItems : it \in Items /\ it.by = Foreign
    /\ "none" \in Faults /\ Faults \subseteq FaultKinds
    /\ MaxEnv \in Nat

VARIABLES
    pc,        \* where the call is
    plan,      \* what it was asked to do
    index,     \* operations that batch has prepared
    group,     \* the items of each server's batchGroup
    gpc,       \* the exchange of each server
    out,       \* what each exchange returned
    res,       \* the OperationResult of each operation
    ret,       \* what the call returned
    store,     \* the item under each key
    queue,     \* commands each server has got and not executed; 0 is mn
    sent,      \* the responses each server sent to an exchange still waiting
    did,       \* the status with which the server executed each operation
    saw,       \* the value it read
    ranAt,     \* and the server it ran at
    faulty,    \* servers that sent a response not as it should be
    token,     \* returnStaleWin for each key, and the value read with it
    env        \* writes of other clients so far

vars == <<pc, plan, index, group, gpc, out, res, ret, store, queue, sent, did, saw,
          ranAt, faulty, token, env>>

ops == plan.ops

Codes == {"none", "HD", "VA", "EN", "NF", "NS"}

(* An OperationResult: its status or error, the value, and whether a stale *)
(* item's token came with it.                                              *)
NoResult == [st |-> "none", by |-> Foreign, empty |-> FALSE, returns |-> FALSE]

NoOutcome == [resp |-> <<>>, written |-> 0, err |-> "none"]

NoToken == [at |-> "none", by |-> Foreign]

Init ==
    /\ pc = "idle" /\ plan \in Plans /\ index = 0
    /\ group = [s \in Servers |-> <<>>]
    /\ gpc = [s \in Servers |-> "none"]
    /\ out = [s \in Servers |-> NoOutcome]
    /\ res = [i \in DOMAIN ops |-> NoResult]
    /\ ret = "none"
    /\ store \in [Keys -> FirstItems]
    /\ \A k \in Keys : (\A i \in DOMAIN ops : ops[i].key # k) => store[k] = Absent
    /\ queue = [s \in Servers |-> <<>>]
    /\ sent = [s \in Servers |-> <<>>]
    /\ did = [i \in DOMAIN ops |-> "none"]
    /\ saw = [i \in DOMAIN ops |-> Foreign]
    /\ ranAt = [i \in DOMAIN ops |-> NoServer]
    /\ faulty = {}
    /\ token = [k \in Keys |-> NoToken]
    /\ env = 0

Elems(s) == {s[i] : i \in DOMAIN s}

-----------------------------------------------------------------------------
(* The pipelines *)

home(i) == server(ops[i].key, ServerList, plan.custom)

(* Slip: a group is filled from the back. *)
grown_Front(items, i) == <<i>> \o items

(* An operation joins its server's group at the end: input order. *)
grown(items, i) == Append(items, i)

(* The server whose group has operation i. *)
at(i) == CHOOSE s \in Servers : i \in Elems(group[s])

Unit == 2   \* bytes of a command: none, some, all

end(i) == Unit * CHOOSE j \in DOMAIN group[at(i)] : group[at(i)][j] = i

Payload(s) == Unit * Len(group[s]) + 1

(* What a server has got whole when w units of the payload have arrived. *)
Arrived(s, w) ==
    IF w = Payload(s) THEN Append(group[s], 0)
    ELSE SubSeq(group[s], 1, w \div Unit)

successResponseRequired(op) ==
    \/ op.kind = "get" /\ op.opt = "vivify"
    \/ op.kind = "arith"
    \/ op.kind \in {"set", "delete"} /\ op.opt = "return"

(* quietCommand: for mg, q suppresses only misses. *)
quiet(op) == op.kind = "get" \/ ~successResponseRequired(op)

sideEffect(op) == op.kind # "get" \/ op.opt \in {"touch", "vivify"}

(* normalizeOperation, prepare, the size limit, the reserved opaque. *)
valid(i) == ops[i].kind # "nil" /\ home(i) # NoServer

(* One turn of batch's first loop: the first operation that is not valid   *)
(* refuses the whole call, before any exchange starts.                     *)
Prepare ==
    LET i == index + 1 IN
    /\ pc = "idle" /\ index < Len(ops)
    /\ \/ /\ valid(i)
          /\ index' = i
          /\ group' = [group EXCEPT ![home(i)] = grown(@, i)]
          /\ UNCHANGED <<pc, ret>>
       \/ /\ ~valid(i)
          /\ pc' = "done" /\ ret' = "refused"
          /\ UNCHANGED <<index, group>>
    /\ UNCHANGED <<plan, gpc, out, res, store, queue, sent, did, saw, ranAt, faulty,
                   token, env>>

(* One goroutine for each group that has items. *)
Start ==
    /\ pc = "idle" /\ index = Len(ops)
    /\ pc' = "exchanging"
    /\ gpc' = [s \in Servers |-> IF group[s] = <<>> THEN "none" ELSE "new"]
    /\ UNCHANGED <<plan, index, group, out, res, ret, store, queue, sent, did, saw, ranAt,
                   faulty, token, env>>

-----------------------------------------------------------------------------
(* exchange, for one group *)

Ended(s, resp, written, err) ==
    /\ gpc' = [gpc EXCEPT ![s] = "ended"]
    /\ out' = [out EXCEPT ![s] = [resp |-> resp, written |-> written, err |-> err]]
    /\ UNCHANGED <<pc, plan, index, group, res, ret, store, did, saw, ranAt, faulty, token, env>>

(* The error of a context that ended is the caller's own or the timeout's. *)
CtxErr == {"ctx", "error"}

(* Closed, not dialed, or given up while queued. *)
Unsent(s) ==
    /\ gpc[s] = "new"
    /\ \E e \in CtxErr : Ended(s, <<>>, 0, e)
    /\ UNCHANGED <<queue, sent>>

Put(s) ==
    /\ gpc[s] = "new"
    /\ gpc' = [gpc EXCEPT ![s] = "open"]
    /\ queue' = [queue EXCEPT ![s] = Arrived(s, Payload(s))]
    /\ UNCHANGED <<pc, plan, index, group, out, res, ret, store, sent, did, saw, ranAt, faulty,
                   token, env>>

(* The write fails after w units: flush completes without responses. *)
Cut(s) ==
    /\ gpc[s] = "new"
    /\ \E w \in 1..(Payload(s) - 1) :
         /\ queue' = [queue EXCEPT ![s] = Arrived(s, w)]
         /\ Ended(s, <<>>, w, "error")
    /\ UNCHANGED sent

(* The barrier has been read. *)
Finish(s) ==
    /\ gpc[s] = "open"
    /\ \E j \in DOMAIN sent[s] : sent[s][j].code = "MN"
    /\ Ended(s, sent[s], Payload(s), "none")
    /\ sent' = [sent EXCEPT ![s] = <<>>]
    /\ UNCHANGED queue

(* The connection is lost, by an error line too, with part of the answers. *)
Lose(s) ==
    /\ gpc[s] = "open"
    /\ \E k \in 0..Len(sent[s]) :
         /\ \A j \in 1..k : sent[s][j].code # "MN"
         /\ Ended(s, SubSeq(sent[s], 1, k), Payload(s), "error")
    /\ sent' = [sent EXCEPT ![s] = <<>>]
    /\ UNCHANGED queue

(* The caller gives up while the writer has the request: all of it counts  *)
(* as written, whatever the writer gets done of it.                        *)
GiveUp(s) ==
    /\ gpc[s] \in {"new", "open"}
    /\ IF gpc[s] = "new"
       THEN \E w \in 0..Payload(s) : queue' = [queue EXCEPT ![s] = Arrived(s, w)]
       ELSE UNCHANGED queue
    /\ \E e \in CtxErr : Ended(s, <<>>, Payload(s), e)
    /\ sent' = [sent EXCEPT ![s] = <<>>]

-----------------------------------------------------------------------------
(* The servers (external) *)

Code(op, it) ==
    CASE op.kind = "get"    -> IF it.has \/ op.opt = "vivify" THEN "VA" ELSE "EN"
      [] op.kind = "set"    -> IF op.opt = "add" /\ it.has THEN "NS" ELSE "HD"
      [] op.kind = "delete" -> IF it.has THEN "HD" ELSE "NF"
      [] OTHER              -> IF it.has THEN "VA" ELSE "NF"

Stored(i, empty, won) ==
    [has |-> TRUE, by |-> i, empty |-> empty, stale |-> FALSE, won |-> won]

(* A stale item grants its recache token to the first read. *)
After(i, it) ==
    LET op == ops[i] IN
    CASE op.kind = "get" -> IF it.has THEN [it EXCEPT !.won = @ \/ it.stale]
                            ELSE IF op.opt = "vivify" THEN Stored(i, TRUE, TRUE) ELSE it
      [] op.kind = "set" -> IF Code(op, it) = "HD" THEN Stored(i, FALSE, FALSE) ELSE it
      [] op.kind = "delete" -> Absent
      [] OTHER -> IF it.has THEN [it EXCEPT !.by = i, !.empty = FALSE] ELSE it

Answer(i, it) ==
    LET now == After(i, it) IN
    [op |-> i, code |-> Code(ops[i], it), by |-> now.by, empty |-> now.empty,
     won |-> now.won /\ ~it.won, busy |-> it.won, stale |-> it.stale, bad |-> FALSE]

Barrier == [op |-> 0, code |-> "MN", by |-> Foreign, empty |-> FALSE, won |-> FALSE,
            busy |-> FALSE, stale |-> FALSE, bad |-> FALSE]

Suppressed(op, code) ==
    quiet(op) /\ code = IF op.kind = "get" THEN "EN" ELSE "HD"

(* A response with no opaque, one nobody asked for, sent twice, with a     *)
(* flag that cannot be parsed, or, where one is required, not at all.      *)
Spoiled(r, f) ==
    CASE f = "none"  -> <<r>>
      [] f = "blank" -> <<[r EXCEPT !.op = 0]>>
      [] f = "alien" -> <<[r EXCEPT !.op = Len(ops) + 1]>>
      [] f = "twice" -> <<r, r>>
      [] f = "flag"  -> <<[r EXCEPT !.bad = TRUE]>>
      [] OTHER       -> <<>>

Barred(s) ==
    /\ queue[s] # <<>> /\ Head(queue[s]) = 0
    /\ queue' = [queue EXCEPT ![s] = Tail(@)]
    /\ sent' = IF gpc[s] = "open" THEN [sent EXCEPT ![s] = Append(@, Barrier)] ELSE sent
    /\ UNCHANGED <<pc, plan, index, group, gpc, out, res, ret, store, did, saw, ranAt, faulty,
                   token, env>>

Execute(s) ==
    LET i == Head(queue[s])
        k == ops[i].key
        r == Answer(i, store[k])
    IN
    /\ queue[s] # <<>> /\ i # 0
    /\ queue' = [queue EXCEPT ![s] = Tail(@)]
    /\ store' = [store EXCEPT ![k] = After(i, @)]
    /\ did' = [did EXCEPT ![i] = r.code]
    /\ saw' = [saw EXCEPT ![i] = r.by]
    /\ ranAt' = [ranAt EXCEPT ![i] = s]
    /\ IF gpc[s] # "open" \/ Suppressed(ops[i], r.code)
       THEN UNCHANGED <<sent, faulty>>
       ELSE \E f \in Faults :
              /\ f = "omit" => successResponseRequired(ops[i])
              /\ f # "none" => faulty = {}   \* bound: one such response
              /\ sent' = [sent EXCEPT ![s] = @ \o Spoiled(r, f)]
              /\ faulty' = IF f = "none" THEN faulty ELSE faulty \cup {s}
    /\ UNCHANGED <<pc, plan, index, group, gpc, out, res, ret, token, env>>

(* Another client stores or deletes. *)
Other(k) ==
    /\ env < MaxEnv /\ pc # "idle"
    /\ \E i \in DOMAIN ops : ops[i].key = k
    /\ env' = env + 1
    /\ store' = [store EXCEPT ![k] = IF @.has THEN Absent
                                      ELSE Stored(Len(ops) + env', FALSE, FALSE)]
    /\ UNCHANGED <<pc, plan, index, group, gpc, out, res, ret, queue, sent, did, saw, ranAt,
                   faulty, token>>

-----------------------------------------------------------------------------
(* resolveGroup *)

Tagged(o, i) == {j \in DOMAIN o.resp : o.resp[j].code # "MN" /\ o.resp[j].op = i}

badIndex(o, i) == Cardinality(Tagged(o, i)) > 1

byIndex(o, i) == Cardinality(Tagged(o, i)) = 1

ResponseTo(o, i) == o.resp[CHOOSE j \in Tagged(o, i) : TRUE]

barrier(o) == \E j \in DOMAIN o.resp : o.resp[j].code = "MN"

(* Slip: a response that cannot be attributed is ignored. *)
parseFailure_Ignored(s, o) == o.err = "none" /\ ~barrier(o)

(* Slip: one parseFailure for all the groups. *)
parseFailure_Shared(s, o) ==
    \E t \in Servers : \/ out[t].err # "none"
                       \/ \E j \in DOMAIN out[t].resp :
                            /\ out[t].resp[j].code # "MN"
                            /\ out[t].resp[j].op \notin Elems(group[t])

(* A response without opaque or with an unexpected one, or no barrier. *)
parseFailure(s, o) ==
    \/ \E j \in DOMAIN o.resp : o.resp[j].code # "MN" /\ o.resp[j].op \notin Elems(group[s])
    \/ o.err = "none" /\ ~barrier(o)

(* An operation without a usable response: its outcome is open if all of   *)
(* it was written and it has a side effect.                                *)
failed(i, o) ==
    IF sideEffect(ops[i]) /\ o.written >= end(i) THEN "ambiguous"
    ELSE IF o.err = "ctx" THEN "ctx" ELSE "error"

Status(st) == [NoResult EXCEPT !.st = st]

semanticGet(op, r) ==
    IF op.opt = "vivify" /\ (r.won \/ r.busy) /\ ~r.stale
    THEN Status(IF r.won THEN "lease" ELSE "pending")
    ELSE [st |-> "hit", by |-> r.by, empty |-> r.empty, returns |-> r.won /\ r.stale]

(* storeStatus, deleteStatus, arithmeticStatus. *)
semantic(r) ==
    Status(CASE r.code \in {"HD", "VA"} -> "applied" [] r.code = "NS" -> "exists"
             [] OTHER -> "notfound")

parseBatchResponse(i, r) ==
    IF r.bad THEN Status("unreadable")
    ELSE IF r.code = "EN" THEN Status("miss")
    ELSE IF ops[i].kind = "get" THEN semanticGet(ops[i], r) ELSE semantic(r)

inferQuietResult(op) == IF op.kind = "get" THEN Status("miss") ELSE Status("applied")

inferable(i, o) ==
    /\ barrier(o) /\ ~parseFailure(at(i), o)
    /\ ~successResponseRequired(ops[i])

resolveGroup(i, o) ==
    IF badIndex(o, i) THEN Status(failed(i, o))
    ELSE IF byIndex(o, i) THEN parseBatchResponse(i, ResponseTo(o, i))
    ELSE IF inferable(i, o) THEN inferQuietResult(ops[i])
    ELSE Status(failed(i, o))

-----------------------------------------------------------------------------
(* What GetMany, SetMany and DeleteMany make of the results *)

Errors == {"unreadable", "error", "ctx", "ambiguous"}

(* Slip: Degrade swallows ambiguous writes too. *)
absorb_All(r) == Degrade /\ r.st # "ctx"

(* Ambiguous writes and the caller's own context error surface. *)
absorb(r) == Degrade /\ r.st \notin {"ambiguous", "ctx"}

Surfaces(r) == r.st \in Errors /\ ~absorb(r)

(* The collection verbs return the first error that surfaces. *)
firstErr(results) == \E i \in DOMAIN ops : Surfaces(results[i])

(* Slip: only values worth returning hand their token back. *)
handsBack_Valued(r) == plan.verb = "getmany" /\ r.st = "hit" /\ r.returns /\ ~r.empty

(* GetMany calls returnStaleWin before it looks at the value. *)
handsBack(r) == plan.verb = "getmany" /\ r.st = "hit" /\ r.returns

Busy == {s \in Servers : gpc[s] \in {"new", "open"}}

(* All exchanges have ended: wg.Wait, resolveGroup and the verb's loop. *)
Resolve ==
    LET r == [i \in DOMAIN ops |-> resolveGroup(i, out[at(i)])] IN
    /\ pc = "exchanging" /\ Busy = {}
    /\ pc' = "done"
    /\ res' = r
    /\ ret' = IF plan.verb # "batch" /\ firstErr(r) THEN "error" ELSE "nil"
    /\ token' = [k \in Keys |->
                   IF \E i \in DOMAIN ops : ops[i].key = k /\ handsBack(r[i])
                   THEN [at |-> "due",
                         by |-> r[CHOOSE i \in DOMAIN ops : ops[i].key = k /\ handsBack(r[i])].by]
                   ELSE token[k]]
    /\ UNCHANGED <<plan, index, group, gpc, out, store, queue, sent, did, saw, ranAt, faulty, env>>

(* The goroutine of returnStaleWin re-invalidates under the CAS it read. *)
GiveBack(k) ==
    /\ token[k].at = "due"
    /\ token' = [token EXCEPT ![k].at = "back"]
    /\ store' = IF store[k].has /\ store[k].by = token[k].by
                THEN [store EXCEPT ![k].stale = TRUE, ![k].won = FALSE]
                ELSE store
    /\ UNCHANGED <<pc, plan, index, group, gpc, out, res, ret, queue, sent, did, saw, ranAt,
                   faulty, env>>

GiveBackFails(k) ==
    /\ token[k].at = "due"
    /\ token' = [token EXCEPT ![k].at = "failed"]
    /\ UNCHANGED <<pc, plan, index, group, gpc, out, res, ret, store, queue, sent, did, saw,
                   ranAt, faulty, env>>

Finished == pc = "done" /\ UNCHANGED vars

Next ==
    \/ Prepare \/ Start \/ Resolve \/ Finished
    \/ \E s \in Servers :
         \/ Unsent(s) \/ Put(s) \/ Cut(s) \/ Finish(s) \/ Lose(s) \/ GiveUp(s)
         \/ Barred(s) \/ Execute(s)
    \/ \E k \in Keys : GiveBack(k) \/ GiveBackFails(k) \/ Other(k)

Spec == Init /\ [][Next]_vars

-----------------------------------------------------------------------------
(* Properties *)

Returned == pc = "done" /\ ret # "refused"

(* The server has not executed operation i and never will. *)
Never(i) == did[i] = "none" /\ \A s \in Servers : i \notin Elems(queue[s])

(* The status the server must have given an operation reported as st. *)
Means(st) ==
    CASE st = "applied"  -> {"HD", "VA"} [] st \in {"hit", "lease", "pending"} -> {"VA"}
      [] st = "miss" -> {"EN"} [] st = "notfound" -> {"NF"} [] st = "exists" -> {"NS"}
      [] OTHER -> Codes

(* OperationResult: "exactly one typed result when Err is nil". *)
Typed(kind) ==
    IF kind = "get" THEN {"hit", "miss", "lease", "pending"}
    ELSE {"applied", "notfound", "exists"}

(* Every OperationResult can be trusted, inferred ones too: it has a       *)
(* result of its operation's type or an error, a reported status is the    *)
(* one with which the server executed the operation, a value is the one it *)
(* read, and a side effect that failed without Ambiguous has not happened  *)
(* and will not (resolveGroup, inferQuietResult).                          *)
HonestResults ==
    /\ ret = "refused" => \A i \in DOMAIN ops : Never(i)
    /\ Returned => \A i \in DOMAIN ops :
         /\ res[i].st \in Typed(ops[i].kind) \cup Errors
         /\ did[i] \in Means(res[i].st)
         /\ res[i].st = "hit" => res[i].by = saw[i]
         /\ res[i].st \in {"error", "ctx"} /\ sideEffect(ops[i]) => Never(i)

(* batch: "a failure on one backend does not erase successful results from *)
(* another".  Every operation of a pipeline that came back whole has a     *)
(* result, whatever became of the other pipelines.                         *)
BackendIsolation ==
    Returned => \A i \in DOMAIN ops :
        out[at(i)].err = "none" /\ at(i) \notin faulty => res[i].st \notin Errors

(* SetMany, DeleteMany and GetMany: nil means that every operation was     *)
(* executed or, with Degrade, that it was not and never will be.           *)
NilMeansDone ==
    Returned /\ plan.verb # "batch" /\ ret = "nil" => \A i \in DOMAIN ops :
        \/ did[i] # "none"
        \/ Degrade /\ Never(i)
        \/ Degrade /\ ~sideEffect(ops[i])

(* batch: "restores input order", and a pipeline keeps it: in one batch, a *)
(* read of a key sees the last write to it before the read, unless another *)
(* client wrote in between.                                                *)
ReadsItsWrites ==
    Returned /\ env = 0 => \A i, j \in DOMAIN ops :
        /\ i < j /\ ops[i].key = ops[j].key
        /\ ops[i].kind = "set" /\ res[i].st = "applied" /\ res[j].st \in {"hit", "miss"}
        => \/ res[j].st = "hit" /\ res[j].by \in i..(j - 1)
           \/ \E m \in (i + 1)..(j - 1) : ops[m].kind = "delete" /\ ops[m].key = ops[i].key

(* Client.server: every operation runs at the server its router chose,     *)
(* although the router numbers the servers in an order of its own.         *)
RunsWhereRouted ==
    plan.custom => \A i \in DOMAIN ops : did[i] # "none" =>
        ServerList[ranAt[i]] = Custom.order[Custom.index[ops[i].key]]

(* GetMany: a recache token that a read of the pipeline won by accident is *)
(* handed back, and is there to be won again, unless handing it back       *)
(* failed, the item has changed or another read's answer was lost.         *)
TokenHandedBack ==
    Returned /\ plan.verb = "getmany" => \A i \in DOMAIN ops :
        LET k == ops[i].key IN
        /\ res[i].st = "hit" /\ res[i].returns /\ store[k].has /\ store[k].by = res[i].by
        /\ \A j \in DOMAIN ops : ops[j].key = k => res[j].st \notin Errors
        => token[k].at \in {"due", "failed"} \/ ~store[k].won

-----------------------------------------------------------------------------
(* What docs of the code say and the code does not keep *)

(* GetMany: "With Degrade enabled a failing backend only removes its own   *)
(* keys from the result."  With Touch, the failure is an error.            *)
DegradedRead == Returned /\ plan.verb = "getmany" /\ Degrade
    /\ (\A i \in DOMAIN ops : res[i].st # "ctx") => ret = "nil"

(* OperationResult.Err: without Ambiguous, an operation with an error has  *)
(* had no effect.  A response with an unreadable flag is such an error.    *)
ErrorMeansNoEffect ==
    Returned => \A i \in DOMAIN ops :
        res[i].st = "unreadable" /\ sideEffect(ops[i]) => did[i] \notin {"HD", "VA"}

=============================================================================
