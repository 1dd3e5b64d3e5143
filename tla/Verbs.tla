-------------------------------- MODULE Verbs --------------------------------
(***************************************************************************)
(* The single-key verbs of Client on one key: Get and Touch (get.go), Set, *)
(* Add, Replace, Append and Prepend (set.go), Delete and Invalidate        *)
(* (delete.go), and the optimistic loops of Update and Take (update.go),   *)
(* over executeMeta's rule for commands whose outcome is unknown           *)
(* (client.go).                                                            *)
(*                                                                         *)
(* A value is the sequence of the calls that contributed to it; the empty  *)
(* value is a lease placeholder.  What exchange does to a command is the   *)
(* contract of ExchangeSpec: answered, failed unwritten, or given up with  *)
(* all of it written, in which case the server may still execute it later. *)
(***************************************************************************)
EXTENDS Integers, Sequences, FiniteSets

CONSTANTS
    Calls,        \* calls of the verbs, each made once
    Kinds,        \* the verbs they may be
    Eternal,      \* calls made with the TTL Forever
    Degrade,      \* config.degrade
    MaxAttempts,  \* updateAttempts
    MaxEnv,       \* bound on what happens to the item besides
    Events        \* what may go wrong or happen besides, see EventKinds

Verbs == {"get", "touch", "set", "add", "replace", "append", "prepend",
          "update", "take", "delete", "invalidate"}

EventKinds == {"fail", "lose", "spoil", "drop", "abort", "vivify", "evict"}

ASSUME VerbsAssumption ==
    /\ Kinds \subseteq Verbs
    /\ Eternal \subseteq Calls
    /\ Degrade \in BOOLEAN
    /\ MaxAttempts \in Nat \ {0} /\ MaxEnv \in Nat
    /\ Events \subseteq EventKinds

VARIABLES
    item,       \* what the server stores under the key
    clock,      \* the last CAS value given out
    env,        \* events of the environment so far
    kind,       \* the verb of each call
    pc,         \* where it is
    seen,       \* the item as its last read returned it, and whether it won
    attempt,    \* turns of the optimistic loop so far
    ret,        \* what the call returned, and OnError was told of an absorbed error
    late,       \* a command given up on that the server may still execute
    giveback,   \* CAS of the token a returnStaleWin goroutine hands back; -1: it failed
    effects,    \* how often a mutation of the call was applied
    haul,       \* what the call's delete removed
    dead        \* contributions that were in the value when it was invalidated

vars == <<item, clock, env, kind, pc, seen, attempt, ret, late, giveback, effects,
          haul, dead>>

Items == [has : BOOLEAN, val : Seq(Calls), cas : Nat, stale : BOOLEAN, sent : BOOLEAN]

Looks == [of : Items, won : BOOLEAN]

Commands == [op : {"none", "mg", "ms", "md"}, mode : Verbs \cup {"none"}, cas : Nat,
             val : Seq(Calls)]

Absent == [has |-> FALSE, val |-> <<>>, cas |-> 0, stale |-> FALSE, sent |-> FALSE]

NoCmd == [op |-> "none", mode |-> "none", cas |-> 0, val |-> <<>>]

Unread == [of |-> Absent, won |-> FALSE]

(* The errors of a command, absorbed by Degrade or not: it was not written *)
(* or refused, its outcome is unknown, its response has an unreadable flag.*)
Failures == {"error", "absorbed", "ambiguous", "unreadable", "absorbedUnreadable"}

Answers == {"none", "ok", "miss", "no", "aborted", "usage", "conflict"} \cup Failures

TypeOK ==
    /\ item \in Items
    /\ clock \in Nat
    /\ env \in 0..MaxEnv
    /\ kind \in [Calls -> Verbs \cup {"none"}]
    /\ pc \in [Calls -> {"idle", "read", "write", "done"}]
    /\ seen \in [Calls -> Looks]
    /\ attempt \in [Calls -> 0..MaxAttempts]
    /\ ret \in [Calls -> Answers]
    /\ late \in [Calls -> Commands]
    /\ giveback \in [Calls -> Nat \cup {-1}]
    /\ effects \in [Calls -> Nat]
    /\ haul \in [Calls -> Seq(Calls)]
    /\ dead \in SUBSET Calls

Init ==
    /\ item = Absent /\ clock = 0 /\ env = 0
    /\ kind = [c \in Calls |-> "none"]
    /\ pc = [c \in Calls |-> "idle"]
    /\ seen = [c \in Calls |-> Unread]
    /\ attempt = [c \in Calls |-> 0]
    /\ ret = [c \in Calls |-> "none"]
    /\ late = [c \in Calls |-> NoCmd]
    /\ giveback = [c \in Calls |-> 0]
    /\ effects = [c \in Calls |-> 0]
    /\ haul = [c \in Calls |-> <<>>]
    /\ dead = {}

Elems(s) == {s[i] : i \in 1..Len(s)}

-----------------------------------------------------------------------------
(* The server executing one command (external) *)

Code(cmd, it) ==
    IF cmd.op = "mg" THEN IF it.has THEN "VA" ELSE "EN"
    ELSE IF cmd.cas > 0
         THEN IF ~it.has THEN "NF" ELSE IF it.cas = cmd.cas THEN "HD" ELSE "EX"
    ELSE IF cmd.mode \in {"delete", "invalidate"} THEN IF it.has THEN "HD" ELSE "NF"
    ELSE IF (cmd.mode = "add" /\ it.has) \/ (cmd.mode = "replace" /\ ~it.has) THEN "NS"
    ELSE "HD"

Stored(v, sent) == [has |-> TRUE, val |-> v, cas |-> clock + 1, stale |-> FALSE, sent |-> sent]

(* A read is granted the token of a stale item when it is still there.     *)
Won(it) == it.has /\ it.stale /\ ~it.sent

(* Whether concatenation keeps the marks of the item is left open. *)
Concat(it, v) == {Stored(v, FALSE), [it EXCEPT !.has = TRUE, !.val = v, !.cas = clock + 1]}

After(cmd, it) ==
    IF cmd.op = "mg" THEN {[it EXCEPT !.sent = @ \/ Won(it)]}
    ELSE CASE cmd.mode = "append"     -> Concat(it, it.val \o cmd.val)
           [] cmd.mode = "prepend"    -> Concat(it, cmd.val \o it.val)
           [] cmd.mode = "delete"     -> {Absent}
           [] cmd.mode = "invalidate" -> {[it EXCEPT !.stale = TRUE, !.sent = FALSE,
                                                     !.cas = clock + 1]}
           [] OTHER                   -> {Stored(cmd.val, FALSE)}

(* cmd is executed, with its answer's code and what it does to the item.   *)
Applied(cmd) == Code(cmd, item) = "HD"

Execute(cmd) ==
    /\ IF Applied(cmd) \/ cmd.op = "mg"
       THEN /\ item' \in After(cmd, item)
            /\ clock' = IF cmd.op = "mg" THEN clock ELSE clock + 1
       ELSE UNCHANGED <<item, clock>>
    /\ dead' = IF Applied(cmd) /\ cmd.mode = "invalidate" THEN dead \cup Elems(item.val)
               ELSE dead

(* What the command of call c did, for the record. *)
Record(c, cmd) ==
    /\ effects' = [effects EXCEPT ![c] = IF Applied(cmd) THEN @ + 1 ELSE @]
    /\ haul' = [haul EXCEPT ![c] =
                  IF Applied(cmd) /\ cmd.mode = "delete" THEN item.val ELSE @]

-----------------------------------------------------------------------------
(* The commands of each verb *)

Storing(mode, cas, v) == [op |-> "ms", mode |-> mode, cas |-> cas, val |-> v]
Deleting(mode, cas)   == [op |-> "md", mode |-> mode, cas |-> cas, val |-> <<>>]

Reading == [op |-> "mg", mode |-> "none", cas |-> 0, val |-> <<>>]

Loops == {"update", "take"}
Reads == {"get", "touch"}

(* Slip: an invalidated value is transformed like a fresh one. *)
Found_Stale(s) == s.has /\ s.val # <<>>

(* Update's found: a stale or zero-byte hit reads as a miss, ... *)
Found(s) == s.has /\ ~s.stale /\ s.val # <<>>

(* Slips: no comparison at all, or only when fn was given a value. *)
updateCommand_Blind(c, s) ==
    Storing("set", 0, (IF Found(s) THEN s.val ELSE <<>>) \o <<c>>)

updateCommand_AddOnEmpty(c, s) ==
    LET next == (IF Found(s) THEN s.val ELSE <<>>) \o <<c>>
    IN IF Found(s) THEN Storing("set", s.cas, next) ELSE Storing("add", 0, next)

(* ... but only a compare-and-swap can replace the entry. *)
updateCommand(c, s) ==
    LET next == (IF Found(s) THEN s.val ELSE <<>>) \o <<c>>
    IN IF s.has THEN Storing("set", s.cas, next) ELSE Storing("add", 0, next)

(* Slip: Take deletes whatever is there. *)
takeCommand_Blind(s) == Deleting("delete", 0)

takeCommand(s) == Deleting("delete", s.cas)

Command(c) ==
    IF pc[c] = "read" THEN Reading
    ELSE CASE kind[c] = "update"     -> updateCommand(c, seen[c].of)
           [] kind[c] = "take"       -> takeCommand(seen[c].of)
           [] kind[c] = "delete"     -> Deleting("delete", 0)
           [] kind[c] = "invalidate" -> Deleting("invalidate", 0)
           [] OTHER                  -> Storing(kind[c], 0, <<c>>)

(* commandHasSideEffect; Touch sends mg with the T flag. *)
commandHasSideEffect(c) == Command(c).op # "mg" \/ kind[c] = "touch"

(* How a command fails: with less than all of it written, or an error line *)
(* of the server; with all of it written; or with a response whose frame   *)
(* is intact, but one of whose flags cannot be parsed (parseErr).          *)
Ends == {"refused", "written", "unreadable"}

(* Slip: an ambiguous outcome is one more infrastructure failure. *)
executeMetaError_Plain(c, end) == IF end = "unreadable" THEN end ELSE "error"

(* executeMeta: an error after the whole command was written leaves the    *)
(* outcome of a side effect unknown.  A response that cannot be parsed is  *)
(* an error like any other, whatever the command did.                      *)
executeMetaError(c, end) ==
    CASE end = "unreadable"                          -> "unreadable"
      [] end = "written" /\ commandHasSideEffect(c) -> "ambiguous"
      [] OTHER                                       -> "error"

(* absorb, and the verbs that ask it: the caller's own context error and   *)
(* an ambiguous outcome always surface.                                    *)
absorb(k, e, own) ==
    /\ Degrade /\ e # "ambiguous" /\ ~own
    /\ k \notin {"add", "replace", "update", "take"}

-----------------------------------------------------------------------------
(* The verbs *)

Return(c, answer) ==
    /\ pc' = [pc EXCEPT ![c] = "done"]
    /\ ret' = [ret EXCEPT ![c] = answer]

(* The command of call c failed at this end, with the caller's own context *)
(* error or not, and the verb returns that, unless Degrade absorbs it.     *)
Fails(c, end, own) ==
    LET e == executeMetaError(c, end)
    IN Return(c, IF ~absorb(kind[c], e, own) THEN e
                 ELSE IF e = "unreadable" THEN "absorbedUnreadable" ELSE "absorbed")

(* resolveTTL and buildSet: a concatenation needs a positive vivify TTL.   *)
(* The error of buildSet is no usageError, so absorb takes it for an       *)
(* infrastructure failure.                                                 *)
Refused(c, k) == k \in {"append", "prepend"} /\ c \in Eternal

Start(c, k) ==
    /\ pc[c] = "idle"
    /\ kind' = [kind EXCEPT ![c] = k]
    /\ IF Refused(c, k)
       THEN Return(c, IF absorb(k, "usage", FALSE) THEN "absorbed" ELSE "usage")
       ELSE /\ pc' = [pc EXCEPT ![c] = IF k \in Loops \cup Reads THEN "read" ELSE "write"]
            /\ UNCHANGED ret
    /\ UNCHANGED <<item, clock, env, seen, attempt, late, giveback, effects, haul, dead>>

(* Slip: only reads that had nothing else to do hand a token back. *)
returnStaleWin_GetOnly(c, won, s) == won /\ kind[c] = "get"

(* doGet, and Take on an empty stale value, return a token they cannot use. *)
returnStaleWin(c, won, s) == won /\ (kind[c] \in Reads \/ (kind[c] = "take" /\ s.val = <<>>))

(* The read of doGet, Update or Take is answered. *)
Read(c) ==
    LET won == Won(item) IN
    /\ pc[c] = "read"
    /\ Execute(Reading)
    /\ seen' = [seen EXCEPT ![c] = [of |-> item', won |-> won]]
    /\ giveback' = [giveback EXCEPT ![c] = IF returnStaleWin(c, won, item) THEN item.cas ELSE @]
    /\ IF kind[c] \in Reads \/ (kind[c] = "take" /\ item.val = <<>>)
       THEN Return(c, IF item.val = <<>> THEN "miss" ELSE "ok")
       ELSE pc' = [pc EXCEPT ![c] = "write"] /\ UNCHANGED ret
    /\ UNCHANGED <<env, kind, attempt, late, effects, haul>>

(* Update's transform fails, or returns nothing. *)
Abort(c) ==
    /\ "abort" \in Events
    /\ pc[c] = "write" /\ kind[c] = "update"
    /\ giveback' = [giveback EXCEPT ![c] = IF seen[c].won THEN seen[c].of.cas ELSE @]
    /\ Return(c, "aborted")
    /\ UNCHANGED <<item, clock, env, kind, seen, attempt, late, effects, haul, dead>>

(* storeStatus and deleteStatus, and what the verb makes of them. *)
Answer(c, code) ==
    CASE code = "HD" -> "ok"
      [] code # "HD" /\ kind[c] \in {"delete", "invalidate"} -> "ok"
      [] OTHER -> "no"

(* Slip: one turn more than updateAttempts. *)
Exhausted_OffByOne(c) == attempt[c] = MaxAttempts

Exhausted(c) == attempt[c] + 1 = MaxAttempts

(* The mutation is answered: Update and Take go round again unless it was  *)
(* applied, until updateAttempts are used up.                              *)
Mutate(c) ==
    LET cmd == Command(c) IN
    /\ pc[c] = "write"
    /\ Execute(cmd)
    /\ Record(c, cmd)
    /\ IF kind[c] \notin Loops \/ Applied(cmd)
       THEN Return(c, Answer(c, Code(cmd, item))) /\ UNCHANGED attempt
       ELSE /\ attempt' = [attempt EXCEPT ![c] = @ + 1]
            /\ IF Exhausted(c)
               THEN Return(c, "conflict")
               ELSE pc' = [pc EXCEPT ![c] = "read"] /\ UNCHANGED ret
    /\ UNCHANGED <<env, kind, seen, late, giveback>>

(* The command fails without having been written, or with a server error.  *)
Fail(c) ==
    /\ "fail" \in Events
    /\ pc[c] \in {"read", "write"}
    /\ \E own \in BOOLEAN : Fails(c, "refused", own)
    /\ UNCHANGED <<item, clock, env, kind, seen, attempt, late, giveback, effects, haul,
                   dead>>

(* It fails written: the server has it, or never will. *)
Lose(c) ==
    /\ "lose" \in Events
    /\ pc[c] \in {"read", "write"}
    /\ \E own \in BOOLEAN : Fails(c, "written", own)
    /\ late' = [late EXCEPT ![c] = Command(c)]
    /\ UNCHANGED <<item, clock, env, kind, seen, attempt, giveback, effects, haul, dead>>

(* The server executes it, and its response cannot be parsed.              *)
Spoil(c) ==
    /\ "spoil" \in Events
    /\ pc[c] \in {"read", "write"}
    /\ Execute(Command(c))
    /\ Record(c, Command(c))
    /\ Fails(c, "unreadable", FALSE)
    /\ UNCHANGED <<env, kind, seen, attempt, late, giveback>>

Late(c) ==
    /\ late[c].op # "none"
    /\ \/ Execute(late[c]) /\ Record(c, late[c])
       \/ UNCHANGED <<item, clock, dead, effects, haul>>
    /\ late' = [late EXCEPT ![c] = NoCmd]
    /\ UNCHANGED <<env, kind, pc, seen, attempt, ret, giveback>>

(* The goroutine of returnStaleWin: re-invalidate under the CAS just read. *)
GiveBack(c) ==
    /\ giveback[c] > 0
    /\ Execute(Deleting("invalidate", giveback[c]))
    /\ giveback' = [giveback EXCEPT ![c] = 0]
    /\ UNCHANGED <<env, kind, pc, seen, attempt, ret, late, effects, haul>>

GiveBackFails(c) ==
    /\ "drop" \in Events /\ giveback[c] > 0
    /\ giveback' = [giveback EXCEPT ![c] = -1]
    /\ UNCHANGED <<item, clock, env, kind, pc, seen, attempt, ret, late, effects, haul,
                   dead>>

-----------------------------------------------------------------------------
(* What else happens to the item *)

Event(e) == e \in Events /\ env < MaxEnv /\ env' = env + 1

(* A Fetch elsewhere creates its zero-byte placeholder. *)
Vivify ==
    /\ Event("vivify") /\ ~item.has
    /\ item' = Stored(<<>>, TRUE)
    /\ clock' = clock + 1
    /\ UNCHANGED <<kind, pc, seen, attempt, ret, late, giveback, effects, haul, dead>>

Evict ==
    /\ Event("evict") /\ item.has
    /\ item' = Absent
    /\ UNCHANGED <<clock, kind, pc, seen, attempt, ret, late, giveback, effects, haul,
                   dead>>

Quiet ==
    \A c \in Calls : pc[c] = "done" /\ late[c].op = "none" /\ giveback[c] <= 0

Finished == Quiet /\ UNCHANGED vars

Next ==
    \/ \E c \in Calls :
         \/ \E k \in Kinds : Start(c, k)
         \/ Read(c) \/ Abort(c) \/ Mutate(c) \/ Fail(c) \/ Lose(c) \/ Spoil(c) \/ Late(c)
         \/ GiveBack(c) \/ GiveBackFails(c)
    \/ Vivify \/ Evict \/ Finished

Spec == Init /\ [][Next]_vars

-----------------------------------------------------------------------------
(* Properties *)

(* A call of one of the kinds K was executed. *)
Did(K) == \E c \in Calls : kind[c] \in K /\ effects[c] > 0

Mutators == Verbs \ (Reads \cup {"delete", "invalidate"})

(* Every verb's answer can be trusted, over retries and late executions: a *)
(* mutation that succeeded was applied exactly once, one that failed, was  *)
(* absorbed by Degrade, refused or ran into ErrConflict never is.  Two     *)
(* errors leave it open: after an AmbiguousWriteError it may still be      *)
(* applied, once, and behind a response that cannot be parsed it was       *)
(* applied once or never will be (executeMeta, absorb, update).            *)
Unreadable == {"unreadable", "absorbedUnreadable"}

HonestAnswers ==
    \A c \in Calls : pc[c] = "done" /\ kind[c] \in Mutators =>
        /\ ret[c] = "ok" => effects[c] = 1
        /\ ret[c] \in Unreadable \cup {"ambiguous"} => effects[c] <= 1
        /\ ret[c] \notin Unreadable \cup {"ok", "ambiguous"} => effects[c] = 0
        /\ ret[c] # "ambiguous" => late[c].op \in {"none", "mg"}

(* Update is atomic: what an Update stores extends exactly the value that  *)
(* is fresh at that moment, so no concurrent write is lost.                *)
UpdateAtomic ==
    [][\A c \in Calls : kind[c] = "update" /\ effects'[c] # effects[c] =>
          item'.val = (IF Found(item) THEN item.val ELSE <<>>) \o <<c>>]_vars

(* Take: "Bytes appended between the read and the delete are never lost".  *)
(* A Take removes exactly what it returns, and unless the entry was        *)
(* invalidated, overwritten, deleted or evicted, a contribution that was   *)
(* applied is in the item or in the haul of exactly one Take.              *)
Contributors == {"append", "prepend", "update"}
Hauled(f) == {c \in Calls : f \in Elems(haul[c])}

Conserved ==
    /\ \A c \in Calls : kind[c] = "take" /\ ret[c] = "ok" => haul[c] = seen[c].of.val
    /\ ~Did({"invalidate", "set", "replace", "delete"}) /\ (env = 0 \/ "evict" \notin Events) =>
         \A f \in Calls : effects[f] > 0 /\ kind[f] \in Contributors =>
             Cardinality(Hauled(f)) + (IF f \in Elems(item.val) THEN 1 ELSE 0) = 1

(* Update: "transforming invalidated data would silently launder it back   *)
(* to fresh".  What was invalidated never is part of a fresh value again,  *)
(* unless Append or Prepend extended the stale item in place.              *)
NoLaundering ==
    item.has /\ ~item.stale => Elems(item.val) \cap dead = {} \/ Did({"append", "prepend"})

(* ErrConflict, and every turn of the loops, is the work of a concurrent   *)
(* writer: an attempt fails only if the entry changed after its read.      *)
ConflictsAreReal ==
    [][\A c \in Calls : attempt'[c] # attempt[c] =>
          [item EXCEPT !.sent = TRUE] # [seen[c].of EXCEPT !.sent = TRUE]]_vars

(* returnStaleWin: when no verb is under way, none has failed, nor a token *)
(* on its way back, and none extended the item in place, the recache token *)
(* of a stale value is there to be won by Fetch.                           *)
TokenReturned ==
    /\ Quiet /\ ~Did({"append", "prepend"})
    /\ \A c \in Calls : ret[c] \notin Failures /\ giveback[c] # -1
    => ~(item.stale /\ item.sent)

-----------------------------------------------------------------------------
(* What docs of the code say and the code does not keep *)

(* update: "an accidentally consumed stale-recache token must go back so   *)
(* Fetch can still elect" whenever an Update leaves the entry unwritten.   *)
TokenGoesBack ==
    \A c \in Calls :
        kind[c] = "update" /\ ret[c] = "error" /\ seen[c].won /\ item.cas = seen[c].of.cas
            => giveback[c] > 0

(* resolveTTL: "Zero (Forever) stores without expiration" on every storing *)
(* verb, Append and Prepend included.                                      *)
ForeverStores == \A c \in Calls : ret[c] # "usage"

(* absorb: "Usage errors are permanent client-side mistakes that would     *)
(* otherwise become silent fake results on every call."  A call that was   *)
(* refused before anything was sent does not report success.               *)
MisuseSurfaces == \A c \in Calls : Refused(c, kind[c]) => ret[c] # "absorbed"

=============================================================================
