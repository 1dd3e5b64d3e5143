------------------------------ MODULE Lifetimes ------------------------------
(***************************************************************************)
(* How long an item lives, and what a counter in it says: Incr and Decr    *)
(* (counter.go), Set, Touch and Invalidate with their TTLs, and the reads  *)
(* that hand a stale item's recache token back (get.go), on one key.       *)
(* Client and server read the same clock; commands take time to arrive,    *)
(* and one whose caller has given up may be executed later.                *)
(***************************************************************************)
EXTENDS Expiry, FiniteSets

CONSTANTS
    Calls,      \* calls of the verbs, each made once
    Offers,     \* the verbs they may be, each with a duration in ticks
    Amount,     \* the delta of each call
    Modulus,    \* 2^64
    Start,      \* when the behaviour begins: a Unix time is no relative TTL
    MaxTime,    \* bound on the clock
    Untold

Verbs == {"incr", "decr", "set", "touch", "invalidate", "get"}

ASSUME LifetimesAssumption ==
    /\ Offers \subseteq Verbs \X Int
    /\ \A o \in Offers : o[1] = "get" => o[2] = 0   \* Get has no TTL
    /\ Modulus \in Nat \ {0}
    /\ Amount \in [Calls -> 0..(Modulus - 1)]
    /\ Start \in Nat /\ Start > MaxRelative * Second
    /\ MaxTime \in Nat /\ MaxTime >= Start
    /\ Untold \notin Nat

VARIABLES
    now,       \* the clock, in ticks
    item,      \* what the server stores under the key
    kind,      \* the verb of each call
    pc,        \* where it is
    wire,      \* its command, until the server has executed it
    told,      \* the number it returned, if it did
    back,      \* the token a read has to hand back: CAS and remaining TTL
    window,    \* the life of the counter in which it counted; 0 if it has not
    down,      \* the lives in which the counter went down: Decr, or a wrap
    born       \* the TTL behind the item's expiration, asked when and set when

vars == <<now, item, kind, pc, wire, told, back, window, down, born>>

Items == [has : BOOLEAN, val : 0..(Modulus - 1), exp : Int, stale : BOOLEAN,
          won : BOOLEAN, cas : Nat, life : Nat, slides : Nat]

Gone == [has |-> FALSE, val |-> 0, exp |-> Never, stale |-> FALSE, won |-> FALSE,
         cas |-> 0, life |-> 0, slides |-> 0]

(* t: whether the command carries an expiration; cas 0 compares nothing. *)
Commands == [op : Verbs \cup {"none", "reinvalidate"}, e : Nat, t : BOOLEAN, ttl : Int,
             from : Int, cas : Nat]

NoCmd == [op |-> "none", e |-> 0, t |-> FALSE, ttl |-> 0, from |-> 0, cas |-> 0]

(* slides: the touches the item had seen when it was read, at that time.   *)
NoBack == [due |-> FALSE, cas |-> 0, ttl |-> 0, slides |-> 0, at |-> 0]

Unknown == [known |-> FALSE, ttl |-> 0, from |-> 0, to |-> 0]

TypeOK ==
    /\ now \in Start..MaxTime
    /\ item \in Items
    /\ kind \in [Calls -> Verbs \cup {"none"}]
    /\ pc \in [Calls -> {"idle", "wait", "done"}]
    /\ wire \in [Calls -> Commands]
    /\ told \in [Calls -> 0..(Modulus - 1) \cup {Untold}]
    /\ back \in [Calls -> [due : BOOLEAN, cas : Nat, ttl : Int, slides : Nat, at : Nat]]
    /\ window \in [Calls -> Nat]
    /\ down \subseteq Nat
    /\ born \in [known : BOOLEAN, ttl : Int, from : Int, to : Int]

Init ==
    /\ now = Start /\ item = Gone /\ down = {} /\ born = Unknown
    /\ kind = [c \in Calls |-> "none"]
    /\ pc = [c \in Calls |-> "idle"]
    /\ wire = [c \in Calls |-> NoCmd]
    /\ told = [c \in Calls |-> Untold]
    /\ back = [c \in Calls |-> NoBack]
    /\ window = [c \in Calls |-> 0]

(* What the server finds: an item past its second is no item. *)
Live(it, t) == it.has /\ (it.exp = Never \/ it.exp > Unix(t))

Found == IF Live(item, now) THEN item ELSE [Gone EXCEPT !.cas = item.cas, !.life = item.life]

-----------------------------------------------------------------------------
(* The verbs, up to their command *)

Counters == {"incr", "decr"}

(* A Touch, or a Get with the option, is a read with a T flag. *)
Reads == {"get", "touch"}

(* Slip: a negative TTL goes through. *)
Refused_Forever(k, d) == k \in Counters \cup {"invalidate"} /\ d = Forever

(* resolveTTL, buildArithmetic and Invalidate. *)
Refused(k, d) ==
    \/ d < 0
    \/ k \in Counters \cup {"invalidate"} /\ d = Forever

Issue(c, cmd) == wire' = [wire EXCEPT ![c] = cmd]

Begin(c, k, d) ==
    /\ pc[c] = "idle"
    /\ kind' = [kind EXCEPT ![c] = k]
    /\ IF Refused(k, d)
       THEN /\ pc' = [pc EXCEPT ![c] = "done"]
            /\ UNCHANGED wire
       ELSE /\ pc' = [pc EXCEPT ![c] = "wait"]
            /\ Issue(c, [op |-> k, e |-> ExpiresIn(d, now), t |-> k # "get", ttl |-> d,
                         from |-> now, cas |-> 0])
    /\ UNCHANGED <<now, item, told, back, window, down, born>>

(* Slip: the remaining seconds are sent as they are. *)
staleFor_Raw(ttl, t) == ttl

(* returnStaleWin: a remaining TTL beyond MaxRelative would be read as a   *)
(* timestamp, so it goes through ExpiresIn; none, and the TTL stays.       *)
staleFor(ttl, t) == ExpiresIn(ttl * Second, t)

HandBack(c) ==
    /\ back[c].due /\ wire[c] = NoCmd
    /\ back' = [back EXCEPT ![c].due = FALSE]
    /\ \/ Issue(c, [op |-> "reinvalidate",
                    e |-> IF back[c].ttl > 0 THEN staleFor(back[c].ttl, now) ELSE 0,
                    t |-> back[c].ttl > 0, ttl |-> 0, from |-> now, cas |-> back[c].cas])
       \/ UNCHANGED wire   \* the exchange fails
    /\ UNCHANGED <<now, item, kind, pc, told, window, down, born>>

-----------------------------------------------------------------------------
(* The server (external), and the answer *)

(* Slip: a missing counter starts at zero, and the first call is not counted. *)
initial_Zero(c) == 0

(* Slip: Decr, too, seeds a missing counter with its delta. *)
initial_Delta(c) == Amount[c]

(* counter: the value a missing counter is created with. *)
initial(c) == IF kind[c] = "decr" THEN 0 ELSE Amount[c]

(* Slip: the counter's command touches, too. *)
touches_Counter(op) == op \in {"touch", "incr", "decr"}

(* The commands whose TTL applies to an item that is there. *)
touches(op) == op = "touch"

Counted(c, n) ==
    IF kind[c] = "incr" THEN (n + Amount[c]) % Modulus
    ELSE IF Amount[c] > n THEN 0 ELSE n - Amount[c]

After(c, cmd, it) ==
    LET exp == realtime(cmd.e, Unix(now))
        new(v) == [has |-> TRUE, val |-> v, exp |-> exp, stale |-> FALSE, won |-> FALSE,
                   cas |-> it.cas + 1, life |-> it.life + 1, slides |-> 0]
        aged == IF touches(cmd.op) THEN [it EXCEPT !.exp = exp, !.slides = @ + 1] ELSE it
        read == [aged EXCEPT !.won = @ \/ it.stale]
    IN CASE cmd.op = "set" -> new(Amount[c])
         [] cmd.op \in Counters ->
              IF it.has THEN [aged EXCEPT !.val = Counted(c, @), !.cas = @ + 1]
              ELSE new(initial(c))
         [] cmd.op \in Reads -> IF it.has THEN read ELSE it
         [] cmd.op \in {"invalidate", "reinvalidate"} ->
              IF it.has /\ cmd.cas \in {0, it.cas}
              THEN [it EXCEPT !.stale = TRUE, !.won = FALSE, !.cas = @ + 1,
                              !.exp = IF cmd.t THEN exp ELSE @]
              ELSE it

(* The t flag of a response: it stands before T in the command. *)
Remaining(it) == IF it.exp = Never THEN -1 ELSE it.exp - Unix(now)

Execute(c) ==
    LET cmd == wire[c]
        it  == Found
        wins == cmd.op \in Reads /\ it.has /\ it.stale /\ ~it.won
    IN
    /\ cmd # NoCmd
    /\ item' = After(c, cmd, it)
    /\ wire' = [wire EXCEPT ![c] = NoCmd]
    /\ window' = [window EXCEPT ![c] = IF cmd.op \in Counters THEN item'.life ELSE @]
    /\ down' = IF cmd.op \in Counters /\ it.has /\ item'.val < it.val
               THEN down \cup {it.life} ELSE down
    /\ born' = IF cmd.op = "reinvalidate" /\ item' # it THEN Unknown
               ELSE IF item'.life # it.life \/ (item'.exp # it.exp /\ item'.has)
               THEN [known |-> TRUE, ttl |-> cmd.ttl, from |-> cmd.from, to |-> now]
               ELSE born
    /\ IF pc[c] = "wait"
       THEN /\ pc' = [pc EXCEPT ![c] = "done"]
            /\ told' = [told EXCEPT ![c] = IF cmd.op \in Counters THEN item'.val ELSE @]
            /\ back' = [back EXCEPT ![c] =
                          IF wins THEN [due |-> TRUE, cas |-> it.cas, ttl |-> Remaining(it),
                                        slides |-> it.slides, at |-> now]
                          ELSE @]
       ELSE UNCHANGED <<pc, told, back>>
    /\ UNCHANGED <<now, kind>>

(* executeMeta fails: before the command was written, or after, in which   *)
(* case the server may yet execute it.  counter absorbs nothing.           *)
Fail(c) ==
    /\ pc[c] = "wait"
    /\ pc' = [pc EXCEPT ![c] = "done"]
    /\ wire' \in {[wire EXCEPT ![c] = NoCmd], wire}
    /\ UNCHANGED <<now, item, kind, told, back, window, down, born>>

Tick ==
    /\ now < MaxTime
    /\ now' = now + 1
    /\ UNCHANGED <<item, kind, pc, wire, told, back, window, down, born>>

Finished == now = MaxTime /\ (\A c \in Calls : pc[c] = "done") /\ UNCHANGED vars

Next ==
    \/ \E c \in Calls :
         \/ \E o \in Offers : Begin(c, o[1], o[2])
         \/ Execute(c) \/ Fail(c) \/ HandBack(c)
    \/ Tick \/ Finished

Spec == Init /\ [][Next]_vars

-----------------------------------------------------------------------------
(* What must hold *)

(* An item lives as long as the caller asked, to within a second: ExpiresIn *)
(* keeps the duration on both sides of the 30-day switch, however late the  *)
(* server executes the command.                                             *)
LivesAsAsked ==
    item.has /\ born.known =>
        IF born.ttl = Forever THEN item.exp = Never
        ELSE /\ item.exp * Second > born.from + born.ttl - Second
             /\ item.exp * Second < born.to + born.ttl + Second

(* Fixed windows: the TTL of Incr and Decr applies at creation only, so     *)
(* counting never moves the end of the window it counts in.                 *)
WindowFixed ==
    [][\A c \in Calls : wire[c].op \in Counters /\ wire'[c] = NoCmd /\ item' # item
                           /\ item'.life = item.life
          => item'.exp = item.exp]_vars

(* Rate limiting: of the Incr calls with a delta that counted in one        *)
(* window, at most L are told a number up to L, unless the counter went     *)
(* down in it; answers that were lost and a counter created on a miss are   *)
(* counted all the same.  (An Incr by zero only reads the number.)          *)
LimitHolds ==
    \A w \in {window[c] : c \in Calls} \ (down \cup {0}), L \in 0..(Modulus - 1) :
        Cardinality({c \in Calls : kind[c] = "incr" /\ Amount[c] > 0 /\ window[c] = w
                                     /\ told[c] # Untold /\ told[c] <= L}) <= L

(* returnStaleWin does not shrink the grace period of the item it hands     *)
(* back, and stretches it by no more than the time that took, unless the    *)
(* item was touched since it was read.                                      *)
GraceKept ==
    [][\A c \in Calls :
          wire[c].op = "reinvalidate" /\ wire'[c] = NoCmd /\ item'.cas # item.cas
             /\ item.slides = back[c].slides
          => IF item.exp = Never THEN item'.exp = Never
             ELSE /\ item'.exp >= item.exp
                  /\ item'.exp <= item.exp + (Unix(now) - Unix(back[c].at))]_vars

(* To callers of Incr and Decr the item is one number (CounterSpec). *)
Abstract == INSTANCE CounterSpec WITH
    value   <- IF Live(item, now) THEN item.val ELSE 0,
    counted <- {c \in Calls : window[c] # 0}

ImplementsCounter == Abstract!ASpec

-----------------------------------------------------------------------------
(* What a comment of the code says and the code does not keep *)

(* What get.go says of returnStaleWin: it resets the token "without         *)
(* changing the value or shrinking the window".  A Touch does not change    *)
(* the CAS: one that is executed between the read and the hand-back, or the *)
(* read itself when it touches, is undone.                                  *)
NeverShrinks ==
    [][\A c \in Calls :
          wire[c].op = "reinvalidate" /\ wire'[c] = NoCmd /\ item'.cas # item.cas
          => item'.exp = Never \/ (item.exp # Never /\ item'.exp >= item.exp)]_vars

=============================================================================
