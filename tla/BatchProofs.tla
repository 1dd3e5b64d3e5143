----------------------------- MODULE BatchProofs -----------------------------
(***************************************************************************)
(* What is proved of Batch, for every call, router, number of servers and  *)
(* of operations, and any fault.                                           *)
(***************************************************************************)
EXTENDS Batch, FiniteSetTheorems, SequenceTheorems, WellFoundedInduction, TLAPS

-----------------------------------------------------------------------------
(* A least number, and with it the server that Pick chooses *)

LEMMA LeastNatural ==
    ASSUME NEW T, T \subseteq Nat, T # {}
    PROVE  \E x \in T : \A y \in T : x <= y
<1> DEFINE R == OpToRel(<, Nat)
<1>1. IsWellFoundedOn(R, Nat)
  BY NatLessThanWellFounded
<1>2. \A x, y \in Nat : x < y => <<x, y>> \in R
  BY DEF OpToRel
<1> HIDE DEF R
<1>3. PICK x \in T : \A y \in T : ~(<<y, x>> \in R)
  BY <1>1, WFMin
<1>4. \A y \in T : ~(y < x)
  BY <1>2, <1>3
<1>5. \A y \in T : x <= y
  BY <1>4
<1> QED
  BY <1>5

(* The first of the highest values. *)
LEMMA BestExtends ==
    ASSUME NEW n \in Nat, NEW v \in [1..n -> Nat], NEW m \in 2..n, NEW i \in 1..(m - 1),
           \A j \in 1..(m - 1) : v[j] < v[i] \/ (v[j] = v[i] /\ i <= j)
    PROVE  \E h \in 1..m : \A j \in 1..m : v[j] < v[h] \/ (v[j] = v[h] /\ h <= j)
<1>1. v[i] \in Nat /\ v[m] \in Nat /\ i \in 1..m /\ m \in 1..m
  OBVIOUS
<1>2. \A j \in 1..m : j \in 1..(m - 1) \/ j = m
  OBVIOUS
<1>3. \A j \in 1..m : v[j] \in Nat
  OBVIOUS
<1>4. CASE v[i] < v[m]
  <2>1. ASSUME NEW j \in 1..m PROVE v[j] < v[m] \/ (v[j] = v[m] /\ m <= j)
    <3>1. v[j] \in Nat
      BY <1>3
    <3>2. CASE j \in 1..(m - 1)
      <4>1. v[j] < v[i] \/ v[j] = v[i]
        BY <3>2
      <4> QED
        BY <1>1, <1>4, <3>1, <4>1
    <3> QED
      BY <1>2, <3>2
  <2> QED
    BY <1>1, <2>1
<1>5. CASE ~(v[i] < v[m])
  <2>1. v[m] < v[i] \/ (v[m] = v[i] /\ i <= m)
    BY <1>1, <1>5
  <2>2. \A j \in 1..m : v[j] < v[i] \/ (v[j] = v[i] /\ i <= j)
    BY <1>2, <2>1
  <2> QED
    BY <1>1, <2>2
<1> QED
  BY <1>4, <1>5

LEMMA FirstBest ==
    ASSUME NEW n \in Nat \ {0}, NEW v \in [1..n -> Nat]
    PROVE  \E i \in 1..n : \A j \in 1..n : v[j] < v[i] \/ (v[j] = v[i] /\ i <= j)
<1> DEFINE best(i, m) == \A j \in 1..m : v[j] < v[i] \/ (v[j] = v[i] /\ i <= j)
           Bad == {m \in 1..n : ~\E i \in 1..m : best(i, m)}
<1>1. Bad = {}
  <2> SUFFICES ASSUME Bad # {} PROVE FALSE
    OBVIOUS
  <2>1. PICK m \in Bad : \A y \in Bad : m <= y
    <3>1. Bad \subseteq Nat
      OBVIOUS
    <3> HIDE DEF Bad
    <3> QED
      BY <3>1, LeastNatural
  <2>2. m \in 1..n /\ ~\E i \in 1..m : best(i, m)
    BY <2>1
  <2>3. m # 1
    <3>1. best(1, 1) /\ 1 \in 1..1
      OBVIOUS
    <3> QED
      BY <2>2, <3>1
  <2>4. m \in 2..n /\ m - 1 \in 1..n /\ ~(m <= m - 1)
    BY <2>2, <2>3
  <2>5. m - 1 \notin Bad
    BY <2>1, <2>4
  <2>6. PICK i \in 1..(m - 1) : best(i, m - 1)
    BY <2>4, <2>5
  <2>7. \E h \in 1..m : best(h, m)
    BY <2>4, <2>6, BestExtends
  <2> QED
    BY <2>2, <2>7
<1>2. n \in 1..n
  OBVIOUS
<1> QED
  BY <1>1, <1>2

LEMMA PickExists ==
    ASSUME NEW k \in Keys, NEW servers \in Seq(Addresses), servers # <<>>
    PROVE  Pick(k, servers) \in DOMAIN servers
<1> DEFINE n == Len(servers)
           v == [j \in 1..n |-> Sum[k][servers[j]]]
<1>1. n \in Nat \ {0} /\ DOMAIN servers = 1..n
  BY EmptySeq, LenProperties
<1>2. v \in [1..n -> Nat]
  <2> SUFFICES ASSUME NEW j \in 1..n PROVE Sum[k][servers[j]] \in Nat
    OBVIOUS
  <2>1. servers[j] \in Addresses
    BY <1>1, ElementOfSeq
  <2> QED
    BY <2>1, RouterAssumption
<1>3. \A j \in 1..n : v[j] = Sum[k][servers[j]]
  OBVIOUS
<1> HIDE DEF v, n
<1>4. PICK i \in 1..n : \A j \in 1..n : v[j] < v[i] \/ (v[j] = v[i] /\ i <= j)
  BY <1>1, <1>2, FirstBest
<1> QED
  BY <1>1, <1>3, <1>4 DEF Pick

-----------------------------------------------------------------------------
(* The inductive invariant *)

CodesOf(op) ==
    CASE op.kind = "get"    -> IF op.opt = "vivify" THEN {"VA"} ELSE {"VA", "EN"}
      [] op.kind = "set"    -> {"HD", "NS"}
      [] op.kind = "delete" -> {"HD", "NF"}
      [] OTHER              -> {"VA", "NF"}

Responses ==
    [op : Nat, code : Codes \cup {"MN"}, by : Nat, empty : BOOLEAN, won : BOOLEAN,
     busy : BOOLEAN, stale : BOOLEAN, bad : BOOLEAN]

Outcomes == [resp : Seq(Responses), written : Nat, err : {"none", "ctx", "error"}]

Tokens == [at : {"none", "due", "back", "failed"}, by : Nat]

TypeInv ==
    /\ plan \in Plans
    /\ pc \in {"idle", "exchanging", "done"}
    /\ index \in 0..Len(ops)
    /\ group \in [Servers -> Seq(Nat)]
    /\ gpc \in [Servers -> {"none", "new", "open", "ended"}]
    /\ out \in [Servers -> Outcomes]
    /\ store \in [Keys -> Items]
    /\ queue \in [Servers -> Seq(Nat)]
    /\ sent \in [Servers -> Seq(Responses)]
    /\ did \in [DOMAIN ops -> Codes]
    /\ saw \in [DOMAIN ops -> Nat]
    /\ ranAt \in [DOMAIN ops -> Nat]
    /\ faulty \subseteq Servers
    /\ token \in [Keys -> Tokens]
    /\ env \in Nat

(* The groups hold the operations prepared so far, in input order. *)
Grouped ==
    /\ \A s \in Servers : \A a \in DOMAIN group[s] :
         group[s][a] \in 1..index /\ home(group[s][a]) = s
    /\ \A s \in Servers : \A a, b \in DOMAIN group[s] : a < b => group[s][a] < group[s][b]
    /\ \A i \in 1..index : valid(i) /\ home(i) \in Servers /\ i \in Elems(group[home(i)])

(* What each point of the call has behind it. *)
Phased ==
    /\ pc = "idle" => ret = "none" /\ \A s \in Servers : gpc[s] = "none"
    /\ pc = "exchanging" => ret = "none" /\ index = Len(ops)
    /\ pc = "done" => IF ret = "refused" THEN \A s \in Servers : gpc[s] = "none"
                      ELSE index = Len(ops) /\ Busy = {}

(* What an exchange has before it opens, and before it has ended. *)
Staged(s) ==
    /\ gpc[s] \in {"none", "new"} => queue[s] = <<>>
    /\ gpc[s] = "none" /\ pc # "idle" /\ ret # "refused" => group[s] = <<>>
    /\ gpc[s] # "open" => sent[s] = <<>>
    /\ gpc[s] # "ended" => out[s] = NoOutcome

(* What a server has still to execute: operations of its group in input    *)
(* order, the barrier last, and all of it behind everything executed.      *)
Queued(s) ==
    /\ \A a \in DOMAIN queue[s] : queue[s][a] = 0 \/ queue[s][a] \in Elems(group[s])
    /\ \A a \in DOMAIN queue[s] : queue[s][a] = 0 => a = Len(queue[s])
    /\ \A a, b \in DOMAIN queue[s] : a < b /\ queue[s][b] # 0 => queue[s][a] < queue[s][b]
    /\ \A a \in DOMAIN queue[s] : \A i \in Elems(group[s]) :
         queue[s][a] # 0 /\ did[i] # "none" => i < queue[s][a]

(* An executed operation was in a group that has been exchanged, and ran   *)
(* at its own server.                                                      *)
Executed(i) ==
    did[i] # "none" => /\ i \in 1..index /\ did[i] \in CodesOf(ops[i])
                       /\ ranAt[i] = home(i) /\ gpc[home(i)] \in {"open", "ended"}

(* The responses tagged with operation i. *)
Tags(q, i) == {j \in DOMAIN q : q[j].code # "MN" /\ q[j].op = i}

(* There is a response that no operation of the group asked for. *)
Strange(s, q) == \E j \in DOMAIN q : q[j].code # "MN" /\ q[j].op \notin Elems(group[s])

(* The barrier was answered. *)
Closes(q) == \E j \in DOMAIN q : q[j].code = "MN"

(* A response that can be attributed says what the server did. *)
Reported(s, q) ==
    \A j \in DOMAIN q : q[j].code # "MN" /\ q[j].op \in Elems(group[s]) =>
        /\ did[q[j].op] # "none"
        /\ q[j].code = did[q[j].op] /\ q[j].by = saw[q[j].op]

(* An operation executed without a response was suppressed, or spoiled by  *)
(* a response dropped or attributed to nobody.                             *)
Complete(s, q) ==
    \A i \in Elems(group[s]) : did[i] # "none" =>
        \/ Tags(q, i) # {} \/ Suppressed(ops[i], did[i])
        \/ successResponseRequired(ops[i]) \/ Strange(s, q)

(* A server that spoiled nothing has one readable response for each        *)
(* executed operation that was not suppressed, and no other.               *)
Sound(s, q) ==
    /\ \A j \in DOMAIN q : q[j].code # "MN" => q[j].op \in Elems(group[s]) /\ ~q[j].bad
    /\ \A j, k \in DOMAIN q : q[j].code # "MN" /\ q[k].code # "MN" /\ q[j].op = q[k].op => j = k
    /\ \A i \in Elems(group[s]) : did[i] # "none" =>
         Tags(q, i) # {} \/ Suppressed(ops[i], did[i])

(* While the exchange of s is open. *)
Waiting(s) ==
    gpc[s] = "open" =>
        /\ \A i \in Elems(group[s]) : did[i] # "none" \/ i \in Elems(queue[s])
        /\ Closes(sent[s]) => queue[s] = <<>>
        /\ Reported(s, sent[s]) /\ Complete(s, sent[s]) /\ (s \notin faulty => Sound(s, sent[s]))

(* When the exchange of s has ended: what was not written will not be      *)
(* executed, and behind an answered barrier everything was.                *)
Over(s) ==
    gpc[s] = "ended" =>
        /\ \A a \in DOMAIN group[s] : out[s].written < Unit * a =>
             did[group[s][a]] = "none" /\ group[s][a] \notin Elems(queue[s])
        /\ out[s].err = "none" => Closes(out[s].resp)
        /\ Reported(s, out[s].resp)
        /\ Closes(out[s].resp) =>
             /\ \A i \in Elems(group[s]) : did[i] # "none"
             /\ Complete(s, out[s].resp) /\ (s \notin faulty => Sound(s, out[s].resp))

(* The results are what resolveGroup makes of the outcomes. *)
Concluded ==
    pc = "done" /\ ret # "refused" =>
        /\ res = [i \in DOMAIN ops |-> resolveGroup(i, out[at(i)])]
        /\ ret = IF plan.verb # "batch" /\ firstErr(res) THEN "error" ELSE "nil"

-----------------------------------------------------------------------------
(* The operations and their groups *)

LEMMA PlanParts ==
    ASSUME TypeInv
    PROVE  /\ ops \in Seq(Operations) /\ Len(ops) \in Nat /\ DOMAIN ops = 1..Len(ops)
           /\ \A i \in DOMAIN ops : ops[i] \in Operations /\ ops[i].key \in Keys
           /\ plan.custom \in BOOLEAN
<1>1. ops \in Seq(Operations) /\ plan.custom \in BOOLEAN
  BY BatchAssumption DEF TypeInv, ops
<1>2. Len(ops) \in Nat /\ DOMAIN ops = 1..Len(ops)
  BY <1>1, LenProperties
<1>3. ASSUME NEW i \in DOMAIN ops PROVE ops[i] \in Operations /\ ops[i].key \in Keys
  <2>1. ops[i] \in Operations
    BY <1>1, <1>2, ElementOfSeq
  <2> QED
    BY <2>1 DEF Operations
<1> QED
  BY <1>1, <1>2, <1>3

LEMMA ServerNumbers == Servers = 1..Len(ServerList) /\ Len(ServerList) \in Nat
BY BatchAssumption, LenProperties DEF Servers

LEMMA HomeType ==
    ASSUME TypeInv, NEW i \in DOMAIN ops
    PROVE  home(i) \in Servers \cup {NoServer}
<1>1. ops[i].key \in Keys /\ plan.custom \in BOOLEAN
  BY PlanParts
<1>2. CASE ~plan.custom
  <2>1. Pick(ops[i].key, ServerList) \in DOMAIN ServerList
    BY <1>1, BatchAssumption, PickExists
  <2> QED
    BY <1>2, <2>1 DEF home, server, Servers
<1>3. CASE plan.custom
  BY <1>3 DEF home, server, Servers
<1> QED
  BY <1>1, <1>2, <1>3

(* Where an operation is: in one group, at one place. *)
LEMMA AtHome ==
    ASSUME Grouped, NEW i \in 1..index
    PROVE  at(i) = home(i) /\ home(i) \in Servers
<1>1. home(i) \in Servers /\ i \in Elems(group[home(i)])
  BY DEF Grouped
<1>2. ASSUME NEW s \in Servers, i \in Elems(group[s]) PROVE s = home(i)
  BY <1>2 DEF Grouped, Elems
<1> QED
  BY <1>1, <1>2 DEF at

LEMMA EndAt ==
    ASSUME TypeInv, Grouped, NEW s \in Servers, NEW a \in DOMAIN group[s]
    PROVE  end(group[s][a]) = Unit * a
<1> DEFINE i == group[s][a]
<1>1. i \in 1..index /\ home(i) = s
  BY DEF Grouped
<1>2. at(i) = s
  BY <1>1, AtHome
<1>3. DOMAIN group[s] \subseteq Nat
  BY LenProperties DEF TypeInv
<1>4. ASSUME NEW b \in DOMAIN group[s], group[s][b] = i PROVE b = a
  <2>1. group[s][a] \in Nat /\ group[s][b] \in Nat /\ a \in Nat /\ b \in Nat
    BY <1>3, <1>4, ElementOfSeq DEF TypeInv
  <2>2. ~(a < b) /\ ~(b < a)
    BY <1>4, <2>1 DEF Grouped
  <2> QED
    BY <2>1, <2>2
<1>5. (CHOOSE j \in DOMAIN group[s] : group[s][j] = i) = a
  BY <1>4
<1> QED
  BY <1>2, <1>5 DEF end

LEMMA GroupParts ==
    ASSUME TypeInv, Grouped, NEW s \in Servers
    PROVE  /\ group[s] \in Seq(Nat) /\ Len(group[s]) \in Nat /\ DOMAIN group[s] = 1..Len(group[s])
           /\ \A i \in Elems(group[s]) : i \in 1..index /\ i \in DOMAIN ops /\ home(i) = s
           /\ 0 \notin Elems(group[s])
<1>1. group[s] \in Seq(Nat) /\ Len(group[s]) \in Nat /\ DOMAIN group[s] = 1..Len(group[s])
  BY LenProperties DEF TypeInv
<1>2. \A i \in Elems(group[s]) : i \in 1..index /\ home(i) = s
  BY DEF Grouped, Elems
<1>3. index \in 0..Len(ops) /\ DOMAIN ops = 1..Len(ops) /\ Len(ops) \in Nat
  BY PlanParts DEF TypeInv
<1>4. \A i \in Elems(group[s]) : i \in DOMAIN ops
  BY <1>2, <1>3
<1> QED
  BY <1>1, <1>2, <1>3, <1>4

(* Groups have nothing in common. *)
LEMMA GroupsApart ==
    ASSUME Grouped, NEW s \in Servers, NEW t \in Servers, NEW i \in Elems(group[s]), i \in Elems(group[t])
    PROVE  s = t
BY DEF Grouped, Elems

-----------------------------------------------------------------------------
(* The servers' answers *)

LEMMA ItemParts ==
    ASSUME NEW it \in Items
    PROVE  /\ it.has \in BOOLEAN /\ it.by \in Nat /\ it.empty \in BOOLEAN
           /\ it.stale \in BOOLEAN /\ it.won \in BOOLEAN
BY DEF Items

LEMMA StoredType ==
    ASSUME NEW i \in Nat, NEW empty \in BOOLEAN, NEW won \in BOOLEAN
    PROVE  Stored(i, empty, won) \in Items
BY DEF Stored, Items

LEMMA AfterType ==
    ASSUME TypeInv, NEW i \in DOMAIN ops, NEW it \in Items
    PROVE  After(i, it) \in Items
<1>1. i \in Nat
  BY PlanParts
<1>2. [it EXCEPT !.won = it.won \/ it.stale] \in Items
  BY DEF Items
<1>3. [it EXCEPT !.by = i, !.empty = FALSE] \in Items
  BY <1>1 DEF Items
<1>4. Absent \in Items
  BY DEF Items, Absent, Foreign
<1>5. Stored(i, TRUE, TRUE) \in Items /\ Stored(i, FALSE, FALSE) \in Items
  BY <1>1, StoredType
<1> QED
  BY <1>2, <1>3, <1>4, <1>5 DEF After

LEMMA CodeType ==
    ASSUME NEW op \in Operations, NEW it \in Items
    PROVE  Code(op, it) \in CodesOf(op) /\ Code(op, it) \in Codes \ {"none"}
BY DEF Code, CodesOf, Codes

LEMMA AnswerType ==
    ASSUME TypeInv, NEW i \in DOMAIN ops, NEW it \in Items
    PROVE  /\ Answer(i, it) \in Responses
           /\ Answer(i, it).op = i /\ Answer(i, it).code = Code(ops[i], it)
           /\ Answer(i, it).code # "MN" /\ ~Answer(i, it).bad
<1> DEFINE now == After(i, it)
<1>1. now \in Items
  BY AfterType
<1> HIDE DEF now
<1>2. /\ now.by \in Nat /\ now.empty \in BOOLEAN /\ (now.won /\ ~it.won) \in BOOLEAN
      /\ it.won \in BOOLEAN /\ it.stale \in BOOLEAN
  BY <1>1, ItemParts
<1>3. Code(ops[i], it) \in Codes \ {"none"} /\ i \in Nat
  BY PlanParts, CodeType
<1>4. Answer(i, it) = [op |-> i, code |-> Code(ops[i], it), by |-> now.by, empty |-> now.empty,
                       won |-> now.won /\ ~it.won, busy |-> it.won, stale |-> it.stale, bad |-> FALSE]
  BY DEF Answer, now
<1>5. "MN" \notin Codes
  BY DEF Codes
<1> QED
  BY <1>2, <1>3, <1>4, <1>5 DEF Responses

LEMMA BarrierType == Barrier \in Responses /\ Barrier.code = "MN"
BY DEF Barrier, Responses, Foreign

LEMMA SpoiledType ==
    ASSUME TypeInv, NEW r \in Responses, NEW f \in FaultKinds
    PROVE  Spoiled(r, f) \in Seq(Responses)
<1>1. Len(ops) + 1 \in Nat
  BY PlanParts
<1>2. [r EXCEPT !.op = 0] \in Responses /\ [r EXCEPT !.bad = TRUE] \in Responses
  BY DEF Responses
<1>3. [r EXCEPT !.op = Len(ops) + 1] \in Responses
  BY <1>1 DEF Responses
<1>4. ASSUME NEW x \in Responses PROVE <<x>> \in Seq(Responses) /\ <<x, x>> \in Seq(Responses)
  OBVIOUS
<1>5. <<>> \in Seq(Responses)
  OBVIOUS
<1> QED
  BY <1>2, <1>3, <1>4, <1>5 DEF Spoiled, FaultKinds

-----------------------------------------------------------------------------
(* What holds of a server, and of all. *)
Server(s) == Staged(s) /\ Queued(s) /\ Waiting(s) /\ Over(s)

AllServers == \A s \in Servers : Server(s)

AllExecuted == \A i \in DOMAIN ops : Executed(i)

BaseInv == TypeInv /\ Grouped /\ Phased /\ AllServers /\ AllExecuted

(* The next command of a server, when it is an operation. *)
LEMMA NextCommand ==
    ASSUME BaseInv, NEW s \in Servers, queue[s] # <<>>
    PROVE  /\ queue[s] \in Seq(Nat) /\ Head(queue[s]) = queue[s][1] /\ Len(queue[s]) \in Nat \ {0}
           /\ Tail(queue[s]) \in Seq(Nat) /\ Len(Tail(queue[s])) = Len(queue[s]) - 1
           /\ \A a \in 1..(Len(queue[s]) - 1) : Tail(queue[s])[a] = queue[s][a + 1]
           /\ gpc[s] \in {"open", "ended"}
           /\ Head(queue[s]) # 0 =>
                /\ Head(queue[s]) \in Elems(group[s]) /\ Head(queue[s]) \in DOMAIN ops
                /\ home(Head(queue[s])) = s /\ did[Head(queue[s])] = "none"
           /\ Head(queue[s]) = 0 => Tail(queue[s]) = <<>>
<1>0. TypeInv /\ Grouped /\ Staged(s) /\ Queued(s)
  BY DEF BaseInv, AllServers, Server
<1>1. /\ queue[s] \in Seq(Nat) /\ Head(queue[s]) = queue[s][1] /\ Len(queue[s]) \in Nat \ {0}
      /\ Tail(queue[s]) \in Seq(Nat) /\ Len(Tail(queue[s])) = Len(queue[s]) - 1
      /\ \A a \in 1..(Len(queue[s]) - 1) : Tail(queue[s])[a] = queue[s][a + 1]
  BY <1>0, HeadTailProperties, EmptySeq, LenProperties DEF TypeInv
<1>2. gpc[s] \in {"open", "ended"}
  BY <1>0 DEF Staged, TypeInv
<1>3. 1 \in DOMAIN queue[s]
  BY <1>1, LenProperties
<1>4. ASSUME Head(queue[s]) # 0
      PROVE  /\ Head(queue[s]) \in Elems(group[s]) /\ Head(queue[s]) \in DOMAIN ops
             /\ home(Head(queue[s])) = s /\ did[Head(queue[s])] = "none"
  <2>1. queue[s][1] \in Elems(group[s]) /\ queue[s][1] # 0
    BY <1>0, <1>1, <1>3, <1>4 DEF Queued
  <2>2. queue[s][1] \in DOMAIN ops /\ home(queue[s][1]) = s /\ queue[s][1] \in Nat
    BY <1>0, <1>1, <1>3, <2>1, GroupParts
  <2>3. did[queue[s][1]] # "none" => queue[s][1] < queue[s][1]
    BY <1>0, <1>3, <2>1 DEF Queued
  <2> QED
    BY <1>1, <2>1, <2>2, <2>3
<1>5. ASSUME Head(queue[s]) = 0 PROVE Tail(queue[s]) = <<>>
  <2>1. Len(queue[s]) = 1
    BY <1>0, <1>1, <1>3, <1>5 DEF Queued
  <2> DEFINE q == Tail(queue[s])
  <2>2. q \in Seq(Nat) /\ Len(q) = 0
    BY <1>1, <2>1
  <2> HIDE DEF q
  <2>3. q = <<>>
    BY <2>2, EmptySeq
  <2> QED
    BY <2>3 DEF q
<1> QED
  BY <1>1, <1>2, <1>4, <1>5

-----------------------------------------------------------------------------
(* Types *)

LEMMA TypeInit == Init => TypeInv
<1> SUFFICES ASSUME Init PROVE TypeInv
  OBVIOUS
<1>1. plan \in Plans /\ index = 0 /\ pc = "idle" /\ faulty = {} /\ env = 0
  BY DEF Init
<1>2. ops \in Seq(Operations) /\ Len(ops) \in Nat
  BY <1>1, BatchAssumption, LenProperties DEF ops
<1>3. NoOutcome \in Outcomes /\ NoToken \in Tokens
  BY DEF NoOutcome, Outcomes, NoToken, Tokens, Foreign
<1>4. store \in [Keys -> Items]
  <2>1. \A it \in FirstItems : it \in Items
    BY BatchAssumption
  <2> QED
    BY <2>1 DEF Init
<1>5. /\ group \in [Servers -> Seq(Nat)] /\ queue \in [Servers -> Seq(Nat)]
      /\ sent \in [Servers -> Seq(Responses)]
  BY DEF Init
<1>6. out \in [Servers -> Outcomes] /\ token \in [Keys -> Tokens]
  BY <1>3 DEF Init
<1>7. /\ gpc \in [Servers -> {"none", "new", "open", "ended"}]
      /\ did \in [DOMAIN ops -> Codes] /\ saw \in [DOMAIN ops -> Nat]
      /\ ranAt \in [DOMAIN ops -> Nat]
  BY DEF Init, Codes, Foreign, NoServer
<1> QED
  BY <1>1, <1>2, <1>4, <1>5, <1>6, <1>7 DEF TypeInv

LEMMA TaggedResponse ==
    ASSUME NEW o \in Outcomes, NEW i, byIndex(o, i)
    PROVE  \E j \in DOMAIN o.resp :
             /\ ResponseTo(o, i) = o.resp[j] /\ o.resp[j].op = i /\ o.resp[j].code # "MN"
             /\ o.resp[j] \in Responses
<1>1. Tagged(o, i) # {}
  BY FS_EmptySet DEF byIndex
<1>2. PICK j \in Tagged(o, i) : ResponseTo(o, i) = o.resp[j]
  BY <1>1 DEF ResponseTo
<1>3. o.resp \in Seq(Responses)
  BY DEF Outcomes
<1>4. j \in DOMAIN o.resp /\ o.resp[j].op = i /\ o.resp[j].code # "MN"
  BY <1>2 DEF Tagged
<1>5. o.resp[j] \in Responses
  BY <1>3, <1>4, ElementOfSeq, LenProperties
<1> QED
  BY <1>2, <1>4, <1>5

LEMMA ResultValue ==
    ASSUME NEW i, NEW o \in Outcomes
    PROVE  resolveGroup(i, o).by \in Nat
<1>1. ASSUME NEW st PROVE Status(st).by \in Nat /\ Status(st).st = st
  BY DEF Status, NoResult, Foreign
<1>2. ASSUME NEW op, NEW r \in Responses PROVE semanticGet(op, r).by \in Nat /\ semantic(r).by \in Nat
  <2>1. r.by \in Nat
    BY DEF Responses
  <2> QED
    BY <1>1, <2>1 DEF semanticGet, semantic
<1>3. CASE ~badIndex(o, i) /\ byIndex(o, i)
  <2>1. ResponseTo(o, i) \in Responses
    BY <1>3, TaggedResponse
  <2> QED
    BY <1>1, <1>2, <1>3, <2>1 DEF resolveGroup, parseBatchResponse
<1>4. CASE badIndex(o, i) \/ ~byIndex(o, i)
  BY <1>1, <1>4 DEF resolveGroup, inferQuietResult
<1> QED
  BY <1>3, <1>4

LEMMA TypeLocal ==
    ASSUME BaseInv, Prepare \/ Start \/ Resolve \/ Finished \/ UNCHANGED vars
    PROVE  TypeInv'
<1> USE DEF BaseInv
<1>1. CASE Prepare
  <2> DEFINE i == index + 1
  <2>1. index < Len(ops) /\ UNCHANGED plan
    BY <1>1 DEF Prepare
  <2>2. i \in 1..Len(ops) /\ i \in Nat /\ i \in 0..Len(ops)
    BY <2>1, PlanParts DEF TypeInv
  <2>3. pc' \in {"idle", "exchanging", "done"} /\ index' \in 0..Len(ops')
    BY <1>1, <2>1, <2>2 DEF Prepare, TypeInv, ops
  <2>4. group' \in [Servers -> Seq(Nat)]
    <3>1. CASE group' = group
      BY <3>1 DEF TypeInv
    <3>2. CASE valid(i) /\ group' = [group EXCEPT ![home(i)] = grown(group[home(i)], i)]
      <4>1. home(i) \in Servers
        BY <2>2, <3>2, HomeType, PlanParts DEF valid
      <4>2. grown(group[home(i)], i) \in Seq(Nat)
        BY <2>2, <4>1 DEF grown, TypeInv
      <4> QED
        BY <3>2, <4>1, <4>2 DEF TypeInv
    <3> QED
      BY <1>1, <3>1, <3>2 DEF Prepare
  <2> QED
    BY <1>1, <2>1, <2>3, <2>4 DEF Prepare, TypeInv, ops
<1>2. CASE Start
  BY <1>2 DEF Start, TypeInv, ops
<1>3. CASE Resolve
  <2>0. \A i \in DOMAIN ops : out[at(i)] \in Outcomes
    <3>1. index = Len(ops)
      BY <1>3 DEF Resolve, BaseInv, Phased
    <3> QED
      BY <3>1, PlanParts, AtHome DEF BaseInv, TypeInv
  <2> DEFINE r == [i \in DOMAIN ops |-> resolveGroup(i, out[at(i)])]
             mine(i, k) == ops[i].key = k /\ handsBack(r[i])
             handed(k) == [at |-> "due", by |-> r[CHOOSE i \in DOMAIN ops : mine(i, k)].by]
  <2>1. token' = [k \in Keys |-> IF \E i \in DOMAIN ops : mine(i, k) THEN handed(k) ELSE token[k]]
    BY <1>3 DEF Resolve
  <2>2. \A i \in DOMAIN ops : r[i].by \in Nat
    BY <2>0, ResultValue
  <2> HIDE DEF r
  <2>3. ASSUME NEW k \in Keys, \E i \in DOMAIN ops : mine(i, k) PROVE handed(k) \in Tokens
    <3> DEFINE i == CHOOSE i \in DOMAIN ops : mine(i, k)
    <3>1. i \in DOMAIN ops
      BY <2>3
    <3> HIDE DEF i
    <3>2. r[i].by \in Nat
      BY <2>2, <3>1
    <3>3. [at |-> "due", by |-> r[i].by] \in Tokens
      BY <3>2 DEF Tokens
    <3> QED
      BY <3>3 DEF i
  <2> HIDE DEF handed, mine
  <2>4. token' \in [Keys -> Tokens]
    BY <2>1, <2>3 DEF TypeInv
  <2> QED
    BY <1>3, <2>4 DEF Resolve, TypeInv, ops
<1>4. CASE Finished \/ UNCHANGED vars
  BY <1>4 DEF Finished, vars, TypeInv, ops
<1> QED
  BY <1>1, <1>2, <1>3, <1>4

LEMMA ArrivedType ==
    ASSUME TypeInv, NEW s \in Servers, NEW w \in 0..Payload(s)
    PROVE  /\ Arrived(s, w) \in Seq(Nat)
           /\ w # Payload(s) => w \div Unit \in 0..Len(group[s])
<1>1. group[s] \in Seq(Nat) /\ Len(group[s]) \in Nat
  BY LenProperties DEF TypeInv
<1>2. Payload(s) = 2 * Len(group[s]) + 1
  BY DEF Payload, Unit
<1>3. CASE w = Payload(s)
  BY <1>1, <1>3 DEF Arrived
<1>4. CASE w # Payload(s)
  <2>1. w \in 0..(2 * Len(group[s]))
    BY <1>1, <1>2, <1>4
  <2>2. w \div Unit \in 0..Len(group[s])
    BY <1>1, <2>1 DEF Unit
  <2>3. SubSeq(group[s], 1, w \div Unit) \in Seq(Nat)
    BY <1>1, <2>2, SubSeqProperties
  <2> QED
    BY <1>1, <1>2, <1>4, <2>2, <2>3 DEF Arrived
<1> QED
  BY <1>3, <1>4

LEMMA OutcomeType ==
    ASSUME NEW q \in Seq(Responses), NEW w \in Nat, NEW e \in {"none", "ctx", "error"}
    PROVE  [resp |-> q, written |-> w, err |-> e] \in Outcomes
BY DEF Outcomes

LEMMA TypeExchange ==
    ASSUME TypeInv, NEW s \in Servers,
           Unsent(s) \/ Put(s) \/ Cut(s) \/ Finish(s) \/ Lose(s) \/ GiveUp(s)
    PROVE  TypeInv'
<1>0. /\ sent[s] \in Seq(Responses) /\ Len(sent[s]) \in Nat /\ <<>> \in Seq(Responses)
      /\ Payload(s) \in Nat
  BY LenProperties DEF TypeInv, Payload, Unit
<1>1. UNCHANGED <<plan, index, group, store, did, saw, ranAt, faulty, token, env, pc>>
  BY DEF Unsent, Put, Cut, Finish, Lose, GiveUp, Ended
<1>2. gpc' \in [Servers -> {"none", "new", "open", "ended"}]
  BY DEF Unsent, Put, Cut, Finish, Lose, GiveUp, Ended, TypeInv
<1>3. queue' \in [Servers -> Seq(Nat)]
  <2>1. \A w \in 0..Payload(s) : Arrived(s, w) \in Seq(Nat)
    BY ArrivedType
  <2>2. queue' = queue \/ \E w \in 0..Payload(s) : queue' = [queue EXCEPT ![s] = Arrived(s, w)]
    BY <1>0 DEF Unsent, Put, Cut, Finish, Lose, GiveUp
  <2> QED
    BY <2>1, <2>2 DEF TypeInv
<1>4. sent' \in [Servers -> Seq(Responses)]
  <2>1. sent' = sent \/ sent' = [sent EXCEPT ![s] = <<>>]
    BY DEF Unsent, Put, Cut, Finish, Lose, GiveUp
  <2> QED
    BY <1>0, <2>1 DEF TypeInv
<1>5. out' \in [Servers -> Outcomes]
  <2>1. ASSUME NEW q \in Seq(Responses), NEW w \in Nat, NEW e \in {"none", "ctx", "error"},
               Ended(s, q, w, e)
        PROVE  out' \in [Servers -> Outcomes]
    BY <2>1, OutcomeType DEF Ended, TypeInv
  <2>2. CASE Unsent(s) \/ GiveUp(s)
    BY <1>0, <2>1, <2>2 DEF Unsent, GiveUp, CtxErr
  <2>3. CASE Put(s)
    BY <2>3 DEF Put, TypeInv
  <2>4. CASE Cut(s)
    <3>1. PICK w \in 1..(Payload(s) - 1) : Ended(s, <<>>, w, "error")
      BY <2>4 DEF Cut
    <3>2. w \in Nat
      BY <1>0, <3>1
    <3> QED
      BY <1>0, <2>1, <3>1, <3>2
  <2>5. CASE Finish(s)
    BY <1>0, <2>1, <2>5 DEF Finish
  <2>6. CASE Lose(s)
    <3>1. PICK k \in 0..Len(sent[s]) : Ended(s, SubSeq(sent[s], 1, k), Payload(s), "error")
      BY <2>6 DEF Lose
    <3>2. SubSeq(sent[s], 1, k) \in Seq(Responses)
      BY <1>0, <3>1, SubSeqProperties
    <3> QED
      BY <1>0, <2>1, <3>1, <3>2
  <2> QED
    BY <2>2, <2>3, <2>4, <2>5, <2>6
<1> QED
  BY <1>1, <1>2, <1>3, <1>4, <1>5 DEF TypeInv, ops

LEMMA TypeServer ==
    ASSUME BaseInv, NEW s \in Servers, Barred(s) \/ Execute(s)
    PROVE  TypeInv'
<1>0. TypeInv /\ queue[s] # <<>>
  BY DEF BaseInv, Barred, Execute
<1>1. Tail(queue[s]) \in Seq(Nat)
  BY <1>0, NextCommand
<1>2. queue' \in [Servers -> Seq(Nat)]
  BY <1>0, <1>1 DEF Barred, Execute, TypeInv
<1>3. CASE Barred(s)
  <2>1. sent' \in [Servers -> Seq(Responses)]
    BY <1>0, <1>3, BarrierType DEF Barred, TypeInv
  <2> QED
    BY <1>0, <1>2, <1>3, <2>1 DEF Barred, TypeInv, ops
<1>4. CASE Execute(s)
  <2> DEFINE i == Head(queue[s])
             k == ops[i].key
             r == Answer(i, store[k])
  <2>1. i # 0 /\ i \in DOMAIN ops
    BY <1>0, <1>4, NextCommand DEF Execute
  <2>2. k \in Keys /\ store[k] \in Items
    BY <1>0, <2>1, PlanParts DEF TypeInv
  <2>3. r \in Responses /\ r.code \in Codes /\ r.by \in Nat /\ After(i, store[k]) \in Items
    <3>1. r \in Responses /\ r.code = Code(ops[i], store[k])
      BY <1>0, <2>1, <2>2, AnswerType
    <3>2. Code(ops[i], store[k]) \in Codes
      BY <1>0, <2>1, <2>2, CodeType, PlanParts
    <3>3. r.by \in Nat
      BY <3>1 DEF Responses
    <3> QED
      BY <1>0, <2>1, <2>2, <3>1, <3>2, <3>3, AfterType
  <2>4. /\ store' = [store EXCEPT ![k] = After(i, store[k])]
        /\ did' = [did EXCEPT ![i] = r.code] /\ saw' = [saw EXCEPT ![i] = r.by]
        /\ ranAt' = [ranAt EXCEPT ![i] = s]
        /\ UNCHANGED <<pc, plan, index, group, gpc, out, res, ret, token, env>>
    BY <1>4 DEF Execute
  <2>5. \/ UNCHANGED <<sent, faulty>>
        \/ \E f \in Faults : /\ sent' = [sent EXCEPT ![s] = sent[s] \o Spoiled(r, f)]
                             /\ faulty' \in {faulty, faulty \cup {s}}
    BY <1>4 DEF Execute
  <2> HIDE DEF i, k, r
  <2>6. faulty' \subseteq Servers
    BY <1>0, <2>5 DEF TypeInv
  <2>7. sent' \in [Servers -> Seq(Responses)]
    <3>1. ASSUME NEW f \in Faults, sent' = [sent EXCEPT ![s] = sent[s] \o Spoiled(r, f)]
          PROVE  sent' \in [Servers -> Seq(Responses)]
      <4>1. Spoiled(r, f) \in Seq(Responses) /\ sent[s] \in Seq(Responses)
        BY <1>0, <2>3, <3>1, SpoiledType, BatchAssumption DEF TypeInv
      <4>2. sent[s] \o Spoiled(r, f) \in Seq(Responses)
        BY <4>1, ConcatProperties
      <4> QED
        BY <1>0, <3>1, <4>2 DEF TypeInv
    <3> QED
      BY <1>0, <2>5, <3>1 DEF TypeInv
  <2>8. store' \in [Keys -> Items]
    BY <1>0, <2>2, <2>3, <2>4 DEF TypeInv
  <2>9. /\ did' \in [DOMAIN ops -> Codes] /\ saw' \in [DOMAIN ops -> Nat]
        /\ ranAt' \in [DOMAIN ops -> Nat]
    BY <1>0, <2>1, <2>3, <2>4, ServerNumbers DEF TypeInv
  <2> QED
    BY <1>0, <1>2, <2>4, <2>6, <2>7, <2>8, <2>9 DEF TypeInv, ops
<1> QED
  BY <1>3, <1>4

LEMMA TypeKey ==
    ASSUME TypeInv, NEW k \in Keys, GiveBack(k) \/ GiveBackFails(k) \/ Other(k)
    PROVE  TypeInv'
<1>0. store[k] \in Items /\ token[k] \in Tokens
  BY DEF TypeInv
<1>1. token' \in [Keys -> Tokens]
  <2>1. \A a \in {"back", "failed"} : [token[k] EXCEPT !.at = a] \in Tokens
    BY <1>0 DEF Tokens
  <2>2. token' = token \/ \E a \in {"back", "failed"} : token' = [token EXCEPT ![k] = [token[k] EXCEPT !.at = a]]
    BY DEF GiveBack, GiveBackFails, Other
  <2> QED
    BY <2>1, <2>2 DEF TypeInv
<1>2. store' \in [Keys -> Items]
  <2>1. CASE GiveBack(k)
    <3>1. [store[k] EXCEPT !.stale = TRUE, !.won = FALSE] \in Items
      BY <1>0 DEF Items
    <3>2. store' = store \/ store' = [store EXCEPT ![k] = [store[k] EXCEPT !.stale = TRUE, !.won = FALSE]]
      <4>1. CASE ~(store[k].has /\ store[k].by = token[k].by)
        BY <2>1, <4>1 DEF GiveBack
      <4>2. CASE store[k].has /\ store[k].by = token[k].by
        <5>1. store' = [store EXCEPT ![k].stale = TRUE, ![k].won = FALSE]
          BY <2>1, <4>2 DEF GiveBack
        <5> QED
          BY <1>0, <5>1 DEF TypeInv, Items
      <4> QED
        BY <4>1, <4>2
    <3> QED
      BY <3>1, <3>2 DEF TypeInv
  <2>2. CASE GiveBackFails(k)
    BY <2>2 DEF GiveBackFails, TypeInv
  <2>3. CASE Other(k)
    <3>1. env' = env + 1 /\ Len(ops) + env' \in Nat
      BY <2>3, PlanParts DEF Other, TypeInv
    <3>2. Stored(Len(ops) + env', FALSE, FALSE) \in Items /\ Absent \in Items
      BY <3>1, StoredType DEF Absent, Foreign, Items
    <3> QED
      BY <2>3, <3>2 DEF Other, TypeInv
  <2> QED
    BY <2>1, <2>2, <2>3
<1>3. env' \in Nat
  <2>1. env' = env \/ env' = env + 1
    BY DEF GiveBack, GiveBackFails, Other
  <2>2. env \in Nat
    BY DEF TypeInv
  <2> QED
    BY <2>1, <2>2
<1>4. UNCHANGED <<pc, plan, index, group, gpc, out, res, ret, queue, sent, did, saw, ranAt, faulty>>
  BY DEF GiveBack, GiveBackFails, Other
<1> QED
  BY <1>1, <1>2, <1>3, <1>4 DEF TypeInv, ops

-----------------------------------------------------------------------------
(* The groups *)

LEMMA ElemsOf ==
    ASSUME NEW S, NEW q \in Seq(S)
    PROVE  /\ \A x : x \in Elems(q) <=> \E a \in 1..Len(q) : q[a] = x
           /\ Elems(q) \subseteq S /\ DOMAIN q = 1..Len(q) /\ Len(q) \in Nat
<1>1. DOMAIN q = 1..Len(q) /\ Len(q) \in Nat
  BY LenProperties
<1>2. \A a \in 1..Len(q) : q[a] \in S
  BY ElementOfSeq
<1> QED
  BY <1>1, <1>2 DEF Elems

LEMMA ElemsAppend ==
    ASSUME NEW S, NEW q \in Seq(S), NEW x \in S
    PROVE  /\ Elems(Append(q, x)) = Elems(q) \cup {x}
           /\ Append(q, x) \in Seq(S) /\ Len(Append(q, x)) = Len(q) + 1
           /\ \A a \in 1..Len(q) : Append(q, x)[a] = q[a]
           /\ Append(q, x)[Len(q) + 1] = x
           /\ DOMAIN Append(q, x) = 1..(Len(q) + 1)
<1> DEFINE p == Append(q, x)
<1>1. /\ p \in Seq(S) /\ Len(p) = Len(q) + 1 /\ p[Len(q) + 1] = x
      /\ \A a \in 1..Len(q) : p[a] = q[a]
  BY AppendProperties
<1>2. Len(q) \in Nat /\ DOMAIN p = 1..(Len(q) + 1)
  BY <1>1, LenProperties
<1> HIDE DEF p
<1>3. \A a \in 1..(Len(q) + 1) : a \in 1..Len(q) \/ a = Len(q) + 1
  BY <1>2
<1>4. \A y : y \in Elems(p) <=> \E a \in 1..(Len(q) + 1) : p[a] = y
  BY <1>1, ElemsOf
<1>5. \A y : y \in Elems(q) <=> \E a \in 1..Len(q) : q[a] = y
  BY ElemsOf
<1>6. 1..Len(q) \subseteq 1..(Len(q) + 1) /\ Len(q) + 1 \in 1..(Len(q) + 1)
  BY <1>2
<1>7. Elems(p) = Elems(q) \cup {x}
  <2>1. ASSUME NEW y \in Elems(p) PROVE y \in Elems(q) \cup {x}
    BY <1>1, <1>3, <1>4, <1>5, <2>1
  <2>2. ASSUME NEW y \in Elems(q) \cup {x} PROVE y \in Elems(p)
    BY <1>1, <1>4, <1>5, <1>6, <2>2
  <2> QED
    BY <2>1, <2>2
<1> QED
  BY <1>1, <1>2, <1>7 DEF p

LEMMA GroupedInit == Init => Grouped
BY DEF Init, Grouped

LEMMA GroupedPrepare ==
    ASSUME BaseInv, Prepare
    PROVE  Grouped'
<1> DEFINE i == index + 1
           h == home(i)
<1>0. TypeInv /\ Grouped /\ index \in Nat /\ DOMAIN ops = 1..Len(ops) /\ Len(ops) \in Nat
  BY PlanParts DEF BaseInv, TypeInv
<1>1. UNCHANGED plan /\ index < Len(ops)
  BY DEF Prepare
<1>2. /\ \A x : home(x)' = home(x) /\ (valid(x)' <=> valid(x))
      /\ ops' = ops
  BY <1>1 DEF home, valid, ops
<1>3. CASE UNCHANGED <<index, group>>
  BY <1>0, <1>2, <1>3 DEF Grouped
<1>4. CASE valid(i) /\ index' = i /\ group' = [group EXCEPT ![h] = Append(group[h], i)]
  <2>1. i \in Nat /\ i \in DOMAIN ops /\ i \in 1..i /\ 1..index \subseteq 1..i
    BY <1>0, <1>1
  <2>2. h \in Servers /\ group[h] \in Seq(Nat)
    BY <1>0, <1>4, <2>1, HomeType DEF valid, TypeInv
  <2> DEFINE g == group[h]
             n == Append(g, i)
  <2>3. /\ Elems(n) = Elems(g) \cup {i} /\ n \in Seq(Nat)
        /\ n[Len(g) + 1] = i /\ \A a \in 1..Len(g) : n[a] = g[a]
        /\ DOMAIN n = 1..(Len(g) + 1) /\ Len(g) \in Nat /\ DOMAIN g = 1..Len(g)
    <3>1. /\ Elems(n) = Elems(g) \cup {i} /\ n \in Seq(Nat) /\ n[Len(g) + 1] = i
          /\ DOMAIN n = 1..(Len(g) + 1) /\ \A a \in 1..Len(g) : n[a] = g[a]
      BY <2>1, <2>2, ElemsAppend
    <3> QED
      BY <2>2, <3>1, LenProperties
  <2>4. group'[h] = n /\ \A s \in Servers : s # h => group'[s] = group[s]
    BY <1>0, <1>4, <2>2 DEF TypeInv
  <2> HIDE DEF n, h
  <2>5. \A a \in DOMAIN g : g[a] \in 1..index /\ home(g[a]) = h
    BY <1>0, <2>2 DEF Grouped
  <2>6. \A a \in DOMAIN g : g[a] < i /\ g[a] \in 1..i
    BY <1>0, <2>1, <2>5
  <2>7. ASSUME NEW a \in DOMAIN n PROVE a \in DOMAIN g \/ (a = Len(g) + 1 /\ n[a] = i)
    <3>1. a \in 1..Len(g) \/ a = Len(g) + 1
      BY <2>3, <2>7
    <3>2. n[Len(g) + 1] = i
      BY <2>3
    <3> QED
      BY <2>3, <3>1, <3>2
  <2>7a. \A a \in DOMAIN g : n[a] = g[a]
    BY <2>3
  <2>7b. home(i) = h
    BY DEF h
  <2>8. ASSUME NEW s \in Servers, NEW a \in DOMAIN group'[s]
        PROVE  group'[s][a] \in 1..index' /\ home(group'[s][a]) = s
    <3>1. CASE s = h
      <4>1. a \in DOMAIN n /\ group'[s][a] = n[a]
        BY <2>4, <2>8, <3>1
      <4>2. CASE a \in DOMAIN g
        BY <1>4, <2>5, <2>6, <2>7a, <3>1, <4>1, <4>2
      <4>3. CASE n[a] = i
        BY <1>4, <2>1, <2>7b, <3>1, <4>1, <4>3
      <4> QED
        BY <2>7, <4>1, <4>2, <4>3
    <3>2. CASE s # h
      <4>1. group'[s] = group[s]
        BY <2>4, <3>2
      <4>2. group[s][a] \in 1..index /\ home(group[s][a]) = s
        BY <1>0, <2>8, <4>1 DEF Grouped
      <4> QED
        BY <1>4, <2>1, <4>1, <4>2
    <3> QED
      BY <3>1, <3>2
  <2>9. ASSUME NEW s \in Servers, NEW a \in DOMAIN group'[s], NEW b \in DOMAIN group'[s], a < b
        PROVE  group'[s][a] < group'[s][b]
    <3>1. CASE s = h
      <4>1. a \in DOMAIN n /\ b \in DOMAIN n /\ group'[s][a] = n[a] /\ group'[s][b] = n[b]
        BY <2>4, <2>9, <3>1
      <4>2. CASE b \in DOMAIN g
        <5>1. a \in DOMAIN g
          BY <2>3, <2>9, <4>1, <4>2
        <5> QED
          BY <1>0, <2>2, <2>7a, <2>9, <4>1, <4>2, <5>1 DEF Grouped
      <4>3. CASE b = Len(g) + 1 /\ n[b] = i
        <5>1. a \in DOMAIN g
          BY <2>3, <2>9, <4>1, <4>3
        <5> QED
          BY <2>6, <2>7a, <4>1, <4>3, <5>1
      <4> QED
        BY <2>7, <4>1, <4>2, <4>3
    <3>2. CASE s # h
      BY <1>0, <2>4, <2>9, <3>2 DEF Grouped
    <3> QED
      BY <3>1, <3>2
  <2>10. ASSUME NEW x \in 1..index'
         PROVE  valid(x) /\ home(x) \in Servers /\ x \in Elems(group'[home(x)])
    <3>1. CASE x = i
      BY <1>4, <2>2, <2>3, <2>4, <2>7b, <3>1
    <3>2. CASE x # i
      <4>1. x \in 1..index
        BY <1>0, <1>4, <2>10, <3>2
      <4>2. valid(x) /\ home(x) \in Servers /\ x \in Elems(group[home(x)])
        BY <1>0, <4>1 DEF Grouped
      <4> QED
        BY <2>3, <2>4, <4>2
    <3> QED
      BY <3>1, <3>2
  <2> QED
    BY <1>2, <2>8, <2>9, <2>10 DEF Grouped, Elems
<1> QED
  BY <1>3, <1>4 DEF Prepare, grown

LEMMA GroupedStep ==
    ASSUME BaseInv, [Next]_vars
    PROVE  Grouped'
<1>1. CASE Prepare
  BY <1>1, GroupedPrepare
<1>2. CASE ~Prepare
  <2>1. UNCHANGED <<plan, index, group>>
    BY <1>2 DEF Next, vars, Start, Resolve, Finished, Unsent, Put, Cut, Finish, Lose, GiveUp, Ended,
                Barred, Execute, GiveBack, GiveBackFails, Other
  <2>2. /\ \A x : home(x)' = home(x) /\ (valid(x)' <=> valid(x))
        /\ ops' = ops
    BY <2>1 DEF home, valid, ops
  <2> QED
    BY <2>1, <2>2 DEF Grouped, BaseInv, Elems
<1> QED
  BY <1>1, <1>2

-----------------------------------------------------------------------------
(* What a step leaves alone at a server *)

Elsewhere(t) ==
    /\ UNCHANGED <<plan, index, group>> /\ faulty \subseteq faulty'
    /\ pc' # "idle" /\ ret' # "refused" => pc # "idle" /\ ret # "refused"
    /\ gpc'[t] = gpc[t] /\ out'[t] = out[t] /\ queue'[t] = queue[t] /\ sent'[t] = sent[t]
    /\ \A i \in Elems(group[t]) : did'[i] = did[i] /\ saw'[i] = saw[i]

LEMMA QueueKept ==
    ASSUME NEW t \in Servers, Elsewhere(t), Staged(t), Queued(t)
    PROVE  Staged(t)' /\ Queued(t)'
<1>1. Staged(t)'
  BY DEF Staged, Elsewhere
<1>2. Queued(t)'
  BY DEF Queued, Elsewhere, Elems
<1> QED
  BY <1>1, <1>2

LEMMA WaitingKept ==
    ASSUME NEW t \in Servers, Elsewhere(t), Waiting(t)
    PROVE  Waiting(t)'
<1> SUFFICES ASSUME gpc'[t] = "open"
             PROVE  /\ \A i \in Elems(group'[t]) : did'[i] # "none" \/ i \in Elems(queue'[t])
                    /\ Closes(sent'[t]) => queue'[t] = <<>>
                    /\ Reported(t, sent[t])' /\ Complete(t, sent[t])'
                    /\ t \notin faulty' => Sound(t, sent[t])'
  BY DEF Waiting, Closes, Elems
<1>0. /\ gpc[t] = "open" /\ group'[t] = group[t] /\ ops' = ops /\ queue'[t] = queue[t]
      /\ sent'[t] = sent[t] /\ (t \notin faulty' => t \notin faulty)
      /\ \A i \in Elems(group[t]) : did'[i] = did[i] /\ saw'[i] = saw[i]
  BY DEF Elsewhere, ops
<1>1. /\ \A i \in Elems(group[t]) : did[i] # "none" \/ i \in Elems(queue[t])
      /\ Closes(sent[t]) => queue[t] = <<>>
      /\ Reported(t, sent[t]) /\ Complete(t, sent[t]) /\ (t \notin faulty => Sound(t, sent[t]))
  BY <1>0 DEF Waiting
<1>2. /\ \A i \in Elems(group'[t]) : did'[i] # "none" \/ i \in Elems(queue'[t])
      /\ Closes(sent'[t]) => queue'[t] = <<>>
  BY <1>0, <1>1
<1>3. Reported(t, sent[t])'
  BY <1>0, <1>1 DEF Reported, Elems
<1>4. Complete(t, sent[t])'
  BY <1>0, <1>1 DEF Complete, Strange, Tags, Elems
<1>5. t \notin faulty' => Sound(t, sent[t])'
  BY <1>0, <1>1 DEF Sound, Tags, Elems
<1> QED
  BY <1>2, <1>3, <1>4, <1>5

LEMMA OverKept ==
    ASSUME NEW t \in Servers, UNCHANGED <<plan, group>>, faulty \subseteq faulty',
           gpc'[t] = gpc[t], out'[t] = out[t], Elems(queue'[t]) \subseteq Elems(queue[t]),
           \A i \in Elems(group[t]) : did'[i] = did[i] /\ saw'[i] = saw[i], Over(t)
    PROVE  Over(t)'
<1>0. /\ gpc'[t] = gpc[t] /\ group'[t] = group[t] /\ ops' = ops
      /\ Elems(queue'[t]) \subseteq Elems(queue[t])
      /\ out'[t] = out[t] /\ (t \notin faulty' => t \notin faulty)
      /\ \A i \in Elems(group[t]) : did'[i] = did[i] /\ saw'[i] = saw[i]
  BY DEF ops
<1>1. CASE gpc[t] # "ended"
  BY <1>0, <1>1 DEF Over
<1>2. CASE gpc[t] = "ended"
  <2> DEFINE q == out[t].resp
  <2>1. /\ \A a \in DOMAIN group[t] : out[t].written < Unit * a =>
             did[group[t][a]] = "none" /\ group[t][a] \notin Elems(queue[t])
        /\ out[t].err = "none" => Closes(q)
        /\ Reported(t, q)
        /\ Closes(q) =>
             /\ \A i \in Elems(group[t]) : did[i] # "none"
             /\ Complete(t, q) /\ (t \notin faulty => Sound(t, q))
    BY <1>2 DEF Over
  <2>2. \A a \in DOMAIN group[t] : group[t][a] \in Elems(group[t])
    BY DEF Elems
  <2>3. \A a \in DOMAIN group'[t] : out'[t].written < Unit * a =>
          did'[group'[t][a]] = "none" /\ group'[t][a] \notin Elems(queue'[t])
    BY <1>0, <2>1, <2>2
  <2>4. out'[t].err = "none" => Closes(q)'
    BY <1>0, <2>1 DEF Closes
  <2>5. Reported(t, q)'
    BY <1>0, <2>1 DEF Reported, Elems
  <2>6. ASSUME Closes(q)' PROVE /\ \A i \in Elems(group[t])' : did'[i] # "none"
                               /\ Complete(t, q)' /\ (t \notin faulty' => Sound(t, q)')
    <3>0. Closes(q)
      BY <1>0, <2>6 DEF Closes
    <3>1. \A i \in Elems(group[t])' : did'[i] # "none"
      BY <1>0, <2>1, <3>0 DEF Elems
    <3>2. Complete(t, q)'
      BY <1>0, <2>1, <3>0 DEF Complete, Strange, Tags, Elems
    <3>3. t \notin faulty' => Sound(t, q)'
      BY <1>0, <2>1, <3>0 DEF Sound, Tags, Elems
    <3> QED
      BY <3>1, <3>2, <3>3
  <2> QED
    BY <2>3, <2>4, <2>5, <2>6 DEF Over, Elems
<1> QED
  BY <1>1, <1>2

LEMMA ServerKept ==
    ASSUME NEW t \in Servers, Elsewhere(t), Server(t)
    PROVE  Server(t)'
<1>1. Over(t)'
  BY OverKept DEF Server, Elsewhere
<1> QED
  BY <1>1, QueueKept, WaitingKept DEF Server

-----------------------------------------------------------------------------
(* The exchange of one server *)

LEMMA BaseInit == Init => BaseInv
<1> SUFFICES ASSUME Init PROVE BaseInv
  OBVIOUS
<1>1. TypeInv /\ Grouped
  BY TypeInit, GroupedInit
<1>2. Phased
  BY DEF Init, Phased
<1>3. ASSUME NEW s \in Servers PROVE Server(s)
  <2>1. gpc[s] = "none" /\ queue[s] = <<>> /\ sent[s] = <<>> /\ out[s] = NoOutcome /\ pc = "idle"
    BY DEF Init
  <2> QED
    BY <2>1 DEF Server, Staged, Queued, Waiting, Over
<1>4. AllExecuted
  BY DEF Init, AllExecuted, Executed
<1> QED
  BY <1>1, <1>2, <1>3, <1>4 DEF BaseInv, AllServers

(* What an action of server s leaves alone at the others. *)
LEMMA OthersKept ==
    ASSUME BaseInv, NEW s \in Servers,
           \/ Unsent(s) \/ Put(s) \/ Cut(s) \/ Finish(s) \/ Lose(s) \/ GiveUp(s)
           \/ Barred(s) \/ Execute(s)
    PROVE  \A t \in Servers : t # s => Server(t)'
<1> SUFFICES ASSUME NEW t \in Servers, t # s PROVE Server(t)'
  OBVIOUS
<1>0. TypeInv /\ Grouped /\ Server(t)
  BY DEF BaseInv, AllServers
<1>1. Elsewhere(t)
  <2>1. UNCHANGED <<plan, index, group, pc, ret>>
    BY DEF Unsent, Put, Cut, Finish, Lose, GiveUp, Ended, Barred, Execute
  <2>2. faulty \subseteq faulty'
    BY DEF Unsent, Put, Cut, Finish, Lose, GiveUp, Ended, Barred, Execute
  <2>3. gpc'[t] = gpc[t] /\ out'[t] = out[t] /\ queue'[t] = queue[t] /\ sent'[t] = sent[t]
    BY <1>0 DEF TypeInv, Unsent, Put, Cut, Finish, Lose, GiveUp, Ended, Barred, Execute
  <2>4. ASSUME NEW i \in Elems(group[t]) PROVE did'[i] = did[i] /\ saw'[i] = saw[i]
    <3>1. CASE Execute(s)
      <4>1. Head(queue[s]) \in Elems(group[s]) /\ queue[s] # <<>>
        BY <3>1, NextCommand DEF Execute
      <4>2. i # Head(queue[s])
        BY <1>0, <2>4, <4>1, GroupsApart
      <4>3. i \in DOMAIN ops
        BY <1>0, <2>4, GroupParts
      <4> QED
        BY <1>0, <3>1, <4>2, <4>3 DEF Execute, TypeInv
    <3>2. CASE ~Execute(s)
      BY <3>2 DEF Unsent, Put, Cut, Finish, Lose, GiveUp, Ended, Barred
    <3> QED
      BY <3>1, <3>2
  <2> QED
    BY <2>1, <2>2, <2>3, <2>4 DEF Elsewhere
<1> QED
  BY <1>0, <1>1, ServerKept

(* Nothing of a group that has not been written was executed. *)
LEMMA Untouched ==
    ASSUME BaseInv, NEW s \in Servers, gpc[s] \in {"none", "new"}
    PROVE  \A i \in Elems(group[s]) : did[i] = "none"
<1> SUFFICES ASSUME NEW i \in Elems(group[s]) PROVE did[i] = "none"
  OBVIOUS
<1>1. i \in DOMAIN ops /\ home(i) = s
  BY GroupParts DEF BaseInv
<1> QED
  BY <1>1 DEF BaseInv, AllExecuted, Executed

(* What a server has got of a pipeline not yet executed. *)
LEMMA ArrivedQueue ==
    ASSUME BaseInv, NEW s \in Servers, NEW w \in 0..Payload(s), NEW q, q = Arrived(s, w)
    PROVE  /\ q \in Seq(Nat) /\ DOMAIN q \subseteq Nat
           /\ \A a \in DOMAIN q : q[a] = 0 \/ q[a] \in Elems(group[s])
           /\ \A a \in DOMAIN q : q[a] = 0 => a = Len(q)
           /\ \A a, b \in DOMAIN q : a < b /\ q[b] # 0 => q[a] < q[b]
           /\ \A a \in DOMAIN group[s] : w < Unit * a => group[s][a] \notin Elems(q)
           /\ w = Payload(s) => \A i \in Elems(group[s]) : i \in Elems(q)
<1> DEFINE g == group[s]
<1>0. TypeInv /\ Grouped
  BY DEF BaseInv
<1>1. g \in Seq(Nat) /\ Len(g) \in Nat /\ DOMAIN g = 1..Len(g) /\ 0 \notin Elems(g)
  BY <1>0, GroupParts
<1>2. \A a, b \in DOMAIN g : a < b => g[a] < g[b]
  BY <1>0 DEF Grouped
<1>3. Payload(s) = 2 * Len(g) + 1 /\ Unit = 2
  BY DEF Payload, Unit
<1>4. q \in Seq(Nat)
  BY <1>0, ArrivedType
<1>5. \A a \in DOMAIN g : g[a] \in Elems(g) /\ g[a] \in Nat
  BY <1>1, ElementOfSeq DEF Elems
<1>6. CASE w = Payload(s)
  <2>1. q = Append(g, 0)
    BY <1>6 DEF Arrived
  <2>2. /\ Elems(q) = Elems(g) \cup {0} /\ Len(q) = Len(g) + 1 /\ q[Len(g) + 1] = 0
        /\ DOMAIN q = 1..(Len(g) + 1) /\ \A a \in 1..Len(g) : q[a] = g[a]
    BY <1>1, <2>1, ElemsAppend
  <2> HIDE DEF g
  <2>3. \A a \in DOMAIN q : a \in DOMAIN g \/ a = Len(q)
    BY <1>1, <2>2
  <2>4. \A a \in DOMAIN q : q[a] = 0 => a = Len(q)
    BY <1>1, <1>5, <2>2, <2>3
  <2>5. ASSUME NEW a \in DOMAIN q, NEW b \in DOMAIN q, a < b, q[b] # 0 PROVE q[a] < q[b]
    <3>1. b \in DOMAIN g
      BY <2>2, <2>3, <2>5
    <3>2. a \in DOMAIN g
      BY <1>1, <2>2, <2>5, <3>1
    <3> QED
      BY <1>1, <1>2, <2>2, <2>5, <3>1, <3>2
  <2>6. ASSUME NEW a \in DOMAIN g PROVE ~(w < Unit * a)
    BY <1>1, <1>3, <1>6, <2>6
  <2>7. \A a \in DOMAIN q : q[a] = 0 \/ q[a] \in Elems(g)
    BY <1>1, <1>5, <2>2, <2>3
  <2>8. DOMAIN q \subseteq Nat
    BY <1>1, <2>2
  <2> QED
    BY <1>4, <2>2, <2>4, <2>5, <2>6, <2>7, <2>8 DEF g
<1>7. CASE w # Payload(s)
  <2> DEFINE n == w \div Unit
  <2>1. n \in 0..Len(g) /\ w \in Nat
    BY <1>0, <1>1, <1>3, <1>7, ArrivedType
  <2>1a. \A a \in Nat : a <= n => ~(w < 2 * a)
    BY <1>3, <2>1
  <2>1b. \A a \in Nat : w < 2 * a => n < a
    BY <1>3, <2>1
  <2>2. q = SubSeq(g, 1, n)
    BY <1>7 DEF Arrived
  <2> HIDE DEF g, n
  <2>3. Len(q) = n /\ \A a \in 1..n : q[a] = g[a]
    BY <1>1, <2>1, <2>2, SubSeqProperties
  <2>4. DOMAIN q = 1..n /\ 1..n \subseteq DOMAIN g
    BY <1>1, <1>4, <2>1, <2>3, LenProperties
  <2>5. ASSUME NEW a \in DOMAIN q PROVE q[a] \in Elems(g) /\ q[a] # 0
    BY <1>1, <1>5, <2>3, <2>4
  <2>6. ASSUME NEW a \in DOMAIN q, NEW b \in DOMAIN q, a < b PROVE q[a] < q[b]
    BY <1>2, <2>3, <2>4, <2>6
  <2>7. ASSUME NEW a \in DOMAIN g, w < Unit * a, g[a] \in Elems(q) PROVE FALSE
    <3>1. PICK b \in DOMAIN q : q[b] = g[a]
      BY <2>7 DEF Elems
    <3>2. a \in Nat /\ n < a
      BY <1>1, <1>3, <2>1b, <2>7
    <3>3. b \in DOMAIN g /\ b < a /\ g[b] = g[a]
      BY <2>1, <2>3, <2>4, <3>1, <3>2
    <3>4. g[b] < g[a] /\ g[b] \in Nat
      BY <1>2, <1>5, <3>3
    <3> QED
      BY <3>3, <3>4
  <2>8. DOMAIN q \subseteq Nat
    BY <2>1, <2>4
  <2> QED
    BY <1>4, <1>7, <2>5, <2>6, <2>7, <2>8 DEF g
<1> QED
  BY <1>6, <1>7

(* A pipeline that has arrived, in whole or in part. *)
LEMMA QueuedArrived ==
    ASSUME BaseInv, NEW s \in Servers, gpc[s] = "new", NEW w \in 0..Payload(s),
           queue' = [queue EXCEPT ![s] = Arrived(s, w)], UNCHANGED <<group, did>>
    PROVE  Queued(s)'
<1>1. queue'[s] = Arrived(s, w) /\ group'[s] = group[s]
  BY DEF BaseInv, TypeInv
<1>2. /\ \A a \in DOMAIN queue'[s] : queue'[s][a] = 0 \/ queue'[s][a] \in Elems(group[s])
      /\ \A a \in DOMAIN queue'[s] : queue'[s][a] = 0 => a = Len(queue'[s])
      /\ \A a, b \in DOMAIN queue'[s] :
           a < b /\ queue'[s][b] # 0 => queue'[s][a] < queue'[s][b]
  BY <1>1, ArrivedQueue
<1>3. \A i \in Elems(group[s]) : did[i] = "none"
  BY Untouched
<1> QED
  BY <1>1, <1>2, <1>3 DEF Queued, Elems

LEMMA ServerUnsent ==
    ASSUME BaseInv, NEW s \in Servers, Unsent(s)
    PROVE  Server(s)'
<1>0. TypeInv /\ Grouped /\ Server(s) /\ gpc[s] = "new" /\ queue[s] = <<>> /\ sent[s] = <<>>
  BY DEF BaseInv, AllServers, Server, Staged, Unsent
<1>1. PICK e \in CtxErr : Ended(s, <<>>, 0, e)
  BY DEF Unsent
<1>2. /\ gpc'[s] = "ended" /\ out'[s] = [resp |-> <<>>, written |-> 0, err |-> e]
      /\ queue'[s] = <<>> /\ sent'[s] = <<>> /\ UNCHANGED <<group, did, queue>>
  BY <1>0, <1>1 DEF Unsent, Ended, TypeInv
<1>3. Staged(s)' /\ Queued(s)'
  BY <1>0, <1>2 DEF Staged, Queued, Server
<1>4. Waiting(s)'
  BY <1>2 DEF Waiting
<1>5. Over(s)'
  <2>1. ~Closes(out[s].resp)' /\ Reported(s, out[s].resp)' /\ out'[s].err # "none"
    BY <1>1, <1>2 DEF Closes, Reported, CtxErr
  <2>2. \A a \in DOMAIN group[s] : did[group[s][a]] = "none" /\ group[s][a] \notin Elems(queue[s])
    BY <1>0, Untouched DEF Elems
  <2> QED
    BY <1>2, <2>1, <2>2 DEF Over, Elems
<1> QED
  BY <1>3, <1>4, <1>5 DEF Server

LEMMA ServerPut ==
    ASSUME BaseInv, NEW s \in Servers, Put(s)
    PROVE  Server(s)'
<1>0. TypeInv /\ Grouped /\ Server(s) /\ gpc[s] = "new" /\ sent[s] = <<>> /\ out[s] = NoOutcome
  BY DEF BaseInv, AllServers, Server, Staged, Put
<1>1. /\ gpc'[s] = "open" /\ queue'[s] = Arrived(s, Payload(s)) /\ out'[s] = NoOutcome
      /\ sent'[s] = <<>> /\ UNCHANGED <<group, did, plan, saw>>
  BY <1>0 DEF Put, TypeInv
<1>2. Payload(s) \in 0..Payload(s)
  BY <1>0, GroupParts DEF Payload, Unit
<1>3. Staged(s)'
  BY <1>1 DEF Staged
<1>4. Queued(s)'
  BY <1>0, <1>2, QueuedArrived DEF Put
<1>5. Over(s)'
  BY <1>1 DEF Over
<1>6. Waiting(s)'
  <2>1. \A i \in Elems(group[s]) : did[i] = "none"
    BY <1>0, Untouched
  <2>2. \A i \in Elems(group[s]) : i \in Elems(queue'[s])
    BY <1>1, <1>2, ArrivedQueue
  <2>3. ~Closes(sent[s])' /\ Reported(s, sent[s])'
    BY <1>1 DEF Closes, Reported
  <2>4. Complete(s, sent[s])' /\ Sound(s, sent[s])'
    BY <1>1, <2>1 DEF Complete, Sound, Elems
  <2> QED
    BY <1>1, <2>2, <2>3, <2>4 DEF Waiting, Elems
<1> QED
  BY <1>3, <1>4, <1>5, <1>6 DEF Server

(* An exchange that ends without the barrier. *)
LEMMA OverUnclosed ==
    ASSUME NEW s \in Servers, gpc'[s] = "ended", UNCHANGED group,
           out'[s].err # "none", ~Closes(out'[s].resp), Reported(s, out[s].resp)',
           \A a \in DOMAIN group[s] : out'[s].written < Unit * a =>
               did'[group[s][a]] = "none" /\ group[s][a] \notin Elems(queue'[s])
    PROVE  Over(s)'
BY DEF Over, Elems, Closes

LEMMA ServerCut ==
    ASSUME BaseInv, NEW s \in Servers, Cut(s)
    PROVE  Server(s)'
<1>0. TypeInv /\ Grouped /\ Server(s) /\ gpc[s] = "new" /\ sent[s] = <<>>
  BY DEF BaseInv, AllServers, Server, Staged, Cut
<1>1. PICK w \in 1..(Payload(s) - 1) : /\ queue' = [queue EXCEPT ![s] = Arrived(s, w)]
                                        /\ Ended(s, <<>>, w, "error")
  BY DEF Cut
<1>2. /\ gpc'[s] = "ended" /\ out'[s] = [resp |-> <<>>, written |-> w, err |-> "error"]
      /\ queue'[s] = Arrived(s, w) /\ sent'[s] = <<>> /\ UNCHANGED <<group, did>>
  BY <1>0, <1>1 DEF Cut, Ended, TypeInv
<1>3. w \in 0..Payload(s)
  BY <1>0, <1>1, GroupParts DEF Payload, Unit
<1>4. Staged(s)'
  BY <1>2 DEF Staged
<1>5. Queued(s)'
  BY <1>0, <1>1, <1>2, <1>3, QueuedArrived
<1>6. Waiting(s)'
  BY <1>2 DEF Waiting
<1>7. Over(s)'
  <2>1. \A a \in DOMAIN group[s] : did[group[s][a]] = "none"
    BY <1>0, Untouched DEF Elems
  <2>2. \A a \in DOMAIN group[s] : w < Unit * a => group[s][a] \notin Elems(queue'[s])
    BY <1>2, <1>3, ArrivedQueue
  <2>3. ~Closes(out'[s].resp) /\ Reported(s, out[s].resp)' /\ out'[s].err # "none"
    BY <1>2 DEF Closes, Reported
  <2> QED
    BY <1>2, <2>1, <2>2, <2>3, OverUnclosed
<1> QED
  BY <1>4, <1>5, <1>6, <1>7 DEF Server

LEMMA AllWritten ==
    ASSUME BaseInv, NEW s \in Servers, NEW a \in DOMAIN group[s]
    PROVE  ~(Payload(s) < Unit * a)
<1>1. Len(group[s]) \in Nat /\ a \in 1..Len(group[s])
  BY GroupParts DEF BaseInv
<1> QED
  BY <1>1 DEF Payload, Unit

LEMMA ServerFinish ==
    ASSUME BaseInv, NEW s \in Servers, Finish(s)
    PROVE  Server(s)'
<1>0. TypeInv /\ Grouped /\ Server(s) /\ gpc[s] = "open" /\ Closes(sent[s])
  BY DEF BaseInv, AllServers, Finish, Closes
<1>1. /\ gpc'[s] = "ended" /\ out'[s] = [resp |-> sent[s], written |-> Payload(s), err |-> "none"]
      /\ queue'[s] = queue[s] /\ sent'[s] = <<>> /\ UNCHANGED <<group, did, saw, plan, faulty>>
  BY <1>0 DEF Finish, Ended, TypeInv
<1>2. Staged(s)'
  BY <1>1 DEF Staged
<1>3. Queued(s)'
  BY <1>0, <1>1 DEF Server, Queued, Elems
<1>4. Waiting(s)'
  BY <1>1 DEF Waiting
<1>5. Over(s)'
  <2>1. /\ queue[s] = <<>> /\ \A i \in Elems(group[s]) : did[i] # "none" \/ i \in Elems(queue[s])
        /\ Reported(s, sent[s]) /\ Complete(s, sent[s]) /\ (s \notin faulty => Sound(s, sent[s]))
    BY <1>0 DEF Server, Waiting
  <2>2. out'[s].resp = sent[s] /\ out'[s].written = Payload(s) /\ ops' = ops
    BY <1>1 DEF ops
  <2>3. Reported(s, out[s].resp)' /\ Closes(out[s].resp)'
    BY <1>0, <1>1, <2>1, <2>2 DEF Reported, Closes, Elems
  <2>4. Complete(s, out[s].resp)'
    BY <1>1, <2>1, <2>2 DEF Complete, Strange, Tags, Elems
  <2>5. s \notin faulty' => Sound(s, out[s].resp)'
    BY <1>1, <2>1, <2>2 DEF Sound, Tags, Elems
  <2>6. \A i \in Elems(group'[s]) : did'[i] # "none"
    BY <1>1, <2>1 DEF Elems
  <2>7. \A a \in DOMAIN group'[s] : ~(out'[s].written < Unit * a)
    BY <1>1, <2>2, AllWritten
  <2> QED
    BY <2>3, <2>4, <2>5, <2>6, <2>7 DEF Over, Elems
<1> QED
  BY <1>2, <1>3, <1>4, <1>5 DEF Server

LEMMA ServerLose ==
    ASSUME BaseInv, NEW s \in Servers, Lose(s)
    PROVE  Server(s)'
<1>0. TypeInv /\ Grouped /\ Server(s) /\ gpc[s] = "open" /\ sent[s] \in Seq(Responses)
  BY DEF BaseInv, AllServers, Lose, TypeInv
<1>1. PICK k \in 0..Len(sent[s]) :
        /\ \A j \in 1..k : sent[s][j].code # "MN"
        /\ Ended(s, SubSeq(sent[s], 1, k), Payload(s), "error")
  BY DEF Lose
<1> DEFINE q == SubSeq(sent[s], 1, k)
<1>2. /\ gpc'[s] = "ended" /\ out'[s] = [resp |-> q, written |-> Payload(s), err |-> "error"]
      /\ queue'[s] = queue[s] /\ sent'[s] = <<>> /\ UNCHANGED <<group, did, saw, plan, faulty>>
  BY <1>0, <1>1 DEF Lose, Ended, TypeInv
<1>3. DOMAIN q = 1..k /\ 1..k \subseteq DOMAIN sent[s] /\ \A j \in 1..k : q[j] = sent[s][j]
  <2>1. Len(sent[s]) \in Nat /\ DOMAIN sent[s] = 1..Len(sent[s])
    BY <1>0, LenProperties
  <2>2. q \in Seq(Responses) /\ Len(q) = k /\ \A j \in 1..k : q[j] = sent[s][j]
    BY <1>0, <1>1, <2>1, SubSeqProperties
  <2>3. DOMAIN q = 1..k
    BY <2>2, LenProperties
  <2> QED
    BY <1>1, <2>1, <2>2, <2>3
<1> HIDE DEF q
<1>4. Staged(s)'
  BY <1>2 DEF Staged
<1>5. Queued(s)'
  BY <1>0, <1>2 DEF Server, Queued, Elems
<1>6. Waiting(s)'
  BY <1>2 DEF Waiting
<1>7. Over(s)'
  <2>1. Reported(s, sent[s])
    BY <1>0 DEF Server, Waiting
  <2>2. out'[s].resp = q /\ out'[s].written = Payload(s) /\ out'[s].err # "none"
    BY <1>2
  <2>3. Reported(s, out[s].resp)'
    BY <1>2, <1>3, <2>1, <2>2 DEF Reported, Elems
  <2>4. ~Closes(out'[s].resp)
    BY <1>1, <1>3, <2>2 DEF Closes
  <2> QED
    BY <1>2, <2>2, <2>3, <2>4, AllWritten, OverUnclosed
<1> QED
  BY <1>4, <1>5, <1>6, <1>7 DEF Server

LEMMA ServerGiveUp ==
    ASSUME BaseInv, NEW s \in Servers, GiveUp(s)
    PROVE  Server(s)'
<1>0. TypeInv /\ Grouped /\ Server(s) /\ gpc[s] \in {"new", "open"}
  BY DEF BaseInv, AllServers, GiveUp
<1>1. PICK e \in CtxErr : Ended(s, <<>>, Payload(s), e)
  BY DEF GiveUp
<1>2. /\ gpc'[s] = "ended" /\ out'[s] = [resp |-> <<>>, written |-> Payload(s), err |-> e]
      /\ sent'[s] = <<>> /\ UNCHANGED <<group, did>>
  BY <1>0, <1>1 DEF GiveUp, Ended, TypeInv
<1>3. Staged(s)'
  BY <1>2 DEF Staged
<1>4. Queued(s)'
  <2>1. CASE gpc[s] = "new"
    <3>1. PICK w \in 0..Payload(s) : queue' = [queue EXCEPT ![s] = Arrived(s, w)]
      BY <2>1 DEF GiveUp
    <3> QED
      BY <1>2, <2>1, <3>1, QueuedArrived
  <2>2. CASE gpc[s] = "open"
    <3>1. UNCHANGED queue
      BY <2>2 DEF GiveUp
    <3> QED
      BY <1>0, <1>2, <3>1 DEF Server, Queued, Elems
  <2> QED
    BY <1>0, <2>1, <2>2
<1>5. Waiting(s)'
  BY <1>2 DEF Waiting
<1>6. Over(s)'
  <2>1. ~Closes(out'[s].resp) /\ Reported(s, out[s].resp)' /\ out'[s].err # "none"
        /\ out'[s].written = Payload(s)
    BY <1>1, <1>2 DEF Closes, Reported, CtxErr
  <2> QED
    BY <1>2, <2>1, AllWritten, OverUnclosed
<1> QED
  BY <1>3, <1>4, <1>5, <1>6 DEF Server

(* A server takes the next command. *)
LEMMA QueuedTail ==
    ASSUME BaseInv, NEW s \in Servers, queue[s] # <<>>, queue' = [queue EXCEPT ![s] = Tail(@)],
           UNCHANGED group,
           \A i \in Elems(group[s]) : i # Head(queue[s]) => did'[i] = did[i]
    PROVE  /\ Queued(s)' /\ Elems(queue'[s]) \subseteq Elems(queue[s])
           /\ \A i \in Elems(queue[s]) : i = Head(queue[s]) \/ i \in Elems(queue'[s])
<1> DEFINE q == queue[s]
           p == Tail(queue[s])
<1>1. /\ q \in Seq(Nat) /\ Head(q) = q[1] /\ Len(q) \in Nat \ {0}
      /\ p \in Seq(Nat) /\ Len(p) = Len(q) - 1
      /\ \A a \in 1..(Len(q) - 1) : p[a] = q[a + 1]
  BY NextCommand
<1>2. queue'[s] = p /\ Queued(s) /\ group'[s] = group[s]
  BY DEF BaseInv, TypeInv, AllServers, Server
<1> HIDE DEF p
<1>3. DOMAIN q = 1..Len(q) /\ DOMAIN p = 1..(Len(q) - 1)
  BY <1>1, LenProperties
<1>4. ASSUME NEW a \in DOMAIN p PROVE a + 1 \in DOMAIN q /\ p[a] = q[a + 1] /\ a \in Nat /\ 1 < a + 1
  <2>1. a \in 1..(Len(q) - 1) /\ p[a] = q[a + 1]
    BY <1>1, <1>3, <1>4
  <2> HIDE DEF q
  <2>2. a \in Nat /\ 1 < a + 1 /\ a + 1 \in 1..Len(q)
    BY <1>1, <2>1
  <2> QED
    BY <1>3, <2>1, <2>2
<1>5. 1 \in DOMAIN q
  BY <1>1, <1>3
<1>6. /\ \A a \in DOMAIN q : q[a] = 0 \/ q[a] \in Elems(group[s])
      /\ \A a \in DOMAIN q : q[a] = 0 => a = Len(q)
      /\ \A a, b \in DOMAIN q : a < b /\ q[b] # 0 => q[a] < q[b]
      /\ \A a \in DOMAIN q : \A i \in Elems(group[s]) :
           q[a] # 0 /\ did[i] # "none" => i < q[a]
  BY <1>2 DEF Queued
<1> HIDE DEF q
<1>7. \A a \in DOMAIN p : p[a] = 0 \/ p[a] \in Elems(group[s])
  BY <1>4, <1>6
<1>8. ASSUME NEW a \in DOMAIN p, p[a] = 0 PROVE a = Len(p)
  <2>1. a + 1 = Len(q)
    BY <1>4, <1>6, <1>8
  <2> QED
    BY <1>1, <1>4, <2>1
<1>9. ASSUME NEW a \in DOMAIN p, NEW b \in DOMAIN p, a < b, p[b] # 0 PROVE p[a] < p[b]
  <2>1. a + 1 < b + 1
    BY <1>4, <1>9
  <2>2. q[a + 1] < q[b + 1]
    BY <1>4, <1>6, <1>9, <2>1
  <2> QED
    BY <1>4, <2>2
<1>10. ASSUME NEW a \in DOMAIN p, NEW i \in Elems(group[s]), p[a] # 0, did'[i] # "none"
       PROVE  i < p[a]
  <2>1. p[a] = q[a + 1] /\ a + 1 \in DOMAIN q /\ 1 < a + 1
    BY <1>4
  <2>2. CASE i = q[1]
    BY <1>5, <1>6, <1>10, <2>1, <2>2
  <2>3. CASE i # q[1]
    <3>1. did[i] # "none"
      BY <1>1, <1>10, <2>3 DEF q
    <3> QED
      BY <1>6, <1>10, <2>1, <3>1
  <2> QED
    BY <2>2, <2>3
<1>11. Queued(s)'
  BY <1>2, <1>7, <1>8, <1>9, <1>10 DEF Queued, Elems
<1>12. Elems(p) \subseteq Elems(q)
  BY <1>4 DEF Elems
<1>13. ASSUME NEW i \in Elems(q) PROVE i = q[1] \/ i \in Elems(p)
  <2>1. PICK a \in DOMAIN q : q[a] = i
    BY <1>13 DEF Elems
  <2>2. CASE a # 1
    <3>1. a - 1 \in DOMAIN p /\ (a - 1) + 1 = a
      BY <1>1, <1>3, <2>2
    <3>2. p[a - 1] = i
      BY <1>4, <2>1, <3>1
    <3> QED
      BY <3>1, <3>2 DEF Elems
  <2> QED
    BY <2>1, <2>2
<1> QED
  BY <1>1, <1>2, <1>11, <1>12, <1>13 DEF q

(* The responses of a server grow by some that are no barrier, or by one. *)
LEMMA Concatenated ==
    ASSUME NEW q \in Seq(Responses), NEW p \in Seq(Responses)
    PROVE  /\ q \o p \in Seq(Responses) /\ DOMAIN (q \o p) = 1..(Len(q) + Len(p))
           /\ DOMAIN q = 1..Len(q) /\ DOMAIN p = 1..Len(p) /\ Len(q) \in Nat /\ Len(p) \in Nat
           /\ \A j \in DOMAIN q : j \in DOMAIN (q \o p) /\ (q \o p)[j] = q[j]
           /\ \A j \in DOMAIN p : Len(q) + j \in DOMAIN (q \o p) /\ (q \o p)[Len(q) + j] = p[j]
           /\ \A j \in DOMAIN (q \o p) : \/ j \in DOMAIN q /\ (q \o p)[j] = q[j]
                                         \/ j - Len(q) \in DOMAIN p /\ (q \o p)[j] = p[j - Len(q)]
<1> DEFINE c == q \o p
<1>1. /\ c \in Seq(Responses) /\ Len(c) = Len(q) + Len(p)
      /\ \A j \in 1..(Len(q) + Len(p)) : c[j] = IF j <= Len(q) THEN q[j] ELSE p[j - Len(q)]
  BY ConcatProperties
<1>2. Len(q) \in Nat /\ Len(p) \in Nat /\ DOMAIN q = 1..Len(q) /\ DOMAIN p = 1..Len(p)
  BY LenProperties
<1>3. DOMAIN c = 1..(Len(q) + Len(p))
  BY <1>1, LenProperties
<1> HIDE DEF c
<1>4. ASSUME NEW j \in DOMAIN q PROVE j \in DOMAIN c /\ c[j] = q[j]
  BY <1>1, <1>2, <1>3, <1>4
<1>5. ASSUME NEW j \in DOMAIN p PROVE Len(q) + j \in DOMAIN c /\ c[Len(q) + j] = p[j]
  <2>1. Len(q) + j \in 1..(Len(q) + Len(p)) /\ ~(Len(q) + j <= Len(q)) /\ (Len(q) + j) - Len(q) = j
    BY <1>2, <1>5
  <2> QED
    BY <1>1, <1>3, <2>1
<1>6. ASSUME NEW j \in DOMAIN c
      PROVE  \/ j \in DOMAIN q /\ c[j] = q[j]
             \/ j - Len(q) \in DOMAIN p /\ c[j] = p[j - Len(q)]
  <2>1. CASE j <= Len(q)
    BY <1>1, <1>2, <1>3, <1>6, <2>1
  <2>2. CASE ~(j <= Len(q))
    <3>1. j - Len(q) \in DOMAIN p
      BY <1>2, <1>3, <1>6, <2>2
    <3> QED
      BY <1>1, <1>3, <1>6, <2>2, <3>1
  <2> QED
    BY <2>1, <2>2
<1> QED
  BY <1>1, <1>2, <1>3, <1>4, <1>5, <1>6 DEF c

LEMMA ServerBarred ==
    ASSUME BaseInv, NEW s \in Servers, Barred(s)
    PROVE  Server(s)'
<1>0. TypeInv /\ Grouped /\ Server(s) /\ queue[s] # <<>> /\ Head(queue[s]) = 0
  BY DEF BaseInv, AllServers, Barred
<1>1. gpc[s] \in {"open", "ended"} /\ Tail(queue[s]) = <<>>
  BY <1>0, NextCommand
<1>2. /\ queue' = [queue EXCEPT ![s] = Tail(@)]
      /\ sent' = IF gpc[s] = "open" THEN [sent EXCEPT ![s] = Append(@, Barrier)] ELSE sent
      /\ UNCHANGED <<pc, plan, index, group, gpc, out, ret, did, saw, faulty>> /\ ops' = ops
  BY DEF Barred, ops
<1>3. queue'[s] = <<>>
  BY <1>0, <1>1, <1>2 DEF TypeInv
<1>4. /\ Queued(s)' /\ Elems(queue'[s]) \subseteq Elems(queue[s])
      /\ \A i \in Elems(queue[s]) : i = 0 \/ i \in Elems(queue'[s])
  BY <1>0, <1>2, QueuedTail
<1>5. Staged(s)'
  BY <1>0, <1>1, <1>2 DEF Staged, Server
<1>6. Over(s)'
  BY <1>0, <1>2, <1>4, OverKept DEF Server
<1>7. Waiting(s)'
  <2>1. CASE gpc[s] # "open"
    BY <1>2, <2>1 DEF Waiting
  <2>2. CASE gpc[s] = "open"
    <3> DEFINE q == sent[s]
               p == Append(q, Barrier)
    <3>1. sent'[s] = p /\ q \in Seq(Responses)
      BY <1>0, <1>2, <2>2 DEF TypeInv
    <3>2. /\ \A i \in Elems(group[s]) : did[i] # "none" \/ i \in Elems(queue[s])
          /\ Reported(s, q) /\ Complete(s, q) /\ (s \notin faulty => Sound(s, q))
      BY <1>0, <2>2 DEF Server, Waiting
    <3>3. /\ DOMAIN p = 1..(Len(q) + 1) /\ DOMAIN q = 1..Len(q) /\ Len(q) \in Nat
          /\ p[Len(q) + 1] = Barrier /\ \A a \in 1..Len(q) : p[a] = q[a]
      BY <3>1, BarrierType, ElemsAppend, LenProperties
    <3> HIDE DEF p
    <3>4. \A a \in DOMAIN p : (a \in DOMAIN q /\ p[a] = q[a]) \/ p[a].code = "MN"
      <4>1. \A a \in DOMAIN p : a \in DOMAIN q \/ a = Len(q) + 1
        BY <3>3
      <4> QED
        BY <3>3, <4>1, BarrierType
    <3>5. \A a \in DOMAIN q : a \in DOMAIN p /\ p[a] = q[a]
      BY <3>3
    <3> HIDE DEF q
    <3>6. \A i \in Elems(group[s]) : did[i] # "none"
      <4>1. 0 \notin Elems(group[s]) /\ Elems(queue'[s]) = {}
        BY <1>0, <1>3, GroupParts DEF Elems
      <4> QED
        BY <1>4, <3>2, <4>1
    <3>7. Reported(s, p)
      BY <3>2, <3>4 DEF Reported
    <3>8. Complete(s, p)
      BY <3>2, <3>5 DEF Complete, Tags, Strange
    <3>9. s \notin faulty => Sound(s, p)
      <4> SUFFICES ASSUME Sound(s, q) PROVE Sound(s, p)
        BY <3>2
      <4>1. \A j \in DOMAIN p : p[j].code # "MN" => p[j].op \in Elems(group[s]) /\ ~p[j].bad
        BY <3>4 DEF Sound
      <4>2. \A j, k \in DOMAIN p : p[j].code # "MN" /\ p[k].code # "MN" /\ p[j].op = p[k].op => j = k
        BY <3>4 DEF Sound
      <4>3. \A i : Tags(q, i) # {} => Tags(p, i) # {}
        BY <3>5 DEF Tags
      <4> QED
        BY <4>1, <4>2, <4>3 DEF Sound
    <3>9a. group'[s] = group[s] /\ did' = did /\ saw' = saw /\ ops' = ops /\ sent'[s] = p /\ faulty' = faulty
      BY <1>2, <3>1
    <3>10. Reported(s, sent[s])'
      BY <3>7, <3>9a DEF Reported, Elems
    <3>11. Complete(s, sent[s])'
      BY <3>8, <3>9a DEF Complete, Tags, Strange, Elems
    <3>12. s \notin faulty' => Sound(s, sent[s])'
      BY <3>9, <3>9a DEF Sound, Tags, Elems
    <3> QED
      BY <1>2, <1>3, <3>6, <3>10, <3>11, <3>12 DEF Waiting, Elems
  <2> QED
    BY <2>1, <2>2
<1> QED
  BY <1>4, <1>5, <1>6, <1>7 DEF Server

(* What a server makes of a response: it is about the operation, cannot be *)
(* attributed, or, where one is required, is not there.                    *)
LEMMA SpoiledParts ==
    ASSUME TypeInv, Grouped, NEW s \in Servers, NEW r \in Responses, NEW f \in FaultKinds,
           r.op \in Elems(group[s]), r.code # "MN"
    PROVE  /\ \A j \in DOMAIN Spoiled(r, f) :
                /\ Spoiled(r, f)[j].code = r.code /\ Spoiled(r, f)[j].by = r.by
                /\ Spoiled(r, f)[j].won = r.won /\ Spoiled(r, f)[j].stale = r.stale
                /\ Spoiled(r, f)[j].op = r.op \/ Spoiled(r, f)[j].op \notin DOMAIN ops
                /\ Spoiled(r, f)[j].op = r.op \/ Spoiled(r, f)[j].op \notin Elems(group[s])
           /\ f # "omit" => 1 \in DOMAIN Spoiled(r, f)
           /\ f = "none" => Spoiled(r, f) = <<r>>
<1>1. /\ 0 \notin Elems(group[s]) /\ Len(ops) + 1 \notin Elems(group[s])
      /\ 0 \notin DOMAIN ops /\ Len(ops) + 1 \notin DOMAIN ops
  <2>1. 0 \notin Elems(group[s]) /\ \A x \in Elems(group[s]) : x \in DOMAIN ops
    BY GroupParts
  <2>2. Len(ops) + 1 \notin DOMAIN ops /\ 0 \notin DOMAIN ops
    BY PlanParts
  <2> QED
    BY <2>1, <2>2
<1> DEFINE b == [r EXCEPT !.op = 0]
           a == [r EXCEPT !.op = Len(ops) + 1]
           c == [r EXCEPT !.bad = TRUE]
<1>2. /\ b.code = r.code /\ b.by = r.by /\ b.op = 0 /\ b.won = r.won /\ b.stale = r.stale
      /\ a.code = r.code /\ a.by = r.by /\ a.op = Len(ops) + 1 /\ a.won = r.won /\ a.stale = r.stale
      /\ c.code = r.code /\ c.by = r.by /\ c.op = r.op /\ c.won = r.won /\ c.stale = r.stale
  BY DEF Responses
<1> HIDE DEF a, b, c
<1>3. CASE f = "none"
  BY <1>3 DEF Spoiled
<1>4. CASE f = "blank"
  <2>1. Spoiled(r, f) = <<b>>
    BY <1>4 DEF Spoiled, b
  <2> QED
    BY <1>1, <1>2, <1>4, <2>1
<1>5. CASE f = "alien"
  <2>1. Spoiled(r, f) = <<a>>
    BY <1>5 DEF Spoiled, a
  <2> QED
    BY <1>1, <1>2, <1>5, <2>1
<1>6. CASE f = "twice"
  <2>1. Spoiled(r, f) = <<r, r>>
    BY <1>6 DEF Spoiled
  <2> QED
    BY <1>6, <2>1
<1>7. CASE f = "flag"
  <2>1. Spoiled(r, f) = <<c>>
    BY <1>7 DEF Spoiled, c
  <2> QED
    BY <1>2, <1>7, <2>1
<1>8. CASE f = "omit"
  BY <1>8 DEF Spoiled
<1> QED
  BY <1>3, <1>4, <1>5, <1>6, <1>7, <1>8 DEF FaultKinds

(* Operation i of server s has been executed with status r. *)
Ran(s, i, code, by) ==
    /\ UNCHANGED <<plan, group>>
    /\ i \in Elems(group[s]) /\ did[i] = "none" /\ code \in Codes \ {"none"}
    /\ did'[i] = code /\ saw'[i] = by
    /\ \A x \in Elems(group[s]) : x # i => did'[x] = did[x] /\ saw'[x] = saw[x]

LEMMA ReportedRan ==
    ASSUME NEW s \in Servers, NEW i, NEW code, NEW by, Ran(s, i, code, by), NEW q, Reported(s, q)
    PROVE  Reported(s, q)' /\ Tags(q, i) = {}
<1>1. \A j \in DOMAIN q : q[j].code # "MN" /\ q[j].op \in Elems(group[s]) => q[j].op # i
  BY DEF Reported, Ran
<1>2. Tags(q, i) = {}
  BY <1>1 DEF Tags, Ran
<1>3. Reported(s, q)'
  BY <1>1 DEF Reported, Ran, Elems
<1> QED
  BY <1>2, <1>3

(* A response suppressed, or not waited for. *)
LEMMA SilentRan ==
    ASSUME NEW s \in Servers, NEW i, NEW code, NEW by, Ran(s, i, code, by), NEW q,
           Reported(s, q), Complete(s, q), s \notin faulty => Sound(s, q),
           Suppressed(ops[i], code), UNCHANGED faulty
    PROVE  Reported(s, q)' /\ Complete(s, q)' /\ (s \notin faulty' => Sound(s, q)')
<1>0. group'[s] = group[s] /\ ops' = ops /\ faulty' = faulty /\ did'[i] = code
      /\ \A x \in Elems(group[s]) : x # i => did'[x] = did[x]
  BY DEF Ran, ops
<1>1. Complete(s, q)'
  BY <1>0 DEF Complete, Tags, Strange, Elems
<1>2. s \notin faulty' => Sound(s, q)'
  BY <1>0 DEF Sound, Tags, Elems
<1> QED
  BY <1>1, <1>2, ReportedRan

(* A response sent, as it should be or not. *)
LEMMA AnsweredRan ==
    ASSUME BaseInv, NEW s \in Servers, NEW r \in Responses, Ran(s, r.op, r.code, r.by),
           NEW q \in Seq(Responses), NEW f \in FaultKinds,
           r.code # "MN", ~r.bad, f = "omit" => successResponseRequired(ops[r.op]),
           Reported(s, q), Complete(s, q), s \notin faulty => Sound(s, q),
           s \notin faulty' => s \notin faulty /\ f = "none", NEW p, p = q \o Spoiled(r, f)
    PROVE  Reported(s, p)' /\ Complete(s, p)' /\ (s \notin faulty' => Sound(s, p)')
<1> DEFINE i == r.op
           d == Spoiled(r, f)
<1>0. TypeInv /\ Grouped /\ group'[s] = group[s] /\ ops' = ops /\ i \in Elems(group[s])
      /\ did[i] = "none" /\ did'[i] = r.code /\ saw'[i] = r.by
      /\ \A x \in Elems(group[s]) : x # i => did'[x] = did[x] /\ saw'[x] = saw[x]
  BY DEF BaseInv, Ran, ops
<1>1. d \in Seq(Responses)
  BY <1>0, SpoiledType
<1>2. /\ \A j \in DOMAIN d : /\ d[j].code = r.code /\ d[j].by = r.by
                             /\ d[j].op = i \/ d[j].op \notin Elems(group[s])
      /\ f # "omit" => 1 \in DOMAIN d
      /\ f = "none" => d = <<r>>
  BY <1>0, SpoiledParts
<1> HIDE DEF d
<1>3. /\ DOMAIN q = 1..Len(q) /\ DOMAIN d = 1..Len(d) /\ Len(q) \in Nat /\ Len(d) \in Nat
      /\ \A j \in DOMAIN q : j \in DOMAIN p /\ p[j] = q[j]
      /\ \A j \in DOMAIN d : Len(q) + j \in DOMAIN p /\ p[Len(q) + j] = d[j]
      /\ \A j \in DOMAIN p : \/ j \in DOMAIN q /\ p[j] = q[j]
                             \/ j - Len(q) \in DOMAIN d /\ p[j] = d[j - Len(q)]
      /\ DOMAIN p = 1..(Len(q) + Len(d))
  BY <1>1, Concatenated DEF d
<1>4. Reported(s, q)' /\ Tags(q, i) = {}
  BY ReportedRan
<1>5. Reported(s, p)'
  <2> SUFFICES ASSUME NEW j \in DOMAIN p, p[j].code # "MN", p[j].op \in Elems(group[s])
               PROVE  did'[p[j].op] # "none" /\ p[j].code = did'[p[j].op] /\ p[j].by = saw'[p[j].op]
    BY <1>0 DEF Reported, Elems
  <2>1. CASE j \in DOMAIN q /\ p[j] = q[j]
    BY <1>0, <1>4, <2>1 DEF Reported, Elems
  <2>2. CASE j - Len(q) \in DOMAIN d /\ p[j] = d[j - Len(q)]
    BY <1>0, <1>2, <2>2 DEF Ran
  <2> QED
    BY <1>3, <2>1, <2>2
<1>6. \A x : Tags(q, x) # {} => Tags(p, x) # {}
  BY <1>3 DEF Tags
<1>7. f # "omit" => Tags(p, i) # {} \/ Strange(s, p)
  <2> SUFFICES ASSUME f # "omit" PROVE Tags(p, i) # {} \/ Strange(s, p)
    OBVIOUS
  <2>1. Len(q) + 1 \in DOMAIN p /\ p[Len(q) + 1] = d[1] /\ 1 \in DOMAIN d
    BY <1>2, <1>3
  <2>2. /\ p[Len(q) + 1].code # "MN"
        /\ p[Len(q) + 1].op = i \/ p[Len(q) + 1].op \notin Elems(group[s])
    BY <1>2, <2>1
  <2> QED
    BY <2>1, <2>2 DEF Tags, Strange
<1>8. Complete(s, p)'
  <2>0. Strange(s, p)' <=> Strange(s, p)
    BY <1>0 DEF Strange, Elems
  <2> SUFFICES ASSUME NEW x \in Elems(group[s]), did'[x] # "none"
               PROVE  \/ Tags(p, x) # {} \/ Suppressed(ops[x], did'[x])
                      \/ successResponseRequired(ops[x]) \/ Strange(s, p)
    BY <1>0, <2>0 DEF Complete, Elems
  <2>1. CASE x = i
    BY <1>7, <2>1
  <2>2. CASE x # i
    <3>1. Strange(s, q) => Strange(s, p)
      BY <1>3 DEF Strange
    <3> QED
      BY <1>0, <1>6, <2>2, <3>1 DEF Complete
  <2> QED
    BY <2>1, <2>2
<1>9. ASSUME s \notin faulty' PROVE Sound(s, p)'
  <2>1. Sound(s, q) /\ d = <<r>>
    BY <1>2, <1>9
  <2>2. \A j \in DOMAIN p : \/ j \in DOMAIN q /\ p[j] = q[j]
                            \/ j = Len(q) + 1 /\ p[j] = r
    <3> SUFFICES ASSUME NEW j \in DOMAIN p, j - Len(q) \in DOMAIN d, p[j] = d[j - Len(q)]
                 PROVE  j = Len(q) + 1 /\ p[j] = r
      BY <1>3
    <3>1. j - Len(q) = 1 /\ j \in Nat
      BY <1>3, <2>1
    <3> QED
      BY <1>3, <2>1, <3>1
  <2>3. \A j \in DOMAIN p : p[j].code # "MN" => p[j].op \in Elems(group[s]) /\ ~p[j].bad
    BY <1>0, <2>1, <2>2 DEF Sound
  <2>4. \A j \in DOMAIN q : q[j].code # "MN" => q[j].op # i
    BY <1>4 DEF Tags
  <2>5. \A j, k \in DOMAIN p : p[j].code # "MN" /\ p[k].code # "MN" /\ p[j].op = p[k].op => j = k
    BY <2>1, <2>2, <2>4 DEF Sound
  <2>6. ASSUME NEW x \in Elems(group[s]), did'[x] # "none"
        PROVE  Tags(p, x) # {} \/ Suppressed(ops[x], did'[x])
    <3>1. CASE x = i
      <4>1. Len(q) + 1 \in DOMAIN p /\ p[Len(q) + 1] = r
        BY <1>3, <2>1
      <4> QED
        BY <3>1, <4>1 DEF Tags
    <3>2. CASE x # i
      BY <1>0, <1>6, <2>1, <2>6, <3>2 DEF Sound
    <3> QED
      BY <3>1, <3>2
  <2> QED
    BY <1>0, <2>3, <2>5, <2>6 DEF Sound, Tags, Elems
<1> QED
  BY <1>5, <1>8, <1>9

LEMMA ExecuteParts ==
    ASSUME BaseInv, NEW s \in Servers, Execute(s), NEW i, i = Head(queue[s]),
           NEW r, r = Answer(i, store[ops[i].key])
    PROVE  /\ i \in Elems(group[s]) /\ i \in DOMAIN ops /\ home(i) = s /\ i \in Elems(queue[s])
           /\ r \in Responses /\ r.op = i /\ r.code # "MN" /\ ~r.bad
           /\ r.code = Code(ops[i], store[ops[i].key]) /\ r.code \in CodesOf(ops[i])
           /\ Ran(s, i, r.code, r.by) /\ ranAt'[i] = s
           /\ \A x \in DOMAIN ops : x # i => did'[x] = did[x] /\ saw'[x] = saw[x] /\ ranAt'[x] = ranAt[x]
           /\ queue' = [queue EXCEPT ![s] = Tail(@)]
           /\ UNCHANGED <<pc, plan, index, group, gpc, out, res, ret, token, env>>
<1>0. TypeInv /\ Grouped /\ queue[s] # <<>> /\ i # 0
  BY DEF BaseInv, Execute
<1>1. i \in Elems(group[s]) /\ i \in DOMAIN ops /\ home(i) = s /\ did[i] = "none"
  BY <1>0, NextCommand
<1>2. i \in Elems(queue[s])
  <2>1. queue[s] \in Seq(Nat) /\ i = queue[s][1] /\ Len(queue[s]) \in Nat \ {0}
    BY <1>0, NextCommand
  <2>2. 1 \in 1..Len(queue[s])
    BY <2>1
  <2> QED
    BY <2>1, <2>2, ElemsOf
<1>3. ops[i] \in Operations /\ store[ops[i].key] \in Items
  BY <1>0, <1>1, PlanParts DEF TypeInv
<1>4. /\ r \in Responses /\ r.op = i /\ r.code = Code(ops[i], store[ops[i].key])
      /\ r.code # "MN" /\ ~r.bad
  BY <1>0, <1>1, <1>3, AnswerType
<1>5. r.code \in CodesOf(ops[i]) /\ r.code \in Codes \ {"none"}
  BY <1>3, <1>4, CodeType
<1>6. /\ did' = [did EXCEPT ![i] = r.code] /\ saw' = [saw EXCEPT ![i] = r.by]
      /\ ranAt' = [ranAt EXCEPT ![i] = s] /\ queue' = [queue EXCEPT ![s] = Tail(@)]
      /\ UNCHANGED <<pc, plan, index, group, gpc, out, res, ret, token, env>>
  BY DEF Execute
<1>7. /\ did'[i] = r.code /\ saw'[i] = r.by /\ ranAt'[i] = s
      /\ \A x \in DOMAIN ops : x # i => did'[x] = did[x] /\ saw'[x] = saw[x] /\ ranAt'[x] = ranAt[x]
  BY <1>0, <1>1, <1>6 DEF TypeInv
<1>8. Ran(s, i, r.code, r.by)
  <2>1. \A x \in Elems(group[s]) : x \in DOMAIN ops
    BY <1>0, GroupParts
  <2> QED
    BY <1>1, <1>5, <1>6, <1>7, <2>1 DEF Ran
<1> QED
  BY <1>1, <1>2, <1>4, <1>5, <1>6, <1>7, <1>8

LEMMA ServerExecute ==
    ASSUME BaseInv, NEW s \in Servers, Execute(s)
    PROVE  Server(s)'
<1> DEFINE i == Head(queue[s])
           r == Answer(i, store[ops[i].key])
<1>0. TypeInv /\ Grouped /\ Server(s) /\ queue[s] # <<>>
  BY DEF BaseInv, AllServers, Execute
<1>1. /\ i \in Elems(group[s]) /\ i \in DOMAIN ops /\ i \in Elems(queue[s])
      /\ r \in Responses /\ r.op = i /\ r.code # "MN" /\ ~r.bad
      /\ Ran(s, i, r.code, r.by) /\ queue' = [queue EXCEPT ![s] = Tail(@)]
      /\ UNCHANGED <<pc, plan, index, group, gpc, out, ret>>
  BY ExecuteParts
<1>2. IF gpc[s] # "open" \/ Suppressed(ops[i], r.code) THEN UNCHANGED <<sent, faulty>>
      ELSE \E f \in Faults : /\ f = "omit" => successResponseRequired(ops[i])
                             /\ sent' = [sent EXCEPT ![s] = sent[s] \o Spoiled(r, f)]
                             /\ faulty' = IF f = "none" THEN faulty ELSE faulty \cup {s}
  BY DEF Execute
<1> HIDE DEF r
<1>3. gpc[s] \in {"open", "ended"}
  BY <1>0, NextCommand
<1>4. /\ Queued(s)' /\ Elems(queue'[s]) \subseteq Elems(queue[s])
      /\ \A x \in Elems(queue[s]) : x = i \/ x \in Elems(queue'[s])
  <2>1. \A x \in Elems(group[s]) : x # i => did'[x] = did[x]
    BY <1>1 DEF Ran
  <2> QED
    BY <1>0, <1>1, <2>1, QueuedTail
<1> HIDE DEF i
<1>5. did[i] = "none" /\ did'[i] # "none" /\ \A x \in Elems(group[s]) : x # i => did'[x] = did[x]
  BY <1>1 DEF Ran
<1>6. Staged(s)'
  BY <1>0, <1>1, <1>2, <1>3 DEF Staged, Server
<1>7. CASE gpc[s] = "open"
  <2>1. /\ \A x \in Elems(group[s]) : did[x] # "none" \/ x \in Elems(queue[s])
        /\ ~Closes(sent[s]) /\ Reported(s, sent[s]) /\ Complete(s, sent[s])
        /\ s \notin faulty => Sound(s, sent[s])
    BY <1>0, <1>7 DEF Server, Waiting
  <2>2. \A x \in Elems(group[s]) : did'[x] # "none" \/ x \in Elems(queue'[s])
    BY <1>4, <1>5, <2>1
  <2>3. /\ ~Closes(sent'[s]) /\ Reported(s, sent[s])' /\ Complete(s, sent[s])'
        /\ s \notin faulty' => Sound(s, sent[s])'
    <3>1. CASE Suppressed(ops[i], r.code)
      <4>1. UNCHANGED <<sent, faulty>>
        BY <1>2, <3>1
      <4>2. ASSUME NEW q, q = sent[s]
            PROVE  Reported(s, q)' /\ Complete(s, q)' /\ (s \notin faulty' => Sound(s, q)')
        BY <1>1, <2>1, <3>1, <4>1, <4>2, SilentRan
      <4> QED
        BY <2>1, <4>1, <4>2 DEF Reported, Complete, Sound, Tags, Strange
    <3>2. CASE ~Suppressed(ops[i], r.code)
      <4>1. PICK f \in Faults : /\ f = "omit" => successResponseRequired(ops[i])
                                /\ sent' = [sent EXCEPT ![s] = sent[s] \o Spoiled(r, f)]
                                /\ faulty' = IF f = "none" THEN faulty ELSE faulty \cup {s}
        BY <1>2, <1>7, <3>2
      <4>2. f \in FaultKinds /\ sent[s] \in Seq(Responses)
        BY <1>0, <4>1, BatchAssumption DEF TypeInv
      <4>3. sent'[s] = sent[s] \o Spoiled(r, f)
        BY <1>0, <4>1 DEF TypeInv
      <4>4. s \notin faulty' => s \notin faulty /\ f = "none"
        BY <4>1
      <4>5. ASSUME NEW p, p = sent'[s]
            PROVE  Reported(s, p)' /\ Complete(s, p)' /\ (s \notin faulty' => Sound(s, p)')
        BY <1>1, <2>1, <4>1, <4>2, <4>3, <4>4, <4>5, AnsweredRan
      <4>6. ~Closes(sent'[s])
        <5> DEFINE d == Spoiled(r, f)
        <5>1. d \in Seq(Responses)
          BY <1>0, <1>1, <4>2, SpoiledType
        <5>2. \A j \in DOMAIN d : d[j].code = r.code
          BY <1>0, <1>1, <4>2, SpoiledParts
        <5> HIDE DEF d
        <5>3. \A j \in DOMAIN sent'[s] :
                 \/ j \in DOMAIN sent[s] /\ sent'[s][j] = sent[s][j]
                 \/ j - Len(sent[s]) \in DOMAIN d /\ sent'[s][j] = d[j - Len(sent[s])]
          BY <4>2, <4>3, <5>1, Concatenated DEF d
        <5> QED
          BY <1>1, <2>1, <5>2, <5>3 DEF Closes
      <4> QED
        BY <4>5, <4>6 DEF Reported, Complete, Sound, Tags, Strange
    <3> QED
      BY <3>1, <3>2
  <2>4. Waiting(s)'
    BY <1>1, <2>2, <2>3 DEF Waiting, Elems, Closes
  <2>5. Over(s)'
    BY <1>1, <1>7 DEF Over
  <2> QED
    BY <1>4, <1>6, <2>4, <2>5 DEF Server
<1>8. CASE gpc[s] = "ended"
  <2>1. /\ \A a \in DOMAIN group[s] : out[s].written < Unit * a =>
             did[group[s][a]] = "none" /\ group[s][a] \notin Elems(queue[s])
        /\ Reported(s, out[s].resp) /\ ~Closes(out[s].resp) /\ out[s].err # "none"
    BY <1>0, <1>1, <1>5, <1>8 DEF Server, Over
  <2>2. Waiting(s)'
    BY <1>1, <1>8 DEF Waiting
  <2>3. Reported(s, out[s].resp)'
    <3>1. ASSUME NEW q, q = out[s].resp PROVE Reported(s, q)'
      BY <1>1, <2>1, <3>1, ReportedRan
    <3> QED
      BY <1>1, <3>1 DEF Reported
  <2>4. \A a \in DOMAIN group[s] : out'[s].written < Unit * a =>
               did'[group[s][a]] = "none" /\ group[s][a] \notin Elems(queue'[s])
    <3>1. \A a \in DOMAIN group[s] : group[s][a] \in Elems(group[s])
      BY DEF Elems
    <3> QED
      BY <1>1, <1>4, <1>5, <2>1, <3>1
  <2>5. Over(s)'
    BY <1>1, <1>8, <2>1, <2>3, <2>4, OverUnclosed
  <2> QED
    BY <1>4, <1>6, <2>2, <2>5 DEF Server
<1> QED
  BY <1>3, <1>7, <1>8

-----------------------------------------------------------------------------
(* The invariant is kept *)

LEMMA ServersStep ==
    ASSUME BaseInv, [Next]_vars
    PROVE  AllServers'
<1>0. TypeInv /\ Grouped /\ Phased /\ AllServers
  BY DEF BaseInv
<1>1. CASE Prepare \/ Start
  <2> SUFFICES ASSUME NEW s \in Servers PROVE Server(s)'
    BY DEF AllServers
  <2>1. pc = "idle" /\ gpc[s] = "none" /\ Server(s)
    BY <1>0, <1>1 DEF Prepare, Start, Phased, AllServers
  <2>2. queue'[s] = <<>> /\ sent'[s] = <<>> /\ out'[s] = NoOutcome
    BY <1>1, <2>1 DEF Server, Staged, Prepare, Start
  <2>3. gpc'[s] \in {"none", "new"} /\ (gpc'[s] = "none" /\ pc' # "idle" /\ ret' # "refused" => group'[s] = <<>>)
    BY <1>1, <2>1 DEF Prepare, Start
  <2> QED
    BY <2>2, <2>3 DEF Server, Staged, Queued, Waiting, Over
<1>2. ASSUME NEW s \in Servers,
             \/ Unsent(s) \/ Put(s) \/ Cut(s) \/ Finish(s) \/ Lose(s) \/ GiveUp(s)
             \/ Barred(s) \/ Execute(s)
      PROVE  AllServers'
  <2>1. Server(s)'
    BY <1>2, ServerUnsent, ServerPut, ServerCut, ServerFinish, ServerLose, ServerGiveUp,
       ServerBarred, ServerExecute
  <2> QED
    BY <1>2, <2>1, OthersKept DEF AllServers
<1>3. CASE Resolve \/ Finished \/ UNCHANGED vars
           \/ \E k \in Keys : GiveBack(k) \/ GiveBackFails(k) \/ Other(k)
  <2> SUFFICES ASSUME NEW s \in Servers PROVE Server(s)'
    BY DEF AllServers
  <2>1. /\ UNCHANGED <<plan, index, group, faulty, gpc, out, queue, sent, did, saw>>
        /\ pc' # "idle" /\ ret' # "refused" => pc # "idle" /\ ret # "refused"
    <3>1. CASE Resolve
      BY <1>0, <3>1 DEF Resolve, Phased
    <3>2. CASE Finished \/ UNCHANGED vars \/ \E k \in Keys : GiveBack(k) \/ GiveBackFails(k) \/ Other(k)
      BY <3>2 DEF Finished, vars, GiveBack, GiveBackFails, Other
    <3> QED
      BY <1>3, <3>1, <3>2
  <2>2. Elsewhere(s)
    BY <2>1 DEF Elsewhere
  <2> QED
    BY <1>0, <2>2, ServerKept DEF AllServers
<1> QED
  BY <1>1, <1>2, <1>3 DEF Next

(* How the exchanges proceed. *)
LEMMA Onward ==
    ASSUME BaseInv, [Next]_vars, ~Prepare
    PROVE  /\ UNCHANGED <<plan, index, group>> /\ ops' = ops
           /\ \A s \in Servers : gpc[s] \in {"open", "ended"} => gpc'[s] \in {"open", "ended"}
           /\ pc # "idle" => \A s \in Servers : gpc[s] \in {"none", "ended"} => gpc'[s] = gpc[s] /\ out'[s] = out[s]
<1>1. UNCHANGED <<plan, index, group>>
  BY DEF Next, vars, Start, Resolve, Finished, Unsent, Put, Cut, Finish, Lose, GiveUp, Ended,
         Barred, Execute, GiveBack, GiveBackFails, Other
<1>2. ASSUME NEW s \in Servers, pc # "idle" \/ gpc[s] \in {"open", "ended"}
      PROVE  /\ gpc[s] \in {"open", "ended"} => gpc'[s] \in {"open", "ended"}
             /\ pc # "idle" /\ gpc[s] \in {"none", "ended"} => gpc'[s] = gpc[s] /\ out'[s] = out[s]
  <2>0. TypeInv /\ pc # "idle"
    BY <1>2 DEF BaseInv, Phased
  <2>1. CASE UNCHANGED <<gpc, out>>
    BY <2>1
  <2>2. ASSUME NEW t \in Servers, Unsent(t) \/ Put(t) \/ Cut(t) \/ Finish(t) \/ Lose(t) \/ GiveUp(t)
        PROVE  /\ gpc[s] \in {"open", "ended"} => gpc'[s] \in {"open", "ended"}
               /\ gpc[s] \in {"none", "ended"} => gpc'[s] = gpc[s] /\ out'[s] = out[s]
    <3>1. gpc[t] \in {"new", "open"} /\ gpc'[t] \in {"open", "ended"}
      BY <2>0, <2>2 DEF Unsent, Put, Cut, Finish, Lose, GiveUp, Ended, TypeInv
    <3>2. s # t => gpc'[s] = gpc[s] /\ out'[s] = out[s]
      BY <2>0, <2>2 DEF Unsent, Put, Cut, Finish, Lose, GiveUp, Ended, TypeInv
    <3> QED
      BY <3>1, <3>2
  <2>3. CASE Resolve \/ Finished \/ UNCHANGED vars
             \/ (\E k \in Keys : GiveBack(k) \/ GiveBackFails(k) \/ Other(k))
             \/ \E t \in Servers : Barred(t) \/ Execute(t)
    <3>1. UNCHANGED <<gpc, out>>
      BY <2>3 DEF Resolve, Finished, vars, GiveBack, GiveBackFails, Other, Barred, Execute
    <3> QED
      BY <2>1, <3>1
  <2>4. ~Start
    BY <2>0 DEF Start
  <2> QED
    BY <2>2, <2>3, <2>4 DEF Next
<1> QED
  BY <1>1, <1>2 DEF ops

LEMMA PhasedStep ==
    ASSUME BaseInv, [Next]_vars
    PROVE  Phased'
<1>0. TypeInv /\ Phased
  BY DEF BaseInv
<1>1. CASE Prepare
  BY <1>0, <1>1 DEF Prepare, Phased
<1>2. CASE Start
  BY <1>0, <1>2 DEF Start, Phased, ops
<1>3. CASE Resolve
  BY <1>0, <1>3 DEF Resolve, Phased, ops, Busy
<1>4. CASE ~Prepare /\ ~Start /\ ~Resolve
  <2>1. UNCHANGED <<pc, ret, index, plan>>
    BY <1>4 DEF Next, vars, Finished, Unsent, Put, Cut, Finish, Lose, GiveUp, Ended,
         Barred, Execute, GiveBack, GiveBackFails, Other
  <2>2. CASE pc = "idle"
    <3>1. \A s \in Servers : gpc[s] = "none" /\ queue[s] = <<>>
      BY <1>0, <2>2 DEF Phased, BaseInv, AllServers, Server, Staged
    <3>2. UNCHANGED gpc
      BY <1>4, <3>1 DEF Next, vars, Finished, Unsent, Put, Cut, Finish, Lose, GiveUp,
         Barred, Execute, GiveBack, GiveBackFails, Other
    <3> QED
      BY <1>0, <2>1, <2>2, <3>2 DEF Phased
  <2>3. CASE pc = "exchanging"
    BY <1>0, <2>1, <2>3 DEF Phased, ops
  <2>4. CASE pc = "done"
    <3>1. \A s \in Servers : gpc[s] \in {"none", "ended"}
      BY <1>0, <2>4 DEF Phased, Busy, TypeInv
    <3>2. \A s \in Servers : gpc'[s] = gpc[s]
      BY <1>4, <2>4, <3>1, Onward
    <3> QED
      BY <1>0, <2>1, <2>4, <3>2 DEF Phased, Busy, ops
  <2> QED
    BY <1>0, <2>2, <2>3, <2>4 DEF TypeInv
<1> QED
  BY <1>1, <1>2, <1>3, <1>4

LEMMA ExecutedStep ==
    ASSUME BaseInv, [Next]_vars
    PROVE  AllExecuted'
<1>0. TypeInv /\ Grouped /\ Phased /\ AllExecuted
  BY DEF BaseInv
<1>1. CASE Prepare
  <2>1. UNCHANGED <<plan, did, gpc>> /\ ops' = ops /\ pc = "idle"
    BY <1>1 DEF Prepare, ops
  <2>2. ASSUME NEW i \in DOMAIN ops PROVE did[i] = "none"
    <3>1. did[i] # "none" => i \in 1..index /\ gpc[home(i)] \in {"open", "ended"}
      BY <1>0 DEF AllExecuted, Executed
    <3>2. i \in 1..index => gpc[home(i)] = "none"
      BY <1>0, <2>1, AtHome DEF Phased
    <3> QED
      BY <3>1, <3>2
  <2> QED
    BY <2>1, <2>2 DEF AllExecuted, Executed
<1>2. CASE ~Prepare
  <2>1. UNCHANGED <<plan, index>> /\ ops' = ops /\ \A x : home(x)' = home(x)
    BY <1>2, Onward DEF home, ops
  <2>2. ASSUME NEW i \in DOMAIN ops, did'[i] = did[i] /\ ranAt'[i] = ranAt[i] PROVE Executed(i)'
    <3> SUFFICES ASSUME did[i] # "none" PROVE Executed(i)'
      BY <2>2 DEF Executed
    <3>1. /\ i \in 1..index /\ did[i] \in CodesOf(ops[i])
          /\ ranAt[i] = home(i) /\ gpc[home(i)] \in {"open", "ended"}
      BY <1>0 DEF AllExecuted, Executed
    <3>2. gpc'[home(i)] \in {"open", "ended"}
      BY <1>0, <1>2, <3>1, AtHome, Onward
    <3> QED
      BY <2>1, <2>2, <3>1, <3>2 DEF Executed
  <2>3. ASSUME NEW s \in Servers, Execute(s) PROVE AllExecuted'
    <3> PICK i : i = Head(queue[s])
      OBVIOUS
    <3> DEFINE r == Answer(i, store[ops[i].key])
    <3>1. /\ i \in Elems(group[s]) /\ i \in DOMAIN ops /\ home(i) = s
          /\ r.code \in CodesOf(ops[i]) /\ Ran(s, i, r.code, r.by) /\ ranAt'[i] = s
          /\ \A x \in DOMAIN ops : x # i => did'[x] = did[x] /\ ranAt'[x] = ranAt[x]
          /\ UNCHANGED gpc
      BY <2>3, ExecuteParts
    <3>2. gpc[s] \in {"open", "ended"} /\ i \in 1..index
      BY <1>0, <2>3, <3>1, NextCommand, GroupParts DEF Execute
    <3> HIDE DEF r
    <3>3. did'[i] = r.code
      BY <3>1 DEF Ran
    <3>4. Executed(i)'
      BY <2>1, <3>1, <3>2, <3>3 DEF Executed
    <3> QED
      BY <2>1, <2>2, <3>1, <3>4 DEF AllExecuted
  <2>4. CASE ~\E s \in Servers : Execute(s)
    <3>1. UNCHANGED <<did, ranAt>>
      BY <1>2, <2>4 DEF Next, vars, Start, Resolve, Finished, Unsent, Put, Cut, Finish, Lose, GiveUp,
           Ended, Barred, GiveBack, GiveBackFails, Other
    <3> QED
      BY <2>1, <2>2, <3>1 DEF AllExecuted
  <2> QED
    BY <2>3, <2>4
<1> QED
  BY <1>1, <1>2

LEMMA TypeStep ==
    ASSUME BaseInv, [Next]_vars
    PROVE  TypeInv'
<1>1. TypeInv
  BY DEF BaseInv
<1> QED
  BY <1>1, TypeLocal, TypeExchange, TypeServer, TypeKey DEF Next

LEMMA BaseStep == BaseInv /\ [Next]_vars => BaseInv'
BY TypeStep, GroupedStep, PhasedStep, ServersStep, ExecutedStep DEF BaseInv

LEMMA BaseAlways == Spec => []BaseInv
BY BaseInit, BaseStep, PTL DEF Spec

-----------------------------------------------------------------------------
(* What the results say *)

LEMMA ResolveSame ==
    ASSUME UNCHANGED <<plan, group>>, NEW i, out'[at(i)] = out[at(i)]
    PROVE  resolveGroup(i, out[at(i)])' = resolveGroup(i, out[at(i)])
<1>1. ops' = ops /\ group' = group
  BY DEF ops
<1>2. at(i)' = at(i)
  BY <1>1 DEF at, Elems
<1>3. end(i)' = end(i)
  BY <1>1, <1>2 DEF end
<1>4. out[at(i)]' = out[at(i)]
  BY <1>2
<1>5. failed(i, out[at(i)])' = failed(i, out[at(i)])
  BY <1>1, <1>3, <1>4 DEF failed
<1>6. parseFailure(at(i), out[at(i)])' <=> parseFailure(at(i), out[at(i)])
  BY <1>1, <1>2, <1>4 DEF parseFailure, Elems
<1>7. inferable(i, out[at(i)])' <=> inferable(i, out[at(i)])
  BY <1>1, <1>4, <1>6 DEF inferable
<1>8. parseBatchResponse(i, ResponseTo(out[at(i)], i))' = parseBatchResponse(i, ResponseTo(out[at(i)], i))
  BY <1>1, <1>4 DEF parseBatchResponse
<1> QED
  BY <1>1, <1>4, <1>5, <1>7, <1>8 DEF resolveGroup

LEMMA ConcludedStep ==
    ASSUME BaseInv, Concluded, [Next]_vars
    PROVE  Concluded'
<1> SUFFICES ASSUME pc' = "done", ret' # "refused" PROVE Concluded'
  BY DEF Concluded
<1>0. TypeInv /\ Grouped /\ Phased
  BY DEF BaseInv
<1>1. ~Prepare /\ ~Start
  BY <1>0 DEF Prepare, Start, Phased
<1>2. UNCHANGED <<plan, index, group>> /\ ops' = ops
  BY <1>1, Onward
<1>3. \A x : Surfaces(x)' <=> Surfaces(x)
  BY DEF Surfaces, absorb
<1>4. CASE Resolve
  <2>1. /\ res' = [i \in DOMAIN ops |-> resolveGroup(i, out[at(i)])] /\ UNCHANGED out
        /\ ret' = IF plan.verb # "batch" /\ firstErr(res') THEN "error" ELSE "nil"
    BY <1>4 DEF Resolve
  <2>2. \A i : resolveGroup(i, out[at(i)])' = resolveGroup(i, out[at(i)])
    BY <1>2, <2>1, ResolveSame
  <2>3. firstErr(res)' <=> firstErr(res')
    BY <1>2 DEF firstErr, Surfaces, absorb
  <2> QED
    BY <1>2, <2>1, <2>2, <2>3 DEF Concluded
<1>5. CASE ~Resolve
  <2>1. UNCHANGED <<pc, res, ret>>
    BY <1>1, <1>5 DEF Next, vars, Finished, Unsent, Put, Cut, Finish, Lose, GiveUp, Ended,
         Barred, Execute, GiveBack, GiveBackFails, Other
  <2>2. /\ res = [i \in DOMAIN ops |-> resolveGroup(i, out[at(i)])]
        /\ ret = IF plan.verb # "batch" /\ firstErr(res) THEN "error" ELSE "nil"
        /\ index = Len(ops) /\ Busy = {}
    BY <1>0, <2>1 DEF Concluded, Phased
  <2>3. \A s \in Servers : out'[s] = out[s]
    BY <1>1, <2>1, <2>2, Onward DEF Busy, BaseInv, TypeInv
  <2>4. ASSUME NEW i \in DOMAIN ops PROVE resolveGroup(i, out[at(i)])' = resolveGroup(i, out[at(i)])
    <3>1. i \in 1..index
      BY <1>0, <2>2, <2>4, PlanParts
    <3>2. at(i) \in Servers
      BY <1>0, <3>1, AtHome
    <3> QED
      BY <1>2, <2>3, <3>2, ResolveSame
  <2>5. firstErr(res)' <=> firstErr(res)
    BY <1>2, <2>1 DEF firstErr, Surfaces, absorb
  <2>6. res' = [i \in DOMAIN ops' |-> resolveGroup(i, out[at(i)])']
    BY <1>2, <2>1, <2>2, <2>4
  <2> QED
    BY <1>2, <2>1, <2>2, <2>5, <2>6 DEF Concluded
<1> QED
  BY <1>4, <1>5

(* Where a result comes from. *)
LEMMA ResultSource ==
    ASSUME BaseInv, Concluded, Returned, NEW i \in DOMAIN ops
    PROVE  \E s \in Servers : \E a \in DOMAIN group[s] :
             /\ group[s][a] = i /\ at(i) = s /\ home(i) = s /\ i \in Elems(group[s])
             /\ gpc[s] = "ended" /\ Over(s) /\ end(i) = Unit * a
             /\ res[i] = resolveGroup(i, out[s])
             /\ \A t \in Servers : i \in Elems(queue[t]) => t = s
<1>0. TypeInv /\ Grouped /\ Phased /\ AllServers
  BY DEF BaseInv
<1>1. index = Len(ops) /\ Busy = {} /\ res = [x \in DOMAIN ops |-> resolveGroup(x, out[at(x)])]
  BY <1>0 DEF Returned, Phased, Concluded
<1>2. i \in 1..index /\ i # 0
  BY <1>0, <1>1, PlanParts
<1>3. PICK s \in Servers : s = home(i) /\ at(i) = s
  BY <1>0, <1>2, AtHome
<1>4. i \in Elems(group[s])
  BY <1>0, <1>2, <1>3 DEF Grouped
<1>5. PICK a \in DOMAIN group[s] : group[s][a] = i
  BY <1>4 DEF Elems
<1>6. end(i) = Unit * a
  BY <1>0, <1>5, EndAt
<1>7. gpc[s] = "ended" /\ Over(s)
  <2>1. Server(s) /\ gpc[s] \notin {"new", "open"}
    BY <1>0, <1>1 DEF AllServers, Busy
  <2>2. gpc[s] # "none"
    <3>1. gpc[s] = "none" => group[s] = <<>>
      BY <2>1 DEF Server, Staged, Returned
    <3> QED
      BY <1>5, <3>1
  <2> QED
    BY <1>0, <2>1, <2>2 DEF Server, TypeInv
<1>8. ASSUME NEW t \in Servers, i \in Elems(queue[t]) PROVE t = s
  <2>1. Queued(t)
    BY <1>0 DEF AllServers, Server
  <2>2. i \in Elems(group[t])
    BY <1>2, <1>8, <2>1 DEF Queued, Elems
  <2> QED
    BY <1>0, <1>4, <2>2, GroupsApart
<1> QED
  BY <1>1, <1>3, <1>4, <1>5, <1>6, <1>7, <1>8

LEMMA TagCount ==
    ASSUME NEW o \in Outcomes, NEW i
    PROVE  /\ Tagged(o, i) = {} <=> ~badIndex(o, i) /\ ~byIndex(o, i)
           /\ (\A j, k \in Tagged(o, i) : j = k) => ~badIndex(o, i)
<1> DEFINE T == Tagged(o, i)
<1>1. o.resp \in Seq(Responses) /\ DOMAIN o.resp = 1..Len(o.resp) /\ Len(o.resp) \in Nat
  BY LenProperties DEF Outcomes
<1>2. IsFiniteSet(T)
  <2>1. IsFiniteSet(1..Len(o.resp))
    BY <1>1, FS_Interval
  <2>2. T \subseteq 1..Len(o.resp)
    BY <1>1 DEF Tagged
  <2> QED
    BY <2>1, <2>2, FS_Subset
<1>3. Cardinality(T) \in Nat /\ (Cardinality(T) = 0 <=> T = {})
  BY <1>2, FS_CardinalityType, FS_EmptySet
<1>4. T = {} <=> ~badIndex(o, i) /\ ~byIndex(o, i)
  <2> HIDE DEF T
  <2>1. (badIndex(o, i) <=> Cardinality(T) > 1) /\ (byIndex(o, i) <=> Cardinality(T) = 1)
    BY DEF badIndex, byIndex, T
  <2>2. Cardinality(T) = 0 <=> ~(Cardinality(T) > 1) /\ ~(Cardinality(T) = 1)
    BY <1>3
  <2> QED
    BY <1>3, <2>1, <2>2
<1>5. ASSUME \A j, k \in T : j = k PROVE ~badIndex(o, i)
  <2>1. CASE T = {}
    BY <1>4, <2>1
  <2>2. CASE T # {}
    <3>1. PICK j \in T : TRUE
      BY <2>2
    <3>2. T = {j}
      BY <1>5, <3>1
    <3>3. Cardinality(T) = 1
      BY <3>2, FS_Singleton
    <3> QED
      BY <3>3 DEF badIndex
  <2> QED
    BY <2>1, <2>2
<1> QED
  BY <1>4, <1>5

LEMMA StatusParts == \A st : Status(st).st = st /\ Status(st).returns = FALSE
BY DEF Status, NoResult

(* A response that is used tells what the server did. *)
LEMMA ParsedHonest ==
    ASSUME TypeInv, NEW i \in DOMAIN ops, NEW r \in Responses,
           r.code \in CodesOf(ops[i]), NEW x, x = parseBatchResponse(i, r)
    PROVE  /\ x.st \in Typed(ops[i].kind) \cup {"unreadable"} /\ r.code \in Means(x.st)
           /\ x.st = "hit" => x.by = r.by
           /\ x.st = "unreadable" => r.bad
<1> DEFINE op == ops[i]
<1>1. CASE r.bad
  <2>1. x.st = "unreadable"
    BY <1>1, StatusParts DEF parseBatchResponse
  <2>2. r.code \in Codes
    BY DEF CodesOf, Codes
  <2> QED
    BY <1>1, <2>1, <2>2 DEF Means
<1>2. CASE ~r.bad /\ r.code = "EN"
  <2>1. x.st = "miss"
    BY <1>2, StatusParts DEF parseBatchResponse
  <2>2. op.kind = "get"
    BY <1>2 DEF CodesOf
  <2> QED
    BY <1>2, <2>1, <2>2 DEF Means, Typed
<1>3. CASE ~r.bad /\ r.code # "EN"
  <2>2. CASE op.kind = "get"
    <3>0. x = semanticGet(op, r)
      BY <1>3, <2>2 DEF parseBatchResponse
    <3>1. r.code = "VA"
      BY <1>3, <2>2 DEF CodesOf
    <3>2. \/ x = Status(IF r.won THEN "lease" ELSE "pending")
          \/ x = [st |-> "hit", by |-> r.by, empty |-> r.empty, returns |-> r.won /\ r.stale]
      BY <3>0 DEF semanticGet
    <3>3. x.st \in {"lease", "pending"} \/ (x.st = "hit" /\ x.by = r.by)
      <4>1. CASE x = Status(IF r.won THEN "lease" ELSE "pending")
        BY <4>1, StatusParts
      <4>2. CASE x = [st |-> "hit", by |-> r.by, empty |-> r.empty, returns |-> r.won /\ r.stale]
        BY <4>2
      <4> QED
        BY <3>2, <4>1, <4>2
    <3> QED
      BY <2>2, <3>1, <3>3 DEF Means, Typed
  <2>3. CASE op.kind # "get"
    <3>1. r.code \in {"HD", "VA", "NS", "NF"}
      BY <2>3 DEF CodesOf
    <3>2. x.st = IF r.code \in {"HD", "VA"} THEN "applied" ELSE IF r.code = "NS" THEN "exists" ELSE "notfound"
      BY <1>3, <2>3, StatusParts DEF parseBatchResponse, semantic
    <3> QED
      BY <2>3, <3>1, <3>2 DEF Means, Typed
  <2> QED
    BY <2>2, <2>3
<1> QED
  BY <1>1, <1>2, <1>3

Failures == {"ambiguous", "ctx", "error"}

(* Every result: by its response, inferred from the barrier, or an error. *)
LEMMA ResultFacts ==
    ASSUME BaseInv, Concluded, Returned, NEW i \in DOMAIN ops
    PROVE  /\ did[i] \in Codes
           /\ res[i].st \in Typed(ops[i].kind) \cup Errors
           /\ did[i] \in Means(res[i].st)
           /\ res[i].st = "hit" => res[i].by = saw[i]
           /\ res[i].st = "unreadable" => did[i] # "none"
           /\ res[i].st \in {"error", "ctx"} /\ sideEffect(ops[i]) => Never(i)
<1>0. TypeInv /\ Grouped /\ AllExecuted
  BY DEF BaseInv
<1>1. PICK s \in Servers : \E a \in DOMAIN group[s] :
             /\ group[s][a] = i /\ at(i) = s /\ home(i) = s /\ i \in Elems(group[s])
             /\ gpc[s] = "ended" /\ Over(s) /\ end(i) = Unit * a
             /\ res[i] = resolveGroup(i, out[s])
             /\ \A t \in Servers : i \in Elems(queue[t]) => t = s
  BY ResultSource
<1>2. PICK a \in DOMAIN group[s] :
             /\ group[s][a] = i /\ at(i) = s /\ home(i) = s /\ i \in Elems(group[s])
             /\ gpc[s] = "ended" /\ Over(s) /\ end(i) = Unit * a
             /\ res[i] = resolveGroup(i, out[s])
             /\ \A t \in Servers : i \in Elems(queue[t]) => t = s
  BY <1>1
<1> DEFINE o == out[s]
<1>3. o \in Outcomes /\ did[i] \in Codes /\ ops[i] \in Operations
  BY <1>0, PlanParts DEF TypeInv
<1>4. did[i] # "none" => did[i] \in CodesOf(ops[i])
  BY <1>0 DEF AllExecuted, Executed
<1> HIDE DEF o
<1>5. /\ \A b \in DOMAIN group[s] : o.written < Unit * b =>
             did[group[s][b]] = "none" /\ group[s][b] \notin Elems(queue[s])
      /\ Reported(s, o.resp)
      /\ Closes(o.resp) => (\A x \in Elems(group[s]) : did[x] # "none") /\ Complete(s, o.resp)
  BY <1>2 DEF Over, o
<1>6. CASE res[i] = Status(failed(i, o))
  <2>1. res[i].st = failed(i, o)
    BY <1>6, StatusParts
  <2>2. failed(i, o) \in Failures
    BY DEF failed, Failures
  <2>3. did[i] \in Means(res[i].st)
    BY <1>3, <2>1, <2>2 DEF Means, Failures
  <2>4. ASSUME res[i].st \in {"error", "ctx"}, sideEffect(ops[i]) PROVE Never(i)
    <3>1. ~(o.written >= end(i))
      BY <2>1, <2>4 DEF failed
    <3>2. o.written \in Nat /\ a \in Nat
      BY <1>0, <1>2, <1>3, GroupParts DEF Outcomes
    <3>3. o.written < Unit * a
      BY <1>2, <3>1, <3>2 DEF Unit
    <3>4. did[i] = "none" /\ i \notin Elems(queue[s])
      BY <1>2, <1>5, <3>3
    <3> QED
      BY <1>2, <3>4 DEF Never
  <2> QED
    BY <1>3, <2>1, <2>2, <2>3, <2>4 DEF Failures, Errors
<1>7. CASE byIndex(o, i) /\ res[i] = parseBatchResponse(i, ResponseTo(o, i))
  <2>1. PICK j \in DOMAIN o.resp :
             /\ ResponseTo(o, i) = o.resp[j] /\ o.resp[j].op = i /\ o.resp[j].code # "MN"
             /\ o.resp[j] \in Responses
    BY <1>3, <1>7, TaggedResponse
  <2>2. did[i] # "none" /\ o.resp[j].code = did[i] /\ o.resp[j].by = saw[i]
    BY <1>2, <1>5, <2>1 DEF Reported
  <2>3. o.resp[j].code \in CodesOf(ops[i])
    BY <1>4, <2>2
  <2>4. /\ res[i].st \in Typed(ops[i].kind) \cup {"unreadable"} /\ did[i] \in Means(res[i].st)
        /\ res[i].st = "hit" => res[i].by = saw[i]
    BY <1>0, <1>7, <2>1, <2>2, <2>3, ParsedHonest
  <2>5. res[i].st \notin {"error", "ctx"}
    BY <2>4 DEF Typed
  <2> QED
    BY <1>3, <2>2, <2>4, <2>5 DEF Errors
<1>8. CASE ~badIndex(o, i) /\ ~byIndex(o, i) /\ inferable(i, o) /\ res[i] = inferQuietResult(ops[i])
  <2>1. Tagged(o, i) = {}
    BY <1>3, <1>8, TagCount
  <2>2. Closes(o.resp) /\ ~Strange(s, o.resp) /\ ~successResponseRequired(ops[i])
    BY <1>2, <1>8 DEF inferable, barrier, Closes, parseFailure, Strange
  <2>3. did[i] # "none" /\ Suppressed(ops[i], did[i])
    BY <1>2, <1>5, <2>1, <2>2 DEF Complete, Tags, Tagged
  <2>4. res[i].st = IF ops[i].kind = "get" THEN "miss" ELSE "applied"
    BY <1>8, StatusParts DEF inferQuietResult
  <2> QED
    BY <1>3, <2>3, <2>4 DEF Suppressed, Means, Typed
<1> QED
  BY <1>2, <1>6, <1>7, <1>8 DEF resolveGroup, o

(* Nothing of a refused call was or will be executed. *)
LEMMA RefusedFacts ==
    ASSUME BaseInv, ret = "refused", NEW i \in DOMAIN ops
    PROVE  Never(i)
<1>0. TypeInv /\ Grouped /\ Phased /\ AllServers /\ AllExecuted
  BY DEF BaseInv
<1>1. \A s \in Servers : gpc[s] = "none"
  BY <1>0 DEF Phased, TypeInv
<1>2. \A s \in Servers : queue[s] = <<>>
  BY <1>0, <1>1 DEF AllServers, Server, Staged
<1>3. did[i] = "none"
  <2>1. did[i] # "none" => i \in 1..index /\ gpc[home(i)] \in {"open", "ended"}
    BY <1>0 DEF AllExecuted, Executed
  <2> QED
    BY <1>0, <1>1, <2>1, AtHome
<1> QED
  BY <1>2, <1>3 DEF Never, Elems

(* What a whole pipeline without a fault says of each operation. *)
LEMMA IsolationFacts ==
    ASSUME BaseInv, Concluded, Returned, NEW i \in DOMAIN ops,
           out[at(i)].err = "none", at(i) \notin faulty
    PROVE  res[i].st \notin Errors
<1>0. TypeInv /\ Grouped /\ AllExecuted
  BY DEF BaseInv
<1>1. PICK s \in Servers : /\ at(i) = s /\ i \in Elems(group[s]) /\ gpc[s] = "ended" /\ Over(s)
                           /\ res[i] = resolveGroup(i, out[s])
  BY ResultSource
<1> DEFINE o == out[s]
<1>2. o \in Outcomes /\ o.err = "none"
  BY <1>0, <1>1 DEF TypeInv
<1>3. Closes(o.resp) /\ Reported(s, o.resp) /\ Sound(s, o.resp) /\ did[i] # "none"
  BY <1>1, <1>2 DEF Over
<1>3a. res[i] = resolveGroup(i, o)
  BY <1>1
<1> HIDE DEF o
<1>4. did[i] \in CodesOf(ops[i])
  BY <1>0, <1>3 DEF AllExecuted, Executed
<1>5. ~badIndex(o, i)
  <2>1. \A j, k \in Tagged(o, i) : j = k
    BY <1>3 DEF Sound, Tagged
  <2> QED
    BY <1>2, <2>1, TagCount
<1>6. CASE byIndex(o, i)
  <2>1. PICK j \in DOMAIN o.resp :
             /\ ResponseTo(o, i) = o.resp[j] /\ o.resp[j].op = i /\ o.resp[j].code # "MN"
             /\ o.resp[j] \in Responses
    BY <1>2, <1>6, TaggedResponse
  <2>2. o.resp[j].code = did[i] /\ ~o.resp[j].bad
    BY <1>1, <1>3, <2>1 DEF Reported, Sound
  <2>3. res[i] = parseBatchResponse(i, o.resp[j])
    BY <1>3a, <1>5, <1>6, <2>1 DEF resolveGroup
  <2>4. res[i].st \in Typed(ops[i].kind) \cup {"unreadable"} /\ res[i].st # "unreadable"
    BY <1>0, <1>4, <2>1, <2>2, <2>3, ParsedHonest
  <2> QED
    BY <2>4 DEF Typed, Errors
<1>7. CASE ~byIndex(o, i)
  <2>1. Tagged(o, i) = {}
    BY <1>2, <1>5, <1>7, TagCount
  <2>2. Suppressed(ops[i], did[i])
    BY <1>1, <1>3, <2>1 DEF Sound, Tags, Tagged
  <2>3. ~successResponseRequired(ops[i])
    BY <1>4, <2>2 DEF Suppressed, quiet, successResponseRequired, CodesOf
  <2>4. ~parseFailure(s, o) /\ barrier(o)
    BY <1>3 DEF parseFailure, barrier, Closes, Sound
  <2>5. res[i] = inferQuietResult(ops[i])
    BY <1>1, <1>3a, <1>5, <1>7, <2>3, <2>4 DEF resolveGroup, inferable
  <2> QED
    BY <2>5, StatusParts DEF inferQuietResult, Errors
<1> QED
  BY <1>6, <1>7

-----------------------------------------------------------------------------
(* Theorems *)

LEMMA ConcludedAlways == Spec => [](BaseInv /\ Concluded)
<1>1. Init => Concluded
  BY DEF Init, Concluded
<1> QED
  BY <1>1, BaseInit, BaseStep, ConcludedStep, PTL DEF Spec

(* Every OperationResult of a batch can be trusted, whatever number of     *)
(* servers, operations and faults: what resolveGroup reports, read from a  *)
(* response or inferred from the silence before the barrier, is what the   *)
(* server did, and a side effect reported as failed and not Ambiguous has  *)
(* not happened and will not.                                              *)
THEOREM ResultsHonest == Spec => []HonestResults
<1>1. BaseInv /\ Concluded => HonestResults
  <2> SUFFICES ASSUME BaseInv, Concluded PROVE HonestResults
    OBVIOUS
  <2>1. ret = "refused" => \A i \in DOMAIN ops : Never(i)
    BY RefusedFacts
  <2>2. ASSUME Returned, NEW i \in DOMAIN ops
        PROVE  /\ res[i].st \in Typed(ops[i].kind) \cup Errors
               /\ did[i] \in Means(res[i].st)
               /\ res[i].st = "hit" => res[i].by = saw[i]
               /\ res[i].st \in {"error", "ctx"} /\ sideEffect(ops[i]) => Never(i)
    BY <2>2, ResultFacts
  <2> QED
    BY <2>1, <2>2 DEF HonestResults
<1> QED
  BY <1>1, ConcludedAlways, PTL

(* The pipelines of a batch are independent: an operation whose pipeline   *)
(* came back whole has its result, however many others failed.             *)
THEOREM BackendsIsolated == Spec => []BackendIsolation
<1>1. BaseInv /\ Concluded => BackendIsolation
  BY IsolationFacts DEF BackendIsolation
<1> QED
  BY <1>1, ConcludedAlways, PTL

(* A nil error of GetMany, SetMany or DeleteMany is never a silent loss:   *)
(* each operation ran or, absorbed by Degrade, never will or only reads.   *)
THEOREM NilIsDone == Spec => []NilMeansDone
<1>1. BaseInv /\ Concluded => NilMeansDone
  <2> SUFFICES ASSUME BaseInv, Concluded, Returned, plan.verb # "batch", ret = "nil",
                      NEW i \in DOMAIN ops
               PROVE  \/ did[i] # "none"
                      \/ Degrade /\ Never(i)
                      \/ Degrade /\ ~sideEffect(ops[i])
    BY DEF NilMeansDone
  <2>1. ~Surfaces(res[i])
    <3>1. ~firstErr(res)
      BY DEF Concluded, Returned
    <3> QED
      BY <3>1 DEF firstErr
  <2>2. /\ res[i].st \in Typed(ops[i].kind) \cup Errors
        /\ did[i] \in Means(res[i].st)
        /\ res[i].st = "unreadable" => did[i] # "none"
        /\ res[i].st \in {"error", "ctx"} /\ sideEffect(ops[i]) => Never(i)
    BY ResultFacts
  <2>3. CASE res[i].st \notin Errors
    BY <2>2, <2>3 DEF Typed, Means
  <2>4. CASE res[i].st \in Errors
    <3>1. Degrade /\ res[i].st \in {"unreadable", "error"}
      BY <2>1, <2>4 DEF Surfaces, absorb, Errors
    <3> QED
      BY <2>2, <3>1
  <2> QED
    BY <2>3, <2>4
<1> QED
  BY <1>1, ConcludedAlways, PTL

(* Every operation runs at the server of the address that the router       *)
(* chose, although a custom router counts in a list of its own order.      *)
THEOREM RunsAtItsServer == Spec => []RunsWhereRouted
<1>1. BaseInv => RunsWhereRouted
  <2> SUFFICES ASSUME BaseInv, plan.custom, NEW i \in DOMAIN ops, did[i] # "none"
               PROVE  ServerList[ranAt[i]] = Custom.order[Custom.index[ops[i].key]]
    BY DEF RunsWhereRouted
  <2>1. ranAt[i] = home(i) /\ i \in 1..index
    BY DEF BaseInv, AllExecuted, Executed
  <2>2. home(i) # NoServer
    BY <2>1 DEF BaseInv, Grouped, valid
  <2> DEFINE n == Custom.index[ops[i].key]
             pools == {x \in DOMAIN ServerList : n \in DOMAIN Custom.order
                                                   /\ ServerList[x] = Custom.order[n]}
  <2>3. home(i) = IF pools = {} THEN NoServer ELSE CHOOSE x \in pools : TRUE
    BY DEF home, server
  <2>4. home(i) \in pools
    BY <2>2, <2>3
  <2> QED
    BY <2>1, <2>4
<1> QED
  BY <1>1, BaseAlways, PTL

-----------------------------------------------------------------------------
(* The order of the operations on one key *)

(* What a set that took effect left, or a later delete took away. *)
Keeps(i) ==
    ops[i].kind = "set" /\ did[i] = "HD" =>
        \/ \E m \in DOMAIN ops : /\ i < m /\ ops[m].key = ops[i].key
                                 /\ ops[m].kind = "delete" /\ did[m] # "none"
        \/ LET it == store[ops[i].key] IN
             /\ it.has /\ it.by \in DOMAIN ops /\ i <= it.by
             /\ did[it.by] # "none" /\ ops[it.by].key = ops[i].key

Between(i, j) == \E m \in DOMAIN ops : /\ i < m /\ m < j /\ ops[m].key = ops[i].key
                                       /\ ops[m].kind = "delete"

ReadAfter(i, j) ==
    /\ i < j /\ ops[i].key = ops[j].key
    /\ ops[i].kind = "set" /\ did[i] = "HD" /\ ops[j].kind = "get" /\ did[j] # "none"
    => \/ did[j] = "VA" /\ saw[j] \in DOMAIN ops /\ i <= saw[j] /\ saw[j] < j
       \/ Between(i, j)

OrderInv == env = 0 => \A i \in DOMAIN ops : Keeps(i) /\ \A j \in DOMAIN ops : ReadAfter(i, j)

(* A key has one server, which executes in input order. *)
LEMMA InOrder ==
    ASSUME BaseInv, NEW s \in Servers, Execute(s), NEW y \in DOMAIN ops, did[y] # "none",
           ops[y].key = ops[Head(queue[s])].key
    PROVE  y < Head(queue[s])
<1> DEFINE x == Head(queue[s])
<1>1. /\ queue[s] # <<>> /\ x # 0 /\ x = queue[s][1] /\ Len(queue[s]) \in Nat \ {0} /\ home(x) = s
      /\ queue[s] \in Seq(Nat)
  BY NextCommand DEF Execute
<1>2. 1 \in DOMAIN queue[s]
  BY <1>1, LenProperties
<1>3. y \in 1..index
  BY DEF BaseInv, AllExecuted, Executed
<1>4. home(y) = s
  BY <1>1 DEF home
<1>5. y \in Elems(group[s])
  BY <1>3, <1>4 DEF BaseInv, Grouped
<1>6. Queued(s)
  BY DEF BaseInv, AllServers, Server
<1> QED
  BY <1>1, <1>2, <1>5, <1>6 DEF Queued

(* What an operation does to an item. *)
LEMMA AfterFacts ==
    ASSUME TypeInv, NEW x \in DOMAIN ops, NEW it \in Items
    PROVE  /\ ops[x].kind = "get" /\ it.has => /\ After(x, it).has /\ After(x, it).by = it.by
                                               /\ Code(ops[x], it) = "VA"
           /\ ops[x].kind = "set" /\ Code(ops[x], it) = "HD" => After(x, it).has /\ After(x, it).by = x
           /\ ops[x].kind = "set" /\ Code(ops[x], it) # "HD" => After(x, it) = it
           /\ ops[x].kind \notin {"set", "delete"} /\ it.has =>
                After(x, it).has /\ After(x, it).by \in {it.by, x}
<1>1. [it EXCEPT !.won = it.won \/ it.stale].has = it.has /\ [it EXCEPT !.won = it.won \/ it.stale].by = it.by
  BY DEF Items
<1>2. [it EXCEPT !.by = x, !.empty = FALSE].has = it.has /\ [it EXCEPT !.by = x, !.empty = FALSE].by = x
  BY DEF Items
<1>3. Stored(x, FALSE, FALSE).has /\ Stored(x, FALSE, FALSE).by = x
  BY DEF Stored
<1>4. ASSUME ops[x].kind = "get", it.has PROVE After(x, it) = [it EXCEPT !.won = it.won \/ it.stale]
  BY <1>4 DEF After
<1>5. ASSUME ops[x].kind = "set" PROVE After(x, it) = IF Code(ops[x], it) = "HD" THEN Stored(x, FALSE, FALSE) ELSE it
  BY <1>5 DEF After
<1>6. ASSUME ops[x].kind \notin {"get", "set", "delete"}, it.has
      PROVE  After(x, it) = [it EXCEPT !.by = x, !.empty = FALSE]
  BY <1>6 DEF After
<1>7. ops[x].kind = "get" /\ it.has => Code(ops[x], it) = "VA"
  BY DEF Code
<1> QED
  BY <1>1, <1>2, <1>3, <1>4, <1>5, <1>6, <1>7

LEMMA OrderExecute ==
    ASSUME BaseInv, OrderInv, NEW s \in Servers, Execute(s), env = 0, NEW i \in DOMAIN ops
    PROVE  Keeps(i)' /\ \A j \in DOMAIN ops : ReadAfter(i, j)'
<1>0. TypeInv
  BY DEF BaseInv
<1>1. PICK x : x = Head(queue[s])
  OBVIOUS
<1> DEFINE k == ops[x].key
           it == store[k]
           r == Answer(x, it)
<1>2. /\ x \in DOMAIN ops /\ r.code = Code(ops[x], it) /\ r.by = After(x, it).by
      /\ Ran(s, x, r.code, r.by)
      /\ \A y \in DOMAIN ops : y # x => did'[y] = did[y] /\ saw'[y] = saw[y]
      /\ UNCHANGED <<plan, env>> /\ ops' = ops
  <2>1. r.by = After(x, it).by
    BY DEF Answer
  <2>2. /\ x \in DOMAIN ops /\ r.code = Code(ops[x], it) /\ Ran(s, x, r.code, r.by)
        /\ \A y \in DOMAIN ops : y # x => did'[y] = did[y] /\ saw'[y] = saw[y]
        /\ UNCHANGED <<plan, env>>
    BY <1>1, ExecuteParts
  <2>3. ops' = ops
    BY <2>2 DEF ops
  <2> QED
    BY <2>1, <2>2, <2>3
<1>3. did'[x] = r.code /\ did'[x] # "none" /\ saw'[x] = r.by /\ did[x] = "none"
  BY <1>2 DEF Ran
<1>4. it \in Items /\ k \in Keys /\ store' = [store EXCEPT ![k] = After(x, it)]
  BY <1>0, <1>1, <1>2, PlanParts DEF TypeInv, Execute
<1>5. store'[k] = After(x, it) /\ \A l \in Keys : l # k => store'[l] = store[l]
  BY <1>0, <1>4 DEF TypeInv
<1>6. \A y \in DOMAIN ops : did[y] # "none" /\ ops[y].key = k => y < x
  BY <1>1, InOrder
<1>7. DOMAIN ops \subseteq Nat /\ \A y \in DOMAIN ops : ops[y].key \in Keys
  BY <1>0, PlanParts
<1>8. Keeps(i) /\ \A j \in DOMAIN ops : ReadAfter(i, j)
  BY DEF OrderInv
<1>9. /\ ops[x].kind = "get" /\ it.has => store'[k].has /\ store'[k].by = it.by /\ did'[x] = "VA"
      /\ ops[x].kind = "set" /\ did'[x] = "HD" => store'[k].has /\ store'[k].by = x
      /\ ops[x].kind = "set" /\ did'[x] # "HD" => store'[k] = it
      /\ ops[x].kind \notin {"set", "delete"} /\ it.has => store'[k].has /\ store'[k].by \in {it.by, x}
  BY <1>0, <1>2, <1>3, <1>4, <1>5, AfterFacts
<1>9a. saw'[x] = store'[k].by
  BY <1>2, <1>3, <1>5
<1>9b. it = store[k] /\ k = ops[x].key
  OBVIOUS
<1> HIDE DEF r, it, k
<1>10. Keeps(i)'
  <2> SUFFICES ASSUME ops[i].kind = "set", did'[i] = "HD"
               PROVE  \/ \E m \in DOMAIN ops : /\ i < m /\ ops[m].key = ops[i].key
                                               /\ ops[m].kind = "delete" /\ did'[m] # "none"
                      \/ /\ store'[ops[i].key].has /\ store'[ops[i].key].by \in DOMAIN ops
                         /\ i <= store'[ops[i].key].by /\ did'[store'[ops[i].key].by] # "none"
                         /\ ops[store'[ops[i].key].by].key = ops[i].key
    BY <1>2 DEF Keeps
  <2>1. CASE i = x
    BY <1>3, <1>7, <1>9, <1>9b, <1>2, <2>1
  <2>2. CASE i # x
    <3>1. did[i] = "HD"
      BY <1>2, <2>2
    <3>2. CASE \E m \in DOMAIN ops : /\ i < m /\ ops[m].key = ops[i].key
                                     /\ ops[m].kind = "delete" /\ did[m] # "none"
      BY <1>2, <1>3, <3>2
    <3>3. CASE /\ store[ops[i].key].has /\ store[ops[i].key].by \in DOMAIN ops
               /\ i <= store[ops[i].key].by /\ did[store[ops[i].key].by] # "none"
               /\ ops[store[ops[i].key].by].key = ops[i].key
      <4>1. CASE ops[i].key # k
        BY <1>2, <1>3, <1>5, <1>7, <3>3, <4>1
      <4>2. CASE ops[i].key = k
        <5>1. i < x
          BY <1>6, <3>1, <4>2
        <5>2. CASE ops[x].kind = "delete"
          BY <1>2, <1>3, <1>9b, <4>2, <5>1, <5>2
        <5>3. CASE ops[x].kind # "delete"
          <6>1. it.has
            BY <1>9b, <3>3, <4>2
          <6>2. store'[k].has /\ store'[k].by \in {it.by, x}
            BY <1>9, <5>3, <6>1
          <6>3. i <= x
            BY <1>2, <1>7, <5>1
          <6>4. CASE store'[k].by = x
            BY <1>2, <1>3, <1>9b, <4>2, <6>2, <6>3, <6>4
          <6>5. CASE store'[k].by = it.by
            BY <1>2, <1>3, <1>9b, <3>3, <4>2, <6>2, <6>5
          <6> QED
            BY <6>2, <6>4, <6>5
        <5> QED
          BY <5>2, <5>3
      <4> QED
        BY <4>1, <4>2
    <3> QED
      BY <1>8, <3>1, <3>2, <3>3 DEF Keeps
  <2> QED
    BY <2>1, <2>2
<1>11. ASSUME NEW j \in DOMAIN ops PROVE ReadAfter(i, j)'
  <2>0. Between(i, j)' <=> Between(i, j)
    BY <1>2 DEF Between
  <2> SUFFICES ASSUME i < j, ops[i].key = ops[j].key, ops[i].kind = "set", did'[i] = "HD",
                      ops[j].kind = "get", did'[j] # "none"
               PROVE  \/ did'[j] = "VA" /\ saw'[j] \in DOMAIN ops /\ i <= saw'[j] /\ saw'[j] < j
                      \/ Between(i, j)
    BY <1>2, <2>0 DEF ReadAfter
  <2>1. CASE j # x /\ i # x
    BY <1>2, <1>8, <2>1 DEF ReadAfter
  <2>2. CASE i = x
    <3>1. j # x /\ did[j] # "none" /\ ops[j].key = k
      BY <1>2, <1>7, <1>9b, <2>2
    <3>2. j < x
      BY <1>6, <3>1
    <3> QED
      BY <1>2, <1>7, <2>2, <3>2
  <2>3. CASE j = x /\ i # x
    <3>1. did[i] = "HD" /\ ops[i].key = k
      BY <1>2, <1>9b, <2>3
    <3>2. CASE \E m \in DOMAIN ops : /\ i < m /\ ops[m].key = ops[i].key
                                     /\ ops[m].kind = "delete" /\ did[m] # "none"
      BY <1>6, <2>3, <3>1, <3>2 DEF Between
    <3>3. CASE /\ store[ops[i].key].has /\ store[ops[i].key].by \in DOMAIN ops
               /\ i <= store[ops[i].key].by /\ did[store[ops[i].key].by] # "none"
               /\ ops[store[ops[i].key].by].key = ops[i].key
      <4>1. it.has /\ it.by \in DOMAIN ops /\ i <= it.by /\ it.by < x
        BY <1>6, <1>9b, <3>1, <3>3
      <4> QED
        BY <1>9, <1>9a, <2>3, <4>1
    <3> QED
      BY <1>8, <3>1, <3>2, <3>3 DEF Keeps
  <2> QED
    BY <2>1, <2>2, <2>3
<1> QED
  BY <1>10, <1>11

LEMMA OrderStep ==
    ASSUME BaseInv, OrderInv, [Next]_vars
    PROVE  OrderInv'
<1> SUFFICES ASSUME env' = 0, NEW i \in DOMAIN ops'
             PROVE  Keeps(i)' /\ \A j \in DOMAIN ops' : ReadAfter(i, j)'
  BY DEF OrderInv
<1>0. TypeInv /\ env \in Nat
  BY DEF BaseInv, TypeInv
<1>1. env = 0 /\ UNCHANGED plan /\ ops' = ops /\ ~\E k \in Keys : Other(k)
  <2>1. env' = env \/ env' = env + 1
    BY DEF Next, vars, Prepare, Start, Resolve, Finished, Unsent, Put, Cut, Finish, Lose, GiveUp, Ended,
           Barred, Execute, GiveBack, GiveBackFails, Other
  <2>2. env = 0 /\ env' # env + 1
    BY <1>0, <2>1
  <2>3. UNCHANGED plan
    BY DEF Next, vars, Prepare, Start, Resolve, Finished, Unsent, Put, Cut, Finish, Lose, GiveUp, Ended,
           Barred, Execute, GiveBack, GiveBackFails, Other
  <2> QED
    BY <2>2, <2>3 DEF Other, ops
<1>2. ASSUME NEW s \in Servers, Execute(s) PROVE Keeps(i)' /\ \A j \in DOMAIN ops' : ReadAfter(i, j)'
  BY <1>1, <1>2, OrderExecute
<1>3. CASE UNCHANGED <<did, saw>> /\ \A k \in Keys : store'[k].has = store[k].has /\ store'[k].by = store[k].by
  <2>1. ops[i].key \in Keys
    BY <1>0, <1>1, PlanParts
  <2>2. Keeps(i) /\ \A j \in DOMAIN ops : ReadAfter(i, j)
    BY <1>1 DEF OrderInv
  <2>3. Keeps(i)'
    BY <1>1, <1>3, <2>1, <2>2 DEF Keeps
  <2>4. \A j \in DOMAIN ops : ReadAfter(i, j)'
    BY <1>1, <1>3, <2>2 DEF ReadAfter, Between
  <2> QED
    BY <1>1, <2>3, <2>4
<1>4. CASE ~\E s \in Servers : Execute(s)
  <2>1. UNCHANGED <<did, saw>>
    BY <1>4 DEF Next, vars, Prepare, Start, Resolve, Finished, Unsent, Put, Cut, Finish, Lose, GiveUp,
         Ended, Barred, GiveBack, GiveBackFails, Other
  <2>2. ASSUME NEW k \in Keys, GiveBack(k), NEW l \in Keys
        PROVE  store'[l].has = store[l].has /\ store'[l].by = store[l].by
    <3>1. store' = store \/ store' = [store EXCEPT ![k].stale = TRUE, ![k].won = FALSE]
      BY <2>2 DEF GiveBack
    <3>2. store[k] \in Items /\ store \in [Keys -> Items]
      BY <1>0 DEF TypeInv
    <3> QED
      BY <3>1, <3>2 DEF Items
  <2>3. CASE ~\E k \in Keys : GiveBack(k)
    <3>1. UNCHANGED store
      BY <1>1, <1>4, <2>3 DEF Next, vars, Prepare, Start, Resolve, Finished, Unsent, Put, Cut, Finish, Lose, GiveUp,
         Ended, Barred, GiveBackFails
    <3> QED
      BY <1>3, <2>1, <3>1
  <2> QED
    BY <1>3, <2>1, <2>2, <2>3
<1> QED
  BY <1>2, <1>4

(* In one batch, a read of a key sees the last write before it: the        *)
(* operations on a key share a pipeline, whose order is the input order,   *)
(* and batch restores that order in its results.                           *)
THEOREM OwnWritesRead == Spec => []ReadsItsWrites
<1>1. Init => OrderInv
  BY DEF Init, OrderInv, Keeps, ReadAfter
<1>2. BaseInv /\ Concluded /\ OrderInv => ReadsItsWrites
  <2> SUFFICES ASSUME BaseInv, Concluded, OrderInv, Returned, env = 0,
                      NEW i \in DOMAIN ops, NEW j \in DOMAIN ops, i < j, ops[i].key = ops[j].key,
                      ops[i].kind = "set", res[i].st = "applied", res[j].st \in {"hit", "miss"}
               PROVE  \/ res[j].st = "hit" /\ res[j].by \in i..(j - 1)
                      \/ \E m \in (i + 1)..(j - 1) : ops[m].kind = "delete" /\ ops[m].key = ops[i].key
    BY DEF ReadsItsWrites
  <2>0. DOMAIN ops \subseteq Nat
    BY PlanParts DEF BaseInv
  <2>1. did[i] \in Means("applied") /\ did[j] \in Means(res[j].st) /\ res[j].st \in Typed(ops[j].kind) \cup Errors
        /\ (res[j].st = "hit" => res[j].by = saw[j])
    BY ResultFacts
  <2>2. did[i] \in {"HD", "VA"} /\ did[i] \in CodesOf(ops[i])
    BY <2>1 DEF Means, BaseInv, AllExecuted, Executed
  <2>3. did[i] = "HD"
    BY <2>2 DEF CodesOf
  <2>4. ops[j].kind = "get" /\ did[j] # "none" /\ (did[j] = "VA" => res[j].st = "hit")
    BY <2>1 DEF Means, Typed, Errors
  <2>5. (did[j] = "VA" /\ saw[j] \in DOMAIN ops /\ i <= saw[j] /\ saw[j] < j) \/ Between(i, j)
    BY <2>3, <2>4 DEF OrderInv, ReadAfter
  <2>6. CASE did[j] = "VA" /\ saw[j] \in DOMAIN ops /\ i <= saw[j] /\ saw[j] < j
    <3>1. saw[j] \in i..(j - 1)
      BY <2>0, <2>6
    <3> QED
      BY <2>1, <2>4, <2>6, <3>1
  <2>7. CASE Between(i, j)
    <3>1. PICK m \in DOMAIN ops : i < m /\ m < j /\ ops[m].key = ops[i].key /\ ops[m].kind = "delete"
      BY <2>7 DEF Between
    <3>2. m \in (i + 1)..(j - 1)
      BY <2>0, <3>1
    <3> QED
      BY <3>1, <3>2
  <2> QED
    BY <2>5, <2>6, <2>7
<1> QED
  BY <1>1, <1>2, ConcludedAlways, OrderStep, PTL DEF Spec

-----------------------------------------------------------------------------
(* The recache tokens that reads win *)

Said(s) == Elems(sent[s]) \cup Elems(out[s].resp)

Wins(r, i) == r.code # "MN" /\ r.op = i /\ r.won /\ r.stale

(* Reads of a key whose answers came with a stale item's token. *)
Winners(k) ==
    {i \in DOMAIN ops : ops[i].key = k /\ \E s \in Servers : \E r \in Said(s) : Wins(r, i)}

OneWinner == \A k \in Keys : \A i, j \in Winners(k) : i = j

(* The token of a stale item has gone with its winner. *)
Spent == pc # "done" => \A k \in Keys : Winners(k) # {} =>
             ~(store[k].has /\ store[k].stale /\ ~store[k].won)

TokenPhase == pc # "done" => \A k \in Keys : token[k].at = "none"

(* A result that hands a token back is that token's reader. *)
Owed == Returned => \A i \in DOMAIN ops : handsBack(res[i]) =>
            token[ops[i].key].at # "none" /\ token[ops[i].key].by = res[i].by

(* A hand-back that was executed left the item there to be won again. *)
GivenBack ==
    Returned => \A k \in Keys :
        /\ token[k].at = "back" /\ store[k].has /\ store[k].by = token[k].by
        /\ \A i \in DOMAIN ops : ops[i].key = k => res[i].st \notin Errors
        => ~store[k].won

WinInv == OneWinner /\ Spent /\ TokenPhase

HandInv == Owed /\ GivenBack

TokenInv == plan.verb = "getmany" => WinInv /\ HandInv

LEMMA SaidQuiet ==
    ASSUME BaseInv, [Next]_vars, ~\E s \in Servers : Execute(s), NEW t \in Servers
    PROVE  Said(t)' \subseteq Said(t) \cup {Barrier}
<1>0. TypeInv /\ sent[t] \in Seq(Responses) /\ Len(sent[t]) \in Nat
  BY LenProperties DEF BaseInv, TypeInv
<1>1. CASE UNCHANGED <<sent, out>>
  BY <1>1 DEF Said, Elems
<1>2. ASSUME NEW s \in Servers, Unsent(s) \/ Put(s) \/ Cut(s) \/ GiveUp(s) PROVE Said(t)' \subseteq Said(t)
  <2>1. sent'[t] \in {sent[t], <<>>} /\ (out'[t] = out[t] \/ out'[t].resp = <<>>)
    BY <1>0, <1>2 DEF Unsent, Put, Cut, GiveUp, Ended, TypeInv
  <2> QED
    BY <2>1 DEF Said, Elems
<1>3. ASSUME NEW s \in Servers, Finish(s) PROVE Said(t)' \subseteq Said(t)
  <2>1. \/ sent'[t] = <<>> /\ out'[t].resp = sent[t]
        \/ sent'[t] = sent[t] /\ out'[t] = out[t]
    BY <1>0, <1>3 DEF Finish, Ended, TypeInv
  <2> QED
    BY <2>1 DEF Said, Elems
<1>4. ASSUME NEW s \in Servers, Lose(s) PROVE Said(t)' \subseteq Said(t)
  <2>1. CASE t # s
    <3>1. sent'[t] = sent[t] /\ out'[t] = out[t]
      BY <1>0, <1>4, <2>1 DEF Lose, Ended, TypeInv
    <3> QED
      BY <3>1 DEF Said, Elems
  <2>2. CASE t = s
    <3>1. PICK k \in 0..Len(sent[t]) : Ended(t, SubSeq(sent[t], 1, k), Payload(t), "error")
      BY <1>4, <2>2 DEF Lose
    <3> DEFINE q == SubSeq(sent[t], 1, k)
    <3>2. out'[t].resp = q /\ sent'[t] = <<>>
      BY <1>0, <1>4, <2>2, <3>1 DEF Lose, Ended, TypeInv
    <3>3. q \in Seq(Responses) /\ Len(q) = k /\ \A j \in 1..k : q[j] = sent[t][j]
      BY <1>0, <3>1, SubSeqProperties
    <3> HIDE DEF q
    <3>4. DOMAIN q = 1..k /\ 1..k \subseteq DOMAIN sent[t]
      BY <1>0, <3>1, <3>3, LenProperties
    <3>5. Elems(q) \subseteq Elems(sent[t])
      BY <3>3, <3>4 DEF Elems
    <3>6. Elems(sent[t])' = {} /\ Elems(out[t].resp)' = Elems(q)
      BY <3>2 DEF Elems
    <3> QED
      BY <3>5, <3>6 DEF Said
  <2> QED
    BY <2>1, <2>2
<1>5. ASSUME NEW s \in Servers, Barred(s) PROVE Said(t)' \subseteq Said(t) \cup {Barrier}
  <2>1. out'[t] = out[t] /\ (sent'[t] = sent[t] \/ sent'[t] = Append(sent[t], Barrier))
    BY <1>0, <1>5 DEF Barred, TypeInv
  <2>2. Elems(Append(sent[t], Barrier)) = Elems(sent[t]) \cup {Barrier}
    BY <1>0, BarrierType, ElemsAppend
  <2>3. Elems(sent'[t]) \subseteq Elems(sent[t]) \cup {Barrier}
    BY <2>1, <2>2
  <2>4. Said(t)' = Elems(sent'[t]) \cup Elems(out'[t].resp)
    BY DEF Said, Elems
  <2> QED
    BY <2>1, <2>3, <2>4 DEF Said
<1>6. CASE Prepare \/ Start \/ Resolve \/ Finished \/ UNCHANGED vars
           \/ \E k \in Keys : GiveBack(k) \/ GiveBackFails(k) \/ Other(k)
  <2>1. UNCHANGED <<sent, out>>
    BY <1>6 DEF Prepare, Start, Resolve, Finished, vars, GiveBack, GiveBackFails, Other
  <2> QED
    BY <1>1, <2>1
<1> QED
  BY <1>2, <1>3, <1>4, <1>5, <1>6 DEF Next

LEMMA WinnersQuiet ==
    ASSUME BaseInv, [Next]_vars, ~\E s \in Servers : Execute(s), NEW k
    PROVE  Winners(k)' \subseteq Winners(k)
<1>1. UNCHANGED plan /\ ops' = ops
  BY DEF Next, vars, Prepare, Start, Resolve, Finished, Unsent, Put, Cut, Finish, Lose, GiveUp, Ended,
           Barred, Execute, GiveBack, GiveBackFails, Other, ops
<1>2. \A t \in Servers : Said(t)' \subseteq Said(t) \cup {Barrier}
  BY SaidQuiet
<1>3. \A i : ~Wins(Barrier, i)
  BY BarrierType DEF Wins
<1> QED
  BY <1>1, <1>2, <1>3 DEF Winners

(* The answer to a read wins a token only if there is one. *)
LEMMA TokenThere ==
    ASSUME TypeInv, plan.verb = "getmany", NEW x \in DOMAIN ops, NEW it \in Items,
           Answer(x, it).won, Answer(x, it).stale
    PROVE  it.has /\ it.stale /\ ~it.won
<1>1. ops[x].kind = "get" /\ ops[x].opt # "vivify"
  BY BatchAssumption DEF TypeInv, ops
<1>2. After(x, it).won /\ ~it.won /\ it.stale
  BY DEF Answer
<1>3. ~it.has => After(x, it) = it
  BY <1>1 DEF After
<1> QED
  BY <1>2, <1>3

LEMMA WinnersExecute ==
    ASSUME BaseInv, plan.verb = "getmany", NEW s \in Servers, Execute(s), NEW k,
           NEW i \in Winners(k)', i \notin Winners(k)
    PROVE  /\ i = Head(queue[s]) /\ k = ops[i].key /\ gpc[s] = "open"
           /\ store[k].has /\ store[k].stale /\ ~store[k].won
<1>0. TypeInv /\ Grouped /\ queue[s] # <<>>
  BY DEF BaseInv, Execute
<1> DEFINE x == Head(queue[s])
           r == Answer(x, store[ops[x].key])
<1>1. /\ x \in Elems(group[s]) /\ x \in DOMAIN ops /\ r \in Responses /\ r.op = x /\ r.code # "MN"
      /\ UNCHANGED <<plan, out, group>>
  BY ExecuteParts
<1>2. ops' = ops
  BY <1>1 DEF ops
<1>3. PICK t \in Servers : \E a \in Said(t)' : Wins(a, i)
  BY DEF Winners
<1>4. PICK a \in Said(t)' : Wins(a, i)
  BY <1>3
<1>5. i \in DOMAIN ops /\ ops[i].key = k
  BY <1>2 DEF Winners
<1>6. a \notin Said(t)
  BY <1>4, <1>5 DEF Winners
<1>7. a \in Elems(sent'[t]) /\ a \notin Elems(sent[t])
  <2>1. Said(t)' = Elems(sent'[t]) \cup Elems(out'[t].resp)
    BY DEF Said, Elems
  <2> QED
    BY <1>1, <1>4, <1>6, <2>1 DEF Said
<1>8. sent' # sent
  BY <1>7
<1>9. PICK f \in Faults : sent' = [sent EXCEPT ![s] = sent[s] \o Spoiled(r, f)]
  BY <1>8 DEF Execute
<1>10. gpc[s] = "open"
  BY <1>8 DEF Execute
<1>11. f \in FaultKinds /\ sent \in [Servers -> Seq(Responses)]
  BY <1>0, <1>9, BatchAssumption DEF TypeInv
<1>12. t = s /\ sent'[s] = sent[s] \o Spoiled(r, f)
  BY <1>7, <1>9, <1>11
<1> DEFINE d == Spoiled(r, f)
<1>13. d \in Seq(Responses)
  BY <1>0, <1>1, <1>11, SpoiledType
<1>14. \A j \in DOMAIN d : /\ d[j].won = r.won /\ d[j].stale = r.stale
                           /\ d[j].op = r.op \/ d[j].op \notin DOMAIN ops
  BY <1>0, <1>1, <1>11, SpoiledParts
<1> HIDE DEF d, r
<1>15. \E j \in DOMAIN d : d[j] = a
  <2>1. PICK j \in DOMAIN sent'[s] : sent'[s][j] = a
    BY <1>7, <1>12 DEF Elems
  <2>2. \/ j \in DOMAIN sent[s] /\ sent'[s][j] = sent[s][j]
        \/ j - Len(sent[s]) \in DOMAIN d /\ sent'[s][j] = d[j - Len(sent[s])]
    BY <1>11, <1>12, <1>13, <2>1, Concatenated DEF d
  <2> QED
    BY <1>7, <1>12, <2>1, <2>2 DEF Elems
<1>16. a.won /\ a.stale /\ a.op = i
  BY <1>4 DEF Wins
<1>17. i = x /\ r.won /\ r.stale
  BY <1>1, <1>5, <1>14, <1>15, <1>16
<1>18. store[k] \in Items
  BY <1>0, <1>5, PlanParts DEF TypeInv
<1>19. r = Answer(i, store[k])
  BY <1>5, <1>17 DEF r
<1> QED
  BY <1>0, <1>5, <1>10, <1>17, <1>18, <1>19, TokenThere

LEMMA DoneStays ==
    ASSUME BaseInv, [Next]_vars
    PROVE  /\ pc = "done" => pc' = "done" /\ UNCHANGED <<ret, res>>
           /\ UNCHANGED plan /\ ops' = ops
<1>1. CASE Prepare \/ Start \/ Resolve
  BY <1>1 DEF Prepare, Start, Resolve, ops
<1>2. CASE ~(Prepare \/ Start \/ Resolve)
  BY <1>2 DEF Next, vars, Finished, Unsent, Put, Cut, Finish, Lose, GiveUp, Ended,
         Barred, Execute, GiveBack, GiveBackFails, Other, ops
<1> QED
  BY <1>1, <1>2

LEMMA WinStep ==
    ASSUME BaseInv, WinInv, plan.verb = "getmany", [Next]_vars
    PROVE  WinInv'
<1>0. TypeInv /\ Phased
  BY DEF BaseInv
<1>1. TokenPhase'
  <2> SUFFICES ASSUME pc' # "done" PROVE \A k \in Keys : token'[k].at = "none"
    BY DEF TokenPhase
  <2>1. pc # "done" /\ \A k \in Keys : token[k].at = "none"
    BY DoneStays DEF WinInv, TokenPhase
  <2>2. ~Resolve /\ ~\E k \in Keys : GiveBack(k) \/ GiveBackFails(k)
    BY <2>1 DEF Resolve, GiveBack, GiveBackFails
  <2>3. UNCHANGED token
    BY <2>2 DEF Next, vars, Prepare, Start, Finished, Unsent, Put, Cut, Finish, Lose, GiveUp, Ended,
           Barred, Execute, Other
  <2> QED
    BY <2>1, <2>3
<1>2. ASSUME NEW s \in Servers, Execute(s) PROVE OneWinner' /\ Spent'
  <2> DEFINE x == Head(queue[s])
             k == ops[x].key
             it == store[k]
  <2>1. x \in DOMAIN ops /\ UNCHANGED <<plan, pc>>
    BY <1>2, ExecuteParts
  <2>2. k \in Keys /\ it \in Items
    BY <1>0, <2>1, PlanParts DEF TypeInv
  <2>3. store' = [store EXCEPT ![k] = After(x, it)]
    BY <1>2 DEF Execute
  <2>4. store'[k] = After(x, it) /\ \A l \in Keys : l # k => store'[l] = store[l]
    BY <1>0, <2>2, <2>3 DEF TypeInv
  <2>5. ops[x].kind = "get" /\ ops[x].opt # "vivify"
    BY <1>0, <2>1, BatchAssumption DEF TypeInv, ops
  <2>6. ~(store'[k].has /\ store'[k].stale /\ ~store'[k].won)
    <3>1. CASE it.has
      <4>1. store'[k] = [it EXCEPT !.won = it.won \/ it.stale]
        BY <2>4, <2>5, <3>1 DEF After
      <4>2. store'[k].won = (it.won \/ it.stale) /\ store'[k].stale = it.stale
        BY <2>2, <4>1 DEF Items
      <4> QED
        BY <4>2
    <3>2. CASE ~it.has
      BY <2>4, <2>5, <3>2 DEF After
    <3> QED
      BY <3>1, <3>2
  <2>7. \A l \in Keys : \A i \in Winners(l)' : i \in Winners(l) \/
           /\ i = x /\ l = k /\ gpc[s] = "open" /\ store[l].has /\ store[l].stale /\ ~store[l].won
    BY <1>2, WinnersExecute
  <2>8. gpc[s] = "open" => pc # "done"
    BY <1>0 DEF Phased, Busy
  <2>9. OneWinner'
    <3> SUFFICES ASSUME NEW l \in Keys, NEW i \in Winners(l)', NEW j \in Winners(l)' PROVE i = j
      BY DEF OneWinner
    <3>1. CASE i \in Winners(l) /\ j \in Winners(l)
      BY <3>1 DEF WinInv, OneWinner
    <3>2. CASE i \notin Winners(l) \/ j \notin Winners(l)
      <4>1. gpc[s] = "open" /\ store[l].has /\ store[l].stale /\ ~store[l].won
        BY <2>7, <3>2
      <4>2. Winners(l) = {}
        BY <2>8, <4>1 DEF WinInv, Spent
      <4> QED
        BY <2>7, <4>2
    <3> QED
      BY <3>1, <3>2
  <2>10. Spent'
    <3> SUFFICES ASSUME pc' # "done", NEW l \in Keys, Winners(l)' # {}
                 PROVE  ~(store'[l].has /\ store'[l].stale /\ ~store'[l].won)
      BY DEF Spent
    <3>1. CASE l # k
      <4>1. Winners(l) # {}
        BY <2>7, <3>1
      <4> QED
        BY <2>1, <2>4, <3>1, <4>1 DEF WinInv, Spent
    <3> QED
      BY <2>6, <3>1
  <2> QED
    BY <2>9, <2>10
<1>3. CASE ~\E s \in Servers : Execute(s)
  <2>1. \A l \in Keys : Winners(l)' \subseteq Winners(l)
    BY <1>3, WinnersQuiet
  <2>2. OneWinner'
    BY <2>1 DEF WinInv, OneWinner
  <2>3. Spent'
    <3> SUFFICES ASSUME pc' # "done", NEW l \in Keys, Winners(l)' # {}
                 PROVE  ~(store'[l].has /\ store'[l].stale /\ ~store'[l].won)
      BY DEF Spent
    <3>1. pc # "done" /\ Winners(l) # {}
      BY <2>1, DoneStays
    <3>2. ~(store[l].has /\ store[l].stale /\ ~store[l].won) /\ \A k \in Keys : token[k].at = "none"
      BY <3>1 DEF WinInv, Spent, TokenPhase
    <3>3. ASSUME NEW k \in Keys, Other(k) PROVE ~(store'[l].has /\ store'[l].stale /\ ~store'[l].won)
      <4>1. CASE k # l
        BY <1>0, <3>2, <3>3, <4>1 DEF Other, TypeInv
      <4>2. CASE k = l
        <5>1. store'[l] = Absent \/ store'[l] = Stored(Len(ops) + env', FALSE, FALSE)
          BY <1>0, <3>3, <4>2 DEF Other, TypeInv
        <5> QED
          BY <5>1 DEF Absent, Stored
      <4> QED
        BY <4>1, <4>2
    <3>4. CASE ~\E k \in Keys : Other(k)
      <4>1. ~\E k \in Keys : GiveBack(k)
        BY <3>2 DEF GiveBack
      <4>2. UNCHANGED store
        BY <1>3, <3>4, <4>1 DEF Next, vars, Prepare, Start, Resolve, Finished, Unsent, Put, Cut, Finish, Lose,
             GiveUp, Ended, Barred, GiveBackFails
      <4> QED
        BY <3>2, <4>2
    <3> QED
      BY <3>3, <3>4
  <2> QED
    BY <1>1, <2>2, <2>3 DEF WinInv
<1> QED
  BY <1>1, <1>2, <1>3 DEF WinInv

(* A result that returns a token is that of the key's one winner. *)
LEMMA ReturnsWon ==
    ASSUME BaseInv, NEW i \in DOMAIN ops, NEW s \in Servers, resolveGroup(i, out[s]).returns
    PROVE  i \in Winners(ops[i].key)
<1> DEFINE o == out[s]
<1>1. o \in Outcomes
  BY DEF BaseInv, TypeInv
<1>2. ~badIndex(o, i) /\ byIndex(o, i) /\ parseBatchResponse(i, ResponseTo(o, i)).returns
  BY StatusParts DEF resolveGroup, inferQuietResult
<1> HIDE DEF o
<1>3. PICK j \in DOMAIN o.resp :
             /\ ResponseTo(o, i) = o.resp[j] /\ o.resp[j].op = i /\ o.resp[j].code # "MN"
             /\ o.resp[j] \in Responses
  BY <1>1, <1>2, TaggedResponse
<1> DEFINE r == o.resp[j]
<1>4. ops[i].kind = "get" /\ semanticGet(ops[i], r).returns
  BY <1>2, <1>3, StatusParts DEF parseBatchResponse, semantic
<1>5. r.won /\ r.stale
  <2>1. CASE semanticGet(ops[i], r) = Status(IF r.won THEN "lease" ELSE "pending")
    BY <1>4, <2>1, StatusParts
  <2>2. CASE semanticGet(ops[i], r) = [st |-> "hit", by |-> r.by, empty |-> r.empty, returns |-> r.won /\ r.stale]
    <3>1. semanticGet(ops[i], r).returns = (r.won /\ r.stale)
      BY <2>2
    <3> QED
      BY <1>4, <3>1, Zenon
  <2> QED
    BY <2>1, <2>2 DEF semanticGet
<1>6. r \in Said(s) /\ Wins(r, i)
  BY <1>3, <1>5 DEF Said, Elems, Wins, o
<1> QED
  BY <1>6 DEF Winners

LEMMA HandStep ==
    ASSUME BaseInv, Concluded, WinInv, HandInv, plan.verb = "getmany", [Next]_vars
    PROVE  HandInv'
<1> SUFFICES ASSUME Returned' PROVE HandInv'
  BY DEF HandInv, Owed, GivenBack
<1>0. TypeInv /\ Grouped /\ Phased /\ ops' = ops /\ UNCHANGED plan
  BY DoneStays DEF BaseInv
<1>k. \A i \in DOMAIN ops : ops[i].key \in Keys
  BY <1>0, PlanParts
<1>1. CASE Resolve
  <2>1. index = Len(ops) /\ pc # "done"
    BY <1>0, <1>1 DEF Resolve, Phased
  <2> DEFINE mine(k, i) == ops[i].key = k /\ handsBack(res'[i])
             won(k) == CHOOSE i \in DOMAIN ops : mine(k, i)
  <2>2. /\ res' = [i \in DOMAIN ops |-> resolveGroup(i, out[at(i)])]
        /\ token' = [k \in Keys |-> IF \E i \in DOMAIN ops : mine(k, i)
                                    THEN [at |-> "due", by |-> res'[won(k)].by] ELSE token[k]]
    BY <1>1 DEF Resolve
  <2>3. \A k \in Keys : token[k].at = "none"
    BY <2>1 DEF WinInv, TokenPhase
  <2>4. ASSUME NEW k \in Keys, NEW i \in DOMAIN ops, mine(k, i) PROVE i \in Winners(k)
    <3>1. at(i) \in Servers
      BY <1>0, <2>1, PlanParts, AtHome
    <3>2. resolveGroup(i, out[at(i)]).returns /\ ops[i].key = k
      BY <2>2, <2>4 DEF handsBack
    <3> QED
      BY <3>1, <3>2, ReturnsWon
  <2>5. ASSUME NEW k \in Keys, NEW i \in DOMAIN ops, mine(k, i) PROVE won(k) = i
    <3>1. won(k) \in DOMAIN ops /\ mine(k, won(k))
      BY <2>5
    <3> HIDE DEF won, mine
    <3>2. won(k) \in Winners(k) /\ i \in Winners(k)
      BY <2>4, <2>5, <3>1
    <3> QED
      BY <3>2 DEF WinInv, OneWinner
  <2> HIDE DEF won
  <2>6. Owed'
    <3> SUFFICES ASSUME NEW i \in DOMAIN ops, handsBack(res'[i])
                 PROVE  token'[ops[i].key].at # "none" /\ token'[ops[i].key].by = res'[i].by
      BY <1>0 DEF Owed, handsBack
    <3>1. mine(ops[i].key, i) /\ ops[i].key \in Keys
      BY <1>k
    <3>2. token'[ops[i].key] = [at |-> "due", by |-> res'[won(ops[i].key)].by]
      BY <2>2, <3>1
    <3>3. won(ops[i].key) = i
      BY <2>5, <3>1
    <3> QED
      BY <3>2, <3>3
  <2>7. GivenBack'
    <3>1. \A k \in Keys : token'[k].at # "back"
      BY <2>2, <2>3
    <3> QED
      BY <3>1 DEF GivenBack
  <2> QED
    BY <2>6, <2>7 DEF HandInv
<1>2. CASE ~Resolve
  <2>1. pc = "done" /\ UNCHANGED <<ret, res>> /\ Returned
    <3>1. pc = "done"
      BY <1>0, <1>2 DEF Next, vars, Prepare, Start, Finished, Unsent, Put, Cut, Finish, Lose, GiveUp,
           Ended, Barred, Execute, GiveBack, GiveBackFails, Other, Returned, Phased
    <3> QED
      BY <3>1, DoneStays DEF Returned
  <2>2. ~Prepare /\ ~Start
    BY <2>1 DEF Prepare, Start
  <2>3. ASSUME NEW k \in Keys PROVE token'[k].by = token[k].by /\ (token[k].at # "none" => token'[k].at # "none")
    <3>1. CASE token' = token
      BY <3>1
    <3>2. ASSUME NEW l \in Keys, NEW a \in {"back", "failed"}, token' = [token EXCEPT ![l].at = a]
          PROVE  token'[k].by = token[k].by /\ (token[k].at # "none" => token'[k].at # "none")
      BY <1>0, <3>2 DEF TypeInv, Tokens
    <3>3. token' = token \/ \E l \in Keys : \E a \in {"back", "failed"} : token' = [token EXCEPT ![l].at = a]
      BY <1>2, <2>2 DEF Next, vars, Finished, Unsent, Put, Cut, Finish, Lose, GiveUp, Ended,
             Barred, Execute, GiveBack, GiveBackFails, Other
    <3> QED
      BY <3>1, <3>2, <3>3
  <2>4. Owed'
    <3> SUFFICES ASSUME NEW i \in DOMAIN ops, handsBack(res[i])
                 PROVE  token'[ops[i].key].at # "none" /\ token'[ops[i].key].by = res'[i].by
      BY <1>0, <2>1 DEF Owed, handsBack
    <3> QED
      BY <1>k, <2>1, <2>3 DEF HandInv, Owed
  <2>5. GivenBack'
    <3> SUFFICES ASSUME NEW k \in Keys, token'[k].at = "back", store'[k].has, store'[k].by = token'[k].by,
                        \A i \in DOMAIN ops : ops[i].key = k => res[i].st \notin Errors
                 PROVE  ~store'[k].won
      BY <1>0, <2>1 DEF GivenBack
    <3>0. store \in [Keys -> Items] /\ token \in [Keys -> Tokens]
      BY <1>0 DEF TypeInv
    <3>1. CASE token'[k] = token[k] /\ store'[k] = store[k]
      BY <2>1, <3>1 DEF HandInv, GivenBack
    <3>2. ASSUME NEW l \in Keys, GiveBack(l) PROVE ~store'[k].won
      <4>1. CASE l # k
        BY <3>0, <3>1, <3>2, <4>1 DEF GiveBack
      <4>2. CASE l = k
        <5>1. CASE store[k].has /\ store[k].by = token[k].by
          <6>1. store' = [store EXCEPT ![k].stale = TRUE, ![k].won = FALSE]
            BY <3>2, <4>2, <5>1 DEF GiveBack
          <6> QED
            BY <3>0, <6>1 DEF Items
        <5>2. CASE ~(store[k].has /\ store[k].by = token[k].by)
          BY <2>3, <3>2, <4>2, <5>2 DEF GiveBack
        <5> QED
          BY <5>1, <5>2
      <4> QED
        BY <4>1, <4>2
    <3>3. ASSUME NEW l \in Keys, GiveBackFails(l) PROVE ~store'[k].won
      <4>1. CASE l # k
        BY <3>0, <3>1, <3>3, <4>1 DEF GiveBackFails
      <4>2. CASE l = k
        BY <3>0, <3>3, <4>2 DEF GiveBackFails, Tokens
      <4> QED
        BY <4>1, <4>2
    <3>4. ASSUME NEW l \in Keys, Other(l) PROVE ~store'[k].won
      <4>1. CASE l # k
        BY <3>0, <3>1, <3>4, <4>1 DEF Other
      <4>2. CASE l = k
        <5>1. store'[k] = Absent \/ store'[k] = Stored(Len(ops) + env', FALSE, FALSE)
          BY <3>0, <3>4, <4>2 DEF Other
        <5> QED
          BY <5>1 DEF Absent, Stored
      <4> QED
        BY <4>1, <4>2
    <3>5. ASSUME NEW s \in Servers, Execute(s) PROVE ~store'[k].won
      <4> DEFINE x == Head(queue[s])
      <4>1. x \in DOMAIN ops /\ did[x] = "none" /\ UNCHANGED token
        BY <3>5, ExecuteParts DEF Ran
      <4>2. res[x].st \in Errors
        <5>1. res[x].st \in Typed(ops[x].kind) \cup Errors /\ did[x] \in Means(res[x].st)
          BY <2>1, <4>1, ResultFacts
        <5> QED
          BY <4>1, <5>1 DEF Typed, Means
      <4>3. ops[x].key # k /\ ops[x].key \in Keys
        BY <1>k, <4>1, <4>2
      <4>4. store'[k] = store[k]
        BY <3>0, <3>5, <4>3 DEF Execute
      <4> QED
        BY <3>1, <4>1, <4>4
    <3>6. CASE UNCHANGED <<store, token>>
      BY <3>1, <3>6
    <3>7. CASE \/ Finished \/ UNCHANGED vars
               \/ \E s \in Servers : \/ Unsent(s) \/ Put(s) \/ Cut(s) \/ Finish(s) \/ Lose(s) \/ GiveUp(s)
                                     \/ Barred(s)
      BY <3>6, <3>7 DEF Finished, vars, Unsent, Put, Cut, Finish, Lose, GiveUp, Ended, Barred
    <3> QED
      BY <1>2, <2>2, <3>2, <3>3, <3>4, <3>5, <3>7 DEF Next
  <2> QED
    BY <2>4, <2>5 DEF HandInv
<1> QED
  BY <1>1, <1>2

(* GetMany hands back every recache token that one of its reads won by     *)
(* accident: at most one read of a key wins it, whichever read's value     *)
(* returnStaleWin is given, and after the hand-back the token is there to  *)
(* be won again unless the item has changed.                               *)
THEOREM TokensHandedBack == Spec => []TokenHandedBack
<1>1. Init => TokenInv
  BY DEF Init, TokenInv, WinInv, HandInv, OneWinner, Spent, TokenPhase, Owed, GivenBack, Winners,
         Said, Elems, NoOutcome, NoToken, Returned
<1>2. BaseInv /\ Concluded /\ TokenInv /\ [Next]_vars => TokenInv'
  <2> SUFFICES ASSUME BaseInv, Concluded, TokenInv, [Next]_vars, plan'.verb = "getmany"
               PROVE  WinInv' /\ HandInv'
    BY DEF TokenInv
  <2>1. plan.verb = "getmany"
    BY DoneStays
  <2> QED
    BY <2>1, WinStep, HandStep DEF TokenInv
<1>3. BaseInv /\ TokenInv => TokenHandedBack
  <2> SUFFICES ASSUME BaseInv, TokenInv, Returned, plan.verb = "getmany", NEW i \in DOMAIN ops, NEW k,
                      k = ops[i].key, res[i].st = "hit", res[i].returns, store[k].has,
                      store[k].by = res[i].by,
                      \A j \in DOMAIN ops : ops[j].key = k => res[j].st \notin Errors
               PROVE  token[k].at \in {"due", "failed"} \/ ~store[k].won
    BY DEF TokenHandedBack
  <2>1. k \in Keys /\ token[k] \in Tokens
    BY PlanParts DEF BaseInv, TypeInv
  <2>2. token[k].at # "none" /\ token[k].by = res[i].by
    BY DEF TokenInv, HandInv, Owed, handsBack
  <2>3. token[k].at \in {"due", "back", "failed"}
    BY <2>1, <2>2 DEF Tokens
  <2>4. token[k].at = "back" => ~store[k].won
    BY <2>1, <2>2 DEF TokenInv, HandInv, GivenBack
  <2> QED
    BY <2>3, <2>4
<1> QED
  BY <1>1, <1>2, <1>3, ConcludedAlways, PTL DEF Spec

=============================================================================
