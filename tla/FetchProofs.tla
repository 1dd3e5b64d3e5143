----------------------------- MODULE FetchProofs -----------------------------
(***************************************************************************)
(* Theorems about Fetch, for any calls, keys, processes, options, backoff  *)
(* schedule and events.                                                    *)
(***************************************************************************)
EXTENDS Fetch, TLAPS

-----------------------------------------------------------------------------
(* Tables *)

LEMMA PutCell ==
    ASSUME NEW D, NEW E, NEW S, NEW f \in [D -> [E -> S]], NEW c \in D, NEW k \in E,
           NEW v \in S
    PROVE  /\ [f EXCEPT ![c][k] = v] \in [D -> [E -> S]]
           /\ \A d \in D, j \in E :
                [f EXCEPT ![c][k] = v][d][j] = IF d = c /\ j = k THEN v ELSE f[d][j]
OBVIOUS

LEMMA PutRow ==
    ASSUME NEW D, NEW R, NEW f \in [D -> R], NEW c \in D, NEW r \in R
    PROVE  /\ [f EXCEPT ![c] = r] \in [D -> R]
           /\ \A d \in D : [f EXCEPT ![c] = r][d] = IF d = c THEN r ELSE f[d]
OBVIOUS

Items == [has : BOOLEAN, val : Nat, cas : Nat, stale : BOOLEAN, sent : BOOLEAN]
Refreshes == [pc : {"off", "load", "write"}, mine : SUBSET Keys, todo : SUBSET Keys,
              val : [Keys -> Nat]]
Places == {"idle", "read", "busy", "go", "fly", "load", "back", "publish", "join",
           "settle", "done"}

ServerType ==
    /\ entry \in [Keys -> Items] /\ clock \in Nat
    /\ source \in [Keys -> Nat \ {0}] /\ floor \in [Keys -> Nat] /\ env \in 0..MaxEnv

ClientType ==
    /\ flights \in [Procs -> [Keys -> Calls \cup {None}]]
    /\ refreshing \in [Procs -> SUBSET Keys] /\ closed \in [Procs -> BOOLEAN]

CallType ==
    /\ pc \in [Calls -> Places] /\ slot \in [Calls -> [Keys -> Slots]]
    /\ token \in [Calls -> [Keys -> Nat]] /\ val \in [Calls -> [Keys -> Nat]]
    /\ join \in [Calls -> [Keys -> Calls \cup {None}]]
    /\ own \in [Calls -> SUBSET Keys] /\ attempt \in [Calls -> 0..MaxAttempt]
    /\ err \in [Calls -> Errs] /\ published \in [Calls -> {"no", "value", "error"}]

(* A call waits on a flight that somebody flies. *)
Waits(c) ==
    \A k \in Keys : pc[c] \in {"idle", "read", "busy"} /\ slot[c][k] = "joining"
        => pc[c] = "busy" /\ join[c][k] # None

TypeInv ==
    ServerType /\ ClientType /\ CallType /\ bg \in [Calls -> Refreshes]

LEMMA TypeParts == TypeOK <=> TypeInv
BY DEF TypeOK, TypeInv, ServerType, ClientType, CallType, Items, Refreshes, Places

LEMMA ServerSteady == ServerType /\ UNCHANGED serverVars => ServerType'
BY DEF ServerType, serverVars

LEMMA ClientSteady == ClientType /\ UNCHANGED clientVars => ClientType'
BY DEF ClientType, clientVars

LEMMA CallSteady == CallType /\ UNCHANGED callVars => CallType'
BY DEF CallType, callVars

LEMMA AbsentType == Absent \in Items /\ ~Absent.has
BY DEF Absent, Items

LEMMA NoRefreshType == NoRefresh \in Refreshes
BY DEF NoRefresh, Refreshes

LEMMA ItemFields ==
    ASSUME NEW e \in Items
    PROVE  /\ e.has \in BOOLEAN /\ e.val \in Nat /\ e.cas \in Nat /\ e.stale \in BOOLEAN
           /\ e.sent \in BOOLEAN
BY DEF Items

LEMMA RefreshFields ==
    ASSUME NEW b \in Refreshes
    PROVE  /\ b.pc \in {"off", "load", "write"} /\ b.mine \in SUBSET Keys
           /\ b.todo \in SUBSET Keys /\ b.val \in [Keys -> Nat]
BY DEF Refreshes

-----------------------------------------------------------------------------
(* What the server makes of an item *)

(* A read keeps the item that is there, but for the lease it may hand out; *)
(* on a miss it leaves a leased placeholder with a new CAS.                *)
LEMMA GetKeeps ==
    ASSUME NEW e \in Items, NEW a \in BOOLEAN, NEW n \in BOOLEAN, clock \in Nat
    PROVE  /\ ServerGet(e, a, n) \in Items /\ ServerGet(e, a, n).has
           /\ Won(e, a, n) \in BOOLEAN
           /\ e.has => /\ ServerGet(e, a, n).cas = e.cas /\ ServerGet(e, a, n).val = e.val
                       /\ ServerGet(e, a, n).stale = e.stale
                       /\ ServerGet(e, a, n).sent = (e.sent \/ Won(e, a, n))
           /\ ~e.has => /\ ServerGet(e, a, n).cas = clock + 1 /\ ServerGet(e, a, n).val = 0
                        /\ ServerGet(e, a, n).sent
<1>1. Won(e, a, n) \in BOOLEAN
  BY DEF Won, Items
<1> DEFINE w == e.sent \/ Won(e, a, n)
<1>2. w \in BOOLEAN
  BY <1>1, ItemFields
<1>3. CASE e.has
  <2>1. ServerGet(e, a, n) = [e EXCEPT !.sent = w]
    BY <1>3 DEF ServerGet
  <2> HIDE DEF w
  <2>2. /\ [e EXCEPT !.sent = w] \in Items /\ [e EXCEPT !.sent = w].has
        /\ [e EXCEPT !.sent = w].cas = e.cas /\ [e EXCEPT !.sent = w].val = e.val
        /\ [e EXCEPT !.sent = w].stale = e.stale /\ [e EXCEPT !.sent = w].sent = w
    BY <1>2, <1>3 DEF Items
  <2> QED
    BY <1>1, <1>3, <2>1, <2>2 DEF w
<1>4. CASE ~e.has
  <2>1. ServerGet(e, a, n) = [Absent EXCEPT !.has = TRUE, !.cas = clock + 1, !.sent = TRUE]
    BY <1>4 DEF ServerGet
  <2>2. clock + 1 \in Nat
    OBVIOUS
  <2>3. ServerGet(e, a, n) = [has |-> TRUE, val |-> 0, cas |-> clock + 1, stale |-> FALSE,
                              sent |-> TRUE]
    BY <2>1 DEF Absent
  <2> DEFINE s == ServerGet(e, a, n)
  <2>4. s \in Items
    BY <2>2, <2>3 DEF Items
  <2>5. s.has /\ s.cas = clock + 1 /\ s.val = 0 /\ s.sent
    BY <2>3
  <2> QED
    BY <1>1, <1>4, <2>4, <2>5
<1> QED
  BY <1>3, <1>4, ItemFields

LEMMA GetSent ==
    ASSUME NEW e \in Items, NEW a \in BOOLEAN, NEW n \in BOOLEAN, clock \in Nat, e.has,
           Won(e, a, n)
    PROVE  ServerGet(e, a, n).sent
BY GetKeeps

LEMMA StoredKeeps ==
    ASSUME NEW v \in Nat, clock \in Nat
    PROVE  /\ Stored(v) \in Items /\ Stored(v).has /\ Stored(v).cas = clock + 1
           /\ Stored(v).val = v /\ ~Stored(v).sent /\ ~Stored(v).stale
<1>1. clock + 1 \in Nat
  OBVIOUS
<1>2. Stored(v) \in Items
  BY <1>1, AbsentType DEF Stored, Items
<1>3. /\ Stored(v).has /\ Stored(v).cas = clock + 1 /\ Stored(v).val = v
      /\ Stored(v).sent = Absent.sent /\ Stored(v).stale = Absent.stale
  BY AbsentType DEF Stored, Items
<1> QED
  BY <1>2, <1>3 DEF Absent

(* Which answers make a caller lead or refresh. *)
LEMMA ClassifyCases ==
    ASSUME NEW e \in Items, NEW a \in BOOLEAN, NEW n \in BOOLEAN
    PROVE  LET won  == Won(e, a, n)
               kind == classify(e, semanticGet(e, a, won))
           IN /\ kind \in {"hit", "refresh", "lead", "busy"}
              /\ kind \in {"lead", "refresh"} =>
                   ~e.has \/ (~e.sent /\ (won \/ (~e.stale /\ e.val = 0)))
<1> DEFINE won == Won(e, a, n)
           r == semanticGet(e, a, won)
<1>1. won \in BOOLEAN /\ (~e.has => won) /\ (won /\ e.has => ~e.sent)
  BY DEF Won, Items
<1>2. /\ r.status \in {"hit", "miss", "pending"} /\ r.lease \in {"busy", "granted", "none"}
      /\ r.lease = "busy" <=> e.has /\ e.sent
      /\ r.lease = "granted" => won
      /\ r.status = "miss" => won
      /\ won => r.lease # "none"
  BY <1>1, ItemFields DEF semanticGet
<1> HIDE DEF r, won
<1>3. e.val \in Nat /\ e.stale \in BOOLEAN /\ e.sent \in BOOLEAN /\ e.has \in BOOLEAN
  BY ItemFields
<1>4. classify(e, r) \in {"hit", "refresh", "lead", "busy"}
  BY <1>2, <1>3 DEF classify
<1>5. classify(e, r) \in {"lead", "refresh"} =>
        ~e.has \/ (~e.sent /\ (won \/ e.val = 0))
  BY <1>1, <1>2, <1>3 DEF classify
<1> QED
  BY <1>1, <1>2, <1>3, <1>4, <1>5 DEF r, won, Won

-----------------------------------------------------------------------------
(* Types *)

LEMMA TypeInit == Init => TypeInv
<1> SUFFICES ASSUME Init PROVE TypeInv
  OBVIOUS
<1>1. ServerType
  BY AbsentType, FetchAssumption DEF Init, ServerType
<1>2. ClientType /\ CallType
  BY FetchAssumption DEF Init, ClientType, CallType, Places, Slots, Errs
<1>3. bg \in [Calls -> Refreshes]
  BY NoRefreshType DEF Init
<1> QED
  BY <1>1, <1>2, <1>3 DEF TypeInv

(* Steps of the server for one key. *)
LEMMA writeBackType ==
    ASSUME ServerType, NEW k \in Keys, NEW v \in Nat, NEW t \in Nat, writeBack(k, v, t)
    PROVE  entry' \in [Keys -> Items] /\ clock' \in Nat
BY StoredKeeps DEF writeBack, ServerType

LEMMA releaseType ==
    ASSUME ServerType, NEW k \in Keys, NEW t \in Nat, releaseLease(k, t)
    PROVE  entry' \in [Keys -> Items] /\ clock' \in Nat
BY AbsentType DEF releaseLease, ServerType

LEMMA RepaidType ==
    ASSUME ServerType, CallType, NEW c \in Calls, NEW k \in Keys, Repaid(c, k)
    PROVE  /\ entry' \in [Keys -> Items] /\ clock' \in Nat
           /\ token' \in [Calls -> [Keys -> Nat]]
<1>1. val[c][k] \in Nat /\ token[c][k] \in Nat
  BY DEF CallType
<1>2. CASE repay(c, k) /\ UNCHANGED token
  BY <1>1, <1>2, writeBackType, releaseType DEF repay, CallType
<1>3. CASE Lost(Proc[c]) /\ token' = [token EXCEPT ![c][k] = 0]
  BY <1>3, PutCell DEF Lost, CallType, ServerType
<1> QED
  BY <1>2, <1>3 DEF Repaid

LEMMA ReturnType ==
    ASSUME CallType, NEW c \in Calls, NEW e \in Errs, Return(c, e)
    PROVE  pc' \in [Calls -> Places] /\ err' \in [Calls -> Errs]
BY DEF Return, CallType, Places

(* The answer to a read of key k, and what its caller makes of it. *)
Answer(c, k, near) == ServerGet(entry[k], c \in Ahead, near)
Verdict(c, k, near) ==
    classify(entry[k], semanticGet(entry[k], c \in Ahead, Won(entry[k], c \in Ahead, near)))

LEMMA ReadCases ==
    ASSUME TypeInv, NEW c \in Calls, NEW k \in Keys, Read(c, k)
    PROVE  \E near \in BOOLEAN :
             LET e1 == Answer(c, k, near)
                 kind == Verdict(c, k, near)
             IN
             /\ e1 \in Items /\ kind \in {"hit", "refresh", "lead", "busy"}
             /\ entry' = [entry EXCEPT ![k] = e1]
             /\ clock' = IF entry[k].has THEN clock ELSE clock + 1
             /\ slot' = [slot EXCEPT ![c][k] = kind]
             /\ token' = [token EXCEPT ![c][k] = IF kind \in {"lead", "refresh"} THEN e1.cas ELSE 0]
             /\ val' = [val EXCEPT ![c][k] = IF kind \in {"hit", "refresh"} THEN e1.val ELSE 0]
             /\ pc[c] = "read" /\ slot[c][k] = "todo"
             /\ UNCHANGED <<source, floor, env, clientVars, pc, join, own, attempt, err,
                            published, bg>>
<1>1. PICK near \in BOOLEAN :
        LET e1   == Answer(c, k, near)
            kind == Verdict(c, k, near)
        IN
        /\ entry' = [entry EXCEPT ![k] = e1]
        /\ clock' = IF entry[k].has THEN clock ELSE clock + 1
        /\ slot' = [slot EXCEPT ![c][k] = kind]
        /\ token' = [token EXCEPT ![c][k] = IF kind \in {"lead", "refresh"} THEN e1.cas ELSE 0]
        /\ val' = [val EXCEPT ![c][k] = IF kind \in {"hit", "refresh"} THEN e1.val ELSE 0]
  BY DEF Read, Answer, Verdict
<1>2. entry[k] \in Items /\ clock \in Nat /\ (c \in Ahead) \in BOOLEAN
  BY DEF TypeInv, ServerType
<1>3. Answer(c, k, near) \in Items
  BY <1>2, GetKeeps DEF Answer
<1>4. Verdict(c, k, near) \in {"hit", "refresh", "lead", "busy"}
  BY <1>2, ClassifyCases DEF Verdict
<1> QED
  BY <1>1, <1>3, <1>4 DEF Read

LEMMA TypeRead ==
    ASSUME TypeInv, NEW c \in Calls, NEW k \in Keys, Read(c, k)
    PROVE  TypeInv'
<1>1. PICK near \in BOOLEAN :
             LET e1 == Answer(c, k, near)
                 kind == Verdict(c, k, near)
             IN
             /\ e1 \in Items /\ kind \in {"hit", "refresh", "lead", "busy"}
             /\ entry' = [entry EXCEPT ![k] = e1]
             /\ clock' = IF entry[k].has THEN clock ELSE clock + 1
             /\ slot' = [slot EXCEPT ![c][k] = kind]
             /\ token' = [token EXCEPT ![c][k] = IF kind \in {"lead", "refresh"} THEN e1.cas ELSE 0]
             /\ val' = [val EXCEPT ![c][k] = IF kind \in {"hit", "refresh"} THEN e1.val ELSE 0]
  BY ReadCases
<1> DEFINE e1   == Answer(c, k, near)
           kind == Verdict(c, k, near)
<1>2. /\ (IF kind \in {"lead", "refresh"} THEN e1.cas ELSE 0) \in Nat
      /\ (IF kind \in {"hit", "refresh"} THEN e1.val ELSE 0) \in Nat
      /\ kind \in Slots
  BY <1>1, ItemFields DEF Slots
<1> HIDE DEF e1, kind
<1>3. entry' \in [Keys -> Items] /\ clock' \in Nat
  BY <1>1 DEF TypeInv, ServerType, e1
<1>4. /\ slot' \in [Calls -> [Keys -> Slots]] /\ token' \in [Calls -> [Keys -> Nat]]
      /\ val' \in [Calls -> [Keys -> Nat]]
  BY <1>1, <1>2, PutCell DEF TypeInv, CallType, e1, kind
<1>5. UNCHANGED <<source, floor, env, flights, refreshing, closed, pc, join, own, attempt,
                  err, published, bg>>
  BY DEF Read, clientVars
<1> QED
  BY <1>3, <1>4, <1>5 DEF TypeInv, ServerType, ClientType, CallType

LEMMA TypeReadError ==
    ASSUME TypeInv, NEW c \in Calls, NEW k \in Keys, ReadError(c, k) \/ ReadLossy(c, k)
    PROVE  TypeInv'
<1>1. entry' \in [Keys -> Items] /\ clock' \in Nat
  <2>1. entry[k] \in Items /\ clock \in Nat /\ (c \in Ahead) \in BOOLEAN /\ FALSE \in BOOLEAN
    BY DEF TypeInv, ServerType
  <2>2. ServerGet(entry[k], c \in Ahead, FALSE) \in Items
    BY <2>1, GetKeeps
  <2>3. \/ UNCHANGED <<entry, clock>>
        \/ /\ entry' = [entry EXCEPT ![k] = ServerGet(entry[k], c \in Ahead, FALSE)]
           /\ clock' \in {clock, clock + 1}
    BY DEF ReadError, ReadLossy, serverVars
  <2>4. ASSUME entry' = [entry EXCEPT ![k] = ServerGet(entry[k], c \in Ahead, FALSE)]
        PROVE  entry' \in [Keys -> Items]
    BY <2>2, <2>4 DEF TypeInv, ServerType
  <2>5. entry' \in [Keys -> Items]
    BY <2>3, <2>4 DEF TypeInv, ServerType
  <2>6. clock' = clock \/ clock' = clock + 1
    BY <2>3
  <2> QED
    BY <2>1, <2>5, <2>6
<1>2. slot' \in [Calls -> [Keys -> Slots]]
  <2>1. slot' = [slot EXCEPT ![c][k] = "error"] \/ slot' = [slot EXCEPT ![c][k] = "local"]
    BY DEF ReadError, ReadLossy
  <2>2. "error" \in Slots /\ "local" \in Slots
    BY DEF Slots
  <2>3. CASE slot' = [slot EXCEPT ![c][k] = "error"]
    BY <2>2, <2>3 DEF TypeInv, CallType
  <2>4. CASE slot' = [slot EXCEPT ![c][k] = "local"]
    BY <2>2, <2>4 DEF TypeInv, CallType
  <2> QED
    BY <2>1, <2>3, <2>4
<1>3. UNCHANGED <<source, floor, env, flights, refreshing, closed, pc, token, val, join, own,
                  attempt, err, published, bg>>
  BY DEF ReadError, ReadLossy, clientVars, serverVars
<1> QED
  BY <1>1, <1>2, <1>3 DEF TypeInv, ServerType, ClientType, CallType

LEMMA TypeCall ==
    ASSUME TypeInv, NEW c \in Calls,
           Start(c) \/ Sort(c) \/ Backoff(c) \/ CtxDone(c) \/ JoinEnd(c) \/ SettleEnd(c)
    PROVE  TypeInv'
<1>1. UNCHANGED <<serverVars, clientVars, token, val, join, own, published, bg>>
  BY DEF Start, Sort, Backoff, CtxDone, JoinEnd, SettleEnd
<1>2. pc' \in [Calls -> Places]
  <2>1. \E x \in Places : pc' = [pc EXCEPT ![c] = x]
    BY DEF Start, Sort, Backoff, CtxDone, JoinEnd, SettleEnd, Return, Places
  <2> QED
    BY <2>1, PutRow DEF TypeInv, CallType
<1>3. err' \in [Calls -> Errs]
  BY DEF TypeInv, CallType, Start, Sort, Backoff, CtxDone, JoinEnd, SettleEnd, Return, Errs
<1>4. attempt' \in [Calls -> 0..MaxAttempt]
  <2>1. UNCHANGED attempt
        \/ (attempt' = [attempt EXCEPT ![c] = attempt[c] + 1] /\ attempt[c] < MaxAttempt)
    BY DEF Start, Sort, Backoff, CtxDone, JoinEnd, SettleEnd, Again
  <2>2. attempt \in [Calls -> 0..MaxAttempt] /\ MaxAttempt \in Nat
    BY FetchAssumption DEF TypeInv, CallType
  <2> QED
    BY <2>1, <2>2
<1>5. slot' \in [Calls -> [Keys -> Slots]]
  <2>0. slot \in [Calls -> [Keys -> Slots]] /\ {"none", "todo", "local"} \subseteq Slots
    BY DEF TypeInv, CallType, Slots
  <2>1. UNCHANGED slot \/ \E r \in [Keys -> Slots] : slot' = [slot EXCEPT ![c] = r]
    <3>1. CASE Start(c)
      BY <2>0, <3>1 DEF Start
    <3>2. CASE Sort(c)
      BY <2>0, <3>2 DEF Sort
    <3>3. CASE Backoff(c)
      BY <2>0, <3>3 DEF Backoff
    <3> QED
      BY <3>1, <3>2, <3>3 DEF CtxDone, JoinEnd, SettleEnd
  <2> QED
    BY <2>0, <2>1, PutRow
<1> QED
  BY <1>1, <1>2, <1>3, <1>4, <1>5
     DEF TypeInv, ServerType, ClientType, CallType, serverVars, clientVars

LEMMA TypeKey ==
    ASSUME TypeInv, NEW c \in Calls, Waits(c), NEW k \in Keys,
           JoinFlight(c, k) \/ Joined(c, k) \/ Share(c, k)
    PROVE  TypeInv'
<1>0. /\ slot \in [Calls -> [Keys -> Slots]] /\ val \in [Calls -> [Keys -> Nat]]
      /\ join \in [Calls -> [Keys -> Calls \cup {None}]] /\ pc \in [Calls -> Places]
      /\ err \in [Calls -> Errs] /\ published \in [Calls -> {"no", "value", "error"}]
      /\ flights[Proc[c]][k] \in Calls \cup {None}
  BY FetchAssumption DEF TypeInv, CallType, ClientType
<1>1. UNCHANGED <<serverVars, clientVars, token, own, attempt, published, bg>>
  BY DEF JoinFlight, Joined, Share
<1>2. slot' \in [Calls -> [Keys -> Slots]]
  <2>1. UNCHANGED slot \/ \E s \in Slots : slot' = [slot EXCEPT ![c][k] = s]
    BY DEF JoinFlight, Joined, Share, Slots
  <2>2. ASSUME NEW s \in Slots, slot' = [slot EXCEPT ![c][k] = s]
        PROVE  slot' \in [Calls -> [Keys -> Slots]]
    BY <1>0, <2>2
  <2> QED
    BY <1>0, <2>1, <2>2
<1>3. join' \in [Calls -> [Keys -> Calls \cup {None}]]
  <2>1. \E f \in Calls \cup {None} : join' = [join EXCEPT ![c][k] = f]
    BY <1>0 DEF JoinFlight, Joined, Share
  <2> QED
    BY <1>0, <2>1, PutCell
<1>4. pc' \in [Calls -> Places] /\ err' \in [Calls -> Errs]
  BY <1>0 DEF JoinFlight, Joined, Share, Return, Places, Errs
<1>5. val' \in [Calls -> [Keys -> Nat]]
  <2>1. UNCHANGED val \/ val' = [val EXCEPT ![c][k] = val[join[c][k]][k]]
    BY DEF JoinFlight, Joined, Share
  <2>2. CASE JoinFlight(c, k)
    BY <1>0, <2>2 DEF JoinFlight
  <2>3. CASE Share(c, k)
    <3>1. join[c][k] \in Calls
      BY <1>0, <2>3 DEF Share
    <3>2. val[join[c][k]][k] \in Nat
      BY <1>0, <3>1
    <3>3. CASE val' = [val EXCEPT ![c][k] = val[join[c][k]][k]]
      BY <1>0, <3>2, <3>3
    <3> QED
      BY <1>0, <2>1, <3>3
  <2>4. CASE Joined(c, k)
    <3>1. join[c][k] \in Calls
      BY <1>0, <2>4 DEF Joined, Waits
    <3>2. val[join[c][k]][k] \in Nat
      BY <1>0, <3>1
    <3>3. CASE val' = [val EXCEPT ![c][k] = val[join[c][k]][k]]
      BY <1>0, <3>2, <3>3
    <3> QED
      BY <1>0, <2>1, <3>3
  <2> QED
    BY <2>2, <2>3, <2>4
<1> QED
  BY <1>1, <1>2, <1>3, <1>4, <1>5
     DEF TypeInv, ServerType, ClientType, CallType, serverVars, clientVars

LEMMA TypeGo ==
    ASSUME TypeInv, NEW c \in Calls, Go(c)
    PROVE  TypeInv'
<1> DEFINE mine == IF closed[Proc[c]] THEN {} ELSE In(c, {"refresh"}) \ refreshing[Proc[c]]
           new  == IF mine = {} THEN NoRefresh ELSE [NoRefresh EXCEPT !.pc = "load", !.mine = mine]
<1>0. mine \in SUBSET Keys /\ Proc[c] \in Procs
  BY FetchAssumption DEF In
<1>1. /\ refreshing' = [refreshing EXCEPT ![Proc[c]] = refreshing[Proc[c]] \cup mine]
      /\ bg' = [bg EXCEPT ![c] = new]
      /\ pc' = [pc EXCEPT ![c] = "done"] \/ pc' = [pc EXCEPT ![c] = "fly"]
      /\ UNCHANGED <<serverVars, flights, closed, slot, token, val, join, own, attempt, err,
                     published>>
  BY DEF Go, spawnRefresh
<1> HIDE DEF mine
<1>2. new \in Refreshes
  BY <1>0, NoRefreshType DEF Refreshes
<1> HIDE DEF new
<1>3. bg' \in [Calls -> Refreshes]
  BY <1>1, <1>2 DEF TypeInv
<1>4. refreshing' \in [Procs -> SUBSET Keys]
  BY <1>0, <1>1 DEF TypeInv, ClientType
<1>5. pc' \in [Calls -> Places]
  BY <1>1 DEF TypeInv, CallType, Places
<1> QED
  BY <1>1, <1>3, <1>4, <1>5 DEF TypeInv, ServerType, ClientType, CallType, serverVars

LEMMA TypeFly ==
    ASSUME TypeInv, NEW c \in Calls, Fly(c)
    PROVE  TypeInv'
<1> DEFINE p    == Proc[c]
           mine == {k \in In(c, {"lead", "local"}) : ~Joinable(c, k)}
           fl   == [k \in Keys |-> IF k \in mine THEN c ELSE flights[p][k]]
           jn   == [k \in Keys |-> IF k \in In(c, {"lead", "local"}) \ mine THEN flights[p][k]
                                   ELSE None]
<1>0. mine \in SUBSET Keys /\ p \in Procs
  BY FetchAssumption DEF In
<1>1. /\ flights' = [flights EXCEPT ![p] = fl] /\ own' = [own EXCEPT ![c] = mine]
      /\ join' = [join EXCEPT ![c] = jn]
      /\ pc' = [pc EXCEPT ![c] = "join"] \/ pc' = [pc EXCEPT ![c] = "load"]
      /\ UNCHANGED <<serverVars, refreshing, closed, slot, token, val, attempt, err,
                     published, bg>>
  BY DEF Fly
<1> HIDE DEF mine
<1>2. fl \in [Keys -> Calls \cup {None}] /\ jn \in [Keys -> Calls \cup {None}]
  BY <1>0 DEF TypeInv, ClientType
<1> HIDE DEF fl, jn, p
<1>3. flights' \in [Procs -> [Keys -> Calls \cup {None}]]
  BY <1>0, <1>1, <1>2 DEF TypeInv, ClientType
<1>4. own' \in [Calls -> SUBSET Keys] /\ join' \in [Calls -> [Keys -> Calls \cup {None}]]
  BY <1>0, <1>1, <1>2 DEF TypeInv, CallType
<1>5. pc' \in [Calls -> Places]
  BY <1>1 DEF TypeInv, CallType, Places
<1> QED
  BY <1>1, <1>3, <1>4, <1>5 DEF TypeInv, ServerType, ClientType, CallType, serverVars

LEMMA LoadsType ==
    ASSUME TypeInv, NEW k \in Keys, NEW v \in Loads(k)
    PROVE  v \in Nat
BY DEF TypeInv, ServerType, Loads

LEMMA TypeLoad ==
    ASSUME TypeInv, NEW c \in Calls, Load(c)
    PROVE  TypeInv'
<1>1. /\ UNCHANGED <<serverVars, clientVars, slot, token, join, own, attempt, published, bg>>
      /\ pc' = [pc EXCEPT ![c] = "publish"] \/ pc' = [pc EXCEPT ![c] = "back"]
  BY DEF Load
<1>2. pc' \in [Calls -> Places]
  BY <1>1 DEF TypeInv, CallType, Places
<1>3. err' \in [Calls -> Errs]
  BY DEF Load, TypeInv, CallType, Errs
<1>4. \E r \in [Keys -> Nat] : val' = [val EXCEPT ![c] = r]
  <2>0. val[c] \in [Keys -> Nat]
    BY DEF TypeInv, CallType
  <2>1. CASE val' = [val EXCEPT ![c] = [k \in Keys |-> IF k \in own[c] THEN 0 ELSE val[c][k]]]
    BY <2>0, <2>1
  <2>2. ASSUME NEW v \in [Keys -> UNION {Loads(k) : k \in Keys}], \A k \in Keys : v[k] \in Loads(k),
               val' = [val EXCEPT ![c] = [k \in Keys |-> IF k \in own[c] THEN v[k] ELSE val[c][k]]]
        PROVE  \E r \in [Keys -> Nat] : val' = [val EXCEPT ![c] = r]
    <3>1. \A k \in Keys : v[k] \in Nat
      BY <2>2, LoadsType
    <3>2. [k \in Keys |-> IF k \in own[c] THEN v[k] ELSE val[c][k]] \in [Keys -> Nat]
      BY <2>0, <3>1
    <3> QED
      BY <2>2, <3>2
  <2> QED
    BY <2>1, <2>2 DEF Load
<1>5. val' \in [Calls -> [Keys -> Nat]]
  BY <1>4 DEF TypeInv, CallType
<1> QED
  BY <1>1, <1>2, <1>3, <1>5
     DEF TypeInv, ServerType, ClientType, CallType, serverVars, clientVars

LEMMA TypeRepay ==
    ASSUME TypeInv, NEW c \in Calls, Back(c) \/ \E k \in Keys : Settle(c, k)
    PROVE  TypeInv'
<1>1. CASE Back(c)
  <2>1. /\ entry' \in [Keys -> Items] /\ clock' \in Nat
        /\ token' \in [Calls -> [Keys -> Nat]]
    <3>1. \/ UNCHANGED <<entry, clock, token>>
          \/ \E k \in Keys : Repaid(c, k)
      BY <1>1 DEF Back, In
    <3> QED
      BY <3>1, RepaidType DEF TypeInv, ServerType, CallType
  <2>2. /\ pc' = [pc EXCEPT ![c] = "publish"]
        /\ UNCHANGED <<source, floor, env, clientVars, slot, val, join, own, attempt, err,
                       published, bg>>
    BY <1>1 DEF Back
  <2> QED
    BY <2>1, <2>2 DEF TypeInv, ServerType, ClientType, CallType, clientVars, Places
<1>2. ASSUME NEW k \in Keys, Settle(c, k) PROVE TypeInv'
  <2>1. /\ entry' \in [Keys -> Items] /\ clock' \in Nat
        /\ token' \in [Calls -> [Keys -> Nat]]
    BY <1>2, RepaidType DEF Settle, TypeInv
  <2>2. /\ slot' = [slot EXCEPT ![c][k] = "hit"]
        /\ UNCHANGED <<source, floor, env, clientVars, pc, val, join, own, attempt, err,
                       published, bg>>
    BY <1>2 DEF Settle
  <2>3. slot' \in [Calls -> [Keys -> Slots]]
    BY <2>2 DEF TypeInv, CallType, Slots
  <2> QED
    BY <2>1, <2>2, <2>3 DEF TypeInv, ServerType, ClientType, CallType, clientVars
<1> QED
  BY <1>1, <1>2

LEMMA TypePublish ==
    ASSUME TypeInv, NEW c \in Calls, Publish(c)
    PROVE  TypeInv'
<1> DEFINE fl == [k \in Keys |-> IF k \in own[c] THEN None ELSE flights[Proc[c]][k]]
<1>0. Proc[c] \in Procs
  BY FetchAssumption
<1>1. /\ flights' = [flights EXCEPT ![Proc[c]] = fl]
      /\ published' = [published EXCEPT ![c] = "value"]
           \/ published' = [published EXCEPT ![c] = "error"]
      /\ pc' = [pc EXCEPT ![c] = "join"] \/ pc' = [pc EXCEPT ![c] = "done"]
      /\ UNCHANGED <<serverVars, refreshing, closed, slot, token, val, join, own, attempt,
                     err, bg>>
  BY DEF Publish
<1>2. fl \in [Keys -> Calls \cup {None}]
  BY <1>0 DEF TypeInv, ClientType
<1> HIDE DEF fl
<1>3. flights' \in [Procs -> [Keys -> Calls \cup {None}]]
  BY <1>0, <1>1, <1>2 DEF TypeInv, ClientType
<1>4. pc' \in [Calls -> Places]
  BY <1>1 DEF TypeInv, CallType, Places
<1>5. published' \in [Calls -> {"no", "value", "error"}]
  BY <1>1 DEF TypeInv, CallType
<1> QED
  BY <1>1, <1>3, <1>4, <1>5 DEF TypeInv, ServerType, ClientType, CallType, serverVars

LEMMA TypeBg ==
    ASSUME TypeInv, NEW c \in Calls, BgStep(c)
    PROVE  TypeInv'
<1>0. bg \in [Calls -> Refreshes] /\ bg[c] \in Refreshes
  BY DEF TypeInv
<1>1. CASE BgLoad(c)
  <2>1. UNCHANGED <<serverVars, clientVars, callVars>>
    BY <1>1 DEF BgLoad
  <2>2. CASE bg' = [bg EXCEPT ![c] = [bg[c] EXCEPT !.pc = "write"]]
    <3>1. [bg[c] EXCEPT !.pc = "write"] \in Refreshes
      BY <1>0 DEF Refreshes
    <3>2. bg' \in [Calls -> Refreshes]
      BY <1>0, <2>2, <3>1
    <3> QED
      BY <2>1, <3>2, ServerSteady, ClientSteady, CallSteady DEF TypeInv
  <2>3. ASSUME NEW v \in [Keys -> {0} \cup UNION {Loads(k) : k \in Keys}],
               \A k \in Keys : v[k] \in IF k \in bg[c].mine THEN Loads(k) ELSE {0},
               bg' = [bg EXCEPT ![c] = [bg[c] EXCEPT !.pc = "write", !.val = v,
                                         !.todo = {k \in bg[c].mine : v[k] > 0}]]
        PROVE  TypeInv'
    <3>1. \A k \in Keys : v[k] \in Nat
      BY <2>3, LoadsType
    <3>2. v \in [Keys -> Nat] /\ {k \in bg[c].mine : v[k] > 0} \in SUBSET Keys
      BY <1>0, <3>1, RefreshFields
    <3>3. [bg[c] EXCEPT !.pc = "write", !.val = v, !.todo = {k \in bg[c].mine : v[k] > 0}]
            \in Refreshes
      BY <1>0, <3>2 DEF Refreshes
    <3>4. bg' \in [Calls -> Refreshes]
      BY <1>0, <2>3, <3>3
    <3> QED
      BY <2>1, <3>4, ServerSteady, ClientSteady, CallSteady DEF TypeInv
  <2> QED
    BY <1>1, <2>2, <2>3 DEF BgLoad
<1>2. CASE BgEnd(c)
  <2>1. /\ refreshing' = [refreshing EXCEPT ![Proc[c]] = refreshing[Proc[c]] \ bg[c].mine]
        /\ bg' = [bg EXCEPT ![c] = NoRefresh]
        /\ UNCHANGED <<serverVars, flights, closed, callVars>>
    BY <1>2 DEF BgEnd
  <2>2. refreshing' \in [Procs -> SUBSET Keys]
    BY <2>1, FetchAssumption DEF TypeInv, ClientType
  <2>3. bg' \in [Calls -> Refreshes]
    BY <1>0, <2>1, NoRefreshType
  <2> QED
    BY <2>1, <2>2, <2>3, ServerSteady, CallSteady DEF TypeInv, ClientType
<1>3. ASSUME NEW k \in Keys, BgWrite(c, k) PROVE TypeInv'
  <2>1. /\ bg' = [bg EXCEPT ![c] = [bg[c] EXCEPT !.todo = bg[c].todo \ {k}]]
        /\ UNCHANGED <<source, floor, env, clientVars, callVars>>
    BY <1>3 DEF BgWrite
  <2>2. [bg[c] EXCEPT !.todo = bg[c].todo \ {k}] \in Refreshes
    BY <1>0 DEF Refreshes
  <2>3. bg' \in [Calls -> Refreshes]
    BY <1>0, <2>1, <2>2
  <2>4. entry' \in [Keys -> Items] /\ clock' \in Nat
    <3>1. bg[c].val[k] \in Nat /\ token[c][k] \in Nat
      BY <1>0, RefreshFields DEF TypeInv, CallType
    <3>2. CASE writeBack(k, bg[c].val[k], token[c][k])
      BY <3>1, <3>2, writeBackType DEF TypeInv
    <3> QED
      BY <1>3, <3>2 DEF BgWrite, Lost, TypeInv, ServerType
  <2> QED
    BY <2>1, <2>3, <2>4, ClientSteady, CallSteady DEF TypeInv, ServerType
<1> QED
  BY <1>1, <1>2, <1>3 DEF BgStep

LEMMA TypeEnv ==
    ASSUME TypeInv, EnvStep
    PROVE  TypeInv'
<1>1. ASSUME NEW p \in Procs, Close(p) PROVE TypeInv'
  <2>1. closed' \in [Procs -> BOOLEAN]
    BY <1>1 DEF Close, TypeInv, ClientType
  <2>2. UNCHANGED <<serverVars, flights, refreshing, callVars, bg>>
    BY <1>1 DEF Close
  <2> QED
    BY <2>1, <2>2, ServerSteady, CallSteady DEF TypeInv, ClientType
<1>2. ASSUME NEW k \in Keys,
             Change(k) \/ Delete(k) \/ Invalidate(k) \/ Evict(k) \/ StoreEmpty(k)
      PROVE  TypeInv'
  <2>1. env' \in 0..MaxEnv /\ UNCHANGED <<clientVars, callVars, bg>>
    <3>1. env < MaxEnv /\ env' = env + 1
      BY <1>2 DEF Change, Delete, Invalidate, Evict, StoreEmpty, Event
    <3> QED
      BY <1>2, <3>1, FetchAssumption
         DEF Change, Delete, Invalidate, Evict, StoreEmpty, TypeInv, ServerType
  <2>2. source' \in [Keys -> Nat \ {0}]
    BY <1>2 DEF Change, Delete, Invalidate, Evict, StoreEmpty, TypeInv, ServerType
  <2>3. floor' \in [Keys -> Nat]
    BY <1>2 DEF Change, Delete, Invalidate, Evict, StoreEmpty, TypeInv, ServerType
  <2>4. clock' \in Nat
    BY <1>2 DEF Change, Delete, Invalidate, Evict, StoreEmpty, TypeInv, ServerType
  <2>5. entry' \in [Keys -> Items]
    <3> DEFINE e == [entry[k] EXCEPT !.cas = clock + 1, !.stale = TRUE, !.sent = FALSE]
    <3>1. e \in Items
      <4>1. entry[k] \in Items /\ clock + 1 \in Nat
        BY DEF TypeInv, ServerType
      <4> QED
        BY <4>1 DEF Items
    <3>2. Stored(0) \in Items
      BY StoredKeeps DEF TypeInv, ServerType
    <3>3. CASE entry' = [entry EXCEPT ![k] = e]
      BY <3>1, <3>3 DEF TypeInv, ServerType
    <3>4. CASE entry' = [entry EXCEPT ![k] = Absent]
      BY <3>4, AbsentType DEF TypeInv, ServerType
    <3>5. CASE entry' = [entry EXCEPT ![k] = Stored(0)]
      BY <3>2, <3>5 DEF TypeInv, ServerType
    <3>6. CASE UNCHANGED entry
      BY <3>6 DEF TypeInv, ServerType
    <3> QED
      BY <1>2, <3>3, <3>4, <3>5, <3>6 DEF Change, Delete, Invalidate, Evict, StoreEmpty
  <2> QED
    BY <2>1, <2>2, <2>3, <2>4, <2>5, ClientSteady, CallSteady DEF TypeInv, ServerType
<1> QED
  BY <1>1, <1>2 DEF EnvStep

AllWait == \A c \in Calls : Waits(c)

LEMMA TypeStep == TypeInv /\ AllWait /\ [Next]_vars => TypeInv'
<1> SUFFICES ASSUME TypeInv, AllWait, [Next]_vars PROVE TypeInv'
  OBVIOUS
<1>1. ASSUME NEW c \in Calls, CallStep(c) \/ Start(c) \/ CtxDone(c) PROVE TypeInv'
  <2>1. ASSUME NEW k \in Keys, KeyStep(c, k) PROVE TypeInv'
    BY <2>1, TypeRead, TypeReadError, TypeKey, TypeRepay DEF KeyStep, AllWait
  <2> QED
    BY <1>1, <2>1, TypeCall, TypeGo, TypeFly, TypeLoad, TypeRepay, TypePublish DEF CallStep
<1>2. CASE UNCHANGED vars
  BY <1>2, ServerSteady, ClientSteady, CallSteady DEF vars, TypeInv
<1> QED
  BY <1>1, <1>2, TypeBg, TypeEnv DEF Next, Finished

-----------------------------------------------------------------------------
(* Where a call is, and what it has *)

Early == {"idle", "read", "busy", "go"}

(* Slots of keys for which no lease was won. *)
Unled == {"none", "todo", "local", "busy", "joining", "remaining", "error"}

Phase(c) ==
    /\ Waits(c)
    /\ pc[c] \in Early => bg[c].pc = "off"
    /\ pc[c] \in Early \cup {"fly"} => own[c] = {}
    /\ pc[c] = "back" => c \notin Many
    /\ pc[c] = "settle" => c \in Many
    /\ pc[c] = "join" /\ c \notin Many => own[c] = {}
    /\ pc[c] \in {"load", "back"} /\ c \notin Many =>
         \A k \in Keys : slot[c][k] = "lead" => k \in own[c]
    /\ bg[c].pc = "off" => bg[c].mine = {}
    /\ bg[c].todo \subseteq bg[c].mine
    /\ \A k \in Keys :
         /\ pc[c] = "idle" => slot[c][k] = "none"
         /\ slot[c][k] # "none" => k \in Want[c]
         /\ k \in bg[c].mine => slot[c][k] = "refresh"
         /\ k \in own[c] => slot[c][k] \in {"lead", "local", "hit"}
         /\ slot[c][k] \in Unled => token[c][k] = 0

AllPhase == \A c \in Calls : Phase(c)

(* The rows of the other calls. *)
SameRow(d) ==
    /\ pc'[d] = pc[d] /\ slot'[d] = slot[d] /\ token'[d] = token[d] /\ val'[d] = val[d]
    /\ join'[d] = join[d] /\ own'[d] = own[d] /\ bg'[d] = bg[d]

LEMMA PhaseOther == ASSUME NEW d \in Calls, SameRow(d), Phase(d) PROVE Phase(d)'
BY DEF SameRow, Phase, Waits

LEMMA RowTypes ==
    ASSUME TypeInv
    PROVE  /\ pc \in [Calls -> Places] /\ slot \in [Calls -> [Keys -> Slots]]
           /\ token \in [Calls -> [Keys -> Nat]] /\ val \in [Calls -> [Keys -> Nat]]
           /\ join \in [Calls -> [Keys -> Calls \cup {None}]]
           /\ own \in [Calls -> SUBSET Keys] /\ bg \in [Calls -> Refreshes]
BY DEF TypeInv, CallType

Step(c) == Start(c) \/ CallStep(c) \/ CtxDone(c) \/ BgStep(c)

(* What each kind of step changes of the rows of its call. *)
LEMMA RowsPlain ==
    ASSUME NEW c \in Calls,
           Start(c) \/ Sort(c) \/ Backoff(c) \/ CtxDone(c) \/ JoinEnd(c) \/ SettleEnd(c)
    PROVE  /\ \E x : pc' = [pc EXCEPT ![c] = x]
           /\ UNCHANGED slot \/ \E r : slot' = [slot EXCEPT ![c] = r]
           /\ UNCHANGED <<serverVars, clientVars, token, val, join, own, bg>>
BY DEF Start, Sort, Backoff, CtxDone, JoinEnd, SettleEnd, Return

LEMMA OtherRows ==
    ASSUME TypeInv, NEW c \in Calls, Step(c), NEW d \in Calls, d # c
    PROVE  SameRow(d)
<1>0. /\ pc \in [Calls -> Places] /\ slot \in [Calls -> [Keys -> Slots]]
      /\ token \in [Calls -> [Keys -> Nat]] /\ val \in [Calls -> [Keys -> Nat]]
      /\ join \in [Calls -> [Keys -> Calls \cup {None}]]
      /\ own \in [Calls -> SUBSET Keys] /\ bg \in [Calls -> Refreshes]
  BY RowTypes
<1>1. CASE Start(c) \/ Sort(c) \/ Backoff(c) \/ CtxDone(c) \/ JoinEnd(c) \/ SettleEnd(c)
  <2>1. /\ \E x : pc' = [pc EXCEPT ![c] = x]
        /\ UNCHANGED slot \/ \E r : slot' = [slot EXCEPT ![c] = r]
        /\ UNCHANGED <<token, val, join, own, bg>>
    BY <1>1, RowsPlain
  <2> QED
    BY <1>0, <2>1 DEF SameRow
<1>2. CASE Go(c) \/ Fly(c) \/ Load(c) \/ Publish(c)
  <2>1. pc'[d] = pc[d]
    BY <1>0, <1>2 DEF Go, Fly, Load, Publish
  <2>2. own'[d] = own[d] /\ join'[d] = join[d]
    BY <1>0, <1>2 DEF Go, Fly, Load, Publish
  <2>3. val'[d] = val[d]
    BY <1>0, <1>2 DEF Go, Fly, Load, Publish
  <2>4. bg'[d] = bg[d]
    BY <1>0, <1>2 DEF Go, Fly, Load, Publish, spawnRefresh
  <2>5. UNCHANGED <<slot, token>>
    BY <1>2 DEF Go, Fly, Load, Publish
  <2> QED
    BY <2>1, <2>2, <2>3, <2>4, <2>5 DEF SameRow
<1>3. ASSUME NEW k \in Keys, Repaid(c, k) PROVE token'[d] = token[d]
  BY <1>0, <1>3 DEF Repaid
<1>4. CASE Back(c)
  <2>1. token'[d] = token[d]
    BY <1>3, <1>4 DEF Back, In
  <2> QED
    BY <1>0, <1>4, <2>1 DEF Back, SameRow
<1>5. ASSUME NEW k \in Keys, Settle(c, k) PROVE SameRow(d)
  BY <1>0, <1>3, <1>5 DEF Settle, SameRow
<1>6. ASSUME NEW k \in Keys, Read(c, k) PROVE SameRow(d)
  BY <1>0, <1>6 DEF Read, SameRow
<1>7. ASSUME NEW k \in Keys, ReadLossy(c, k) \/ ReadError(c, k) PROVE SameRow(d)
  BY <1>0, <1>7 DEF ReadLossy, ReadError, SameRow
<1>8. ASSUME NEW k \in Keys, JoinFlight(c, k) \/ Joined(c, k) \/ Share(c, k) PROVE SameRow(d)
  BY <1>0, <1>8 DEF JoinFlight, Joined, Share, SameRow, Return
<1>9. CASE BgStep(c)
  BY <1>0, <1>9 DEF BgStep, BgLoad, BgEnd, BgWrite, SameRow, callVars
<1> QED
  BY <1>1, <1>2, <1>4, <1>5, <1>6, <1>7, <1>8, <1>9 DEF Step, CallStep, KeyStep

LEMMA PhaseCall ==
    ASSUME TypeInv, NEW c \in Calls, Phase(c),
           Start(c) \/ Sort(c) \/ Backoff(c) \/ CtxDone(c) \/ JoinEnd(c) \/ SettleEnd(c)
    PROVE  Phase(c)'
<1>0. pc \in [Calls -> Places] /\ slot \in [Calls -> [Keys -> Slots]]
  BY RowTypes
<1>1. UNCHANGED <<token, join, own, bg>>
  BY RowsPlain
<1>2. CASE Start(c)
  <2>1. /\ pc[c] = "idle" /\ pc'[c] = "read"
        /\ \A k \in Keys : slot'[c][k] = IF k \in Want[c] THEN "todo" ELSE "none"
    BY <1>0, <1>2 DEF Start
  <2>2. own[c] = {} /\ bg[c].pc = "off" /\ bg[c].mine = {}
    BY <2>1 DEF Phase, Early
  <2>3. \A k \in Keys : token[c][k] = 0
    BY <2>1 DEF Phase, Unled
  <2> QED
    BY <1>1, <2>1, <2>2, <2>3 DEF Phase, Early, Waits
<1>3. CASE Sort(c)
  <2>1. pc[c] = "read" /\ pc'[c] \in {"done", "busy", "go"}
    BY <1>0, <1>3 DEF Sort, Return
  <2>2. \A k \in Keys : slot'[c][k] = slot[c][k]
                        \/ (slot[c][k] = "error" /\ slot'[c][k] = "local")
    BY <1>0, <1>3 DEF Sort
  <2>3. own[c] = {} /\ bg[c].pc = "off" /\ bg[c].mine = {}
    BY <2>1 DEF Phase, Early
  <2> QED
    BY <1>1, <2>1, <2>2, <2>3 DEF Phase, Early, Waits, Unled
<1>4. CASE Backoff(c)
  <2>1. pc[c] = "busy" /\ pc'[c] \in {"read", "go"}
    BY <1>0, <1>4 DEF Backoff
  <2>2. \A k \in Keys : slot'[c][k] = slot[c][k]
                        \/ (slot[c][k] = "remaining" /\ slot'[c][k] \in {"todo", "local"})
    BY <1>0, <1>4 DEF Backoff
  <2>3. \A k \in Keys : slot[c][k] # "joining"
    BY <1>4 DEF Backoff, In
  <2>4. own[c] = {} /\ bg[c].pc = "off" /\ bg[c].mine = {}
    BY <2>1 DEF Phase, Early
  <2> QED
    BY <1>1, <2>1, <2>2, <2>3, <2>4 DEF Phase, Early, Waits, Unled
<1>5. CASE CtxDone(c)
  <2>1. UNCHANGED slot
    BY <1>5 DEF CtxDone
  <2>2. pc'[c] = "done" \/ (pc'[c] = "settle" /\ c \in Many)
    BY <1>0, <1>5 DEF CtxDone, Return
  <2> QED
    BY <1>1, <2>1, <2>2 DEF Phase, Early, Waits
<1>6. CASE JoinEnd(c) \/ SettleEnd(c)
  <2>1. UNCHANGED slot
    BY <1>6 DEF JoinEnd, SettleEnd
  <2>2. pc'[c] = "done" \/ (pc'[c] = "settle" /\ c \in Many)
    BY <1>0, <1>6 DEF JoinEnd, SettleEnd
  <2> QED
    BY <1>1, <2>1, <2>2 DEF Phase, Early, Waits
<1> QED
  BY <1>2, <1>3, <1>4, <1>5, <1>6

(* Steps that change one slot of the call. *)
LEMMA PhaseRead ==
    ASSUME TypeInv, NEW c \in Calls, Phase(c), NEW k \in Keys,
           Read(c, k) \/ ReadLossy(c, k) \/ ReadError(c, k)
    PROVE  Phase(c)'
<1>0. slot \in [Calls -> [Keys -> Slots]] /\ token \in [Calls -> [Keys -> Nat]]
  BY RowTypes
<1>1. pc[c] = "read" /\ slot[c][k] = "todo" /\ UNCHANGED <<pc, join, own, bg>>
  BY DEF Read, ReadLossy, ReadError
<1>2. /\ \A j \in Keys : j # k => slot'[c][j] = slot[c][j] /\ token'[c][j] = token[c][j]
      /\ slot'[c][k] \in {"hit", "refresh", "lead", "busy", "local", "error"}
      /\ slot'[c][k] \in {"busy", "local", "error"} => token'[c][k] = 0
  <2>1. CASE Read(c, k)
    <3>1. PICK near \in BOOLEAN :
             LET e1 == Answer(c, k, near)
                 kind == Verdict(c, k, near)
             IN
             /\ kind \in {"hit", "refresh", "lead", "busy"}
             /\ slot' = [slot EXCEPT ![c][k] = kind]
             /\ token' = [token EXCEPT ![c][k] = IF kind \in {"lead", "refresh"} THEN e1.cas ELSE 0]
      BY <2>1, ReadCases
    <3> QED
      BY <1>0, <3>1
  <2>2. CASE ReadLossy(c, k) \/ ReadError(c, k)
    <3>1. UNCHANGED token /\ \E x \in {"local", "error"} : slot' = [slot EXCEPT ![c][k] = x]
      BY <2>2 DEF ReadLossy, ReadError
    <3>2. token[c][k] = 0
      BY <1>1 DEF Phase, Unled
    <3> QED
      BY <1>0, <3>1, <3>2
  <2> QED
    BY <2>1, <2>2
<1>3. own[c] = {} /\ bg[c].pc = "off" /\ bg[c].mine = {}
  BY <1>1 DEF Phase, Early
<1>4. k \in Want[c]
  BY <1>1 DEF Phase
<1>5. \A j \in Keys : slot'[c][j] # "joining"
  BY <1>1, <1>2 DEF Phase, Waits
<1>6. Waits(c)'
  BY <1>5 DEF Waits
<1> QED
  BY <1>1, <1>2, <1>3, <1>4, <1>6 DEF Phase, Early, Unled

LEMMA PhaseJoin ==
    ASSUME TypeInv, NEW c \in Calls, Phase(c), NEW k \in Keys,
           JoinFlight(c, k) \/ Joined(c, k) \/ Share(c, k)
    PROVE  Phase(c)'
<1>0. /\ pc \in [Calls -> Places] /\ slot \in [Calls -> [Keys -> Slots]]
      /\ join \in [Calls -> [Keys -> Calls \cup {None}]]
  BY RowTypes
<1>1. UNCHANGED <<token, own, bg>>
  BY DEF JoinFlight, Joined, Share
<1>2. CASE JoinFlight(c, k)
  <2>1. /\ pc[c] = "busy" /\ slot[c][k] = "busy" /\ UNCHANGED pc
        /\ \A j \in Keys : j # k => slot'[c][j] = slot[c][j] /\ join'[c][j] = join[c][j]
        /\ \/ slot'[c][k] = "remaining"
           \/ slot'[c][k] = "joining" /\ join'[c][k] # None
    BY <1>0, <1>2 DEF JoinFlight
  <2>2. own[c] = {} /\ bg[c].pc = "off" /\ bg[c].mine = {}
    BY <2>1 DEF Phase, Early
  <2>3. Waits(c)'
    BY <2>1 DEF Phase, Waits
  <2> QED
    BY <1>1, <2>1, <2>2, <2>3 DEF Phase, Early, Unled
<1>3. CASE Joined(c, k)
  <2>1. /\ pc[c] = "busy" /\ slot[c][k] = "joining"
        /\ \A j \in Keys : j # k => slot'[c][j] = slot[c][j] /\ join'[c][j] = join[c][j]
        /\ \/ pc'[c] = "done" /\ slot'[c][k] = "joining"
           \/ pc'[c] = "busy" /\ slot'[c][k] = "hit"
    BY <1>0, <1>3 DEF Joined, Return
  <2>2. own[c] = {} /\ bg[c].pc = "off" /\ bg[c].mine = {}
    BY <2>1 DEF Phase, Early
  <2>3. Waits(c)'
    BY <2>1 DEF Phase, Waits
  <2> QED
    BY <1>1, <2>1, <2>2, <2>3 DEF Phase, Early, Unled
<1>4. CASE Share(c, k)
  <2>1. pc[c] = "join" /\ UNCHANGED <<pc, slot>>
    BY <1>4 DEF Share
  <2> QED
    BY <1>1, <2>1 DEF Phase, Early, Waits
<1> QED
  BY <1>2, <1>3, <1>4

(* The keys a call takes on to refresh, and the ones it flies for. *)
Taken(c) == IF closed[Proc[c]] THEN {} ELSE In(c, {"refresh"}) \ refreshing[Proc[c]]
Flown(c) == {k \in In(c, {"lead", "local"}) : ~Joinable(c, k)}

LEMMA GoCases ==
    ASSUME TypeInv, NEW c \in Calls, Go(c)
    PROVE  /\ pc[c] = "go" /\ pc'[c] \in {"done", "fly"}
           /\ refreshing' = [refreshing EXCEPT ![Proc[c]] = refreshing[Proc[c]] \cup Taken(c)]
           /\ bg'[c].mine = Taken(c) /\ bg'[c].todo = {}
           /\ bg'[c].pc = IF Taken(c) = {} THEN "off" ELSE "load"
           /\ UNCHANGED <<serverVars, flights, closed, slot, token, val, join, own>>
<1> DEFINE new == IF Taken(c) = {} THEN NoRefresh
                  ELSE [NoRefresh EXCEPT !.pc = "load", !.mine = Taken(c)]
<1>1. /\ refreshing' = [refreshing EXCEPT ![Proc[c]] = refreshing[Proc[c]] \cup Taken(c)]
      /\ bg' = [bg EXCEPT ![c] = new]
      /\ pc[c] = "go"
      /\ pc' = [pc EXCEPT ![c] = "done"] \/ pc' = [pc EXCEPT ![c] = "fly"]
      /\ UNCHANGED <<serverVars, flights, closed, slot, token, val, join, own>>
  BY DEF Go, spawnRefresh, Taken
<1>2. /\ new.mine = Taken(c) /\ new.todo = {}
      /\ new.pc = IF Taken(c) = {} THEN "off" ELSE "load"
  BY DEF NoRefresh
<1> HIDE DEF new
<1>3. bg'[c] = new /\ pc'[c] \in {"done", "fly"}
  BY <1>1, RowTypes
<1> QED
  BY <1>1, <1>2, <1>3

LEMMA FlyCases ==
    ASSUME TypeInv, NEW c \in Calls, Fly(c)
    PROVE  /\ pc[c] = "fly" /\ own'[c] = Flown(c)
           /\ pc'[c] = IF Flown(c) = {} THEN "join" ELSE "load"
           /\ \A p \in Procs, k \in Keys :
                flights'[p][k] = IF p = Proc[c] /\ k \in Flown(c) THEN c ELSE flights[p][k]
           /\ UNCHANGED <<serverVars, refreshing, closed, slot, token, val, bg>>
<1>1. /\ flights' = [flights EXCEPT ![Proc[c]] =
                       [k \in Keys |-> IF k \in Flown(c) THEN c ELSE flights[Proc[c]][k]]]
      /\ own' = [own EXCEPT ![c] = Flown(c)]
      /\ pc[c] = "fly"
      /\ pc' = [pc EXCEPT ![c] = IF Flown(c) = {} THEN "join" ELSE "load"]
      /\ UNCHANGED <<serverVars, refreshing, closed, slot, token, val, bg>>
  BY DEF Fly, Flown
<1>2. flights \in [Procs -> [Keys -> Calls \cup {None}]] /\ Proc[c] \in Procs
  BY FetchAssumption DEF TypeInv, ClientType
<1>3. \A p \in Procs, k \in Keys :
        flights'[p][k] = IF p = Proc[c] /\ k \in Flown(c) THEN c ELSE flights[p][k]
  BY <1>1, <1>2
<1>4. own'[c] = Flown(c) /\ pc'[c] = IF Flown(c) = {} THEN "join" ELSE "load"
  BY <1>1, RowTypes
<1> QED
  BY <1>1, <1>3, <1>4

LEMMA PublishCases ==
    ASSUME TypeInv, NEW c \in Calls, Publish(c)
    PROVE  /\ pc[c] = "publish" /\ pc'[c] = IF c \in Many THEN "join" ELSE "done"
           /\ \A p \in Procs, k \in Keys :
                flights'[p][k] = IF p = Proc[c] /\ k \in own[c] THEN None ELSE flights[p][k]
           /\ UNCHANGED <<serverVars, refreshing, closed, slot, token, val, join, own, bg>>
<1>1. /\ flights' = [flights EXCEPT ![Proc[c]] =
                       [k \in Keys |-> IF k \in own[c] THEN None ELSE flights[Proc[c]][k]]]
      /\ pc[c] = "publish"
      /\ pc' = [pc EXCEPT ![c] = IF c \in Many THEN "join" ELSE "done"]
      /\ UNCHANGED <<serverVars, refreshing, closed, slot, token, val, join, own, bg>>
  BY DEF Publish
<1>2. flights \in [Procs -> [Keys -> Calls \cup {None}]] /\ Proc[c] \in Procs
  BY FetchAssumption DEF TypeInv, ClientType
<1>3. \A p \in Procs, k \in Keys :
        flights'[p][k] = IF p = Proc[c] /\ k \in own[c] THEN None ELSE flights[p][k]
  BY <1>1, <1>2
<1> QED
  BY <1>1, <1>3, RowTypes

LEMMA PhaseGo ==
    ASSUME TypeInv, NEW c \in Calls, Phase(c), Go(c)
    PROVE  Phase(c)'
<1>1. \A k \in Taken(c) : k \in Keys /\ slot[c][k] = "refresh"
  BY DEF Taken, In
<1>2. own[c] = {}
  BY GoCases DEF Phase, Early
<1>3. Waits(c)'
  BY GoCases DEF Waits
<1> QED
  BY <1>1, <1>2, <1>3, GoCases DEF Phase, Early

LEMMA PhaseFly ==
    ASSUME TypeInv, NEW c \in Calls, Phase(c), Fly(c)
    PROVE  Phase(c)'
<1>1. \A k \in Flown(c) : k \in Keys /\ slot[c][k] \in {"lead", "local"}
  BY DEF Flown, In
<1>2. Waits(c)'
  BY FlyCases DEF Waits
<1>3. ASSUME c \notin Many, Flown(c) # {}, NEW k \in Keys, slot[c][k] = "lead"
      PROVE  k \in Flown(c)
  <2>1. PICK w \in Keys : Want[c] = {w}
    BY <1>3, FetchAssumption
  <2>2. PICK j \in Flown(c) : TRUE
    BY <1>3
  <2>3. j \in Want[c] /\ k \in Want[c]
    BY <1>1, <1>3, <2>2 DEF Phase
  <2> QED
    BY <2>1, <2>2, <2>3
<1>4. pc'[c] \in {"join", "load"} /\ UNCHANGED <<slot, token, bg>>
  BY FlyCases
<1>5. pc'[c] = "join" => own'[c] = {}
  BY FlyCases
<1>6. pc'[c] = "load" /\ c \notin Many => \A k \in Keys : slot'[c][k] = "lead" => k \in own'[c]
  BY <1>3, FlyCases
<1>7. \A k \in Keys : k \in own'[c] => slot'[c][k] \in {"lead", "local", "hit"}
  BY <1>1, FlyCases
<1> QED
  BY <1>2, <1>4, <1>5, <1>6, <1>7 DEF Phase, Early

LEMMA PhaseLoad ==
    ASSUME TypeInv, NEW c \in Calls, Phase(c), Load(c) \/ Publish(c)
    PROVE  Phase(c)'
<1>1. CASE Load(c)
  <2>1. /\ pc[c] = "load" /\ pc'[c] = IF c \in Many THEN "publish" ELSE "back"
        /\ UNCHANGED <<slot, token, join, own, bg>>
    BY <1>1, RowTypes DEF Load
  <2> QED
    BY <2>1 DEF Phase, Early, Waits
<1>2. CASE Publish(c)
  <2>1. /\ pc[c] = "publish" /\ pc'[c] = IF c \in Many THEN "join" ELSE "done"
        /\ UNCHANGED <<slot, token, join, own, bg>>
    BY <1>2, PublishCases
  <2> QED
    BY <2>1 DEF Phase, Early, Waits
<1> QED
  BY <1>1, <1>2

LEMMA RepaidToken ==
    ASSUME TypeInv, NEW c \in Calls, NEW k \in Keys, Repaid(c, k)
    PROVE  \A j \in Keys : token'[c][j] = token[c][j] \/ (j = k /\ token'[c][j] = 0)
BY RowTypes DEF Repaid

LEMMA PhaseRepay ==
    ASSUME TypeInv, NEW c \in Calls, Phase(c), Back(c) \/ \E k \in Keys : Settle(c, k)
    PROVE  Phase(c)'
<1>1. CASE Back(c)
  <2>1. pc[c] = "back" /\ pc'[c] = "publish" /\ UNCHANGED <<slot, join, own, bg>>
    BY <1>1, RowTypes DEF Back
  <2>2. \A j \in Keys : token'[c][j] \in {token[c][j], 0}
    BY <1>1, RepaidToken DEF Back, In
  <2> QED
    BY <2>1, <2>2 DEF Phase, Early, Waits
<1>2. ASSUME NEW k \in Keys, Settle(c, k) PROVE Phase(c)'
  <2>1. /\ pc[c] = "settle" /\ slot[c][k] = "lead" /\ UNCHANGED <<pc, join, own, bg>>
        /\ slot'[c][k] = "hit" /\ \A j \in Keys : j # k => slot'[c][j] = slot[c][j]
    BY <1>2, RowTypes DEF Settle
  <2>2. \A j \in Keys : token'[c][j] \in {token[c][j], 0}
    BY <1>2, RepaidToken DEF Settle
  <2>3. Waits(c)'
    BY <2>1 DEF Waits
  <2> QED
    BY <2>1, <2>2, <2>3 DEF Phase, Early, Unled
<1> QED
  BY <1>1, <1>2

LEMMA BgCases ==
    ASSUME TypeInv, NEW c \in Calls, BgStep(c)
    PROVE  /\ bg[c].pc # "off"
           /\ UNCHANGED <<flights, closed, callVars>>
           /\ \/ /\ bg'[c].mine = bg[c].mine /\ bg'[c].pc = "write"
                 /\ bg'[c].todo \subseteq bg[c].mine \cup bg[c].todo /\ UNCHANGED refreshing
              \/ /\ bg'[c].mine = {} /\ bg'[c].todo = {} /\ bg'[c].pc = "off"
                 /\ refreshing' = [refreshing EXCEPT ![Proc[c]] =
                                     refreshing[Proc[c]] \ bg[c].mine]
<1>0. bg \in [Calls -> Refreshes] /\ bg[c] \in Refreshes
  BY DEF TypeInv
<1>1. CASE BgLoad(c)
  <2>1. bg[c].pc = "load" /\ UNCHANGED <<flights, closed, refreshing, callVars>>
    BY <1>1 DEF BgLoad, clientVars
  <2>2. CASE bg' = [bg EXCEPT ![c] = [bg[c] EXCEPT !.pc = "write"]]
    <3>1. bg'[c] = [bg[c] EXCEPT !.pc = "write"]
      BY <1>0, <2>2
    <3> QED
      BY <1>0, <2>1, <3>1 DEF Refreshes
  <2>3. ASSUME NEW v,
               bg' = [bg EXCEPT ![c] = [bg[c] EXCEPT !.pc = "write", !.val = v,
                                         !.todo = {k \in bg[c].mine : v[k] > 0}]]
        PROVE  /\ bg'[c].mine = bg[c].mine /\ bg'[c].pc = "write"
               /\ bg'[c].todo \subseteq bg[c].mine
    <3>1. bg'[c] = [bg[c] EXCEPT !.pc = "write", !.val = v,
                                  !.todo = {k \in bg[c].mine : v[k] > 0}]
      BY <1>0, <2>3
    <3>2. bg'[c].todo = {k \in bg[c].mine : v[k] > 0}
      BY <1>0, <3>1 DEF Refreshes
    <3> QED
      BY <1>0, <3>1, <3>2 DEF Refreshes
  <2> QED
    BY <1>1, <2>1, <2>2, <2>3 DEF BgLoad
<1>2. CASE BgEnd(c)
  <2>1. bg'[c] = NoRefresh /\ bg[c].pc = "write"
    BY <1>0, <1>2 DEF BgEnd
  <2> QED
    BY <1>2, <2>1 DEF BgEnd, NoRefresh
<1>3. ASSUME NEW k \in Keys, BgWrite(c, k)
      PROVE  /\ bg[c].pc # "off" /\ UNCHANGED <<flights, closed, refreshing, callVars>>
             /\ bg'[c].mine = bg[c].mine /\ bg'[c].pc = "write"
             /\ bg'[c].todo \subseteq bg[c].todo
  <2>1. bg'[c] = [bg[c] EXCEPT !.todo = bg[c].todo \ {k}] /\ bg[c].pc = "write"
    BY <1>0, <1>3 DEF BgWrite
  <2>2. bg'[c].todo = bg[c].todo \ {k} /\ bg'[c].mine = bg[c].mine /\ bg'[c].pc = "write"
    BY <1>0, <2>1 DEF Refreshes
  <2> QED
    BY <1>3, <2>1, <2>2 DEF BgWrite, clientVars
<1> QED
  BY <1>1, <1>2, <1>3 DEF BgStep

LEMMA PhaseBg ==
    ASSUME TypeInv, NEW c \in Calls, Phase(c), BgStep(c)
    PROVE  Phase(c)'
<1>1. UNCHANGED <<pc, slot, token, join, own>> /\ bg[c].pc # "off"
  BY BgCases DEF callVars
<1>2. /\ bg'[c].pc = "off" => bg'[c].mine = {}
      /\ bg'[c].todo \subseteq bg'[c].mine /\ bg'[c].mine \subseteq bg[c].mine
  BY BgCases DEF Phase
<1> QED
  BY <1>1, <1>2 DEF Phase, Early, Waits

LEMMA PhaseStep == TypeInv /\ AllPhase /\ [Next]_vars => AllPhase'
<1> SUFFICES ASSUME TypeInv, AllPhase, [Next]_vars PROVE AllPhase'
  OBVIOUS
<1>1. ASSUME NEW c \in Calls, Step(c) PROVE AllPhase'
  <2>1. Phase(c)'
    <3>1. Phase(c)
      BY DEF AllPhase
    <3>2. ASSUME NEW k \in Keys, KeyStep(c, k) PROVE Phase(c)'
      BY <3>1, <3>2, PhaseRead, PhaseJoin, PhaseRepay DEF KeyStep
    <3> QED
      BY <1>1, <3>1, <3>2, PhaseCall, PhaseGo, PhaseFly, PhaseLoad, PhaseRepay, PhaseBg
         DEF Step, CallStep
  <2>2. \A d \in Calls : d # c => Phase(d)'
    BY <1>1, OtherRows, PhaseOther DEF AllPhase
  <2> QED
    BY <2>1, <2>2 DEF AllPhase
<1>2. CASE EnvStep \/ UNCHANGED vars
  <2>1. UNCHANGED <<callVars, bg>>
    BY <1>2 DEF EnvStep, Change, Delete, Invalidate, Evict, StoreEmpty, Close, vars
  <2> QED
    BY <2>1 DEF AllPhase, Phase, Waits, callVars
<1> QED
  BY <1>1, <1>2 DEF Next, Finished, Step

LEMMA PhaseInit == Init => AllPhase
<1> SUFFICES ASSUME Init, NEW c \in Calls PROVE Phase(c)
  BY DEF AllPhase
<1>1. pc[c] = "idle" /\ own[c] = {} /\ bg[c].pc = "off" /\ bg[c].mine = {} /\ bg[c].todo = {}
  BY DEF Init, NoRefresh
<1>2. \A k \in Keys : slot[c][k] = "none" /\ token[c][k] = 0
  BY DEF Init
<1> QED
  BY <1>1, <1>2 DEF Phase, Waits

BaseInv == TypeInv /\ AllPhase

LEMMA BaseInit == Init => BaseInv
BY TypeInit, PhaseInit DEF BaseInv

LEMMA BaseStep == BaseInv /\ [Next]_vars => BaseInv'
<1>1. AllPhase => AllWait
  BY DEF AllPhase, Phase, AllWait
<1> QED
  BY <1>1, TypeStep, PhaseStep DEF BaseInv

LEMMA BaseAlways == Spec => []BaseInv
BY BaseInit, BaseStep, PTL DEF Spec

(* For any calls, keys, processes and events: the maps of each client and  *)
(* what each call knows of its keys keep their shape, reads of a key that  *)
(* is joined only ever look at a flight that was registered, and no call   *)
(* waits more often than fetchWaitBackoff has entries.                     *)
THEOREM TypeCorrect == Spec => []TypeOK
<1>1. BaseInv => TypeOK
  BY TypeParts DEF BaseInv
<1> QED
  BY <1>1, BaseAlways, PTL

-----------------------------------------------------------------------------
(* The maps of a client *)

Flying(c) == pc[c] \in {"load", "back", "publish"}

(* fetchFlights holds the keys of the flights in progress, and nothing     *)
(* else: one flight for each.                                              *)
FlightMap ==
    /\ \A p \in Procs, k \in Keys, f \in Calls : flights[p][k] = f =>
         Flying(f) /\ k \in own[f] /\ Proc[f] = p
    /\ \A c \in Calls : Flying(c) => \A k \in own[c] : flights[Proc[c]][k] = c

(* refreshing holds the keys of the background refreshes in progress, and  *)
(* no two refreshes of a process share one.                                *)
RefreshMap ==
    /\ \A c \in Calls : bg[c].mine \subseteq refreshing[Proc[c]]
    /\ \A c, d \in Calls, k \in Keys :
         Proc[c] = Proc[d] /\ k \in bg[c].mine /\ k \in bg[d].mine => c = d
    /\ \A p \in Procs : \A k \in refreshing[p] :
         \E c \in Calls : Proc[c] = p /\ k \in bg[c].mine

LEMMA FlightSame ==
    ASSUME FlightMap, UNCHANGED flights,
           \A c \in Calls : own'[c] = own[c] /\ (Flying(c)' <=> Flying(c))
    PROVE  FlightMap'
BY DEF FlightMap

LEMMA FlightFly ==
    ASSUME BaseInv, FlightMap, NEW c \in Calls, Fly(c)
    PROVE  FlightMap'
<1>0. TypeInv /\ Proc[c] \in Procs /\ None \notin Calls
  BY FetchAssumption DEF BaseInv
<1>1. /\ ~Flying(c) /\ own'[c] = Flown(c) /\ (Flown(c) # {} => Flying(c)')
      /\ \A p \in Procs, k \in Keys :
                flights'[p][k] = IF p = Proc[c] /\ k \in Flown(c) THEN c ELSE flights[p][k]
  BY <1>0, FlyCases DEF Flying
<1>2. \A d \in Calls : d # c => own'[d] = own[d] /\ (Flying(d)' <=> Flying(d))
  BY <1>0, OtherRows DEF SameRow, Step, CallStep, Flying
<1>3. \A k \in Flown(c) : k \in Keys /\ flights[Proc[c]][k] = None
  BY DEF Flown, Joinable, In
<1>5. ASSUME NEW p \in Procs, NEW k \in Keys, NEW f \in Calls, flights'[p][k] = f
      PROVE  Flying(f)' /\ k \in own'[f] /\ Proc[f] = p
  <2>1. CASE p = Proc[c] /\ k \in Flown(c)
    BY <1>1, <1>5, <2>1
  <2>2. CASE ~(p = Proc[c] /\ k \in Flown(c))
    <3>1. Flying(f) /\ k \in own[f] /\ Proc[f] = p
      BY <1>1, <1>5, <2>2 DEF FlightMap
    <3> QED
      BY <1>1, <1>2, <3>1
  <2> QED
    BY <2>1, <2>2
<1>6. ASSUME NEW d \in Calls, Flying(d)', NEW k \in own'[d] PROVE flights'[Proc[d]][k] = d
  <2>0. Proc[d] \in Procs
    BY FetchAssumption
  <2>1. CASE d = c
    BY <1>0, <1>1, <1>3, <1>6, <2>1
  <2>2. CASE d # c
    <3>1. Flying(d) /\ k \in own[d] /\ k \in Keys
      BY <1>0, <1>2, <1>6, <2>2, RowTypes
    <3>2. flights[Proc[d]][k] = d
      BY <3>1 DEF FlightMap
    <3> QED
      BY <1>0, <1>1, <1>3, <2>0, <3>1, <3>2
  <2> QED
    BY <2>1, <2>2
<1> QED
  BY <1>5, <1>6 DEF FlightMap

LEMMA FlightPublish ==
    ASSUME BaseInv, FlightMap, NEW c \in Calls, Publish(c)
    PROVE  FlightMap'
<1>0. TypeInv /\ Proc[c] \in Procs /\ None \notin Calls
  BY FetchAssumption DEF BaseInv
<1>1. /\ Flying(c) /\ ~Flying(c)' /\ UNCHANGED own
      /\ \A p \in Procs, k \in Keys :
           flights'[p][k] = IF p = Proc[c] /\ k \in own[c] THEN None ELSE flights[p][k]
  BY <1>0, PublishCases DEF Flying
<1>2. \A d \in Calls : d # c => (Flying(d)' <=> Flying(d))
  BY <1>0, OtherRows DEF SameRow, Step, CallStep, Flying
<1>3. ASSUME NEW p \in Procs, NEW k \in Keys, NEW f \in Calls, flights'[p][k] = f
      PROVE  Flying(f)' /\ k \in own'[f] /\ Proc[f] = p
  <2>1. ~(p = Proc[c] /\ k \in own[c]) /\ flights[p][k] = f
    BY <1>0, <1>1, <1>3
  <2>2. Flying(f) /\ k \in own[f] /\ Proc[f] = p
    BY <2>1 DEF FlightMap
  <2> QED
    BY <1>1, <1>2, <2>1, <2>2
<1>4. ASSUME NEW d \in Calls, Flying(d)', NEW k \in own'[d] PROVE flights'[Proc[d]][k] = d
  <2>0. Proc[d] \in Procs
    BY FetchAssumption
  <2>1. d # c /\ Flying(d) /\ k \in own[d] /\ k \in Keys
    BY <1>0, <1>1, <1>2, <1>4, RowTypes
  <2>2. flights[Proc[d]][k] = d
    BY <2>1 DEF FlightMap
  <2>3. ~(Proc[d] = Proc[c] /\ k \in own[c])
    BY <1>1, <2>1, <2>2 DEF FlightMap
  <2> QED
    BY <1>1, <2>0, <2>1, <2>2, <2>3
<1> QED
  BY <1>3, <1>4 DEF FlightMap

LEMMA FlightStep == BaseInv /\ FlightMap /\ [Next]_vars => FlightMap'
<1> SUFFICES ASSUME BaseInv, FlightMap, [Next]_vars PROVE FlightMap'
  OBVIOUS
<1>0. TypeInv /\ AllPhase
  BY DEF BaseInv
<1>1. ASSUME NEW c \in Calls, Step(c), ~Fly(c), ~Publish(c) PROVE FlightMap'
  <2>1. \A d \in Calls : d # c => own'[d] = own[d] /\ (Flying(d)' <=> Flying(d))
    BY <1>0, <1>1, OtherRows DEF SameRow, Flying
  <2>2. UNCHANGED flights /\ own' = own
    <3>1. ASSUME NEW k \in Keys, KeyStep(c, k) PROVE UNCHANGED <<flights, own>>
      BY <3>1 DEF KeyStep, Read, ReadLossy, ReadError, JoinFlight, Joined, Share, Settle,
                  clientVars
    <3> QED
      BY <1>1, <3>1 DEF Step, CallStep, Start, Sort, Backoff, CtxDone, JoinEnd, SettleEnd,
         Go, Load, Back, BgStep, BgLoad, BgEnd, BgWrite, clientVars, callVars
  <2>3. Flying(c)' <=> Flying(c)
    <3>1. ASSUME NEW k \in Keys, KeyStep(c, k) PROVE Flying(c)' <=> Flying(c)
      <4>1. pc'[c] = pc[c] \/ (pc[c] = "busy" /\ pc'[c] = "done")
        BY <1>0, <3>1, RowTypes
           DEF KeyStep, Read, ReadLossy, ReadError, JoinFlight, Joined, Share, Settle, Return
      <4> QED
        BY <4>1 DEF Flying
    <3>2. CASE Start(c) \/ Sort(c) \/ Backoff(c) \/ JoinEnd(c) \/ SettleEnd(c)
      BY <1>0, <3>2, RowTypes DEF Start, Sort, Backoff, JoinEnd, SettleEnd, Return, Flying
    <3>3. CASE CtxDone(c)
      BY <1>0, <3>3, RowTypes DEF CtxDone, Return, Flying
    <3>4. CASE Go(c) \/ Load(c) \/ Back(c)
      BY <1>0, <3>4, RowTypes DEF Go, Load, Back, Flying
    <3>5. CASE BgStep(c)
      BY <1>0, <3>5, BgCases DEF callVars, Flying
    <3> QED
      BY <1>1, <3>1, <3>2, <3>3, <3>4, <3>5 DEF Step, CallStep
  <2> QED
    BY <2>1, <2>2, <2>3, FlightSame
<1>2. CASE EnvStep \/ UNCHANGED vars
  <2>1. UNCHANGED <<callVars, flights>>
    BY <1>2 DEF EnvStep, Change, Delete, Invalidate, Evict, StoreEmpty, Close, vars, clientVars
  <2> QED
    BY <2>1, FlightSame DEF callVars, Flying
<1> QED
  BY <1>1, <1>2, FlightFly, FlightPublish DEF Next, Finished, Step

LEMMA RefreshGo ==
    ASSUME BaseInv, RefreshMap, NEW c \in Calls, Go(c)
    PROVE  RefreshMap'
<1>0. TypeInv /\ Phase(c) /\ Proc[c] \in Procs
  BY FetchAssumption DEF BaseInv, AllPhase
<1>1. /\ refreshing' = [refreshing EXCEPT ![Proc[c]] = refreshing[Proc[c]] \cup Taken(c)]
      /\ bg'[c].mine = Taken(c) /\ bg[c].mine = {}
  BY <1>0, GoCases DEF Phase, Early
<1>2. /\ \A d \in Calls : d # c => bg'[d] = bg[d]
      /\ refreshing'[Proc[c]] = refreshing[Proc[c]] \cup Taken(c)
      /\ \A p \in Procs : p # Proc[c] => refreshing'[p] = refreshing[p]
  BY <1>0, <1>1, OtherRows DEF SameRow, Step, CallStep, TypeInv, ClientType
<1>3. Taken(c) \cap refreshing[Proc[c]] = {}
  BY DEF Taken
<1>4. ASSUME NEW d \in Calls PROVE bg'[d].mine \subseteq refreshing'[Proc[d]]
  <2>1. Proc[d] \in Procs /\ bg[d].mine \subseteq refreshing[Proc[d]]
    BY FetchAssumption DEF RefreshMap
  <2> QED
    BY <1>1, <1>2, <2>1
<1>5. ASSUME NEW d \in Calls, NEW e \in Calls, NEW k \in Keys, Proc[d] = Proc[e],
             k \in bg'[d].mine, k \in bg'[e].mine
      PROVE  d = e
  BY <1>1, <1>2, <1>3, <1>5 DEF RefreshMap
<1>6. ASSUME NEW p \in Procs, NEW k \in refreshing'[p]
      PROVE  \E d \in Calls : Proc[d] = p /\ k \in bg'[d].mine
  <2>1. CASE p = Proc[c] /\ k \in Taken(c)
    BY <1>1, <2>1
  <2>2. CASE ~(p = Proc[c] /\ k \in Taken(c))
    <3>1. k \in refreshing[p]
      BY <1>2, <1>6, <2>2
    <3>2. PICK d \in Calls : Proc[d] = p /\ k \in bg[d].mine
      BY <3>1 DEF RefreshMap
    <3> QED
      BY <1>1, <1>2, <3>2
  <2> QED
    BY <2>1, <2>2
<1> QED
  BY <1>4, <1>5, <1>6 DEF RefreshMap

LEMMA RefreshBg ==
    ASSUME BaseInv, RefreshMap, NEW c \in Calls, BgStep(c)
    PROVE  RefreshMap'
<1>0. TypeInv /\ Proc[c] \in Procs
  BY FetchAssumption DEF BaseInv
<1>1. \A d \in Calls : d # c => bg'[d] = bg[d]
  BY <1>0, OtherRows DEF SameRow, Step
<1>2. CASE bg'[c].mine = bg[c].mine /\ UNCHANGED refreshing
  <2>1. \A d \in Calls : bg'[d].mine = bg[d].mine
    BY <1>1, <1>2
  <2> QED
    BY <1>2, <2>1 DEF RefreshMap
<1>3. CASE /\ bg'[c].mine = {}
           /\ refreshing' = [refreshing EXCEPT ![Proc[c]] = refreshing[Proc[c]] \ bg[c].mine]
  <2>1. /\ refreshing'[Proc[c]] = refreshing[Proc[c]] \ bg[c].mine
        /\ \A p \in Procs : p # Proc[c] => refreshing'[p] = refreshing[p]
    BY <1>0, <1>3 DEF TypeInv, ClientType
  <2>2. ASSUME NEW d \in Calls PROVE bg'[d].mine \subseteq refreshing'[Proc[d]]
    <3>1. Proc[d] \in Procs /\ bg[d].mine \subseteq refreshing[Proc[d]] /\ bg[d].mine \subseteq Keys
      BY <1>0, FetchAssumption, RowTypes, RefreshFields DEF RefreshMap
    <3>2. CASE d = c
      BY <1>3, <3>2
    <3>3. CASE d # c /\ Proc[d] = Proc[c]
      <4>1. \A k \in bg[d].mine : k \notin bg[c].mine
        BY <3>1, <3>3 DEF RefreshMap
      <4> QED
        BY <1>1, <2>1, <3>1, <3>3, <4>1
    <3>4. CASE d # c /\ Proc[d] # Proc[c]
      BY <1>1, <2>1, <3>1, <3>4
    <3> QED
      BY <3>2, <3>3, <3>4
  <2>3. ASSUME NEW d \in Calls, NEW e \in Calls, NEW k \in Keys, Proc[d] = Proc[e],
               k \in bg'[d].mine, k \in bg'[e].mine
        PROVE  d = e
    BY <1>1, <1>3, <2>3 DEF RefreshMap
  <2>4. ASSUME NEW p \in Procs, NEW k \in refreshing'[p]
        PROVE  \E d \in Calls : Proc[d] = p /\ k \in bg'[d].mine
    <3>1. k \in refreshing[p] /\ ~(p = Proc[c] /\ k \in bg[c].mine)
      BY <2>1, <2>4
    <3>2. PICK d \in Calls : Proc[d] = p /\ k \in bg[d].mine
      BY <3>1 DEF RefreshMap
    <3> QED
      BY <1>1, <3>1, <3>2
  <2> QED
    BY <2>2, <2>3, <2>4 DEF RefreshMap
<1> QED
  BY <1>0, <1>2, <1>3, BgCases

LEMMA RefreshStep == BaseInv /\ RefreshMap /\ [Next]_vars => RefreshMap'
<1> SUFFICES ASSUME BaseInv, RefreshMap, [Next]_vars PROVE RefreshMap'
  OBVIOUS
<1>1. ASSUME NEW c \in Calls, Step(c), ~Go(c), ~BgStep(c) PROVE RefreshMap'
  <2>1. UNCHANGED <<refreshing, bg>>
    <3>1. ASSUME NEW k \in Keys, KeyStep(c, k) PROVE UNCHANGED <<refreshing, bg>>
      BY <3>1 DEF KeyStep, Read, ReadLossy, ReadError, JoinFlight, Joined, Share, Settle,
                  clientVars
    <3> QED
      BY <1>1, <3>1 DEF Step, CallStep, Start, Sort, Backoff, CtxDone, JoinEnd, SettleEnd,
         Fly, Load, Back, Publish, clientVars
  <2> QED
    BY <2>1 DEF RefreshMap
<1>2. CASE EnvStep \/ UNCHANGED vars
  <2>1. UNCHANGED <<refreshing, bg>>
    BY <1>2 DEF EnvStep, Change, Delete, Invalidate, Evict, StoreEmpty, Close, vars, clientVars
  <2> QED
    BY <2>1 DEF RefreshMap
<1> QED
  BY <1>1, <1>2, RefreshGo, RefreshBg DEF Next, Finished, Step

MapInv == BaseInv /\ FlightMap /\ RefreshMap

LEMMA MapAlways == Spec => []MapInv
<1>1. Init => FlightMap /\ RefreshMap
  BY FetchAssumption DEF Init, FlightMap, RefreshMap, NoRefresh, Flying
<1>2. Init => MapInv
  BY <1>1, BaseInit DEF MapInv
<1>3. MapInv /\ [Next]_vars => MapInv'
  BY BaseStep, FlightStep, RefreshStep DEF MapInv
<1> QED
  BY <1>2, <1>3, PTL DEF Spec

(* For any number of callers of Fetch and FetchMany, any keys and options: *)
(* within one process a key never has two foreground loaders running, nor  *)
(* two background refreshes (runFlight, runFlights and spawnRefresh under  *)
(* fetchMu).                                                               *)
THEOREM OneOfEachLoaderAlways == Spec => []OneOfEachLoader
<1>1. MapInv => OneOfEachLoader
  <2> SUFFICES ASSUME MapInv, NEW c \in Calls, NEW d \in Calls, NEW k \in Keys, c # d,
                      Proc[c] = Proc[d]
               PROVE  /\ ~(Leading(c, k) /\ Leading(d, k))
                      /\ ~(Refreshing(c, k) /\ Refreshing(d, k))
    BY DEF OneOfEachLoader
  <2>1. ~(Leading(c, k) /\ Leading(d, k))
    BY DEF MapInv, FlightMap, Flying, Leading
  <2>2. ~(Refreshing(c, k) /\ Refreshing(d, k))
    BY DEF MapInv, RefreshMap, Refreshing
  <2> QED
    BY <2>1, <2>2
<1> QED
  BY <1>1, MapAlways, PTL

(* For any callers, failures, cancelations and Close: once every call has  *)
(* returned and every refresh has ended, fetchFlights and refreshing are   *)
(* empty, so no later caller joins a flight that nobody flies.             *)
THEOREM MapsEmptiedAlways == Spec => []MapsEmptied
<1>1. MapInv => MapsEmptied
  <2> SUFFICES ASSUME MapInv, Quiet, NEW p \in Procs
               PROVE  refreshing[p] = {} /\ \A k \in Keys : flights[p][k] = None
    BY DEF MapsEmptied
  <2>1. \A c \in Calls : ~Flying(c) /\ bg[c].mine = {}
    BY DEF Quiet, Flying, MapInv, BaseInv, AllPhase, Phase
  <2>2. \A k \in Keys : flights[p][k] \in Calls \cup {None}
    BY DEF MapInv, BaseInv, TypeInv, ClientType
  <2> QED
    BY <2>1, <2>2 DEF MapInv, FlightMap, RefreshMap
<1> QED
  BY <1>1, MapAlways, PTL

-----------------------------------------------------------------------------
(* CAS values *)

(* Every item and every token has a CAS the server has given out. *)
Dated ==
    /\ \A k \in Keys : entry[k].has => entry[k].cas \in 1..clock
    /\ \A c \in Calls, k \in Keys : token[c][k] <= clock

(* The item of a key keeps its CAS, value and staleness, and a lease that  *)
(* is out stays out; or it has a CAS nobody has seen; or it goes.          *)
Moves(k) ==
    entry'[k].has =>
        \/ /\ entry[k].has /\ entry'[k].cas = entry[k].cas /\ entry'[k].val = entry[k].val
           /\ entry'[k].stale = entry[k].stale /\ (entry[k].sent => entry'[k].sent)
        \/ clock' = clock + 1 /\ entry'[k].cas = clock + 1

AllMove == clock' \in {clock, clock + 1} /\ \A k \in Keys : Moves(k)

LEMMA MoveOne ==
    ASSUME TypeInv, NEW k \in Keys, NEW e, entry' = [entry EXCEPT ![k] = e],
           clock' \in {clock, clock + 1},
           e.has => \/ /\ entry[k].has /\ e.cas = entry[k].cas /\ e.val = entry[k].val
                       /\ e.stale = entry[k].stale /\ (entry[k].sent => e.sent)
                    \/ clock' = clock + 1 /\ e.cas = clock + 1
    PROVE  AllMove
<1>1. entry'[k] = e /\ \A j \in Keys : j # k => entry'[j] = entry[j]
  BY DEF TypeInv, ServerType
<1> QED
  BY <1>1 DEF AllMove, Moves

LEMMA MoveNone == ASSUME UNCHANGED <<entry, clock>> PROVE AllMove
BY DEF AllMove, Moves

LEMMA MoveWrite ==
    ASSUME TypeInv, NEW k \in Keys, NEW v \in Nat, NEW t, writeBack(k, v, t)
    PROVE  AllMove
<1>1. CASE Matches(k, t)
  <2>1. entry' = [entry EXCEPT ![k] = Stored(v)] /\ clock' = clock + 1
    BY <1>1 DEF writeBack
  <2>2. Stored(v).cas = clock + 1
    BY StoredKeeps DEF TypeInv, ServerType
  <2> QED
    BY <2>1, <2>2, MoveOne
<1>2. CASE ~Matches(k, t)
  <2>1. UNCHANGED <<entry, clock>>
    BY <1>2 DEF writeBack, TypeInv, ServerType
  <2> QED
    BY <2>1, MoveNone
<1> QED
  BY <1>1, <1>2

LEMMA MoveRelease ==
    ASSUME TypeInv, NEW k \in Keys, NEW t, releaseLease(k, t)
    PROVE  AllMove
<1>1. CASE Matches(k, t)
  <2>1. entry' = [entry EXCEPT ![k] = Absent] /\ clock' = clock
    BY <1>1 DEF releaseLease
  <2> QED
    BY <2>1, MoveOne, AbsentType
<1>2. CASE ~Matches(k, t)
  <2>1. UNCHANGED <<entry, clock>>
    BY <1>2 DEF releaseLease, TypeInv, ServerType
  <2> QED
    BY <2>1, MoveNone
<1> QED
  BY <1>1, <1>2

LEMMA MoveGet ==
    ASSUME TypeInv, NEW k \in Keys, NEW a \in BOOLEAN, NEW n \in BOOLEAN,
           entry' = [entry EXCEPT ![k] = ServerGet(entry[k], a, n)],
           clock' = IF entry[k].has THEN clock ELSE clock + 1
    PROVE  AllMove
<1>1. entry[k] \in Items /\ clock \in Nat
  BY DEF TypeInv, ServerType
<1> DEFINE e == ServerGet(entry[k], a, n)
<1>2. /\ entry[k].has => /\ e.cas = entry[k].cas /\ e.val = entry[k].val
                         /\ e.stale = entry[k].stale
                         /\ e.sent = (entry[k].sent \/ Won(entry[k], a, n))
      /\ ~entry[k].has => e.cas = clock + 1
  BY <1>1, GetKeeps
<1>3. entry' = [entry EXCEPT ![k] = e]
  OBVIOUS
<1> HIDE DEF e
<1>4. CASE entry[k].has
  BY <1>1, <1>2, <1>3, <1>4, MoveOne
<1>5. CASE ~entry[k].has
  BY <1>1, <1>2, <1>3, <1>5, MoveOne
<1> QED
  BY <1>1, <1>4, <1>5, ItemFields

LEMMA MoveRepaid ==
    ASSUME TypeInv, NEW c \in Calls, NEW k \in Keys, Repaid(c, k)
    PROVE  AllMove
<1>1. val[c][k] \in Nat
  BY RowTypes
<1> QED
  BY <1>1, MoveWrite, MoveRelease, MoveNone DEF Repaid, repay, Lost

LEMMA MoveStep ==
    ASSUME TypeInv, [Next]_vars
    PROVE  AllMove
<1>1. ASSUME NEW c \in Calls, NEW k \in Keys, KeyStep(c, k) PROVE AllMove
  <2>0. (c \in Ahead) \in BOOLEAN /\ FALSE \in BOOLEAN
    OBVIOUS
  <2>1. CASE Read(c, k)
    <3>1. PICK near \in BOOLEAN :
            /\ entry' = [entry EXCEPT ![k] = ServerGet(entry[k], c \in Ahead, near)]
            /\ clock' = IF entry[k].has THEN clock ELSE clock + 1
      BY <2>1 DEF Read
    <3> QED
      BY <2>0, <3>1, MoveGet
  <2>2. CASE ReadError(c, k)
    <3>1. \/ UNCHANGED <<entry, clock>>
          \/ /\ entry' = [entry EXCEPT ![k] = ServerGet(entry[k], c \in Ahead, FALSE)]
             /\ clock' = IF entry[k].has THEN clock ELSE clock + 1
      BY <2>2 DEF ReadError
    <3> QED
      BY <2>0, <3>1, MoveGet, MoveNone
  <2>3. CASE Settle(c, k)
    BY <2>3, MoveRepaid DEF Settle
  <2>4. CASE ReadLossy(c, k) \/ JoinFlight(c, k) \/ Joined(c, k) \/ Share(c, k)
    BY <2>4, MoveNone DEF ReadLossy, JoinFlight, Joined, Share, serverVars
  <2> QED
    BY <1>1, <2>1, <2>2, <2>3, <2>4 DEF KeyStep
<1>2. ASSUME NEW c \in Calls, Step(c), ~\E k \in Keys : KeyStep(c, k) PROVE AllMove
  <2>1. CASE Back(c)
    <3>1. UNCHANGED <<entry, clock>> \/ \E k \in Keys : Repaid(c, k)
      BY <2>1 DEF Back, In
    <3> QED
      BY <3>1, MoveRepaid, MoveNone
  <2>2. ASSUME NEW k \in Keys, BgWrite(c, k) PROVE AllMove
    <3>1. bg[c].val[k] \in Nat
      BY RowTypes, RefreshFields
    <3> QED
      BY <2>2, <3>1, MoveWrite, MoveNone DEF BgWrite, Lost
  <2>3. CASE ~Back(c) /\ ~\E k \in Keys : BgWrite(c, k)
    BY <1>2, <2>3, MoveNone DEF Step, CallStep, Start, Sort, Backoff, CtxDone, JoinEnd,
       SettleEnd, Go, Fly, Load, Publish, BgStep, BgLoad, BgEnd, serverVars
  <2> QED
    BY <2>1, <2>2, <2>3
<1>3. ASSUME NEW k \in Keys,
             Change(k) \/ Delete(k) \/ Invalidate(k) \/ Evict(k) \/ StoreEmpty(k)
      PROVE  AllMove
  <2>0. entry[k] \in Items /\ clock \in Nat
    BY DEF TypeInv, ServerType
  <2>1. CASE Change(k)
    BY <2>1, MoveNone DEF Change
  <2>2. CASE Delete(k) \/ Evict(k)
    BY <2>2, MoveOne, AbsentType DEF Delete, Evict
  <2>3. CASE StoreEmpty(k)
    BY <2>0, <2>3, MoveOne, StoredKeeps DEF StoreEmpty
  <2>4. CASE Invalidate(k)
    <3> DEFINE e == [entry[k] EXCEPT !.cas = clock + 1, !.stale = TRUE, !.sent = FALSE]
    <3>1. entry' = [entry EXCEPT ![k] = e] /\ clock' = clock + 1
      BY <2>4 DEF Invalidate
    <3>2. e.cas = clock + 1
      BY <2>0 DEF Items
    <3> HIDE DEF e
    <3> QED
      BY <3>1, <3>2, MoveOne
  <2> QED
    BY <1>3, <2>1, <2>2, <2>3, <2>4
<1>4. CASE UNCHANGED vars \/ \E p \in Procs : Close(p)
  BY <1>4, MoveNone DEF vars, serverVars, Close
<1> QED
  BY <1>1, <1>2, <1>3, <1>4 DEF Next, Finished, EnvStep, Step

(* A CAS that is not the item's never becomes it again. *)
LEMMA StaysUnmatched ==
    ASSUME TypeInv, Dated, AllMove, NEW k \in Keys, NEW t \in Nat, t <= clock,
           entry'[k].has, entry'[k].cas = t
    PROVE  /\ Matches(k, t) /\ entry'[k].val = entry[k].val /\ entry'[k].stale = entry[k].stale
           /\ (entry[k].sent => entry'[k].sent)
BY DEF AllMove, Moves, Matches, TypeInv, ServerType

(* A call that holds on to its token for a key. *)
Acts(c, k) ==
    \/ slot[c][k] = "lead" /\ pc[c] # "done"
    \/ slot[c][k] = "refresh" /\ pc[c] \in {"read", "busy", "go"}
    \/ k \in bg[c].mine

(* Only a read gives a call a token or something to do with it. *)
Steady(c, k) ==
    /\ token'[c][k] \in {token[c][k], 0}
    /\ Acts(c, k)' => Acts(c, k)

LEMMA SteadyOther ==
    ASSUME NEW d \in Calls, NEW k \in Keys, SameRow(d)
    PROVE  Steady(d, k)
BY DEF Steady, Acts, SameRow

LEMMA SteadyCall ==
    ASSUME TypeInv, NEW c \in Calls, Phase(c), NEW k \in Keys,
           Start(c) \/ Sort(c) \/ Backoff(c) \/ CtxDone(c) \/ JoinEnd(c) \/ SettleEnd(c)
    PROVE  Steady(c, k)
<1>0. k \in bg[c].mine => slot[c][k] = "refresh"
  BY DEF Phase
<1>1. UNCHANGED <<token, bg>>
  BY RowsPlain
<1>2. CASE Start(c)
  BY <1>1, <1>2, RowTypes DEF Start, Steady, Acts
<1>3. CASE Sort(c) \/ Backoff(c)
  <2>1. pc[c] \in {"read", "busy"}
    BY <1>3 DEF Sort, Backoff
  <2>2. slot'[c][k] \in {"lead", "refresh"} => slot'[c][k] = slot[c][k]
    BY <1>3, RowTypes DEF Sort, Backoff
  <2> QED
    BY <1>1, <2>1, <2>2 DEF Steady, Acts
<1>4. CASE CtxDone(c) \/ JoinEnd(c) \/ SettleEnd(c)
  <2>1. pc[c] # "done" /\ pc'[c] \in {"done", "settle"} /\ UNCHANGED slot
    BY <1>4, RowTypes DEF CtxDone, JoinEnd, SettleEnd, Return
  <2> QED
    BY <1>1, <2>1 DEF Steady, Acts
<1> QED
  BY <1>2, <1>3, <1>4

LEMMA SteadyKey ==
    ASSUME TypeInv, NEW c \in Calls, NEW k \in Keys, NEW j \in Keys, KeyStep(c, j),
           ~(Read(c, j) /\ j = k)
    PROVE  Steady(c, k)
<1>1. CASE Read(c, j)
  <2>1. PICK x, y : /\ token' = [token EXCEPT ![c][j] = x]
                    /\ slot' = [slot EXCEPT ![c][j] = y]
    BY <1>1 DEF Read
  <2>2. j # k /\ UNCHANGED <<pc, bg>>
    BY <1>1 DEF Read
  <2>3. token'[c][k] = token[c][k] /\ slot'[c][k] = slot[c][k]
    BY <2>1, <2>2, RowTypes
  <2> QED
    BY <2>2, <2>3 DEF Steady, Acts
<1>2. CASE ReadLossy(c, j) \/ ReadError(c, j) \/ JoinFlight(c, j)
  <2>1. UNCHANGED <<token, pc, bg>>
    BY <1>2 DEF ReadLossy, ReadError, JoinFlight
  <2>2. slot'[c][k] \in {"lead", "refresh"} => slot'[c][k] = slot[c][k]
    <3>1. PICK y \in {"local", "error", "remaining", "joining"} :
             slot' = [slot EXCEPT ![c][j] = y]
      BY <1>2 DEF ReadLossy, ReadError, JoinFlight
    <3> QED
      BY <3>1, RowTypes
  <2> QED
    BY <2>1, <2>2 DEF Steady, Acts
<1>3. CASE Joined(c, j) \/ Share(c, j)
  <2>1. UNCHANGED <<token, bg>> /\ pc'[c] \in {pc[c], "done"} /\ (pc[c] = "done" => pc'[c] = pc[c])
    BY <1>3, RowTypes DEF Joined, Share, Return
  <2>2. slot'[c][k] \in {"lead", "refresh"} => slot'[c][k] = slot[c][k]
    BY <1>3, RowTypes DEF Joined, Share
  <2> QED
    BY <2>1, <2>2 DEF Steady, Acts
<1>4. CASE Settle(c, j)
  <2>1. token'[c][k] \in {token[c][k], 0}
    BY <1>4, RepaidToken DEF Settle
  <2>2. UNCHANGED <<pc, bg>> /\ (slot'[c][k] \in {"lead", "refresh"} => slot'[c][k] = slot[c][k])
    BY <1>4, RowTypes DEF Settle
  <2> QED
    BY <2>1, <2>2 DEF Steady, Acts
<1> QED
  BY <1>1, <1>2, <1>3, <1>4 DEF KeyStep

LEMMA SteadyFlight ==
    ASSUME TypeInv, NEW c \in Calls, Phase(c), NEW k \in Keys,
           Go(c) \/ Fly(c) \/ Load(c) \/ Back(c) \/ Publish(c)
    PROVE  Steady(c, k)
<1>1. CASE Go(c)
  <2>1. /\ pc[c] = "go" /\ pc'[c] \in {"done", "fly"} /\ UNCHANGED <<slot, token>>
        /\ bg'[c].mine = Taken(c)
    BY <1>1, GoCases
  <2>2. k \in Taken(c) => slot[c][k] = "refresh"
    BY DEF Taken, In
  <2> QED
    BY <2>1, <2>2 DEF Steady, Acts
<1>2. CASE Fly(c) \/ Load(c) \/ Publish(c)
  <2>1. /\ pc[c] \in {"fly", "load", "publish"} /\ UNCHANGED <<slot, token, bg>>
        /\ pc'[c] \in {"join", "load", "publish", "back", "done"}
    BY <1>2, RowTypes, FlyCases DEF Fly, Load, Publish
  <2> QED
    BY <2>1 DEF Steady, Acts
<1>3. CASE Back(c)
  <2>1. pc[c] = "back" /\ pc'[c] = "publish" /\ UNCHANGED <<slot, bg>>
    BY <1>3, RowTypes DEF Back
  <2>2. token'[c][k] \in {token[c][k], 0}
    BY <1>3, RepaidToken DEF Back, In
  <2> QED
    BY <2>1, <2>2 DEF Steady, Acts
<1> QED
  BY <1>1, <1>2, <1>3

LEMMA SteadyStep ==
    ASSUME BaseInv, [Next]_vars, NEW c \in Calls, NEW k \in Keys, ~Read(c, k)
    PROVE  Steady(c, k)
<1>0. TypeInv /\ Phase(c)
  BY DEF BaseInv, AllPhase
<1>1. ASSUME NEW d \in Calls, Step(d), d # c PROVE Steady(c, k)
  BY <1>0, <1>1, OtherRows, SteadyOther
<1>2. CASE BgStep(c)
  <2>1. UNCHANGED <<pc, slot, token>> /\ bg'[c].mine \subseteq bg[c].mine
    BY <1>0, <1>2, BgCases DEF callVars
  <2> QED
    BY <2>1 DEF Steady, Acts
<1>3. CASE Step(c)
  BY <1>0, <1>2, <1>3, SteadyCall, SteadyKey, SteadyFlight DEF Step, CallStep
<1>4. CASE EnvStep \/ UNCHANGED vars
  <2>1. UNCHANGED <<callVars, bg>>
    BY <1>4 DEF EnvStep, Change, Delete, Invalidate, Evict, StoreEmpty, Close, vars
  <2> QED
    BY <2>1 DEF callVars, Steady, Acts
<1> QED
  BY <1>1, <1>3, <1>4 DEF Next, Finished, Step

LEMMA DatedStep == BaseInv /\ Dated /\ [Next]_vars => Dated'
<1> SUFFICES ASSUME BaseInv, Dated, [Next]_vars PROVE Dated'
  OBVIOUS
<1>0. TypeInv /\ clock \in Nat
  BY DEF BaseInv, TypeInv, ServerType
<1>1. AllMove
  BY <1>0, MoveStep
<1>2. clock' \in {clock, clock + 1}
  BY <1>1 DEF AllMove
<1>3. ASSUME NEW k \in Keys, entry'[k].has PROVE entry'[k].cas \in 1..clock'
  <2>1. \/ entry[k].has /\ entry'[k].cas = entry[k].cas
        \/ clock' = clock + 1 /\ entry'[k].cas = clock + 1
    BY <1>1, <1>3 DEF AllMove, Moves
  <2> QED
    BY <1>0, <1>2, <2>1 DEF Dated
<1>4. ASSUME NEW c \in Calls, NEW k \in Keys PROVE token'[c][k] <= clock'
  <2>0. token[c][k] \in Nat /\ token[c][k] <= clock
    BY <1>0, RowTypes DEF Dated
  <2>1. CASE Read(c, k)
    <3>1. PICK near \in BOOLEAN :
            /\ entry' = [entry EXCEPT ![k] = Answer(c, k, near)]
            /\ token' = [token EXCEPT ![c][k] = IF Verdict(c, k, near) \in {"lead", "refresh"}
                                                THEN Answer(c, k, near).cas ELSE 0]
      BY <1>0, <2>1, ReadCases
    <3>2. entry[k] \in Items /\ (c \in Ahead) \in BOOLEAN
      BY <1>0 DEF TypeInv, ServerType
    <3>3. Answer(c, k, near).has
      BY <1>0, <3>2, GetKeeps DEF Answer
    <3>4. entry'[k] = Answer(c, k, near) /\ token'[c][k] \in {Answer(c, k, near).cas, 0}
      BY <1>0, <3>1, RowTypes DEF TypeInv, ServerType
    <3>5. entry'[k].cas \in 1..clock'
      BY <1>3, <3>3, <3>4
    <3> QED
      BY <1>0, <1>2, <3>4, <3>5
  <2>2. CASE ~Read(c, k)
    <3>1. token'[c][k] \in {token[c][k], 0}
      BY <2>2, SteadyStep DEF Steady
    <3> QED
      BY <1>0, <1>2, <2>0, <3>1
  <2> QED
    BY <2>1, <2>2
<1> QED
  BY <1>3, <1>4 DEF Dated

CasInv == BaseInv /\ Dated

LEMMA CasInit == Init => CasInv
<1>1. Init => Dated
  BY DEF Init, Dated, Absent
<1> QED
  BY <1>1, BaseInit DEF CasInv

LEMMA CasStep == CasInv /\ [Next]_vars => CasInv'
BY BaseStep, DatedStep DEF CasInv

(* A token that no longer matches its key never will again. *)
LEMMA SteadyApart ==
    ASSUME CasInv, [Next]_vars, NEW c \in Calls, NEW k \in Keys, Steady(c, k),
           Matches(k, token[c][k])'
    PROVE  /\ Matches(k, token[c][k]) /\ token'[c][k] = token[c][k]
           /\ entry'[k].val = entry[k].val /\ entry'[k].stale = entry[k].stale
           /\ (entry[k].sent => entry'[k].sent)
<1>1. TypeInv /\ BaseInv /\ Dated /\ Dated' /\ AllMove
  BY DatedStep, MoveStep DEF CasInv, BaseInv
<1>2. token[c][k] \in Nat /\ token[c][k] <= clock
  BY <1>1, RowTypes DEF Dated
<1>3. token'[c][k] \in {token[c][k], 0}
  BY DEF Steady
<1>4. entry'[k].has /\ entry'[k].cas = token'[c][k]
  BY DEF Matches
<1>5. token'[c][k] # 0
  BY <1>1, <1>4 DEF Dated
<1>6. entry'[k].cas = token[c][k]
  BY <1>3, <1>4, <1>5
<1> QED
  BY <1>1, <1>2, <1>3, <1>4, <1>5, <1>6, StaysUnmatched

LEMMA StaysApart ==
    ASSUME CasInv, [Next]_vars, NEW c \in Calls, NEW k \in Keys, ~Read(c, k),
           Matches(k, token[c][k])'
    PROVE  Matches(k, token[c][k])
BY SteadyStep, SteadyApart DEF CasInv

-----------------------------------------------------------------------------
(* Leases are repaid *)

(* Once a call has repaid, or was never to repay, the lease of a key it    *)
(* loaded, its token is not the item's CAS.                                *)
Paid(c, k) ==
    k \in own[c] /\ (slot[c][k] # "lead" \/ pc[c] = "done" \/ (c \notin Many /\ pc[c] = "publish"))
        => ~Matches(k, token[c][k])

AllPaid == \A c \in Calls, k \in Keys : Paid(c, k)

(* The command that repays a lease leaves no item its token matches. *)
LEMMA RepaidUnmatched ==
    ASSUME CasInv, [Next]_vars, NEW c \in Calls, NEW k \in Keys, Repaid(c, k)
    PROVE  ~Matches(k, token[c][k])'
<1>0. TypeInv /\ Dated /\ Dated' /\ clock \in Nat /\ entry \in [Keys -> Items]
  BY DatedStep DEF CasInv, BaseInv, TypeInv, ServerType
<1>1. token[c][k] \in Nat /\ token[c][k] <= clock /\ val[c][k] \in Nat
  BY <1>0, RowTypes DEF Dated
<1>2. CASE Lost(Proc[c]) /\ token' = [token EXCEPT ![c][k] = 0]
  <2>1. token'[c][k] = 0
    BY <1>0, <1>2, RowTypes
  <2> QED
    BY <1>0, <2>1 DEF Dated, Matches
<1>3. CASE repay(c, k) /\ UNCHANGED token
  <2>1. CASE ~Matches(k, token[c][k])
    <3>1. entry'[k] = entry[k]
      BY <1>0, <1>3, <2>1 DEF repay, writeBack, releaseLease
    <3> QED
      BY <1>3, <2>1, <3>1 DEF Matches
  <2>2. CASE Matches(k, token[c][k])
    <3>1. entry' = [entry EXCEPT ![k] = Stored(val[c][k])] \/ entry' = [entry EXCEPT ![k] = Absent]
      BY <1>3, <2>2 DEF repay, writeBack, releaseLease
    <3>2. entry'[k] = Stored(val[c][k]) \/ entry'[k] = Absent
      BY <1>0, <3>1
    <3> QED
      BY <1>0, <1>1, <1>3, <3>2, StoredKeeps, AbsentType DEF Matches
  <2> QED
    BY <2>1, <2>2
<1> QED
  BY <1>2, <1>3 DEF Repaid

(* A lease that was paid stays paid. *)
LEMMA PaidStays ==
    ASSUME CasInv, [Next]_vars, NEW c \in Calls, NEW k \in Keys, ~Read(c, k),
           ~Matches(k, token[c][k])
    PROVE  ~Matches(k, token[c][k])'
BY StaysApart

LEMMA PaidOther ==
    ASSUME CasInv, [Next]_vars, NEW c \in Calls, NEW k \in Keys, ~Read(c, k), Paid(c, k),
           k \in own'[c] => k \in own[c],
           k \in own'[c] /\ (slot'[c][k] # "lead" \/ pc'[c] = "done"
                               \/ (c \notin Many /\ pc'[c] = "publish"))
             => slot[c][k] # "lead" \/ pc[c] = "done" \/ (c \notin Many /\ pc[c] = "publish")
    PROVE  Paid(c, k)'
<1> SUFFICES ASSUME k \in own'[c],
                    slot'[c][k] # "lead" \/ pc'[c] = "done" \/ (c \notin Many /\ pc'[c] = "publish")
             PROVE  ~Matches(k, token[c][k])'
  BY DEF Paid
<1>1. ~Matches(k, token[c][k])
  BY DEF Paid
<1> QED
  BY <1>1, PaidStays

(* A call that owns nothing owes nothing. *)
LEMMA PaidEmpty == ASSUME NEW c, NEW k, own'[c] = {} PROVE Paid(c, k)'
BY DEF Paid

LEMMA PaidCall ==
    ASSUME CasInv, AllPaid, [Next]_vars, NEW c \in Calls, NEW k \in Keys, Step(c)
    PROVE  Paid(c, k)'
<1>0. TypeInv /\ BaseInv /\ Phase(c) /\ Paid(c, k) /\ Dated /\ Dated'
  BY DatedStep DEF CasInv, BaseInv, AllPhase, AllPaid
<1>1. CASE pc[c] \in Early
  <2>1. own[c] = {} /\ ~Fly(c)
    BY <1>0, <1>1 DEF Phase, Early, Fly
  <2>2. UNCHANGED own
    <3>1. ASSUME NEW j \in Keys, KeyStep(c, j) PROVE UNCHANGED own
      BY <3>1 DEF KeyStep, Read, ReadLossy, ReadError, JoinFlight, Joined, Share, Settle
    <3> QED
      BY <2>1, <3>1 DEF Step, CallStep, Start, Sort, Backoff, CtxDone, JoinEnd, SettleEnd,
         Go, Load, Back, Publish, BgStep, BgLoad, BgEnd, BgWrite, callVars
  <2> QED
    BY <2>1, <2>2, PaidEmpty
<1>2. CASE Fly(c)
  <2>1. /\ pc'[c] \in {"join", "load"} /\ UNCHANGED <<slot, token>> /\ own'[c] = Flown(c)
    BY <1>0, <1>2, FlyCases
  <2> SUFFICES ASSUME k \in Flown(c), slot[c][k] # "lead" PROVE ~Matches(k, token[c][k])'
    BY <2>1 DEF Paid
  <2>2. slot[c][k] = "local"
    BY DEF Flown, In
  <2>3. token'[c][k] = 0
    BY <1>0, <2>1, <2>2 DEF Phase, Unled
  <2> QED
    BY <1>0, <2>3 DEF Dated, Matches
<1>3. CASE Back(c)
  <2>1. pc[c] = "back" /\ pc'[c] = "publish" /\ UNCHANGED <<slot, own>> /\ ~Read(c, k)
    BY <1>0, <1>3, RowTypes DEF Back, Read
  <2>2. CASE slot[c][k] # "lead"
    BY <1>0, <2>1, <2>2, PaidOther
  <2>3. CASE slot[c][k] = "lead"
    <3>1. k \in In(c, {"lead"})
      BY <2>3 DEF In
    <3>2. PICK j \in In(c, {"lead"}) : Repaid(c, j)
      BY <1>3, <3>1 DEF Back
    <3>3. c \notin Many /\ j \in Want[c] /\ k \in Want[c]
      BY <1>0, <2>1, <2>3, <3>2 DEF Phase, In
    <3>4. j = k
      BY <3>3, FetchAssumption
    <3> QED
      BY <3>2, <3>4, RepaidUnmatched DEF Paid
  <2> QED
    BY <2>2, <2>3
<1>4. ASSUME NEW j \in Keys, Settle(c, j) PROVE Paid(c, k)'
  <2>1. /\ pc[c] = "settle" /\ UNCHANGED <<pc, own>> /\ ~Read(c, k)
        /\ \A i \in Keys : i # j => slot'[c][i] = slot[c][i]
    BY <1>0, <1>4, RowTypes DEF Settle, Read
  <2>2. CASE j # k
    BY <1>0, <2>1, <2>2, PaidOther
  <2>3. CASE j = k
    BY <1>4, <2>3, RepaidUnmatched DEF Settle, Paid
  <2> QED
    BY <2>2, <2>3
<1>5. CASE Load(c) \/ Publish(c)
  <2>1. /\ pc[c] \in {"load", "publish"} /\ ~Read(c, k) /\ UNCHANGED <<slot, own>>
        /\ pc[c] = "load" => pc'[c] = IF c \in Many THEN "publish" ELSE "back"
        /\ pc[c] = "publish" => pc'[c] = IF c \in Many THEN "join" ELSE "done"
    BY <1>0, <1>5, RowTypes DEF Load, Publish, Read
  <2> QED
    BY <1>0, <2>1, PaidOther
<1>6. CASE CtxDone(c) \/ JoinEnd(c)
  <2>1. CASE own[c] = {}
    BY <1>6, <2>1, PaidEmpty DEF CtxDone, JoinEnd
  <2>2. CASE own[c] # {}
    <3>1. pc[c] \notin Early /\ (pc[c] = "join" => c \in Many)
      BY <1>0, <2>2 DEF Phase
    <3>2. pc[c] = "join" /\ UNCHANGED <<slot, own>> /\ ~Read(c, k)
      BY <1>6, <3>1 DEF CtxDone, JoinEnd, Early, Read
    <3>3. pc'[c] = "settle"
      BY <1>0, <1>6, <3>1, <3>2, RowTypes DEF CtxDone, JoinEnd
    <3> QED
      BY <1>0, <3>2, <3>3, PaidOther
  <2> QED
    BY <2>1, <2>2
<1>7. CASE SettleEnd(c)
  <2>1. pc[c] = "settle" /\ UNCHANGED <<slot, own>> /\ slot[c][k] # "lead" /\ ~Read(c, k)
    BY <1>7 DEF SettleEnd, In, Read
  <2> QED
    BY <1>0, <2>1, PaidOther
<1>8. ASSUME NEW j \in Keys, Share(c, j) PROVE Paid(c, k)'
  <2>1. UNCHANGED <<slot, own, pc>> /\ pc[c] = "join" /\ ~Read(c, k)
    BY <1>8 DEF Share, Read
  <2> QED
    BY <1>0, <2>1, PaidOther
<1>9. CASE BgStep(c) /\ pc[c] \notin Early
  <2>1. UNCHANGED <<pc, slot, own>> /\ ~Read(c, k)
    BY <1>0, <1>9, BgCases DEF callVars, Read, Early
  <2> QED
    BY <1>0, <2>1, PaidOther
<1>10. pc[c] \notin Early =>
         ~(Start(c) \/ Sort(c) \/ Backoff(c) \/ Go(c))
         /\ \A j \in Keys : ~(Read(c, j) \/ ReadLossy(c, j) \/ ReadError(c, j)
                               \/ JoinFlight(c, j) \/ Joined(c, j))
  BY DEF Early, Start, Sort, Backoff, Go, Read, ReadLossy, ReadError, JoinFlight, Joined
<1> QED
  BY <1>1, <1>2, <1>3, <1>4, <1>5, <1>6, <1>7, <1>8, <1>9, <1>10 DEF Step, CallStep, KeyStep

LEMMA PaidStep == CasInv /\ AllPaid /\ [Next]_vars => AllPaid'
<1> SUFFICES ASSUME CasInv, AllPaid, [Next]_vars, NEW c \in Calls, NEW k \in Keys
             PROVE  Paid(c, k)'
  BY DEF AllPaid
<1>0. TypeInv /\ Paid(c, k)
  BY DEF CasInv, BaseInv, AllPaid
<1>1. CASE Read(c, k)
  BY <1>1, PaidCall DEF Step, CallStep, KeyStep
<1>2. ASSUME ~Read(c, k), NEW d \in Calls, Step(d), d # c PROVE Paid(c, k)'
  <2>1. SameRow(c)
    BY <1>0, <1>2, OtherRows
  <2> QED
    BY <1>0, <1>2, <2>1, PaidOther DEF SameRow
<1>3. CASE ~Read(c, k) /\ (EnvStep \/ UNCHANGED vars)
  <2>1. UNCHANGED callVars
    BY <1>3 DEF EnvStep, Change, Delete, Invalidate, Evict, StoreEmpty, Close, vars
  <2> QED
    BY <1>0, <1>3, <2>1, PaidOther DEF callVars
<1> QED
  BY <1>1, <1>2, <1>3, PaidCall DEF Next, Finished, Step

(* For any callers of Fetch and FetchMany, failures, cancelations, expiry  *)
(* and invalidations: when a call that ran a loader for a key it led       *)
(* returns, its token is not the CAS of what is stored, so the zero-byte   *)
(* placeholder that granted the lease is gone, unless the command that was *)
(* to repay it failed (leadLoad, releaseLease, the settling of fetchMany). *)
THEOREM LeaseRepaidAlways == Spec => []LeaseRepaid
<1>1. Init => CasInv /\ AllPaid
  <2>1. Init => AllPaid
    BY DEF Init, AllPaid, Paid
  <2> QED
    BY <2>1, CasInit
<1>2. CasInv /\ AllPaid /\ [Next]_vars => (CasInv /\ AllPaid)'
  BY CasStep, PaidStep
<1>3. CasInv /\ AllPaid => LeaseRepaid
  BY DEF AllPaid, Paid, LeaseRepaid
<1> QED
  BY <1>1, <1>2, <1>3, PTL DEF Spec

-----------------------------------------------------------------------------
(* What becomes of an item *)

(* It stays, its lease possibly handed out. *)
Kept(k) ==
    /\ entry[k].has /\ entry'[k].cas = entry[k].cas /\ entry'[k].val = entry[k].val
    /\ entry'[k].stale = entry[k].stale /\ (entry[k].sent => entry'[k].sent)
    /\ floor'[k] = floor[k]

(* It is replaced by what its lease was repaid with. *)
Written(k) ==
    /\ ~entry'[k].stale /\ floor'[k] = floor[k]
    /\ \E c \in Calls :
         /\ Matches(k, token[c][k])
         /\ \/ /\ pc[c] \in {"back", "settle"} /\ slot[c][k] = "lead" /\ val[c][k] > 0
               /\ entry'[k].val = val[c][k]
            \/ bg[c].pc = "write" /\ k \in bg[c].todo /\ entry'[k].val = bg[c].val[k]

Fate(k) ==
    entry'[k].has =>
        \/ Kept(k) \/ Written(k) \/ entry'[k].stale
        \/ entry'[k].val = 0 /\ (entry'[k].sent \/ "storeempty" \in Events)

LEMMA FateSame ==
    ASSUME NEW k, entry'[k] = entry[k], floor'[k] = floor[k]
    PROVE  Fate(k)
BY DEF Fate, Kept

LEMMA FateGet ==
    ASSUME TypeInv, NEW j \in Keys, NEW k \in Keys, NEW a \in BOOLEAN, NEW n \in BOOLEAN,
           entry' = [entry EXCEPT ![j] = ServerGet(entry[j], a, n)], UNCHANGED floor
    PROVE  Fate(k)
<1>0. entry \in [Keys -> Items] /\ entry[j] \in Items /\ clock \in Nat
  BY DEF TypeInv, ServerType
<1>1. CASE j # k
  BY <1>0, <1>1, FateSame
<1>2. CASE j = k
  <2> DEFINE e == ServerGet(entry[k], a, n)
  <2>1. /\ entry[k].has => /\ e.cas = entry[k].cas /\ e.val = entry[k].val
                           /\ e.stale = entry[k].stale
                           /\ e.sent = (entry[k].sent \/ Won(entry[k], a, n))
        /\ ~entry[k].has => e.val = 0 /\ e.sent
    BY <1>0, <1>2, GetKeeps
  <2>2. entry'[k] = e
    BY <1>0, <1>2
  <2> HIDE DEF e
  <2>3. CASE entry[k].has
    BY <2>1, <2>2, <2>3 DEF Fate, Kept
  <2>4. CASE ~entry[k].has
    BY <2>1, <2>2, <2>4 DEF Fate
  <2> QED
    BY <2>3, <2>4
<1> QED
  BY <1>1, <1>2

LEMMA FateRepaid ==
    ASSUME TypeInv, NEW c \in Calls, NEW j \in Keys, NEW k \in Keys, Repaid(c, j),
           pc[c] \in {"back", "settle"}, slot[c][j] = "lead", UNCHANGED floor
    PROVE  Fate(k)
<1>0. entry \in [Keys -> Items] /\ clock \in Nat /\ val[c][j] \in Nat
  BY RowTypes DEF TypeInv, ServerType
<1>1. CASE UNCHANGED entry \/ j # k
  <2>1. UNCHANGED entry \/ \E e : entry' = [entry EXCEPT ![j] = e]
    BY DEF Repaid, repay, writeBack, releaseLease, Lost
  <2>2. entry'[k] = entry[k]
    BY <1>0, <1>1, <2>1
  <2> QED
    BY <2>2, FateSame
<1>2. CASE j = k /\ Matches(k, token[c][k]) /\ repay(c, k)
  <2>1. CASE err[c] = "nil" /\ val[c][k] > 0
    <3>1. entry' = [entry EXCEPT ![k] = Stored(val[c][k])]
      BY <1>2, <2>1 DEF repay, writeBack
    <3>2. entry'[k] = Stored(val[c][k])
      BY <1>0, <3>1
    <3>3. Stored(val[c][k]).val = val[c][k] /\ ~Stored(val[c][k]).stale
      BY <1>0, <1>2, StoredKeeps
    <3> QED
      BY <1>2, <2>1, <3>2, <3>3 DEF Fate, Written
  <2>2. CASE ~(err[c] = "nil" /\ val[c][k] > 0)
    <3>1. entry' = [entry EXCEPT ![k] = Absent]
      BY <1>2, <2>2 DEF repay, releaseLease
    <3>2. ~entry'[k].has
      BY <1>0, <3>1, AbsentType
    <3> QED
      BY <3>2 DEF Fate
  <2> QED
    BY <2>1, <2>2
<1>3. CASE j = k /\ ~Matches(k, token[c][k])
  <2>1. UNCHANGED entry
    BY <1>0, <1>3 DEF Repaid, repay, writeBack, releaseLease, Lost
  <2> QED
    BY <1>1, <2>1
<1> QED
  BY <1>1, <1>2, <1>3 DEF Repaid, Lost

LEMMA FateBg ==
    ASSUME TypeInv, NEW c \in Calls, NEW j \in Keys, NEW k \in Keys, BgWrite(c, j)
    PROVE  Fate(k)
<1>0. /\ entry \in [Keys -> Items] /\ clock \in Nat /\ bg[c].val[j] \in Nat
      /\ bg[c].pc = "write" /\ j \in bg[c].todo /\ UNCHANGED floor
  BY RowTypes, RefreshFields DEF TypeInv, ServerType, BgWrite
<1>1. CASE UNCHANGED entry
  BY <1>0, <1>1, FateSame
<1>2. CASE writeBack(j, bg[c].val[j], token[c][j])
  <2>1. CASE ~Matches(j, token[c][j])
    BY <1>0, <1>1, <1>2, <2>1 DEF writeBack
  <2>2. CASE Matches(j, token[c][j])
    <3>1. entry' = [entry EXCEPT ![j] = Stored(bg[c].val[j])]
      BY <1>2, <2>2 DEF writeBack
    <3>2. CASE j # k
      BY <1>0, <3>1, <3>2, FateSame
    <3>3. CASE j = k
      <4>1. entry'[k] = Stored(bg[c].val[k])
        BY <1>0, <3>1, <3>3
      <4>2. Stored(bg[c].val[k]).val = bg[c].val[k] /\ ~Stored(bg[c].val[k]).stale
        BY <1>0, <3>3, StoredKeeps
      <4> QED
        BY <1>0, <2>2, <3>3, <4>1, <4>2 DEF Fate, Written
    <3> QED
      BY <3>2, <3>3
  <2> QED
    BY <2>1, <2>2
<1> QED
  BY <1>1, <1>2 DEF BgWrite, Lost

LEMMA FateEnv ==
    ASSUME TypeInv, NEW k \in Keys, EnvStep
    PROVE  Fate(k)
<1>0. /\ entry \in [Keys -> Items] /\ clock \in Nat /\ floor \in [Keys -> Nat]
      /\ 0 \in Nat
  BY DEF TypeInv, ServerType
<1>1. ASSUME NEW j \in Keys, Change(j) PROVE Fate(k)
  BY <1>1, FateSame DEF Change
<1>2. ASSUME NEW j \in Keys, Delete(j) \/ Evict(j) PROVE Fate(k)
  <2>1. entry' = [entry EXCEPT ![j] = Absent] /\ (j # k => floor'[k] = floor[k])
    BY <1>0, <1>2 DEF Delete, Evict
  <2>2. IF j = k THEN entry'[k] = Absent ELSE entry'[k] = entry[k]
    BY <1>0, <2>1
  <2> QED
    BY <2>1, <2>2, FateSame, AbsentType DEF Fate
<1>3. ASSUME NEW j \in Keys, Invalidate(j) PROVE Fate(k)
  <2> DEFINE e == [entry[j] EXCEPT !.cas = clock + 1, !.stale = TRUE, !.sent = FALSE]
  <2>1. entry' = [entry EXCEPT ![j] = e] /\ (j # k => floor'[k] = floor[k])
    BY <1>0, <1>3 DEF Invalidate
  <2>2. e.stale
    BY <1>0 DEF Items
  <2> HIDE DEF e
  <2>3. IF j = k THEN entry'[k] = e ELSE entry'[k] = entry[k]
    BY <1>0, <2>1
  <2> QED
    BY <2>1, <2>2, <2>3, FateSame DEF Fate
<1>4. ASSUME NEW j \in Keys, StoreEmpty(j) PROVE Fate(k)
  <2>1. entry' = [entry EXCEPT ![j] = Stored(0)] /\ UNCHANGED floor /\ "storeempty" \in Events
    BY <1>4 DEF StoreEmpty, Event
  <2>2. IF j = k THEN entry'[k] = Stored(0) ELSE entry'[k] = entry[k]
    BY <1>0, <2>1
  <2>3. Stored(0).val = 0
    BY <1>0, StoredKeeps
  <2> QED
    BY <2>1, <2>2, <2>3, FateSame DEF Fate
<1>5. ASSUME NEW p \in Procs, Close(p) PROVE Fate(k)
  BY <1>5, FateSame DEF Close, serverVars
<1> QED
  BY <1>1, <1>2, <1>3, <1>4, <1>5 DEF EnvStep

LEMMA FateStep ==
    ASSUME TypeInv, [Next]_vars, NEW k \in Keys
    PROVE  Fate(k)
<1>1. ASSUME NEW c \in Calls, NEW j \in Keys, KeyStep(c, j) PROVE Fate(k)
  <2>0. (c \in Ahead) \in BOOLEAN /\ FALSE \in BOOLEAN
    OBVIOUS
  <2>1. CASE Read(c, j)
    <3>1. PICK near \in BOOLEAN :
            entry' = [entry EXCEPT ![j] = ServerGet(entry[j], c \in Ahead, near)]
      BY <2>1 DEF Read
    <3>2. UNCHANGED floor
      BY <2>1 DEF Read
    <3> QED
      BY <2>0, <3>1, <3>2, FateGet
  <2>2. CASE ReadError(c, j)
    <3>1. \/ UNCHANGED entry
          \/ entry' = [entry EXCEPT ![j] = ServerGet(entry[j], c \in Ahead, FALSE)]
      BY <2>2 DEF ReadError
    <3>2. UNCHANGED floor
      BY <2>2 DEF ReadError
    <3> QED
      BY <2>0, <3>1, <3>2, FateGet, FateSame
  <2>3. CASE Settle(c, j)
    BY <2>3, FateRepaid DEF Settle
  <2>4. CASE ReadLossy(c, j) \/ JoinFlight(c, j) \/ Joined(c, j) \/ Share(c, j)
    BY <2>4, FateSame DEF ReadLossy, JoinFlight, Joined, Share, serverVars
  <2> QED
    BY <1>1, <2>1, <2>2, <2>3, <2>4 DEF KeyStep
<1>2. ASSUME NEW c \in Calls, Step(c), ~\E j \in Keys : KeyStep(c, j) PROVE Fate(k)
  <2>1. CASE Back(c)
    <3>1. pc[c] = "back" /\ UNCHANGED floor
      BY <2>1 DEF Back
    <3>2. UNCHANGED entry \/ \E j \in Keys : slot[c][j] = "lead" /\ Repaid(c, j)
      BY <2>1 DEF Back, In
    <3> QED
      BY <3>1, <3>2, FateRepaid, FateSame
  <2>2. CASE ~Back(c) /\ ~\E j \in Keys : BgWrite(c, j)
    <3>1. UNCHANGED <<entry, floor>>
      BY <1>2, <2>2 DEF Step, CallStep, Start, Sort, Backoff, CtxDone, JoinEnd,
         SettleEnd, Go, Fly, Load, Publish, BgStep, BgLoad, BgEnd, serverVars
    <3> QED
      BY <3>1, FateSame
  <2> QED
    BY <2>1, <2>2, FateBg
<1>3. CASE UNCHANGED vars
  BY <1>3, FateSame DEF vars, serverVars
<1> QED
  BY <1>1, <1>2, <1>3, FateEnv DEF Next, Finished, Step

-----------------------------------------------------------------------------
(* One holder for each lease *)

(* A refresh writes back only values. *)
Valued == \A c \in Calls : \A k \in bg[c].todo : bg[c].val[k] > 0

(* What a refresh is about to write back it just loaded, or had before. *)
LEMMA BgTodo ==
    ASSUME BaseInv, [Next]_vars, NEW c \in Calls, NEW k \in bg'[c].todo
    PROVE  \/ k \in bg[c].todo /\ bg'[c].val = bg[c].val
           \/ /\ BgLoad(c) /\ k \in bg[c].mine
              /\ bg'[c].val[k] \in Loads(k) /\ bg'[c].val[k] > 0
<1>0. TypeInv /\ bg \in [Calls -> Refreshes] /\ bg[c] \in Refreshes /\ bg[c].mine \subseteq Keys
  BY RefreshFields DEF BaseInv, TypeInv
<1>1. CASE bg'[c] = bg[c]
  BY <1>1
<1>2. CASE Go(c)
  BY <1>0, <1>2, GoCases
<1>3. CASE BgLoad(c)
  <2>1. CASE bg' = [bg EXCEPT ![c] = [bg[c] EXCEPT !.pc = "write"]]
    <3>1. bg'[c] = [bg[c] EXCEPT !.pc = "write"]
      BY <1>0, <2>1
    <3> QED
      BY <1>0, <3>1 DEF Refreshes
  <2>2. ASSUME NEW v, \A j \in Keys : v[j] \in IF j \in bg[c].mine THEN Loads(j) ELSE {0},
               bg' = [bg EXCEPT ![c] = [bg[c] EXCEPT !.pc = "write", !.val = v,
                                         !.todo = {j \in bg[c].mine : v[j] > 0}]]
        PROVE  k \in bg[c].mine /\ bg'[c].val[k] \in Loads(k) /\ bg'[c].val[k] > 0
    <3>1. bg'[c] = [bg[c] EXCEPT !.pc = "write", !.val = v,
                                  !.todo = {j \in bg[c].mine : v[j] > 0}]
      BY <1>0, <2>2
    <3>2. bg'[c].todo = {j \in bg[c].mine : v[j] > 0} /\ bg'[c].val = v
      BY <1>0, <3>1 DEF Refreshes
    <3> QED
      BY <1>0, <2>2, <3>2
  <2> QED
    BY <1>3, <2>1, <2>2 DEF BgLoad
<1>4. CASE BgEnd(c)
  <2>1. bg'[c] = NoRefresh
    BY <1>0, <1>4 DEF BgEnd
  <2> QED
    BY <2>1 DEF NoRefresh
<1>5. ASSUME NEW j \in Keys, BgWrite(c, j)
      PROVE  k \in bg[c].todo /\ bg'[c].val = bg[c].val
  <2>1. bg'[c] = [bg[c] EXCEPT !.todo = bg[c].todo \ {j}]
    BY <1>0, <1>5 DEF BgWrite
  <2>2. bg'[c].todo = bg[c].todo \ {j} /\ bg'[c].val = bg[c].val
    BY <1>0, <2>1 DEF Refreshes
  <2> QED
    BY <2>2
<1>6. ASSUME NEW d \in Calls, Step(d), d # c PROVE bg'[c] = bg[c]
  BY <1>0, <1>6, OtherRows DEF SameRow
<1>7. CASE Step(c) /\ ~Go(c) /\ ~BgStep(c)
  <2>1. UNCHANGED bg
    <3>1. ASSUME NEW j \in Keys, KeyStep(c, j) PROVE UNCHANGED bg
      BY <3>1 DEF KeyStep, Read, ReadLossy, ReadError, JoinFlight, Joined, Share, Settle
    <3> QED
      BY <1>7, <3>1 DEF Step, CallStep, Start, Sort, Backoff, CtxDone, JoinEnd, SettleEnd,
         Fly, Load, Back, Publish
  <2> QED
    BY <1>1, <2>1
<1>8. CASE EnvStep \/ UNCHANGED vars
  BY <1>1, <1>8 DEF EnvStep, Change, Delete, Invalidate, Evict, StoreEmpty, Close, vars
<1> QED
  BY <1>1, <1>2, <1>3, <1>4, <1>5, <1>6, <1>7, <1>8 DEF Next, Finished, Step, BgStep

LEMMA ValuedStep == BaseInv /\ Valued /\ [Next]_vars => Valued'
BY BgTodo DEF Valued

(* An item whose lease is in the server is one a reader would be offered   *)
(* the lease of, or a value: never a placeholder.                          *)
Offered == \A k \in Keys : entry[k].has /\ ~entry[k].sent => entry[k].stale \/ entry[k].val > 0

(* Who holds a token holds it from the server, and alone. *)
Lent == \A c \in Calls, k \in Keys : Holds(c, k) => entry[k].sent
Alone == \A c, d \in Calls, k \in Keys : Holds(c, k) /\ Holds(d, k) => c = d

LeaseInv ==
    /\ "storeempty" \notin Events
    /\ CasInv /\ Valued /\ Offered /\ Lent /\ Alone

LEMMA HoldsActs ==
    ASSUME NEW c, NEW k
    PROVE  Holds(c, k) <=> Matches(k, token[c][k]) /\ Acts(c, k)
BY DEF Holds, Acts

LEMMA OfferedStep == LeaseInv /\ [Next]_vars => Offered'
<1> SUFFICES ASSUME LeaseInv, [Next]_vars, NEW k \in Keys, entry'[k].has, ~entry'[k].sent
             PROVE  entry'[k].stale \/ entry'[k].val > 0
  BY DEF Offered
<1>0. TypeInv /\ Valued /\ Offered /\ "storeempty" \notin Events
  BY DEF LeaseInv, CasInv, BaseInv
<1>1. Kept(k) \/ Written(k) \/ entry'[k].stale
  BY <1>0, FateStep DEF Fate
<1>2. CASE Kept(k)
  BY <1>0, <1>2 DEF Kept, Offered
<1>3. CASE Written(k)
  BY <1>0, <1>3 DEF Written, Valued
<1> QED
  BY <1>1, <1>2, <1>3

(* A read that makes its caller lead or refresh takes the lease from the   *)
(* server: nobody held it.                                                 *)
LEMMA ReadTakes ==
    ASSUME LeaseInv, [Next]_vars, NEW c \in Calls, NEW k \in Keys, Read(c, k),
           Holds(c, k)'
    PROVE  entry'[k].sent /\ \A d \in Calls : ~Holds(d, k)
<1>0. /\ TypeInv /\ Phase(c) /\ Dated /\ Dated' /\ Offered /\ Lent
      /\ entry \in [Keys -> Items] /\ entry[k] \in Items /\ clock \in Nat
      /\ (c \in Ahead) \in BOOLEAN
  BY DatedStep DEF LeaseInv, CasInv, BaseInv, AllPhase, TypeInv, ServerType
<1>1. PICK near \in BOOLEAN :
        /\ entry' = [entry EXCEPT ![k] = Answer(c, k, near)]
        /\ token' = [token EXCEPT ![c][k] = IF Verdict(c, k, near) \in {"lead", "refresh"}
                                            THEN Answer(c, k, near).cas ELSE 0]
  BY <1>0, ReadCases
<1>2. entry'[k] = Answer(c, k, near) /\ entry'[k].has
  BY <1>0, <1>1 DEF Holds, Matches
<1>3. Verdict(c, k, near) \in {"lead", "refresh"}
  <2>1. token'[c][k] # 0
    BY <1>0, <1>2 DEF Holds, Matches, Dated
  <2> QED
    BY <1>0, <1>1, <2>1, RowTypes
<1>4. \/ ~entry[k].has
      \/ /\ ~entry[k].sent
         /\ Won(entry[k], c \in Ahead, near) \/ (~entry[k].stale /\ entry[k].val = 0)
  BY <1>0, <1>3, ClassifyCases DEF Verdict
<1>5. CASE ~entry[k].has
  <2>1. Answer(c, k, near).sent
    BY <1>0, <1>5, GetKeeps DEF Answer
  <2> QED
    BY <1>2, <1>5, <2>1 DEF Holds, Matches
<1>6. CASE entry[k].has
  <2>1. ~entry[k].sent /\ Won(entry[k], c \in Ahead, near)
    BY <1>0, <1>4, <1>6 DEF Offered
  <2>2. Answer(c, k, near).sent
    BY <1>0, <1>6, <2>1, GetSent DEF Answer
  <2>3. \A d \in Calls : ~Holds(d, k)
    BY <1>0, <2>1 DEF Lent
  <2> QED
    BY <1>2, <2>1, <2>2, <2>3
<1> QED
  BY <1>5, <1>6

(* Whoever holds a token after a step held it before, but for the reader. *)
LEMMA HeldBefore ==
    ASSUME CasInv, [Next]_vars, NEW c \in Calls, NEW k \in Keys, Steady(c, k), Holds(c, k)'
    PROVE  Holds(c, k) /\ (entry[k].sent => entry'[k].sent)
<1>1. Matches(k, token[c][k])' /\ Acts(c, k)'
  BY DEF Holds, Acts
<1> QED
  BY <1>1, SteadyApart, HoldsActs DEF Steady

LEMMA LentStep == LeaseInv /\ [Next]_vars => Lent'
<1> SUFFICES ASSUME LeaseInv, [Next]_vars, NEW c \in Calls, NEW k \in Keys, Holds(c, k)'
             PROVE  entry'[k].sent
  BY DEF Lent
<1>1. CASE Read(c, k)
  BY <1>1, ReadTakes
<1>2. CASE ~Read(c, k)
  BY <1>2, SteadyStep, HeldBefore DEF LeaseInv, CasInv, Lent
<1> QED
  BY <1>1, <1>2

LEMMA AloneStep == LeaseInv /\ [Next]_vars => Alone'
<1> SUFFICES ASSUME LeaseInv, [Next]_vars, NEW c \in Calls, NEW d \in Calls, NEW k \in Keys,
                    Holds(c, k)', Holds(d, k)', c # d
             PROVE  FALSE
  BY DEF Alone
<1>0. CasInv /\ BaseInv /\ TypeInv /\ Alone
  BY DEF LeaseInv, CasInv, BaseInv
<1>1. ASSUME NEW x \in Calls, NEW y \in Calls, Read(x, k), x # y, Holds(x, k)', Holds(y, k)'
      PROVE  FALSE
  <2>1. \A z \in Calls : ~Holds(z, k)
    BY <1>1, ReadTakes
  <2>2. Step(x)
    BY <1>1 DEF Step, CallStep, KeyStep
  <2>3. Steady(y, k)
    BY <1>0, <1>1, <2>2, OtherRows, SteadyOther
  <2>4. Holds(y, k)
    BY <1>0, <1>1, <2>3, HeldBefore
  <2> QED
    BY <2>1, <2>4
<1>2. ~Read(c, k) /\ ~Read(d, k)
  BY <1>1
<1>3. Holds(c, k) /\ Holds(d, k)
  BY <1>0, <1>2, SteadyStep, HeldBefore
<1> QED
  BY <1>0, <1>3 DEF Alone

(* For any callers of Fetch and FetchMany in any number of processes, any  *)
(* failures, expiry and invalidations, as long as nobody stores zero-byte  *)
(* items of his own: a token that is the CAS of a leased item is held by   *)
(* at most one call or background refresh, so a placeholder or stale item  *)
(* is recomputed once for all processes.  (A stored zero-byte item has no  *)
(* lease: every reader of it leads, which is what the code wants.)         *)
THEOREM OneHolderAlways ==
    ASSUME "storeempty" \notin Events
    PROVE  Spec => []OneHolder
<1>1. Init => LeaseInv
  <2>1. Init => Valued /\ Offered /\ Lent /\ Alone
    BY DEF Init, Valued, Offered, Lent, Alone, Holds, Matches, Absent, NoRefresh
  <2> QED
    BY <2>1, CasInit DEF LeaseInv
<1>2. LeaseInv /\ [Next]_vars => LeaseInv'
  <2>1. LeaseInv /\ [Next]_vars => CasInv' /\ Valued'
    BY CasStep, ValuedStep DEF LeaseInv, CasInv
  <2> QED
    BY <2>1, OfferedStep, LentStep, AloneStep DEF LeaseInv
<1>3. LeaseInv => OneHolder
  BY DEF LeaseInv, Alone, OneHolder
<1> QED
  BY <1>1, <1>2, <1>3, PTL DEF Spec

-----------------------------------------------------------------------------
(* Nothing old comes back *)

(* The origin is never behind what was last deleted or invalidated. *)
Sourced == \A k \in Keys : source[k] >= floor[k]

(* A value about to be written back under a token that still matches was   *)
(* loaded after the last Delete or Invalidate of its key.                  *)
Loaded ==
    \A c \in Calls, k \in Keys :
        pc[c] = "back" /\ slot[c][k] = "lead" /\ Matches(k, token[c][k])
            => val[c][k] = 0 \/ val[c][k] >= floor[k]

Reloaded ==
    \A c \in Calls, k \in Keys :
        k \in bg[c].todo /\ Matches(k, token[c][k]) => bg[c].val[k] >= floor[k]

FreshInv ==
    /\ Many = {}
    /\ CasInv /\ Sourced /\ Loaded /\ Reloaded /\ NoResurrection

LEMMA SourcedStep == TypeInv /\ Sourced /\ [Next]_vars => Sourced'
<1> SUFFICES ASSUME TypeInv, Sourced, [Next]_vars PROVE Sourced'
  OBVIOUS
<1>0. source \in [Keys -> Nat \ {0}] /\ floor \in [Keys -> Nat]
  BY DEF TypeInv, ServerType
<1>1. CASE UNCHANGED <<source, floor>>
  BY <1>1 DEF Sourced
<1>2. ASSUME NEW c \in Calls, Step(c) PROVE UNCHANGED <<source, floor>>
  <2>1. ASSUME NEW j \in Keys, KeyStep(c, j) PROVE UNCHANGED <<source, floor>>
    BY <2>1 DEF KeyStep, Read, ReadLossy, ReadError, JoinFlight, Joined, Share, Settle,
                serverVars
  <2> QED
    BY <1>2, <2>1 DEF Step, CallStep, Start, Sort, Backoff, CtxDone, JoinEnd, SettleEnd,
       Go, Fly, Load, Back, Publish, BgStep, BgLoad, BgWrite, BgEnd, serverVars
<1>3. ASSUME NEW j \in Keys, Change(j) PROVE Sourced'
  <2>1. UNCHANGED floor /\ source' = [source EXCEPT ![j] = source[j] + 1]
    BY <1>3 DEF Change
  <2>2. \A k \in Keys : source'[k] >= source[k]
    BY <1>0, <2>1
  <2>3. \A k \in Keys : source'[k] \in Nat
    BY <1>0, <2>1
  <2> QED
    BY <1>0, <2>1, <2>2, <2>3 DEF Sourced
<1>4. ASSUME NEW j \in Keys, Delete(j) \/ Invalidate(j) PROVE Sourced'
  <2>1. UNCHANGED source /\ floor' = [floor EXCEPT ![j] = source[j]]
    BY <1>4 DEF Delete, Invalidate
  <2> QED
    BY <1>0, <2>1 DEF Sourced
<1>5. ASSUME NEW j \in Keys, Evict(j) \/ StoreEmpty(j) PROVE UNCHANGED <<source, floor>>
  BY <1>5 DEF Evict, StoreEmpty
<1>6. ASSUME NEW p \in Procs, Close(p) PROVE UNCHANGED <<source, floor>>
  BY <1>6 DEF Close, serverVars
<1>7. CASE UNCHANGED vars
  BY <1>1, <1>7 DEF vars, serverVars
<1> QED
  BY <1>1, <1>2, <1>3, <1>4, <1>5, <1>6, <1>7 DEF Next, Finished, EnvStep, Step

(* A token that still matches has seen no Delete and no Invalidate. *)
LEMMA FloorMatched ==
    ASSUME CasInv, [Next]_vars, NEW c \in Calls, NEW k \in Keys, Steady(c, k),
           Matches(k, token[c][k])'
    PROVE  floor'[k] = floor[k]
<1>0. /\ TypeInv /\ Dated /\ entry \in [Keys -> Items] /\ clock \in Nat
      /\ floor \in [Keys -> Nat]
  BY DEF CasInv, BaseInv, TypeInv, ServerType
<1>1. /\ entry'[k].has /\ entry'[k].cas = token[c][k] /\ token[c][k] <= clock
      /\ token[c][k] \in Nat
  BY <1>0, SteadyApart, RowTypes DEF Matches, Dated
<1>2. ASSUME NEW d \in Calls, Step(d) PROVE UNCHANGED floor
  <2>1. ASSUME NEW j \in Keys, KeyStep(d, j) PROVE UNCHANGED floor
    BY <2>1 DEF KeyStep, Read, ReadLossy, ReadError, JoinFlight, Joined, Share, Settle,
                serverVars
  <2> QED
    BY <1>2, <2>1 DEF Step, CallStep, Start, Sort, Backoff, CtxDone, JoinEnd, SettleEnd,
       Go, Fly, Load, Back, Publish, BgStep, BgLoad, BgWrite, BgEnd, serverVars
<1>3. ASSUME NEW j \in Keys, Delete(j) PROVE floor'[k] = floor[k]
  <2>1. j # k
    BY <1>0, <1>1, <1>3, AbsentType DEF Delete
  <2> QED
    BY <1>0, <1>3, <2>1 DEF Delete
<1>4. ASSUME NEW j \in Keys, Invalidate(j) PROVE floor'[k] = floor[k]
  <2> DEFINE e == [entry[j] EXCEPT !.cas = clock + 1, !.stale = TRUE, !.sent = FALSE]
  <2>1. entry' = [entry EXCEPT ![j] = e] /\ floor' = [floor EXCEPT ![j] = source[j]]
    BY <1>4 DEF Invalidate
  <2>2. e.cas = clock + 1
    BY <1>0 DEF Items
  <2> HIDE DEF e
  <2>3. j # k
    BY <1>0, <1>1, <2>1, <2>2
  <2> QED
    BY <1>0, <2>1, <2>3
<1>5. CASE \/ UNCHANGED vars \/ \E p \in Procs : Close(p)
           \/ \E j \in Keys : Change(j) \/ Evict(j) \/ StoreEmpty(j)
  BY <1>5 DEF vars, serverVars, Change, Evict, StoreEmpty, Close
<1> QED
  BY <1>2, <1>3, <1>4, <1>5 DEF Next, Finished, EnvStep, Step

(* Only the loader's return brings a call to its write-back. *)
LEMMA BackKept ==
    ASSUME TypeInv, [Next]_vars, NEW c \in Calls, pc'[c] = "back", ~Load(c)
    PROVE  pc[c] = "back" /\ slot'[c] = slot[c] /\ val'[c] = val[c]
<1>1. ASSUME NEW d \in Calls, Step(d), d # c
      PROVE  pc[c] = "back" /\ slot'[c] = slot[c] /\ val'[c] = val[c]
  BY <1>1, OtherRows DEF SameRow
<1>2. CASE Step(c)
  <2>1. ~\E k \in Keys : KeyStep(c, k)
    BY RowTypes DEF KeyStep, Read, ReadLossy, ReadError, JoinFlight, Joined, Share, Settle,
                    Return
  <2>2. ~(Go(c) \/ Fly(c) \/ Publish(c) \/ Back(c))
    BY GoCases, FlyCases, PublishCases, RowTypes DEF Back
  <2>3. ~(Start(c) \/ Sort(c) \/ Backoff(c) \/ JoinEnd(c) \/ SettleEnd(c))
    BY RowTypes DEF Start, Sort, Backoff, JoinEnd, SettleEnd, Return
  <2>4. ~CtxDone(c)
    BY RowTypes DEF CtxDone, Return
  <2>5. BgStep(c)
    BY <1>2, <2>1, <2>2, <2>3, <2>4 DEF Step, CallStep
  <2> QED
    BY <2>5, BgCases DEF callVars
<1>3. CASE EnvStep \/ UNCHANGED vars
  BY <1>3 DEF EnvStep, Change, Delete, Invalidate, Evict, StoreEmpty, Close, vars, callVars
<1> QED
  BY <1>1, <1>2, <1>3 DEF Next, Finished, Step

LEMMA LoadedStep == FreshInv /\ [Next]_vars => Loaded'
<1> SUFFICES ASSUME FreshInv, [Next]_vars, NEW c \in Calls, NEW k \in Keys, pc'[c] = "back",
                    slot'[c][k] = "lead", Matches(k, token[c][k])'
             PROVE  val'[c][k] = 0 \/ val'[c][k] >= floor'[k]
  BY DEF Loaded
<1>0. TypeInv /\ BaseInv /\ CasInv /\ Phase(c) /\ Sourced /\ Loaded /\ Many = {}
  BY DEF FreshInv, CasInv, BaseInv, AllPhase
<1>1. ~Read(c, k)
  BY <1>0 DEF Read
<1>2. Steady(c, k)
  BY <1>0, <1>1, SteadyStep
<1>3. floor'[k] = floor[k] /\ Matches(k, token[c][k])
  BY <1>0, <1>2, FloorMatched, SteadyApart
<1>4. CASE Load(c)
  <2>1. pc[c] = "load" /\ UNCHANGED <<slot, source>>
    BY <1>4 DEF Load, serverVars
  <2>2. k \in own[c]
    BY <1>0, <2>1 DEF Phase
  <2>3. val'[c][k] \in Loads(k) \cup {0}
    BY <1>0, <1>4, <2>2, RowTypes DEF Load
  <2>4. val'[c][k] \in {0, source[k]}
    BY <2>3 DEF Loads
  <2> QED
    BY <1>0, <1>3, <2>4 DEF Sourced
<1>5. CASE ~Load(c)
  <2>1. pc[c] = "back" /\ slot'[c] = slot[c] /\ val'[c] = val[c]
    BY <1>0, <1>5, BackKept
  <2> QED
    BY <1>0, <1>3, <2>1 DEF Loaded
<1> QED
  BY <1>4, <1>5

LEMMA ReloadedStep == FreshInv /\ [Next]_vars => Reloaded'
<1> SUFFICES ASSUME FreshInv, [Next]_vars, NEW c \in Calls, NEW k \in Keys,
                    k \in bg'[c].todo, Matches(k, token[c][k])'
             PROVE  bg'[c].val[k] >= floor'[k]
  BY DEF Reloaded
<1>0. TypeInv /\ BaseInv /\ CasInv /\ Phase(c) /\ Sourced /\ Reloaded
  BY DEF FreshInv, CasInv, BaseInv, AllPhase
<1>1. \/ k \in bg[c].todo /\ bg'[c].val = bg[c].val
      \/ BgLoad(c) /\ k \in bg[c].mine /\ bg'[c].val[k] \in Loads(k) /\ bg'[c].val[k] > 0
  BY <1>0, BgTodo
<1>2. k \in bg[c].mine
  BY <1>0, <1>1 DEF Phase
<1>3. ~Read(c, k)
  BY <1>0, <1>2 DEF Phase, Read
<1>4. floor'[k] = floor[k] /\ Matches(k, token[c][k])
  BY <1>0, <1>3, SteadyStep, FloorMatched, SteadyApart
<1>5. CASE k \in bg[c].todo /\ bg'[c].val = bg[c].val
  BY <1>0, <1>4, <1>5 DEF Reloaded
<1>6. CASE bg'[c].val[k] \in Loads(k) /\ bg'[c].val[k] > 0
  <2>1. bg'[c].val[k] = source[k]
    BY <1>6 DEF Loads
  <2> QED
    BY <1>0, <1>4, <2>1 DEF Sourced
<1> QED
  BY <1>1, <1>5, <1>6

LEMMA FreshStep == FreshInv /\ [Next]_vars => NoResurrection'
<1> SUFFICES ASSUME FreshInv, [Next]_vars, NEW k \in Keys, entry'[k].has, ~entry'[k].stale,
                    entry'[k].val > 0
             PROVE  entry'[k].val >= floor'[k]
  BY DEF NoResurrection
<1>0. TypeInv /\ AllPhase /\ Loaded /\ Reloaded /\ NoResurrection /\ Many = {}
  BY DEF FreshInv, CasInv, BaseInv
<1>1. Kept(k) \/ Written(k)
  BY <1>0, FateStep DEF Fate
<1>2. CASE Kept(k)
  BY <1>0, <1>2 DEF Kept, NoResurrection
<1>3. CASE Written(k)
  <2>1. floor'[k] = floor[k]
    BY <1>3 DEF Written
  <2>2. PICK c \in Calls :
         /\ Matches(k, token[c][k])
         /\ \/ /\ pc[c] \in {"back", "settle"} /\ slot[c][k] = "lead" /\ val[c][k] > 0
               /\ entry'[k].val = val[c][k]
            \/ bg[c].pc = "write" /\ k \in bg[c].todo /\ entry'[k].val = bg[c].val[k]
    BY <1>3 DEF Written
  <2>3. pc[c] # "settle"
    BY <1>0 DEF AllPhase, Phase
  <2> QED
    BY <1>0, <2>1, <2>2, <2>3 DEF Loaded, Reloaded
<1> QED
  BY <1>1, <1>2, <1>3

(* For any number of callers of Fetch in any processes, background         *)
(* refreshes, expiry, faults and Close: a value loaded before a Delete or  *)
(* an Invalidate is never stored as a fresh one after it, however late its *)
(* write-back arrives (writeBack with CompareCAS).  FetchMany is excluded: *)
(* it repays a lease with what another call's flight loaded, and the run   *)
(* FetchManyResurrect shows an old value come back.                        *)
THEOREM NoResurrectionAlways ==
    ASSUME Many = {}
    PROVE  Spec => []NoResurrection
<1>1. Init => FreshInv
  <2>1. Init => Sourced /\ Loaded /\ Reloaded /\ NoResurrection
    BY DEF Init, Sourced, Loaded, Reloaded, NoResurrection, Absent, NoRefresh
  <2> QED
    BY <2>1, CasInit DEF FreshInv
<1>2. FreshInv /\ [Next]_vars => FreshInv'
  <2>1. FreshInv /\ [Next]_vars => CasInv' /\ Sourced'
    BY CasStep, SourcedStep DEF FreshInv, CasInv, BaseInv
  <2> QED
    BY <2>1, LoadedStep, ReloadedStep, FreshStep DEF FreshInv
<1>3. FreshInv => NoResurrection
  BY DEF FreshInv
<1> QED
  BY <1>1, <1>2, <1>3, PTL DEF Spec

=============================================================================
