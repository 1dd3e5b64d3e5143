-------------------------- MODULE LifetimesProofs --------------------------
(***************************************************************************)
(* Theorems about Lifetimes, for any calls, TTLs, amounts, width of the    *)
(* counter, length of a second and reach of the relative form.             *)
(***************************************************************************)
EXTENDS Lifetimes, TLAPS, FiniteSetTheorems, FunctionTheorems

-----------------------------------------------------------------------------
(* Arithmetic of seconds *)

LEMMA DivBounds ==
    ASSUME NEW a \in Int, NEW b \in Nat \ {0}
    PROVE  a \div b \in Int /\ b * (a \div b) <= a /\ a < b * (a \div b) + b
OBVIOUS

LEMMA CancelFactor ==
    ASSUME NEW b \in Nat \ {0}, NEW x \in Int, NEW y \in Int, b * x < b * y + b
    PROVE  x <= y
OBVIOUS

LEMMA UnixBounds ==
    ASSUME NEW t \in Int
    PROVE  Unix(t) \in Int /\ Second * Unix(t) <= t /\ t < Second * Unix(t) + Second
BY ExpiryAssumption, DivBounds DEF Unix

LEMMA UnixMonotonic ==
    ASSUME NEW t \in Int, NEW u \in Int, t <= u
    PROVE  Unix(t) <= Unix(u)
<1>1. Second * Unix(t) < Second * Unix(u) + Second
  BY UnixBounds, ExpiryAssumption
<1> QED
  BY <1>1, UnixBounds, CancelFactor, ExpiryAssumption

LEMMA UnixNat ==
    ASSUME NEW t \in Nat
    PROVE  Unix(t) \in Nat
<1>1. Unix(0) = 0
  BY ExpiryAssumption DEF Unix
<1> QED
  BY <1>1, UnixMonotonic, UnixBounds

(* A duration rounded up to whole seconds. *)
LEMMA CeilBounds ==
    ASSUME NEW d \in Nat
    PROVE  LET n == (d + Second - 1) \div Second
           IN n \in Nat /\ d <= Second * n /\ Second * n < d + Second
                /\ (d > 0 => n > 0)
<1> DEFINE n == (d + Second - 1) \div Second
<1>1. Second \in Nat \ {0} /\ d + Second - 1 \in Nat
  BY ExpiryAssumption
<1>2. n \in Int /\ Second * n <= d + Second - 1 /\ d + Second - 1 < Second * n + Second
  BY <1>1, DivBounds
<1>3. n >= 0
  BY <1>1, <1>2
<1>4. d > 0 => n > 0
  BY <1>1, <1>2
<1> HIDE DEF n
<1>5. d <= Second * n /\ Second * n < d + Second
  BY <1>1, <1>2
<1> QED
  BY <1>2, <1>3, <1>4, <1>5 DEF n

LEMMA ExpiresInType ==
    ASSUME NEW d \in Nat, NEW t \in Nat
    PROVE  ExpiresIn(d, t) \in Nat
<1>1. Unix(t + d) \in Nat
  BY UnixNat
<1>2. (d + Second - 1) \div Second \in Nat
  BY CeilBounds
<1> QED
  BY <1>1, <1>2 DEF ExpiresIn

LEMMA RealtimeType ==
    ASSUME NEW e \in Nat, NEW s \in Nat
    PROVE  realtime(e, s) \in Nat \cup {Never} /\ Never \in Int
BY ExpiryAssumption DEF realtime, Never

-----------------------------------------------------------------------------
(* What a command does to the item *)

LEMMA ItemFields ==
    ASSUME NEW it \in Items
    PROVE  /\ it.has \in BOOLEAN /\ it.stale \in BOOLEAN /\ it.won \in BOOLEAN
           /\ it.val \in 0..(Modulus - 1) /\ it.val \in Nat /\ it.exp \in Int
           /\ it.cas \in Nat /\ it.life \in Nat /\ it.slides \in Nat
BY LifetimesAssumption DEF Items

LEMMA CommandFields ==
    ASSUME NEW cmd \in Commands
    PROVE  /\ cmd.op \in Verbs \cup {"none", "reinvalidate"} /\ cmd.e \in Nat
           /\ cmd.t \in BOOLEAN /\ cmd.ttl \in Int /\ cmd.from \in Int /\ cmd.cas \in Nat
BY DEF Commands

(* The changes the server makes to an item keep it one. *)
LEMMA ItemCounted ==
    ASSUME NEW it \in Items, NEW v \in 0..(Modulus - 1), NEW n \in Nat
    PROVE  [it EXCEPT !.val = v, !.cas = n] \in Items
BY DEF Items

LEMMA ItemRead ==
    ASSUME NEW it \in Items, NEW b \in BOOLEAN
    PROVE  [it EXCEPT !.won = b] \in Items
BY DEF Items

LEMMA ItemTouched ==
    ASSUME NEW it \in Items, NEW b \in BOOLEAN, NEW x \in Int, NEW n \in Nat
    PROVE  [it EXCEPT !.won = b, !.exp = x, !.slides = n] \in Items
BY DEF Items

LEMMA ItemInvalidated ==
    ASSUME NEW it \in Items, NEW x \in Int, NEW n \in Nat
    PROVE  [it EXCEPT !.stale = TRUE, !.won = FALSE, !.cas = n, !.exp = x] \in Items
BY DEF Items

LEMMA GoneType == Gone \in Items
BY LifetimesAssumption DEF Gone, Items, Never

LEMMA NoCmdType == NoCmd \in Commands /\ NoCmd.op = "none"
BY DEF NoCmd, Commands

LEMMA CountedType ==
    ASSUME NEW c \in Calls, NEW n \in 0..(Modulus - 1)
    PROVE  Counted(c, n) \in 0..(Modulus - 1)
<1>1. Modulus \in Nat \ {0} /\ Amount[c] \in 0..(Modulus - 1)
  BY LifetimesAssumption
<1>2. (n + Amount[c]) % Modulus \in 0..(Modulus - 1)
  BY <1>1
<1> QED
  BY <1>1, <1>2 DEF Counted

(* An item that is not live is none; the CAS and the lives go on. *)
LEMMA FoundCases ==
    ASSUME TypeOK
    PROVE  /\ Found \in Items
           /\ Live(item, now) => Found = item /\ item.has
           /\ ~Live(item, now) => /\ ~Found.has /\ Found.cas = item.cas
                                  /\ Found.life = item.life /\ ~Found.stale
                                  /\ Found.val = 0
<1>1. item \in Items
  BY DEF TypeOK
<1>2. [Gone EXCEPT !.cas = item.cas, !.life = item.life] \in Items
  <2>1. item.cas \in Nat /\ item.life \in Nat
    BY <1>1, ItemFields
  <2> QED
    BY <2>1, GoneType DEF Items
<1> QED
  BY <1>1, <1>2 DEF Found, Live, Gone

NewItem(v, exp, it) ==
    [has |-> TRUE, val |-> v, exp |-> exp, stale |-> FALSE, won |-> FALSE,
     cas |-> it.cas + 1, life |-> it.life + 1, slides |-> 0]

LEMMA NewItemType ==
    ASSUME NEW it \in Items, NEW v \in 0..(Modulus - 1), NEW exp \in Int
    PROVE  NewItem(v, exp, it) \in Items
BY DEF NewItem, Items

(* The second at which a command's expiration falls if it is executed now. *)
Expiration(cmd) == realtime(cmd.e, Unix(now))

LEMMA ExpirationType ==
    ASSUME TypeOK, NEW cmd \in Commands
    PROVE  Expiration(cmd) \in Int
<1>1. now \in Nat
  BY LifetimesAssumption DEF TypeOK
<1> QED
  BY <1>1, UnixNat, RealtimeType, CommandFields DEF Expiration

LEMMA AfterSet ==
    ASSUME NEW c \in Calls, NEW cmd, NEW it, cmd.op = "set"
    PROVE  After(c, cmd, it) = NewItem(Amount[c], Expiration(cmd), it)
BY DEF After, NewItem, Expiration, Counters, Reads

LEMMA AfterCount ==
    ASSUME NEW c \in Calls, NEW cmd, NEW it \in Items, cmd.op \in Counters
    PROVE  /\ it.has => After(c, cmd, it) = [it EXCEPT !.val = Counted(c, it.val),
                                                       !.cas = it.cas + 1]
           /\ ~it.has => After(c, cmd, it) = NewItem(initial(c), Expiration(cmd), it)
<1>1. /\ cmd.op # "set" /\ cmd.op # "touch" /\ cmd.op \notin Reads
      /\ cmd.op \notin {"invalidate", "reinvalidate"}
  BY DEF Counters, Reads
<1>2. it.has \in BOOLEAN /\ ~touches(cmd.op)
  BY <1>1, ItemFields DEF touches
<1>3. CASE it.has
  BY <1>1, <1>2, <1>3 DEF After
<1>4. CASE ~it.has
  BY <1>1, <1>2, <1>4 DEF After, NewItem, Expiration
<1> QED
  BY <1>2, <1>3, <1>4

(* A read finds the token of a stale item, or takes it. *)
TokenOut(it) == it.won \/ it.stale

LEMMA AfterMiss ==
    ASSUME NEW c \in Calls, NEW cmd, NEW it \in Items, cmd.op \in Reads, ~it.has
    PROVE  After(c, cmd, it) = it
BY DEF After, Reads, Counters

LEMMA AfterGet ==
    ASSUME NEW c \in Calls, NEW cmd, NEW it \in Items, cmd.op = "get", it.has
    PROVE  After(c, cmd, it) = [it EXCEPT !.won = TokenOut(it)]
BY DEF After, Reads, Counters, touches, TokenOut

Touched(cmd, it) ==
    [it EXCEPT !.won = TokenOut(it), !.exp = Expiration(cmd), !.slides = it.slides + 1]

LEMMA AfterTouch ==
    ASSUME NEW c \in Calls, NEW cmd, NEW it \in Items, cmd.op = "touch", it.has
    PROVE  After(c, cmd, it) = Touched(cmd, it)
BY DEF After, Reads, Counters, touches, Expiration, TokenOut, Items, Touched

LEMMA AfterInvalidate ==
    ASSUME NEW c \in Calls, NEW cmd, NEW it \in Items,
           cmd.op \in {"invalidate", "reinvalidate"}
    PROVE  After(c, cmd, it) =
             IF it.has /\ cmd.cas \in {0, it.cas}
             THEN [it EXCEPT !.stale = TRUE, !.won = FALSE, !.cas = it.cas + 1,
                             !.exp = IF cmd.t THEN Expiration(cmd) ELSE it.exp]
             ELSE it
BY DEF After, Expiration, Counters, Reads

LEMMA AfterType ==
    ASSUME TypeOK, NEW c \in Calls, NEW cmd \in Commands, NEW it \in Items, cmd.op # "none"
    PROVE  After(c, cmd, it) \in Items
<1> DEFINE x == Expiration(cmd)
<1>1. x \in Int
  BY ExpirationType
<1>2. Amount[c] \in 0..(Modulus - 1) /\ 0 \in 0..(Modulus - 1)
  BY LifetimesAssumption
<1>3. initial(c) \in 0..(Modulus - 1)
  BY <1>2 DEF initial
<1>8. /\ it.val \in 0..(Modulus - 1) /\ it.cas + 1 \in Nat /\ it.slides + 1 \in Nat
      /\ TokenOut(it) \in BOOLEAN /\ (IF cmd.t THEN x ELSE it.exp) \in Int
      /\ it.has \in BOOLEAN
  BY <1>1, ItemFields DEF TokenOut
<1>4. CASE cmd.op = "set"
  BY <1>1, <1>2, <1>4, AfterSet, NewItemType
<1>5. CASE cmd.op \in Counters
  <2>1. Counted(c, it.val) \in 0..(Modulus - 1)
    BY <1>8, CountedType
  <2>2. [it EXCEPT !.val = Counted(c, it.val), !.cas = it.cas + 1] \in Items
    BY <1>8, <2>1, ItemCounted
  <2>3. NewItem(initial(c), x, it) \in Items
    BY <1>1, <1>3, NewItemType
  <2> QED
    BY <1>5, <1>8, <2>2, <2>3, AfterCount
<1>6. CASE cmd.op \in Reads
  <2>1. [it EXCEPT !.won = TokenOut(it)] \in Items
    BY <1>8, ItemRead
  <2>2. [it EXCEPT !.won = TokenOut(it), !.exp = x, !.slides = it.slides + 1] \in Items
    BY <1>1, <1>8, ItemTouched
  <2>3. CASE ~it.has
    BY <1>6, <2>3, AfterMiss
  <2>4. CASE it.has /\ cmd.op = "get"
    BY <2>1, <2>4, AfterGet
  <2>5. CASE it.has /\ cmd.op = "touch"
    BY <2>2, <2>5, AfterTouch DEF Touched
  <2> QED
    BY <1>6, <1>8, <2>3, <2>4, <2>5 DEF Reads
<1>7. CASE cmd.op \in {"invalidate", "reinvalidate"}
  <2>1. [it EXCEPT !.stale = TRUE, !.won = FALSE, !.cas = it.cas + 1,
                   !.exp = IF cmd.t THEN x ELSE it.exp] \in Items
    BY <1>8, ItemInvalidated
  <2>2. CASE it.has /\ cmd.cas \in {0, it.cas}
    BY <1>7, <2>1, <2>2, AfterInvalidate
  <2>3. CASE ~(it.has /\ cmd.cas \in {0, it.cas})
    BY <1>7, <2>3, AfterInvalidate
  <2> QED
    BY <2>2, <2>3
<1> QED
  BY <1>4, <1>5, <1>6, <1>7, CommandFields DEF Verbs, Counters, Reads

-----------------------------------------------------------------------------
(* Type correctness *)

(* Whatever is on the wire is a command, which TypeOK alone does not say:  *)
(* without it what Execute stores is not an item.                          *)
Real == \A c \in Calls : wire[c] # NoCmd => wire[c].op # "none"

TypeInv == TypeOK /\ Real

LEMMA ClockNat ==
    ASSUME TypeOK
    PROVE  now \in Nat /\ now >= Start /\ now <= MaxTime
BY LifetimesAssumption DEF TypeOK

LEMMA TypeInit == Init => TypeInv
<1> SUFFICES ASSUME Init PROVE TypeInv
  OBVIOUS
<1>1. now \in Start..MaxTime
  BY LifetimesAssumption DEF Init
<1>2. back \in [Calls -> [due : BOOLEAN, cas : Nat, ttl : Int, slides : Nat, at : Nat]]
  BY DEF Init, NoBack
<1>3. born \in [known : BOOLEAN, ttl : Int, from : Int, to : Int]
  BY DEF Init, Unknown
<1>4. wire \in [Calls -> Commands] /\ Real
  BY NoCmdType DEF Init, Real
<1> QED
  BY <1>1, <1>2, <1>3, <1>4, GoneType DEF Init, TypeInv, TypeOK

LEMMA OfferType ==
    ASSUME NEW o \in Offers
    PROVE  o[1] \in Verbs /\ o[2] \in Int /\ (o[1] = "get" => o[2] = 0)
<1>1. o \in Verbs \X Int
  BY LifetimesAssumption
<1> QED
  BY <1>1, LifetimesAssumption

(* The command with which a call begins. *)
Opening(k, d) ==
    [op |-> k, e |-> ExpiresIn(d, now), t |-> k # "get", ttl |-> d, from |-> now, cas |-> 0]

LEMMA OpeningType ==
    ASSUME TypeOK, NEW k \in Verbs, NEW d \in Nat
    PROVE  Opening(k, d) \in Commands
<1>0. now \in Nat
  BY ClockNat
<1>1. ExpiresIn(d, now) \in Nat /\ now \in Int
  BY <1>0, ExpiresInType
<1>2. (k # "get") \in BOOLEAN
  OBVIOUS
<1> QED
  BY <1>1, <1>2 DEF Opening, Commands

LEMMA BeginCases ==
    ASSUME TypeOK, NEW c \in Calls, NEW k \in Verbs, NEW d \in Int, Begin(c, k, d)
    PROVE  /\ pc[c] = "idle" /\ kind' = [kind EXCEPT ![c] = k]
           /\ \/ pc' = [pc EXCEPT ![c] = "done"] /\ UNCHANGED wire
              \/ /\ d \in Nat /\ pc' = [pc EXCEPT ![c] = "wait"]
                 /\ wire' = [wire EXCEPT ![c] = Opening(k, d)]
           /\ UNCHANGED <<now, item, told, back, window, down, born>>
BY DEF Begin, Refused, Issue, Opening

LEMMA TypeBegin ==
    ASSUME TypeInv, NEW c \in Calls, NEW k \in Verbs, NEW d \in Int, Begin(c, k, d)
    PROVE  TypeInv'
<1>1. TypeOK /\ Real
  BY DEF TypeInv
<1>7. wire' = wire \/ (d \in Nat /\ wire' = [wire EXCEPT ![c] = Opening(k, d)])
  BY <1>1, BeginCases
<1>2. wire' \in [Calls -> Commands] /\ pc' \in [Calls -> {"idle", "wait", "done"}]
  <2>1. wire' \in [Calls -> Commands]
    BY <1>1, <1>7, OpeningType DEF TypeOK
  <2>2. pc' \in [Calls -> {"idle", "wait", "done"}]
    BY <1>1, BeginCases DEF TypeOK
  <2> QED
    BY <2>1, <2>2
<1>3. kind' \in [Calls -> Verbs \cup {"none"}]
  BY <1>1, BeginCases DEF TypeOK
<1>4. Opening(k, d).op = k /\ k # "none"
  BY DEF Opening, Verbs
<1>5. Real'
  BY <1>1, <1>4, BeginCases DEF Real, TypeOK
<1>6. UNCHANGED <<now, item, told, back, window, down, born>>
  BY <1>1, BeginCases
<1> QED
  BY <1>1, <1>2, <1>3, <1>5, <1>6 DEF TypeInv, TypeOK

(* The command with which a read hands a token back. *)
Returning(b) ==
    [op |-> "reinvalidate", e |-> IF b.ttl > 0 THEN staleFor(b.ttl, now) ELSE 0,
     t |-> b.ttl > 0, ttl |-> 0, from |-> now, cas |-> b.cas]

LEMMA BackFields ==
    ASSUME TypeOK, NEW c \in Calls
    PROVE  /\ back[c].due \in BOOLEAN /\ back[c].cas \in Nat /\ back[c].ttl \in Int
           /\ back[c].slides \in Nat /\ back[c].at \in Nat
BY DEF TypeOK

LEMMA ReturningType ==
    ASSUME TypeOK, NEW c \in Calls
    PROVE  Returning(back[c]) \in Commands /\ Returning(back[c]).op = "reinvalidate"
<1> DEFINE b == back[c]
<1>1. b.ttl \in Int /\ b.cas \in Nat /\ now \in Nat
  BY BackFields, ClockNat
<1>2. ASSUME b.ttl > 0 PROVE staleFor(b.ttl, now) \in Nat
  <2>1. b.ttl * Second \in Nat
    BY <1>1, <1>2, ExpiryAssumption
  <2> QED
    BY <1>1, <2>1, ExpiresInType DEF staleFor
<1>3. (IF b.ttl > 0 THEN staleFor(b.ttl, now) ELSE 0) \in Nat
  BY <1>1, <1>2
<1>4. (b.ttl > 0) \in BOOLEAN
  BY <1>1
<1> HIDE DEF b
<1> QED
  BY <1>1, <1>3, <1>4 DEF Returning, Commands, b

LEMMA HandBackCases ==
    ASSUME NEW c \in Calls, HandBack(c)
    PROVE  /\ back[c].due /\ wire[c] = NoCmd
           /\ back' = [back EXCEPT ![c].due = FALSE]
           /\ UNCHANGED wire \/ wire' = [wire EXCEPT ![c] = Returning(back[c])]
           /\ UNCHANGED <<now, item, kind, pc, told, window, down, born>>
BY DEF HandBack, Issue, Returning

LEMMA TypeHandBack ==
    ASSUME TypeInv, NEW c \in Calls, HandBack(c)
    PROVE  TypeInv'
<1>1. TypeOK /\ Real
  BY DEF TypeInv
<1>2. wire' \in [Calls -> Commands]
  BY <1>1, HandBackCases, ReturningType DEF TypeOK
<1>3. Real'
  BY <1>1, HandBackCases, ReturningType DEF Real, TypeOK
<1>4. back' \in [Calls -> [due : BOOLEAN, cas : Nat, ttl : Int, slides : Nat, at : Nat]]
  <2>1. back' = [back EXCEPT ![c] = [back[c] EXCEPT !.due = FALSE]]
    BY HandBackCases
  <2>2. [back[c] EXCEPT !.due = FALSE]
           \in [due : BOOLEAN, cas : Nat, ttl : Int, slides : Nat, at : Nat]
    <3>1. back[c] \in [due : BOOLEAN, cas : Nat, ttl : Int, slides : Nat, at : Nat]
      BY <1>1 DEF TypeOK
    <3> QED
      BY <3>1
  <2> QED
    BY <1>1, <2>1, <2>2 DEF TypeOK
<1>5. UNCHANGED <<now, item, kind, pc, told, window, down, born>>
  BY HandBackCases
<1> QED
  BY <1>1, <1>2, <1>3, <1>4, <1>5 DEF TypeInv, TypeOK

(* What a read that wins a token remembers of the item. *)
Memo(it) ==
    [due |-> TRUE, cas |-> it.cas, ttl |-> Remaining(it), slides |-> it.slides, at |-> now]

LEMMA MemoType ==
    ASSUME TypeOK, NEW it \in Items
    PROVE  Memo(it) \in [due : BOOLEAN, cas : Nat, ttl : Int, slides : Nat, at : Nat]
<1>1. Unix(now) \in Int /\ now \in Nat
  BY ClockNat, UnixBounds
<1>2. Remaining(it) \in Int
  BY <1>1, ItemFields DEF Remaining
<1> QED
  BY <1>1, <1>2, ItemFields DEF Memo

Wins(cmd, it) == cmd.op \in Reads /\ it.has /\ it.stale /\ ~it.won

LEMMA ExecuteCases ==
    ASSUME NEW c \in Calls, Execute(c)
    PROVE  /\ wire[c] # NoCmd
           /\ item' = After(c, wire[c], Found)
           /\ wire' = [wire EXCEPT ![c] = NoCmd]
           /\ window' = [window EXCEPT ![c] =
                           IF wire[c].op \in Counters THEN item'.life ELSE window[c]]
           /\ down' = IF wire[c].op \in Counters /\ Found.has /\ item'.val < Found.val
                      THEN down \cup {Found.life} ELSE down
           /\ pc[c] = "wait" =>
                /\ pc' = [pc EXCEPT ![c] = "done"]
                /\ told' = [told EXCEPT ![c] =
                              IF wire[c].op \in Counters THEN item'.val ELSE told[c]]
                /\ back' = [back EXCEPT ![c] =
                              IF Wins(wire[c], Found) THEN Memo(Found) ELSE back[c]]
           /\ pc[c] # "wait" => UNCHANGED <<pc, told, back>>
           /\ UNCHANGED <<now, kind>>
BY DEF Execute, Wins, Memo

LEMMA TypeExecute ==
    ASSUME TypeInv, NEW c \in Calls, Execute(c)
    PROVE  TypeInv'
<1>1. TypeOK /\ Real
  BY DEF TypeInv
<1>2. wire[c] \in Commands /\ wire[c].op # "none"
  BY <1>1, ExecuteCases DEF TypeOK, Real
<1>3. Found \in Items
  BY <1>1, FoundCases
<1>4. item' \in Items
  BY <1>1, <1>2, <1>3, AfterType, ExecuteCases
<1>5. wire' \in [Calls -> Commands] /\ Real'
  <2>1. wire' = [wire EXCEPT ![c] = NoCmd]
    BY ExecuteCases
  <2> QED
    BY <1>1, <2>1, NoCmdType DEF TypeOK, Real
<1>6. item'.life \in Nat /\ item'.val \in 0..(Modulus - 1) /\ Found.life \in Nat
  BY <1>3, <1>4, ItemFields
<1>7. window' \in [Calls -> Nat] /\ down' \subseteq Nat
  <2>1. window' = [window EXCEPT ![c] = item'.life] \/ window' = window
    BY <1>1, ExecuteCases DEF TypeOK
  <2>2. down' = down \cup {Found.life} \/ down' = down
    BY ExecuteCases
  <2> QED
    BY <1>1, <1>6, <2>1, <2>2 DEF TypeOK
<1>8. /\ pc' \in [Calls -> {"idle", "wait", "done"}]
      /\ told' \in [Calls -> 0..(Modulus - 1) \cup {Untold}]
  BY <1>1, <1>6, ExecuteCases DEF TypeOK
<1>9. back' \in [Calls -> [due : BOOLEAN, cas : Nat, ttl : Int, slides : Nat, at : Nat]]
  BY <1>1, <1>3, MemoType, ExecuteCases DEF TypeOK
<1>10. born' \in [known : BOOLEAN, ttl : Int, from : Int, to : Int]
  <2>1. wire[c].ttl \in Int /\ wire[c].from \in Int /\ now \in Int
    BY <1>1, <1>2, CommandFields, ClockNat
  <2>2. born' \in {Unknown, born, [known |-> TRUE, ttl |-> wire[c].ttl,
                                   from |-> wire[c].from, to |-> now]}
    BY DEF Execute
  <2>3. [known |-> TRUE, ttl |-> wire[c].ttl, from |-> wire[c].from, to |-> now]
          \in [known : BOOLEAN, ttl : Int, from : Int, to : Int]
    BY <2>1
  <2>4. Unknown \in [known : BOOLEAN, ttl : Int, from : Int, to : Int]
    BY DEF Unknown
  <2> QED
    BY <1>1, <2>2, <2>3, <2>4 DEF TypeOK
<1> QED
  BY <1>1, <1>4, <1>5, <1>7, <1>8, <1>9, <1>10, ExecuteCases DEF TypeInv, TypeOK

LEMMA TypeFail ==
    ASSUME TypeInv, NEW c \in Calls, Fail(c)
    PROVE  TypeInv'
<1>1. wire' \in [Calls -> Commands] /\ pc' \in [Calls -> {"idle", "wait", "done"}]
  BY NoCmdType DEF TypeInv, TypeOK, Fail
<1>2. Real'
  BY DEF TypeInv, TypeOK, Real, Fail
<1> QED
  BY <1>1, <1>2 DEF TypeInv, TypeOK, Fail

LEMMA TypeTick ==
    ASSUME TypeInv, Tick
    PROVE  TypeInv'
<1>1. now' \in Start..MaxTime
  BY LifetimesAssumption DEF TypeInv, TypeOK, Tick
<1> QED
  BY <1>1 DEF TypeInv, TypeOK, Real, Tick

LEMMA TypeStep == TypeInv /\ [Next]_vars => TypeInv'
<1> SUFFICES ASSUME TypeInv, [Next]_vars PROVE TypeInv'
  OBVIOUS
<1>1. ASSUME NEW c \in Calls, NEW o \in Offers, Begin(c, o[1], o[2]) PROVE TypeInv'
  BY <1>1, OfferType, TypeBegin
<1>2. ASSUME NEW c \in Calls, Execute(c) \/ Fail(c) \/ HandBack(c) PROVE TypeInv'
  BY <1>2, TypeExecute, TypeFail, TypeHandBack
<1>3. CASE UNCHANGED vars
  BY <1>3 DEF vars, TypeInv, TypeOK, Real
<1> QED
  BY <1>1, <1>2, <1>3, TypeTick DEF Next, Finished

LEMMA TypeAlways == Spec => []TypeInv
BY TypeInit, TypeStep, PTL DEF Spec

(* For any calls and TTLs: the item, the commands and the answers have the *)
(* shape the code gives them; no negative expiration is ever sent          *)
(* (resolveTTL), and counters stay within their width.                     *)
THEOREM TypeCorrect == Spec => []TypeOK
<1>1. TypeInv => TypeOK
  BY DEF TypeInv
<1> QED
  BY <1>1, TypeAlways, PTL

-----------------------------------------------------------------------------
(* Items live as long as asked *)

(* A command carries what the caller asked, at a time that has passed, and *)
(* its call has not been told anything.                                    *)
Asked(c) ==
    wire[c].op \in Verbs =>
        /\ wire[c].op = kind[c] /\ wire[c].cas = 0
        /\ wire[c].ttl \in Nat /\ wire[c].from \in Start..now
        /\ wire[c].e = ExpiresIn(wire[c].ttl, wire[c].from)
        /\ wire[c].t <=> wire[c].op # "get"
        /\ told[c] = Untold /\ window[c] = 0

(* A call that has not begun has left no trace. *)
Untouched(c) ==
    pc[c] = "idle" =>
        /\ kind[c] = "none" /\ wire[c] = NoCmd /\ ~back[c].due
        /\ told[c] = Untold /\ window[c] = 0

AllAsked == \A c \in Calls : Asked(c) /\ Untouched(c)

(* A token on its way back still describes the item it was won with, while *)
(* the item has that CAS and has not been touched since.                   *)
Kept(c) ==
    LET b == back[c] IN
    /\ pc[c] = "done"
    /\ b.at \in Start..now /\ b.cas \in 1..item.cas
    /\ b.ttl = -1 \/ b.ttl > 0
    /\ item.has /\ item.cas = b.cas =>
         /\ b.slides <= item.slides
         /\ b.slides = item.slides =>
              IF item.exp = Never THEN b.ttl = -1 ELSE b.ttl = item.exp - Unix(b.at) /\ b.ttl > 0

Returned(c) ==
    LET cmd == wire[c]
        b   == back[c]
    IN
    /\ cmd.cas = b.cas /\ ~b.due
    /\ cmd.t <=> b.ttl > 0
    /\ cmd.from \in b.at..now
    /\ cmd.t => cmd.e = staleFor(b.ttl, cmd.from)

AllKept ==
    \A c \in Calls :
        /\ back[c].due => wire[c] = NoCmd
        /\ back[c].due \/ wire[c].op = "reinvalidate" => Kept(c)
        /\ wire[c].op = "reinvalidate" => Returned(c)

Numbered == item.has => item.cas > 0 /\ item.life > 0

(* What a call was told in the item's present life is at most its value;   *)
(* two calls were never told the same, nor one of them zero.               *)
Counts(c) == kind[c] = "incr" /\ Amount[c] > 0 /\ told[c] # Untold

AllCounted ==
    /\ \A c \in Calls : told[c] # Untold =>
         /\ pc[c] = "done" /\ window[c] \in 1..item.life
    /\ \A c \in Calls : Counts(c) /\ window[c] \notin down =>
         /\ told[c] > 0
         /\ item.has /\ window[c] = item.life => told[c] <= item.val
    /\ \A c, d \in Calls : c # d /\ Counts(c) /\ Counts(d) /\ window[c] = window[d]
                             /\ window[c] \notin down
         => told[c] # told[d]

LifeInv == AllAsked /\ AllKept /\ Numbered /\ LivesAsAsked /\ AllCounted

(* The arithmetic of ExpiresIn and of the server together. *)
LEMMA CeilRelative ==
    ASSUME NEW d \in Nat, d <= MaxRelative * Second
    PROVE  (d + Second - 1) \div Second <= MaxRelative
<1> DEFINE n == (d + Second - 1) \div Second
<1>1. n \in Nat /\ Second * n < d + Second
  BY CeilBounds
<1>2. Second \in Nat \ {0} /\ MaxRelative \in Nat
  BY ExpiryAssumption
<1> HIDE DEF n
<1>3. Second * n < Second * MaxRelative + Second
  BY <1>1, <1>2
<1>4. n <= MaxRelative
  BY <1>1, <1>2, <1>3, CancelFactor
<1> QED
  BY <1>4 DEF n

LEMMA AbsoluteFar ==
    ASSUME NEW t \in Nat, t >= Start, NEW d \in Nat, d > MaxRelative * Second
    PROVE  Unix(t + d) > MaxRelative
<1>1. Second \in Nat \ {0} /\ MaxRelative \in Nat \ {0} /\ Start > MaxRelative * Second
      /\ Start \in Nat
  BY ExpiryAssumption, LifetimesAssumption
<1>2. Unix(t + d) \in Int /\ t + d < Second * Unix(t + d) + Second
  BY UnixBounds
<1>3. MaxRelative * Second >= Second
  BY <1>1
<1>4. Second * (MaxRelative + 1) < Second * Unix(t + d) + Second
  BY <1>1, <1>2, <1>3
<1>5. MaxRelative + 1 <= Unix(t + d)
  BY <1>1, <1>2, <1>4, CancelFactor
<1> QED
  BY <1>1, <1>2, <1>5

LEMMA RealtimeLives ==
    ASSUME NEW d \in Nat, NEW from \in Nat, NEW to \in Nat, Start <= from, from <= to
    PROVE  LET x == realtime(ExpiresIn(d, from), Unix(to))
           IN IF d = 0 THEN x = Never
              ELSE x * Second > from + d - Second /\ x * Second < to + d + Second
<1> DEFINE n == (d + Second - 1) \div Second
           x == realtime(ExpiresIn(d, from), Unix(to))
<1>1. Second \in Nat \ {0} /\ MaxRelative \in Nat \ {0}
  BY ExpiryAssumption
<1>2. n \in Nat /\ d <= Second * n /\ Second * n < d + Second /\ (d > 0 => n > 0)
  BY CeilBounds
<1>3. /\ Unix(to) \in Int /\ Second * Unix(to) <= to /\ to < Second * Unix(to) + Second
  BY UnixBounds
<1>4. CASE d <= MaxRelative * Second
  <2>0. ExpiresIn(d, from) = n
    BY <1>1, <1>4 DEF ExpiresIn
  <2>1. ExpiresIn(d, from) = n /\ n <= MaxRelative
    BY <1>4, <2>0, CeilRelative
  <2> HIDE DEF n
  <2>2. CASE d = 0
    <3>1. n = 0
      BY <1>1, <1>2, <2>2
    <3> QED
      BY <2>1, <2>2, <3>1 DEF realtime
  <2>3. CASE d > 0
    <3>1. x = Unix(to) + n
      BY <1>1, <1>2, <2>1, <2>3 DEF realtime
    <3>2. x * Second = Second * Unix(to) + Second * n
      BY <1>1, <1>2, <1>3, <3>1
    <3>3. x * Second > from + d - Second /\ x * Second < to + d + Second
      BY <1>1, <1>2, <1>3, <3>2
    <3> QED
      BY <2>3, <3>3
  <2> QED
    BY <2>2, <2>3
<1>5. CASE d > MaxRelative * Second
  <2>1. ExpiresIn(d, from) = Unix(from + d)
    BY <1>5 DEF ExpiresIn
  <2>2. Unix(from + d) > MaxRelative /\ Unix(from + d) \in Int
    BY <1>5, AbsoluteFar, UnixBounds
  <2>3. x = Unix(from + d)
    BY <1>1, <2>1, <2>2 DEF realtime
  <2>4. Second * x <= from + d /\ from + d < Second * x + Second
    BY <2>3, UnixBounds
  <2>5. d # 0
    BY <1>1, <1>5
  <2>6. x * Second = Second * x
    BY <1>1, <2>2, <2>3
  <2>7. x * Second \in Int
    BY <1>1, <2>2, <2>3
  <2> HIDE DEF x
  <2>8. x * Second > from + d - Second /\ x * Second < to + d + Second
    BY <1>1, <2>4, <2>6, <2>7
  <2> QED
    BY <2>5, <2>8 DEF x
<1> QED
  BY <1>1, <1>4, <1>5

(* Whole seconds pass through Unix and ExpiresIn unchanged. *)
LEMMA UnixPlus ==
    ASSUME NEW t \in Int, NEW n \in Int
    PROVE  Unix(t + n * Second) = Unix(t) + n
<1> DEFINE u == Unix(t + n * Second)
           v == Unix(t) + n
<1>1. Second \in Nat \ {0}
  BY ExpiryAssumption
<1>2. t + n * Second \in Int
  BY <1>1
<1>3. u \in Int /\ Second * u <= t + n * Second /\ t + n * Second < Second * u + Second
  BY <1>2, UnixBounds
<1>4. /\ Unix(t) \in Int /\ Second * Unix(t) <= t /\ t < Second * Unix(t) + Second
  BY UnixBounds
<1>5. v \in Int /\ Second * v = Second * Unix(t) + n * Second
  BY <1>1, <1>4
<1> HIDE DEF u, v
<1>6. Second * u < Second * v + Second /\ Second * v < Second * u + Second
  BY <1>1, <1>3, <1>4, <1>5
<1>7. u <= v /\ v <= u
  BY <1>1, <1>3, <1>5, <1>6, CancelFactor
<1> QED
  BY <1>3, <1>5, <1>7 DEF u, v

LEMMA CeilWhole ==
    ASSUME NEW n \in Nat
    PROVE  (n * Second + Second - 1) \div Second = n
<1> DEFINE m == (n * Second + Second - 1) \div Second
<1>1. Second \in Nat \ {0} /\ n * Second \in Nat /\ n * Second = Second * n
  BY ExpiryAssumption
<1>2. m \in Nat /\ n * Second <= Second * m /\ Second * m < n * Second + Second
  BY <1>1, CeilBounds
<1> HIDE DEF m
<1>3. Second * m < Second * n + Second /\ Second * n < Second * m + Second
  BY <1>1, <1>2
<1>4. m <= n /\ n <= m
  BY <1>1, <1>2, <1>3, CancelFactor
<1> QED
  BY <1>2, <1>4 DEF m

(* What a hand-back sets: the seconds that were left, from a time between  *)
(* the read and the execution.                                             *)
LEMMA StaleForLives ==
    ASSUME NEW n \in Nat, n > 0, NEW from \in Nat, NEW to \in Nat, Start <= from, from <= to
    PROVE  LET x == realtime(staleFor(n, from), Unix(to))
           IN x >= Unix(from) + n /\ x <= Unix(to) + n
<1>1. Second \in Nat \ {0} /\ MaxRelative \in Nat \ {0}
  BY ExpiryAssumption
<1>2. n * Second \in Nat
  BY <1>1
<1>3. Unix(from) \in Int /\ Unix(to) \in Int /\ Unix(from) <= Unix(to)
  BY UnixBounds, UnixMonotonic
<1>4. CASE n * Second > MaxRelative * Second
  <2>1. staleFor(n, from) = Unix(from + n * Second)
    BY <1>1, <1>2, <1>4 DEF staleFor, ExpiresIn
  <2>2. Unix(from + n * Second) = Unix(from) + n
    BY UnixPlus
  <2>3. Unix(from + n * Second) > MaxRelative
    BY <1>2, <1>4, AbsoluteFar
  <2>4. realtime(staleFor(n, from), Unix(to)) = Unix(from) + n
    BY <1>1, <1>3, <2>1, <2>2, <2>3 DEF realtime
  <2> QED
    BY <1>3, <2>4
<1>5. CASE n * Second <= MaxRelative * Second
  <2>1. staleFor(n, from) = n
    BY <1>1, <1>2, <1>5, CeilWhole DEF staleFor, ExpiresIn
  <2>2. n <= MaxRelative
    BY <1>1, <1>5
  <2>3. realtime(staleFor(n, from), Unix(to)) = Unix(to) + n
    BY <1>1, <1>3, <2>1, <2>2 DEF realtime
  <2> QED
    BY <1>3, <2>3
<1> QED
  BY <1>1, <1>4, <1>5

LEMMA WireFields ==
    ASSUME TypeOK, NEW c \in Calls
    PROVE  wire[c] \in Commands /\ wire[c].ttl \in Int /\ wire[c].from \in Int
           /\ wire[c].cas \in Nat /\ wire[c].e \in Nat /\ wire[c].t \in BOOLEAN
BY CommandFields DEF TypeOK

LEMMA AskedBegin ==
    ASSUME TypeInv, AllAsked, NEW c \in Calls, NEW k \in Verbs, NEW d \in Int, Begin(c, k, d)
    PROVE  AllAsked'
<1>0. TypeOK
  BY DEF TypeInv
<1>1. /\ pc[c] = "idle" /\ kind' = [kind EXCEPT ![c] = k]
      /\ UNCHANGED <<now, told, back, window>>
      /\ \/ pc' = [pc EXCEPT ![c] = "done"] /\ UNCHANGED wire
         \/ /\ d \in Nat /\ pc' = [pc EXCEPT ![c] = "wait"]
            /\ wire' = [wire EXCEPT ![c] = Opening(k, d)]
  BY <1>0, BeginCases
<1>2. kind[c] = "none" /\ wire[c] = NoCmd /\ told[c] = Untold /\ window[c] = 0
  BY <1>1 DEF AllAsked, Untouched
<1>3. now \in Nat /\ now \in Start..now /\ Start \in Nat
  BY <1>0, ClockNat, LifetimesAssumption
<1> SUFFICES ASSUME NEW q \in Calls PROVE Asked(q)' /\ Untouched(q)'
  BY DEF AllAsked
<1>4. CASE q # c
  <2>1. /\ pc'[q] = pc[q] /\ kind'[q] = kind[q] /\ wire'[q] = wire[q]
        /\ told'[q] = told[q] /\ window'[q] = window[q] /\ back'[q] = back[q] /\ now' = now
    BY <1>0, <1>1, <1>4 DEF TypeOK
  <2> QED
    BY <2>1 DEF AllAsked, Asked, Untouched
<1>5. CASE q = c
  <2>1. pc'[c] # "idle" /\ kind'[c] = k
    BY <1>0, <1>1 DEF TypeOK
  <2>2. CASE UNCHANGED wire
    <3>1. wire'[c].op \notin Verbs
      BY <1>2, <2>2, NoCmdType DEF Verbs
    <3> QED
      BY <1>5, <2>1, <3>1 DEF Asked, Untouched
  <2>3. CASE d \in Nat /\ wire' = [wire EXCEPT ![c] = Opening(k, d)]
    <3>1. wire'[c] = Opening(k, d)
      BY <1>0, <2>3 DEF TypeOK
    <3>2. /\ wire'[c].op = k /\ wire'[c].cas = 0 /\ wire'[c].ttl = d /\ wire'[c].from = now
          /\ wire'[c].e = ExpiresIn(d, now) /\ wire'[c].t = (k # "get")
      BY <3>1 DEF Opening
    <3>3. Asked(c)'
      BY <1>1, <1>2, <1>3, <2>1, <2>3, <3>2 DEF Asked
    <3> QED
      BY <1>5, <2>1, <3>3 DEF Untouched
  <2> QED
    BY <1>1, <2>2, <2>3
<1> QED
  BY <1>4, <1>5

LEMMA AskedExecute ==
    ASSUME TypeInv, AllAsked, NEW c \in Calls, Execute(c)
    PROVE  AllAsked'
<1>0. TypeOK
  BY DEF TypeInv
<1>1. pc[c] # "idle"
  BY ExecuteCases DEF AllAsked, Untouched
<1> SUFFICES ASSUME NEW q \in Calls PROVE Asked(q)' /\ Untouched(q)'
  BY DEF AllAsked
<1>2. CASE q # c
  <2>1. /\ pc'[q] = pc[q] /\ kind'[q] = kind[q] /\ wire'[q] = wire[q]
        /\ told'[q] = told[q] /\ window'[q] = window[q] /\ back'[q] = back[q] /\ now' = now
    BY <1>0, <1>2, ExecuteCases DEF TypeOK
  <2> QED
    BY <2>1 DEF AllAsked, Asked, Untouched
<1>3. CASE q = c
  <2>1. wire'[c] = NoCmd
    BY <1>0, ExecuteCases DEF TypeOK
  <2>2. wire'[c].op \notin Verbs
    BY <2>1, NoCmdType DEF Verbs
  <2>3. pc'[c] # "idle"
    BY <1>0, <1>1, ExecuteCases DEF TypeOK
  <2> QED
    BY <1>3, <2>2, <2>3 DEF Asked, Untouched
<1> QED
  BY <1>2, <1>3

LEMMA AskedHandBack ==
    ASSUME TypeInv, AllAsked, NEW c \in Calls, HandBack(c)
    PROVE  AllAsked'
<1>0. TypeOK
  BY DEF TypeInv
<1>1. pc[c] # "idle"
  BY HandBackCases DEF AllAsked, Untouched
<1>2. UNCHANGED <<now, kind, pc, told, window>>
  BY HandBackCases
<1> SUFFICES ASSUME NEW q \in Calls PROVE Asked(q)' /\ Untouched(q)'
  BY DEF AllAsked
<1>3. CASE q # c
  <2>1. wire'[q] = wire[q] /\ back'[q] = back[q]
    BY <1>0, <1>3, HandBackCases DEF TypeOK
  <2> QED
    BY <1>2, <2>1 DEF AllAsked, Asked, Untouched
<1>4. CASE q = c
  <2>1. wire'[c] = wire[c] \/ wire'[c].op = "reinvalidate"
    BY <1>0, HandBackCases, ReturningType DEF TypeOK
  <2>2. wire'[c].op \notin Verbs
    BY <2>1, HandBackCases, NoCmdType DEF Verbs
  <2> QED
    BY <1>1, <1>2, <1>4, <2>2 DEF Asked, Untouched
<1> QED
  BY <1>3, <1>4

LEMMA AskedRest ==
    ASSUME TypeInv, AllAsked, Tick \/ (\E c \in Calls : Fail(c)) \/ UNCHANGED vars
    PROVE  AllAsked'
<1>0. TypeOK
  BY DEF TypeInv
<1>1. CASE Tick
  <2>1. now' = now + 1 /\ now \in Nat /\ Start \in Nat
    BY <1>0, <1>1, ClockNat, LifetimesAssumption DEF Tick
  <2>2. UNCHANGED <<kind, pc, wire, told, back, window>>
    BY <1>1 DEF Tick
  <2> QED
    BY <2>1, <2>2 DEF AllAsked, Asked, Untouched
<1>2. ASSUME NEW c \in Calls, Fail(c) PROVE AllAsked'
  <2>1. /\ pc[c] = "wait" /\ pc' = [pc EXCEPT ![c] = "done"]
        /\ wire' = wire \/ wire' = [wire EXCEPT ![c] = NoCmd]
        /\ UNCHANGED <<now, kind, told, back, window>>
    BY <1>2 DEF Fail
  <2> SUFFICES ASSUME NEW q \in Calls PROVE Asked(q)' /\ Untouched(q)'
    BY DEF AllAsked
  <2>2. wire'[q] = wire[q] \/ (q = c /\ wire'[q] = NoCmd)
    BY <1>0, <2>1 DEF TypeOK
  <2>3. pc'[q] = pc[q] \/ (q = c /\ pc'[q] = "done")
    BY <1>0, <2>1 DEF TypeOK
  <2>4. "none" \notin Verbs
    BY DEF Verbs
  <2> QED
    BY <2>1, <2>2, <2>3, <2>4, NoCmdType DEF AllAsked, Asked, Untouched
<1>3. CASE UNCHANGED vars
  BY <1>3 DEF vars, AllAsked, Asked, Untouched
<1> QED
  BY <1>1, <1>2, <1>3

(***************************************************************************)
(* The six things the execution of a command may do to the item: create    *)
(* it, count, read, touch, invalidate, or nothing, after which an expired  *)
(* item is no more.                                                        *)
(***************************************************************************)
Creates(c) ==
    /\ wire[c].op = "set" \/ (wire[c].op \in Counters /\ ~Live(item, now))
    /\ item'.has /\ ~item'.stale /\ item'.slides = 0
    /\ item'.life = item.life + 1 /\ item'.cas = item.cas + 1
    /\ item'.exp = Expiration(wire[c])
    /\ item'.val = IF wire[c].op = "set" THEN Amount[c] ELSE initial(c)

CountsOn(c) ==
    /\ wire[c].op \in Counters /\ Live(item, now) /\ item.has /\ item'.has
    /\ item'.life = item.life /\ item'.cas = item.cas + 1
    /\ item'.exp = item.exp /\ item'.slides = item.slides
    /\ item'.val = Counted(c, item.val)

ReadsOn(c) ==
    /\ wire[c].op = "get" /\ Live(item, now) /\ item.has /\ item'.has
    /\ item'.life = item.life /\ item'.cas = item.cas /\ item'.exp = item.exp
    /\ item'.slides = item.slides /\ item'.val = item.val

TouchesOn(c) ==
    /\ wire[c].op = "touch" /\ Live(item, now) /\ item.has /\ item'.has
    /\ item'.life = item.life /\ item'.cas = item.cas /\ item'.val = item.val
    /\ item'.exp = Expiration(wire[c]) /\ item'.slides = item.slides + 1

InvalidatesOn(c) ==
    /\ wire[c].op \in {"invalidate", "reinvalidate"} /\ Live(item, now)
    /\ item.has /\ item'.has /\ wire[c].cas \in {0, item.cas}
    /\ item'.life = item.life /\ item'.cas = item.cas + 1 /\ item'.val = item.val
    /\ item'.exp = (IF wire[c].t THEN Expiration(wire[c]) ELSE item.exp)
    /\ item'.slides = item.slides

LeavesAlone(c) ==
    /\ wire[c].op \in Reads \cup {"invalidate", "reinvalidate"}
    /\ item' = Found
    /\ wire[c].op \in Reads => ~Live(item, now)

Effect(c) ==
    \/ Creates(c) \/ CountsOn(c) \/ ReadsOn(c) \/ TouchesOn(c) \/ InvalidatesOn(c)
    \/ LeavesAlone(c)

LEMMA NewItemFields ==
    ASSUME NEW v, NEW x, NEW it
    PROVE  LET n == NewItem(v, x, it) IN
           /\ n.has /\ ~n.stale /\ n.slides = 0 /\ n.life = it.life + 1
           /\ n.cas = it.cas + 1 /\ n.exp = x /\ n.val = v
BY DEF NewItem

LEMMA ExecuteEffect ==
    ASSUME TypeInv, NEW c \in Calls, Execute(c)
    PROVE  Effect(c)
<1> DEFINE cmd == wire[c]
           it  == Found
<1>0. TypeOK
  BY DEF TypeInv
<1>1. cmd \in Commands /\ cmd.op # "none"
  BY ExecuteCases DEF TypeInv, TypeOK, Real
<1>2. item' = After(c, cmd, it) /\ it \in Items /\ item \in Items
  BY <1>0, FoundCases, ExecuteCases DEF TypeOK
<1>3. /\ it.cas = item.cas /\ it.life = item.life
      /\ it.has \in BOOLEAN /\ item.has \in BOOLEAN
      /\ it.has => Live(item, now) /\ it = item
      /\ ~it.has => ~Live(item, now)
  BY <1>0, <1>2, FoundCases, ItemFields
<1>4. CASE cmd.op = "set"
  <2>1. item' = NewItem(Amount[c], Expiration(cmd), it)
    BY <1>2, <1>4, AfterSet
  <2>2. Creates(c)
    BY <1>3, <1>4, <2>1, NewItemFields DEF Creates
  <2> QED
    BY <2>2 DEF Effect
<1>5. CASE cmd.op \in Counters /\ ~it.has
  <2>1. item' = NewItem(initial(c), Expiration(cmd), it)
    BY <1>2, <1>5, AfterCount
  <2>2. Creates(c)
    BY <1>3, <1>5, <2>1, NewItemFields DEF Creates, Counters
  <2> QED
    BY <2>2 DEF Effect
<1>6. CASE cmd.op \in Counters /\ it.has
  <2>1. item' = [it EXCEPT !.val = Counted(c, it.val), !.cas = it.cas + 1]
    BY <1>2, <1>6, AfterCount
  <2>2. it = item /\ item' = [item EXCEPT !.val = Counted(c, item.val), !.cas = item.cas + 1]
    BY <1>3, <1>6, <2>1
  <2> HIDE DEF it
  <2>3. /\ item'.has = item.has /\ item'.life = item.life /\ item'.cas = item.cas + 1
        /\ item'.exp = item.exp /\ item'.slides = item.slides
        /\ item'.val = Counted(c, item.val)
    BY <1>2, <2>2 DEF Items
  <2>4. CountsOn(c)
    BY <1>3, <1>6, <2>2, <2>3 DEF CountsOn
  <2> QED
    BY <2>4 DEF Effect
<1>7. CASE cmd.op \in Reads /\ ~it.has
  <2>1. item' = it
    BY <1>2, <1>7, AfterMiss
  <2> QED
    BY <1>3, <1>7, <2>1 DEF Effect, LeavesAlone
<1>8. CASE cmd.op = "get" /\ it.has
  <2>1. item' = [it EXCEPT !.won = TokenOut(it)]
    BY <1>2, <1>8, AfterGet
  <2>2. it = item /\ item' = [item EXCEPT !.won = TokenOut(item)]
    BY <1>3, <1>8, <2>1
  <2> HIDE DEF it
  <2>3. /\ item'.has = item.has /\ item'.life = item.life /\ item'.cas = item.cas
        /\ item'.exp = item.exp /\ item'.slides = item.slides /\ item'.val = item.val
    BY <1>2, <2>2 DEF Items
  <2>4. ReadsOn(c)
    BY <1>3, <1>8, <2>2, <2>3 DEF ReadsOn
  <2> QED
    BY <2>4 DEF Effect
<1>9. CASE cmd.op = "touch" /\ it.has
  <2>1. item' = Touched(cmd, it)
    BY <1>2, <1>9, AfterTouch
  <2>2. it = item /\ item' = Touched(cmd, item)
    BY <1>3, <1>9, <2>1
  <2> HIDE DEF it
  <2>3. /\ item'.has = item.has /\ item'.life = item.life /\ item'.cas = item.cas
        /\ item'.exp = Expiration(cmd) /\ item'.slides = item.slides + 1
        /\ item'.val = item.val
    BY <1>2, <2>2 DEF Items, Touched
  <2>4. TouchesOn(c)
    BY <1>3, <1>9, <2>2, <2>3 DEF TouchesOn
  <2> QED
    BY <2>4 DEF Effect
<1>10. CASE cmd.op \in {"invalidate", "reinvalidate"} /\ it.has /\ cmd.cas \in {0, it.cas}
  <2> DEFINE x == IF cmd.t THEN Expiration(cmd) ELSE item.exp
  <2>1. it = item
    BY <1>3, <1>10
  <2>2. item' = [item EXCEPT !.stale = TRUE, !.won = FALSE, !.cas = item.cas + 1, !.exp = x]
    BY <1>2, <1>10, <2>1, AfterInvalidate
  <2> HIDE DEF it, x
  <2>3. /\ item'.has = item.has /\ item'.life = item.life /\ item'.cas = item.cas + 1
        /\ item'.exp = x /\ item'.slides = item.slides /\ item'.val = item.val
    BY <1>2, <2>2 DEF Items
  <2>4. InvalidatesOn(c)
    BY <1>3, <1>10, <2>1, <2>3 DEF InvalidatesOn, x
  <2> QED
    BY <2>4 DEF Effect
<1>11. CASE cmd.op \in {"invalidate", "reinvalidate"} /\ ~(it.has /\ cmd.cas \in {0, it.cas})
  <2>1. item' = it
    BY <1>2, <1>11, AfterInvalidate
  <2> QED
    BY <1>11, <2>1 DEF Effect, LeavesAlone, Reads
<1> HIDE DEF cmd, it
<1>12. cmd.op \in Verbs \cup {"reinvalidate"}
  BY <1>1, CommandFields
<1> QED
  BY <1>3, <1>4, <1>5, <1>6, <1>7, <1>8, <1>9, <1>10, <1>11, <1>12
     DEF Verbs, Counters, Reads

LEMMA LeftAlone ==
    ASSUME TypeInv, NEW c \in Calls, LeavesAlone(c)
    PROVE  /\ item'.cas = item.cas /\ item'.life = item.life
           /\ item'.has => item' = item /\ Live(item, now)
           /\ Live(item, now) => item' = item
BY FoundCases DEF LeavesAlone, TypeInv

LEMMA NumberedStep ==
    ASSUME TypeInv, Numbered, NEW c \in Calls, Execute(c)
    PROVE  Numbered'
<1>1. item.cas \in Nat /\ item.life \in Nat
  BY ItemFields DEF TypeInv, TypeOK
<1>2. Effect(c)
  BY ExecuteEffect
<1>3. CASE LeavesAlone(c)
  BY <1>3, LeftAlone DEF Numbered
<1> QED
  BY <1>1, <1>2, <1>3 DEF Effect, Numbered, Creates, CountsOn, ReadsOn, TouchesOn, InvalidatesOn

(* The item changes only when a command is executed. *)
LEMMA ItemSteady ==
    ASSUME [Next]_vars, ~\E c \in Calls : Execute(c)
    PROVE  UNCHANGED <<item, born, window, told, down>>
<1>1. ASSUME NEW c \in Calls, NEW o \in Offers, Begin(c, o[1], o[2])
      PROVE  UNCHANGED <<item, born, window, told, down>>
  BY <1>1 DEF Begin
<1>2. ASSUME NEW c \in Calls, Fail(c) \/ HandBack(c)
      PROVE  UNCHANGED <<item, born, window, told, down>>
  BY <1>2 DEF Fail, HandBack
<1> QED
  BY <1>1, <1>2 DEF Next, Tick, Finished, vars

LEMMA AskedStep == TypeInv /\ AllAsked /\ [Next]_vars => AllAsked'
<1> SUFFICES ASSUME TypeInv, AllAsked, [Next]_vars PROVE AllAsked'
  OBVIOUS
<1>1. ASSUME NEW c \in Calls, NEW o \in Offers, Begin(c, o[1], o[2]) PROVE AllAsked'
  BY <1>1, OfferType, AskedBegin
<1>2. ASSUME NEW c \in Calls, Execute(c) \/ HandBack(c) PROVE AllAsked'
  BY <1>2, AskedExecute, AskedHandBack
<1> QED
  BY <1>1, <1>2, AskedRest DEF Next, Finished

LEMMA NumberedAlways == TypeInv /\ Numbered /\ [Next]_vars => Numbered'
BY NumberedStep, ItemSteady DEF Numbered

LEMMA AskedInit == Init => AllAsked /\ Numbered /\ LivesAsAsked
<1> SUFFICES ASSUME Init PROVE AllAsked /\ Numbered /\ LivesAsAsked
  OBVIOUS
<1>1. ~item.has /\ \A c \in Calls : wire[c].op = "none"
  BY NoCmdType DEF Init, Gone
<1>2. \A c \in Calls : Untouched(c)
  BY DEF Init, Untouched, NoBack
<1> QED
  BY <1>1, <1>2 DEF AllAsked, Asked, Verbs, Numbered, LivesAsAsked

(* When the expiration is the command's, it is the one that was asked for. *)
LEMMA ExpirationAsked ==
    ASSUME TypeInv, AllAsked, NEW c \in Calls, wire[c].op \in Verbs
    PROVE  IF wire[c].ttl = Forever THEN Expiration(wire[c]) = Never
           ELSE /\ Expiration(wire[c]) * Second > wire[c].from + wire[c].ttl - Second
                /\ Expiration(wire[c]) * Second < now + wire[c].ttl + Second
<1>1. /\ wire[c].ttl \in Nat /\ wire[c].from \in Start..now
      /\ wire[c].e = ExpiresIn(wire[c].ttl, wire[c].from)
  BY DEF AllAsked, Asked
<1>2. now \in Nat /\ Start \in Nat
  BY ClockNat, LifetimesAssumption DEF TypeInv
<1>3. wire[c].from \in Nat /\ Start <= wire[c].from /\ wire[c].from <= now
  BY <1>1, <1>2
<1> QED
  BY <1>1, <1>2, <1>3, RealtimeLives DEF Expiration, Forever

LEMMA LivesStep ==
    ASSUME TypeInv, AllAsked, LivesAsAsked, NEW c \in Calls, Execute(c)
    PROVE  LivesAsAsked'
<1> DEFINE cmd == wire[c]
           new == [known |-> TRUE, ttl |-> cmd.ttl, from |-> cmd.from, to |-> now]
<1>0. TypeOK /\ now' = now
  BY ExecuteCases DEF TypeInv
<1>1. born' = IF cmd.op = "reinvalidate" /\ item' # Found THEN Unknown
              ELSE IF item'.life # Found.life \/ (item'.exp # Found.exp /\ item'.has)
              THEN new ELSE born
  BY DEF Execute
<1>2. item.life \in Nat /\ Found.life = item.life
  BY <1>0, FoundCases, ItemFields DEF TypeOK
<1>3. Live(item, now) => Found = item
  BY <1>0, FoundCases
<1>4. Effect(c)
  BY ExecuteEffect
<1>5. ASSUME born' = new, item'.exp = Expiration(cmd), cmd.op \in Verbs PROVE LivesAsAsked'
  <2>1. born'.ttl = cmd.ttl /\ born'.from = cmd.from /\ born'.to = now
    BY <1>5
  <2> QED
    BY <1>5, <2>1, ExpirationAsked DEF LivesAsAsked
<1>6. ASSUME born' = born, item'.has => item.has /\ item'.exp = item.exp PROVE LivesAsAsked'
  BY <1>6 DEF LivesAsAsked
<1>7. CASE Creates(c)
  <2>1. item'.life # Found.life /\ cmd.op \in Verbs /\ cmd.op # "reinvalidate"
    BY <1>2, <1>7 DEF Creates, Counters, Verbs
  <2> QED
    BY <1>1, <1>5, <1>7, <2>1 DEF Creates
<1>8. CASE CountsOn(c) \/ ReadsOn(c)
  <2>1. cmd.op # "reinvalidate" /\ Found = item
    BY <1>3, <1>8 DEF CountsOn, ReadsOn, Counters
  <2> QED
    BY <1>1, <1>6, <1>8, <2>1 DEF CountsOn, ReadsOn
<1>9. CASE TouchesOn(c)
  <2>1. cmd.op # "reinvalidate" /\ Found = item /\ cmd.op \in Verbs
    BY <1>3, <1>9 DEF TouchesOn, Verbs
  <2>2. CASE item'.exp = item.exp
    BY <1>1, <1>6, <1>9, <2>1, <2>2 DEF TouchesOn
  <2>3. CASE item'.exp # item.exp
    BY <1>1, <1>5, <1>9, <2>1, <2>3 DEF TouchesOn
  <2> QED
    BY <2>2, <2>3
<1>10. CASE InvalidatesOn(c)
  <2>1. Found = item /\ item.cas \in Nat
    BY <1>0, <1>3, <1>10, ItemFields DEF InvalidatesOn, TypeOK
  <2>2. CASE cmd.op = "reinvalidate"
    <3>1. item' # item
      BY <1>10, <2>1 DEF InvalidatesOn
    <3>2. ~born'.known
      BY <1>1, <2>1, <2>2, <3>1 DEF Unknown
    <3> QED
      BY <3>2 DEF LivesAsAsked
  <2>3. CASE cmd.op = "invalidate" /\ item'.exp = item.exp
    BY <1>1, <1>6, <1>10, <2>1, <2>3 DEF InvalidatesOn
  <2>4. CASE cmd.op = "invalidate" /\ item'.exp # item.exp
    BY <1>1, <1>5, <1>10, <2>1, <2>4 DEF InvalidatesOn, Verbs
  <2> QED
    BY <1>10, <2>2, <2>3, <2>4 DEF InvalidatesOn
<1>11. CASE LeavesAlone(c)
  <2>1. item' = Found
    BY <1>11 DEF LeavesAlone
  <2>2. born' = born
    BY <1>1, <2>1
  <2>3. item'.has => item.has /\ item'.exp = item.exp
    BY <1>11, LeftAlone
  <2> QED
    BY <1>6, <2>2, <2>3
<1> QED
  BY <1>4, <1>7, <1>8, <1>9, <1>10, <1>11 DEF Effect

(* For any TTLs, however late the server executes a command: an item's     *)
(* expiration lies within a second of what the caller asked, ExpiresIn's   *)
(* rounding and its switch to timestamps included; no TTL means none.      *)
THEOREM LivesAsAskedAlways == Spec => []LivesAsAsked
<1> DEFINE I == TypeInv /\ AllAsked /\ LivesAsAsked
<1>1. Init => I
  BY TypeInit, AskedInit
<1>2. I /\ [Next]_vars => I'
  <2> SUFFICES ASSUME I, [Next]_vars PROVE LivesAsAsked'
    BY TypeStep, AskedStep
  <2>1. CASE \E c \in Calls : Execute(c)
    BY <2>1, LivesStep
  <2>2. CASE ~\E c \in Calls : Execute(c)
    BY <2>2, ItemSteady DEF LivesAsAsked
  <2> QED
    BY <2>1, <2>2
<1>3. I => LivesAsAsked
  OBVIOUS
<1> QED
  BY <1>1, <1>2, <1>3, PTL DEF Spec


-----------------------------------------------------------------------------
(* Fixed windows *)

(* A command leaves the wire only when it is executed or its call fails.   *)
LEMMA ExecutedItself ==
    ASSUME TypeInv, [Next]_vars, item' # item, NEW c \in Calls, wire[c].op # "none",
           wire'[c] = NoCmd
    PROVE  Execute(c)
<1>1. PICK d \in Calls : Execute(d)
  BY ItemSteady
<1>2. wire' = [wire EXCEPT ![d] = NoCmd]
  BY <1>1, ExecuteCases
<1>3. CASE c # d
  BY <1>2, <1>3, NoCmdType DEF TypeInv, TypeOK
<1> QED
  BY <1>1, <1>3

LEMMA WindowStep ==
    ASSUME TypeInv, [Next]_vars, NEW c \in Calls, wire[c].op \in Counters,
           wire'[c] = NoCmd, item' # item, item'.life = item.life
    PROVE  item'.exp = item.exp
<1>1. wire[c].op # "none" /\ wire[c].op \notin Reads \cup {"invalidate", "reinvalidate"}
  BY DEF Counters, Reads
<1>2. Execute(c)
  BY <1>1, ExecutedItself
<1>3. Effect(c)
  BY <1>2, ExecuteEffect
<1>4. item.life \in Nat
  BY ItemFields DEF TypeInv, TypeOK
<1>5. CASE Creates(c)
  BY <1>4, <1>5 DEF Creates
<1>6. CASE CountsOn(c)
  BY <1>6 DEF CountsOn
<1> QED
  BY <1>1, <1>3, <1>5, <1>6
     DEF Effect, ReadsOn, TouchesOn, InvalidatesOn, LeavesAlone, Reads

(* For any TTLs and amounts: a counter that is there keeps the end of its  *)
(* window however often Incr and Decr count in it, since buildArithmetic   *)
(* sends the TTL as the N flag, which only a creation reads.               *)
THEOREM WindowFixedAlways == Spec => WindowFixed
<1>1. TypeInv /\ [Next]_vars =>
        [\A c \in Calls : wire[c].op \in Counters /\ wire'[c] = NoCmd /\ item' # item
                             /\ item'.life = item.life
            => item'.exp = item.exp]_vars
  BY WindowStep
<1> QED
  BY <1>1, TypeAlways, PTL DEF Spec, WindowFixed

-----------------------------------------------------------------------------
(* Grace periods *)

(* What the execution of a command does to the CAS and the touches of an   *)
(* item: a token's view of it holds or ends.                               *)
LEMMA EffectOnToken ==
    ASSUME TypeInv, NEW c \in Calls, Execute(c)
    PROVE  /\ item'.cas \in Nat /\ item'.cas >= item.cas
           /\ item'.has /\ item'.cas = item.cas =>
                /\ item.has
                /\ \/ item'.slides = item.slides + 1
                   \/ item'.slides = item.slides /\ item'.exp = item.exp
<1>1. item.cas \in Nat /\ item.slides \in Nat
  BY ItemFields DEF TypeInv, TypeOK
<1>2. Effect(c)
  BY ExecuteEffect
<1>3. CASE Creates(c) \/ CountsOn(c) \/ InvalidatesOn(c)
  <2>1. item'.cas = item.cas + 1
    BY <1>3 DEF Creates, CountsOn, InvalidatesOn
  <2> QED
    BY <1>1, <2>1
<1>4. CASE ReadsOn(c) \/ TouchesOn(c)
  BY <1>1, <1>4 DEF ReadsOn, TouchesOn
<1>5. CASE LeavesAlone(c)
  <2>1. item'.cas = item.cas /\ (item'.has => item' = item)
    BY <1>5, LeftAlone
  <2> QED
    BY <1>1, <2>1
<1> QED
  BY <1>2, <1>3, <1>4, <1>5 DEF Effect

LEMMA KeptFields ==
    ASSUME TypeInv, NEW c \in Calls
    PROVE  /\ back[c].cas \in Nat /\ back[c].ttl \in Int /\ back[c].slides \in Nat
           /\ back[c].at \in Nat /\ Unix(back[c].at) \in Int /\ now \in Nat /\ Start \in Nat
           /\ item.cas \in Nat /\ item.slides \in Nat /\ item.exp \in Int
BY BackFields, ClockNat, UnixBounds, LifetimesAssumption, ItemFields DEF TypeInv, TypeOK

(* The token another call holds. *)
LEMMA KeptOther ==
    ASSUME TypeInv, NEW c \in Calls, Execute(c), NEW q \in Calls, q # c, Kept(q)
    PROVE  Kept(q)'
<1>1. pc'[q] = pc[q] /\ back'[q] = back[q] /\ now' = now
  BY ExecuteCases DEF TypeInv, TypeOK
<1> DEFINE b == back[q]
<1>2. /\ b.cas \in Nat /\ b.ttl \in Int /\ b.slides \in Nat /\ b.at \in Nat
      /\ item.cas \in Nat /\ item.slides \in Nat
  BY KeptFields
<1>3. /\ item'.cas \in Nat /\ item'.cas >= item.cas
      /\ item'.has /\ item'.cas = item.cas =>
           /\ item.has
           /\ \/ item'.slides = item.slides + 1
              \/ item'.slides = item.slides /\ item'.exp = item.exp
  BY EffectOnToken
<1>4. /\ pc[q] = "done" /\ b.at \in Start..now /\ b.cas \in 1..item.cas
      /\ b.ttl = -1 \/ b.ttl > 0
      /\ item.has /\ item.cas = b.cas =>
           /\ b.slides <= item.slides
           /\ b.slides = item.slides =>
                IF item.exp = Never THEN b.ttl = -1
                ELSE b.ttl = item.exp - Unix(b.at) /\ b.ttl > 0
  BY DEF Kept
<1>5. b.cas \in 1..item'.cas
  BY <1>2, <1>3, <1>4
<1>6. ASSUME item'.has, item'.cas = b.cas
      PROVE  /\ b.slides <= item'.slides
             /\ b.slides = item'.slides =>
                  IF item'.exp = Never THEN b.ttl = -1
                  ELSE b.ttl = item'.exp - Unix(b.at) /\ b.ttl > 0
  <2>1. item'.cas = item.cas /\ item.cas = b.cas
    BY <1>2, <1>3, <1>4, <1>6
  <2>2. /\ item.has
        /\ \/ item'.slides = item.slides + 1
           \/ item'.slides = item.slides /\ item'.exp = item.exp
    BY <1>3, <1>6, <2>1
  <2> QED
    BY <1>2, <1>4, <2>1, <2>2
<1> QED
  BY <1>1, <1>4, <1>5, <1>6 DEF Kept

(* The token a read has just won. *)
LEMMA KeptWon ==
    ASSUME TypeInv, Numbered, NEW c \in Calls, Execute(c), pc[c] = "wait",
           Wins(wire[c], Found)
    PROVE  Kept(c)'
<1> DEFINE b == back'[c]
<1>1. Live(item, now) /\ Found = item /\ item.has /\ wire[c].op \in Reads
  BY FoundCases DEF TypeInv, Wins
<1>2. /\ pc'[c] = "done" /\ now' = now
      /\ b.cas = item.cas /\ b.ttl = Remaining(item) /\ b.slides = item.slides /\ b.at = now
  BY <1>1, ExecuteCases DEF TypeInv, TypeOK, Memo
<1>3. /\ now \in Start..now /\ now \in Nat /\ item.cas \in Nat /\ item.slides \in Nat
      /\ item.exp \in Int /\ Unix(now) \in Int
  BY KeptFields, UnixBounds DEF TypeInv, TypeOK
<1>4. IF item.exp = Never THEN b.ttl = -1 ELSE b.ttl = item.exp - Unix(now) /\ b.ttl > 0
  BY <1>1, <1>2, <1>3 DEF Remaining, Live
<1>5. item.cas > 0
  BY <1>1 DEF Numbered
<1>6. item'.cas = item.cas
      /\ \/ item'.slides = item.slides + 1
         \/ item'.slides = item.slides /\ item'.exp = item.exp
  <2>1. Effect(c)
    BY ExecuteEffect
  <2> QED
    BY <1>1, <2>1 DEF Effect, Creates, CountsOn, ReadsOn, TouchesOn, InvalidatesOn,
                      LeavesAlone, Reads, Counters
<1> HIDE DEF b
<1>7. b.ttl = -1 \/ b.ttl > 0
  BY <1>4
<1>8. /\ pc'[c] = "done" /\ b.at \in Start..now' /\ b.cas \in 1..item'.cas
      /\ item'.has /\ item'.cas = b.cas =>
           /\ b.slides <= item'.slides
           /\ b.slides = item'.slides =>
                IF item'.exp = Never THEN b.ttl = -1
                ELSE b.ttl = item'.exp - Unix(b.at) /\ b.ttl > 0
  BY <1>2, <1>3, <1>4, <1>5, <1>6
<1> QED
  BY <1>7, <1>8 DEF Kept, b


KeptAt(c) ==
    /\ back[c].due => wire[c] = NoCmd
    /\ back[c].due \/ wire[c].op = "reinvalidate" => Kept(c)
    /\ wire[c].op = "reinvalidate" => Returned(c)

LEMMA KeptExecute ==
    ASSUME TypeInv, AllKept, Numbered, NEW c \in Calls, Execute(c)
    PROVE  AllKept'
<1> SUFFICES ASSUME NEW q \in Calls PROVE KeptAt(q)'
  BY DEF AllKept, KeptAt
<1>1. CASE q # c
  <2>1. /\ pc'[q] = pc[q] /\ wire'[q] = wire[q] /\ back'[q] = back[q] /\ now' = now
    BY <1>1, ExecuteCases DEF TypeInv, TypeOK
  <2>2. KeptAt(q)
    BY DEF AllKept, KeptAt
  <2>3. Kept(q) => Kept(q)'
    BY <1>1, KeptOther
  <2>4. Returned(q) => Returned(q)'
    BY <2>1 DEF Returned
  <2> QED
    BY <2>1, <2>2, <2>3, <2>4 DEF KeptAt
<1>2. CASE q = c
  <2>1. wire'[c] = NoCmd /\ wire'[c].op = "none"
    BY ExecuteCases, NoCmdType DEF TypeInv, TypeOK
  <2>2. ~back[c].due
    BY ExecuteCases DEF AllKept
  <2>3. CASE pc[c] = "wait" /\ Wins(wire[c], Found)
    BY <1>2, <2>1, <2>3, KeptWon DEF KeptAt
  <2>4. CASE ~(pc[c] = "wait" /\ Wins(wire[c], Found))
    <3>1. back'[c] = back[c]
      BY <2>4, ExecuteCases DEF TypeInv, TypeOK
    <3> QED
      BY <1>2, <2>1, <2>2, <3>1 DEF KeptAt
  <2> QED
    BY <2>3, <2>4
<1> QED
  BY <1>1, <1>2

LEMMA KeptHandBack ==
    ASSUME TypeInv, AllKept, NEW c \in Calls, HandBack(c)
    PROVE  AllKept'
<1>1. back[c].due /\ wire[c] = NoCmd /\ UNCHANGED <<now, item, pc>>
  BY HandBackCases
<1> SUFFICES ASSUME NEW q \in Calls PROVE KeptAt(q)'
  BY DEF AllKept, KeptAt
<1>2. CASE q # c
  <2>1. wire'[q] = wire[q] /\ back'[q] = back[q]
    BY <1>2, HandBackCases DEF TypeInv, TypeOK
  <2> QED
    BY <1>1, <2>1 DEF AllKept, KeptAt, Kept, Returned
<1>3. CASE q = c
  <2>1. /\ ~back'[c].due /\ back'[c].cas = back[c].cas /\ back'[c].ttl = back[c].ttl
        /\ back'[c].slides = back[c].slides /\ back'[c].at = back[c].at
    <3>1. back' = [back EXCEPT ![c] = [back[c] EXCEPT !.due = FALSE]]
      BY HandBackCases
    <3>2. back[c] \in [due : BOOLEAN, cas : Nat, ttl : Int, slides : Nat, at : Nat]
          /\ back'[c] = [back[c] EXCEPT !.due = FALSE]
      BY <3>1 DEF TypeInv, TypeOK
    <3> QED
      BY <3>2
  <2>2. Kept(c)
    BY <1>1 DEF AllKept
  <2>3. Kept(c)'
    BY <1>1, <2>1, <2>2 DEF Kept
  <2>4. CASE UNCHANGED wire
    <3>1. wire'[c].op = "none"
      BY <1>1, <2>4, NoCmdType
    <3> QED
      BY <1>3, <2>1, <3>1 DEF KeptAt
  <2>5. CASE wire' = [wire EXCEPT ![c] = Returning(back[c])]
    <3>1. wire'[c] = Returning(back[c])
      BY <2>5 DEF TypeInv, TypeOK
    <3>2. /\ wire'[c].cas = back[c].cas /\ wire'[c].from = now
          /\ wire'[c].t = (back[c].ttl > 0)
          /\ wire'[c].e = IF back[c].ttl > 0 THEN staleFor(back[c].ttl, now) ELSE 0
      BY <3>1 DEF Returning
    <3>3. now \in back[c].at..now
      BY <2>2, KeptFields DEF Kept
    <3>4. Returned(c)'
      BY <1>1, <2>1, <3>2, <3>3 DEF Returned, staleFor, ExpiresIn, Unix
    <3> QED
      BY <1>3, <2>1, <2>3, <3>4 DEF KeptAt
  <2> QED
    BY <2>4, <2>5, HandBackCases
<1> QED
  BY <1>2, <1>3

LEMMA KeptRest ==
    ASSUME TypeInv, AllKept, AllAsked, [Next]_vars,
           ~\E c \in Calls : Execute(c) \/ HandBack(c)
    PROVE  AllKept'
<1> SUFFICES ASSUME NEW q \in Calls PROVE KeptAt(q)'
  BY DEF AllKept, KeptAt
<1>0. KeptAt(q)
  BY DEF AllKept, KeptAt
<1>1. ASSUME NEW c \in Calls, NEW o \in Offers, Begin(c, o[1], o[2]) PROVE KeptAt(q)'
  <2>1. /\ pc[c] = "idle"
        /\ UNCHANGED <<now, item, back>>
        /\ \/ pc' = [pc EXCEPT ![c] = "done"] /\ UNCHANGED wire
           \/ /\ pc' = [pc EXCEPT ![c] = "wait"]
              /\ wire' = [wire EXCEPT ![c] = Opening(o[1], o[2])]
    BY <1>1, OfferType, BeginCases DEF TypeInv
  <2>2. ~back[c].due /\ wire[c] = NoCmd
    BY <2>1 DEF AllAsked, Untouched
  <2>3. wire'[c] = NoCmd \/ wire'[c] = Opening(o[1], o[2])
    BY <2>1, <2>2 DEF TypeInv, TypeOK
  <2>4. wire'[c].op # "reinvalidate"
    BY <2>3, NoCmdType, OfferType DEF Opening, Verbs
  <2>5. q # c => wire'[q] = wire[q] /\ pc'[q] = pc[q]
    BY <2>1 DEF TypeInv, TypeOK
  <2> QED
    BY <1>0, <2>1, <2>2, <2>4, <2>5 DEF KeptAt, Kept, Returned
<1>2. ASSUME NEW c \in Calls, Fail(c) PROVE KeptAt(q)'
  <2>1. /\ pc[c] = "wait" /\ pc' = [pc EXCEPT ![c] = "done"]
        /\ wire' = wire \/ wire' = [wire EXCEPT ![c] = NoCmd]
        /\ UNCHANGED <<now, item, back>>
    BY <1>2 DEF Fail
  <2>2. ~back[c].due /\ wire[c].op # "reinvalidate"
    BY <2>1 DEF AllKept, Kept
  <2>3. wire'[c] = NoCmd \/ wire'[c] = wire[c]
    BY <2>1 DEF TypeInv, TypeOK
  <2>4. wire'[c].op # "reinvalidate"
    BY <2>2, <2>3, NoCmdType
  <2>5. q # c => wire'[q] = wire[q] /\ pc'[q] = pc[q]
    BY <2>1 DEF TypeInv, TypeOK
  <2> QED
    BY <1>0, <2>1, <2>2, <2>4, <2>5 DEF KeptAt, Kept, Returned
<1>3. CASE Tick
  <2>1. now' = now + 1 /\ UNCHANGED <<item, pc, wire, back>>
    BY <1>3 DEF Tick
  <2>2. Kept(q) => Kept(q)'
    BY <2>1, KeptFields DEF Kept
  <2>3. Returned(q) => Returned(q)'
    BY <2>1, KeptFields DEF Returned
  <2> QED
    BY <1>0, <2>1, <2>2, <2>3 DEF KeptAt
<1>4. CASE UNCHANGED vars
  BY <1>0, <1>4 DEF vars, KeptAt, Kept, Returned
<1> QED
  BY <1>1, <1>2, <1>3, <1>4 DEF Next, Finished

LEMMA KeptStep == TypeInv /\ AllAsked /\ Numbered /\ AllKept /\ [Next]_vars => AllKept'
BY KeptExecute, KeptHandBack, KeptRest

GraceInv == TypeInv /\ AllAsked /\ Numbered /\ AllKept

LEMMA GraceAlways == Spec => []GraceInv
<1>1. Init => AllKept
  BY NoCmdType DEF Init, AllKept, NoBack
<1>2. Init => GraceInv
  BY <1>1, TypeInit, AskedInit DEF GraceInv
<1>3. GraceInv /\ [Next]_vars => GraceInv'
  BY TypeStep, AskedStep, NumberedAlways, KeptStep DEF GraceInv
<1> QED
  BY <1>2, <1>3, PTL DEF Spec

LEMMA GraceStep ==
    ASSUME GraceInv, [Next]_vars, NEW c \in Calls,
           wire[c].op = "reinvalidate", wire'[c] = NoCmd, item'.cas # item.cas,
           item.slides = back[c].slides
    PROVE  IF item.exp = Never THEN item'.exp = Never
           ELSE /\ item'.exp >= item.exp
                /\ item'.exp <= item.exp + (Unix(now) - Unix(back[c].at))
<1> DEFINE b == back[c]
<1>0. TypeInv /\ AllKept
  BY DEF GraceInv
<1>1. Execute(c)
  BY <1>0, ExecutedItself
<1>2. Effect(c)
  BY <1>0, <1>1, ExecuteEffect
<1>3. ~LeavesAlone(c)
  BY <1>0, LeftAlone
<1>4. InvalidatesOn(c)
  BY <1>2, <1>3 DEF Effect, Creates, CountsOn, ReadsOn, TouchesOn, Counters
<1>5. Kept(c) /\ Returned(c)
  BY <1>0 DEF AllKept
<1>6. /\ b.cas \in Nat /\ b.ttl \in Int /\ b.at \in Nat /\ Unix(b.at) \in Int /\ now \in Nat
      /\ Start \in Nat /\ item.exp \in Int /\ item.cas \in Nat
  BY <1>0, KeptFields
<1>7. item.has /\ item.cas = b.cas
  BY <1>4, <1>5, <1>6 DEF InvalidatesOn, Kept, Returned
<1>8. IF item.exp = Never THEN b.ttl = -1 ELSE b.ttl = item.exp - Unix(b.at) /\ b.ttl > 0
  BY <1>5, <1>7 DEF Kept
<1>9. CASE item.exp = Never
  <2>1. ~wire[c].t
    BY <1>5, <1>6, <1>8, <1>9 DEF Returned
  <2> QED
    BY <1>4, <1>9, <2>1 DEF InvalidatesOn
<1>10. CASE item.exp # Never
  <2> DEFINE from == wire[c].from
  <2>1. wire[c].t /\ wire[c].e = staleFor(b.ttl, from) /\ from \in b.at..now
    BY <1>5, <1>8, <1>10 DEF Returned
  <2>2. item'.exp = realtime(staleFor(b.ttl, from), Unix(now))
    BY <1>4, <2>1 DEF InvalidatesOn, Expiration
  <2>3. b.ttl \in Nat /\ b.ttl > 0 /\ b.ttl = item.exp - Unix(b.at)
    BY <1>6, <1>8, <1>10
  <2>4. b.at \in Start..now
    BY <1>5 DEF Kept
  <2>5. from \in Nat /\ Start <= from /\ from <= now /\ b.at <= from
    BY <1>6, <2>1, <2>4
  <2> HIDE DEF from
  <2>6. item'.exp >= Unix(from) + b.ttl /\ item'.exp <= Unix(now) + b.ttl
    BY <1>6, <2>2, <2>3, <2>5, StaleForLives
  <2>7. Unix(b.at) <= Unix(from) /\ Unix(from) \in Int /\ Unix(now) \in Int
    BY <1>6, <2>5, UnixMonotonic, UnixBounds
  <2>8. item'.exp \in Int
    <3>1. item' \in Items
      BY <1>0, TypeStep DEF TypeInv, TypeOK
    <3> QED
      BY <3>1, ItemFields
  <2> QED
    BY <1>6, <1>10, <2>3, <2>6, <2>7, <2>8
<1> QED
  BY <1>9, <1>10

(* For any TTLs and however long the hand-back takes: returnStaleWin gives *)
(* back the token it won without shortening the grace period of the item,  *)
(* and lengthens it by no more than the time since it was read, unless a   *)
(* Touch came between; an item that never expires never does.              *)
THEOREM GraceKeptAlways == Spec => GraceKept
<1>1. GraceInv /\ [Next]_vars =>
        [\A c \in Calls :
          wire[c].op = "reinvalidate" /\ wire'[c] = NoCmd /\ item'.cas # item.cas
             /\ item.slides = back[c].slides
          => IF item.exp = Never THEN item'.exp = Never
             ELSE /\ item'.exp >= item.exp
                  /\ item'.exp <= item.exp + (Unix(now) - Unix(back[c].at))]_vars
  BY GraceStep
<1> QED
  BY <1>1, GraceAlways, PTL DEF Spec, GraceKept


-----------------------------------------------------------------------------
(* Rate limits *)

CountedAt(c) ==
    /\ told[c] # Untold => pc[c] = "done" /\ window[c] \in 1..item.life
    /\ Counts(c) /\ window[c] \notin down =>
         /\ told[c] > 0
         /\ item.has /\ window[c] = item.life => told[c] <= item.val

CountedApart(c, d) ==
    c # d /\ Counts(c) /\ Counts(d) /\ window[c] = window[d] /\ window[c] \notin down
       => told[c] # told[d]

LEMMA CountedParts ==
    AllCounted <=> /\ \A c \in Calls : CountedAt(c)
                   /\ \A c, d \in Calls : CountedApart(c, d)
BY DEF AllCounted, CountedAt, CountedApart

LEMMA ToldNat ==
    ASSUME TypeInv, NEW c \in Calls, told[c] # Untold
    PROVE  told[c] \in Nat
BY LifetimesAssumption DEF TypeInv, TypeOK

(* Counting without going down counts on. *)
LEMMA CountedGrows ==
    ASSUME NEW c \in Calls, NEW n \in 0..(Modulus - 1), kind[c] = "incr", Amount[c] > 0,
           Counted(c, n) >= n
    PROVE  Counted(c, n) > n
<1>1. Modulus \in Nat \ {0} /\ Amount[c] \in 0..(Modulus - 1)
  BY LifetimesAssumption
<1>2. Counted(c, n) = (n + Amount[c]) % Modulus
  BY DEF Counted
<1>3. (n + Amount[c]) % Modulus # n
  BY <1>1
<1>4. Counted(c, n) \in 0..(Modulus - 1)
  BY CountedType
<1> QED
  BY <1>2, <1>3, <1>4

(* A call that was not told by this step stands as it stood. *)
LEMMA CountedOther ==
    ASSUME TypeInv, NEW c \in Calls, Execute(c), NEW q \in Calls, CountedAt(q),
           pc'[q] = pc[q] \/ pc'[q] = "done", told'[q] = told[q], kind'[q] = kind[q],
           window'[q] = window[q] \/ told[q] = Untold
    PROVE  CountedAt(q)'
<1>1. /\ item.life \in Nat /\ item.val \in Nat /\ item'.val \in Nat /\ Found.life = item.life
      /\ window[q] \in Nat
  BY ItemFields, FoundCases, TypeExecute DEF TypeInv, TypeOK
<1>2. Effect(c)
  BY ExecuteEffect
<1>3. item'.life = item.life \/ item'.life = item.life + 1
  BY <1>2, LeftAlone DEF Effect, Creates, CountsOn, ReadsOn, TouchesOn, InvalidatesOn
<1>4. ASSUME told[q] # Untold, item'.has, window[q] = item'.life
      PROVE  item.has /\ item'.life = item.life /\ (item.val <= item'.val \/ window[q] \in down')
  <2>1. window[q] \in 1..item.life
    BY <1>4 DEF CountedAt
  <2>2. item'.life = item.life /\ ~Creates(c)
    BY <1>1, <1>3, <1>4, <2>1 DEF Creates
  <2>3. CASE CountsOn(c)
    <3>1. Found = item /\ item.has
      BY <2>3, FoundCases DEF TypeInv, CountsOn
    <3>2. item'.val < item.val => item.life \in down'
      BY <2>3, <3>1, ExecuteCases DEF CountsOn
    <3> QED
      BY <1>1, <1>4, <2>2, <3>1, <3>2
  <2>4. CASE LeavesAlone(c)
    BY <1>1, <1>4, <2>4, LeftAlone
  <2>5. CASE ReadsOn(c) \/ TouchesOn(c) \/ InvalidatesOn(c)
    BY <1>1, <2>2, <2>5 DEF ReadsOn, TouchesOn, InvalidatesOn
  <2> QED
    BY <1>2, <2>2, <2>3, <2>4, <2>5 DEF Effect
<1>5. down \subseteq down'
  BY ExecuteCases
<1>6. told[q] # Untold => told[q] \in Nat
  BY ToldNat
<1>7. told'[q] # Untold => pc'[q] = "done" /\ window'[q] \in 1..item'.life
  BY <1>1, <1>3 DEF CountedAt
<1>8. ASSUME Counts(q)', window'[q] \notin down'
      PROVE  told'[q] > 0 /\ (item'.has /\ window'[q] = item'.life => told'[q] <= item'.val)
  <2>1. Counts(q) /\ window'[q] = window[q] /\ window[q] \notin down
    BY <1>5, <1>8 DEF Counts
  <2> QED
    BY <1>1, <1>4, <1>6, <1>8, <2>1 DEF CountedAt, Counts
<1> QED
  BY <1>7, <1>8 DEF CountedAt

(* The call that is told a number: the largest of its window. *)
LEMMA CountedNew ==
    ASSUME TypeInv, Numbered, AllAsked, AllCounted, NEW c \in Calls, Execute(c),
           pc[c] = "wait", wire[c].op \in Counters
    PROVE  /\ CountedAt(c)'
           /\ \A q \in Calls : CountedApart(c, q)' /\ CountedApart(q, c)'
<1>0. wire[c].op = kind[c] /\ window[c] = 0 /\ told[c] = Untold
  BY DEF AllAsked, Asked, Counters, Verbs
<1>1. /\ pc'[c] = "done" /\ told'[c] = item'.val /\ window'[c] = item'.life
      /\ kind' = kind /\ \A q \in Calls : q # c => told'[q] = told[q] /\ window'[q] = window[q]
  BY ExecuteCases DEF TypeInv, TypeOK
<1>2. /\ item.life \in Nat /\ item.val \in 0..(Modulus - 1) /\ item.val \in Nat
      /\ item'.val \in Nat /\ item'.life \in Nat /\ Amount[c] \in Nat
  BY ItemFields, TypeExecute, LifetimesAssumption DEF TypeInv, TypeOK
<1>3. Creates(c) \/ CountsOn(c)
  <2>1. Effect(c)
    BY ExecuteEffect
  <2> QED
    BY <2>1 DEF Effect, ReadsOn, TouchesOn, InvalidatesOn, LeavesAlone, Counters, Reads
<1>4. item'.life > 0
  BY <1>2, <1>3 DEF Creates, CountsOn, Numbered
<1>5. down \subseteq down'
  BY ExecuteCases
<1>6. ASSUME Counts(c)', item'.life \notin down'
      PROVE  /\ item'.val > 0
             /\ \A q \in Calls : q # c /\ Counts(q) /\ window[q] = item'.life
                                   /\ window[q] \notin down
                  => told[q] # item'.val
  <2>1. kind[c] = "incr" /\ Amount[c] > 0
    BY <1>1, <1>6 DEF Counts
  <2>2. CASE Creates(c)
    <3>1. item'.val = Amount[c] /\ item'.life = item.life + 1
      BY <1>0, <2>1, <2>2 DEF Creates, initial, Counters
    <3>2. ASSUME NEW q \in Calls, Counts(q) PROVE window[q] # item'.life
      BY <1>2, <3>1, <3>2 DEF AllCounted, Counts
    <3> QED
      BY <1>2, <2>1, <3>1, <3>2
  <2>3. CASE CountsOn(c)
    <3>1. item'.val = Counted(c, item.val) /\ item'.life = item.life /\ item.has
      BY <2>3 DEF CountsOn
    <3>2. Found = item
      BY <2>3, FoundCases DEF TypeInv, CountsOn
    <3>3. ~(item'.val < item.val)
      BY <1>6, <3>1, <3>2, ExecuteCases
    <3>4. item'.val > item.val
      BY <1>2, <2>1, <3>1, <3>3, CountedGrows
    <3>5. ASSUME NEW q \in Calls, Counts(q), window[q] = item'.life, window[q] \notin down
          PROVE  told[q] <= item.val /\ told[q] \in Nat
      BY <3>1, <3>5, ToldNat DEF AllCounted, Counts
    <3> QED
      BY <1>2, <3>4, <3>5
  <2> QED
    BY <1>3, <2>2, <2>3
<1>7. CountedAt(c)'
  BY <1>1, <1>2, <1>4, <1>6 DEF CountedAt
<1>8. ASSUME NEW q \in Calls PROVE CountedApart(c, q)' /\ CountedApart(q, c)'
  <2>1. q # c => (Counts(q)' <=> Counts(q))
    BY <1>1 DEF Counts
  <2> QED
    BY <1>1, <1>5, <1>6, <2>1 DEF CountedApart
<1> QED
  BY <1>7, <1>8

LEMMA CountedExecute ==
    ASSUME TypeInv, Numbered, AllAsked, AllCounted, NEW c \in Calls, Execute(c)
    PROVE  AllCounted'
<1>0. /\ \A q \in Calls : CountedAt(q)
      /\ \A q, r \in Calls : CountedApart(q, r)
  BY CountedParts
<1>1. kind' = kind /\ \A q \in Calls : q # c => /\ told'[q] = told[q] /\ pc'[q] = pc[q]
                                                /\ window'[q] = window[q]
  BY ExecuteCases DEF TypeInv, TypeOK
<1>2. \A q \in Calls : q # c => CountedAt(q)'
  BY <1>0, <1>1, CountedOther
<1>3. down \subseteq down'
  BY ExecuteCases
<1>4. \A q, r \in Calls : q # c /\ r # c => CountedApart(q, r)'
  BY <1>0, <1>1, <1>3 DEF CountedApart, Counts
<1> SUFFICES CountedAt(c)' /\ \A q \in Calls : CountedApart(c, q)' /\ CountedApart(q, c)'
  <2>1. /\ \A q \in Calls : CountedAt(q)'
        /\ \A q, r \in Calls : CountedApart(q, r)'
    BY <1>2, <1>4
  <2> QED
    BY <2>1 DEF AllCounted, CountedAt, CountedApart
<1>5. CASE pc[c] = "wait" /\ wire[c].op \in Counters
  BY <1>5, CountedNew
<1>6. CASE ~(pc[c] = "wait" /\ wire[c].op \in Counters)
  <2>1. told'[c] = told[c] /\ (pc'[c] = pc[c] \/ pc'[c] = "done")
    BY <1>6, ExecuteCases DEF TypeInv, TypeOK
  <2>2. window'[c] = window[c] \/ told[c] = Untold
    <3>1. wire[c].op \in Counters => told[c] = Untold
      BY DEF AllAsked, Asked, Counters, Verbs
    <3> QED
      BY <3>1, ExecuteCases DEF TypeInv, TypeOK
  <2>3. CountedAt(c)'
    BY <1>0, <1>1, <2>1, <2>2, CountedOther
  <2>4. \A q \in Calls : CountedApart(c, q)' /\ CountedApart(q, c)'
    BY <1>0, <1>1, <1>3, <2>1, <2>2 DEF CountedApart, Counts
  <2> QED
    BY <2>3, <2>4
<1> QED
  BY <1>5, <1>6

LEMMA CountedStep ==
    TypeInv /\ Numbered /\ AllAsked /\ AllCounted /\ [Next]_vars => AllCounted'
<1> SUFFICES ASSUME TypeInv, Numbered, AllAsked, AllCounted, [Next]_vars PROVE AllCounted'
  OBVIOUS
<1>1. CASE \E c \in Calls : Execute(c)
  BY <1>1, CountedExecute
<1>2. CASE ~\E c \in Calls : Execute(c)
  <2>1. UNCHANGED <<item, window, told, down>>
    BY <1>2, ItemSteady
  <2>2. ASSUME NEW c \in Calls, told[c] # Untold PROVE kind'[c] = kind[c] /\ pc'[c] = "done"
    <3>1. pc[c] = "done" /\ c \in Calls
      BY <2>2 DEF AllCounted
    <3>2. ASSUME NEW d \in Calls, NEW o \in Offers, Begin(d, o[1], o[2])
          PROVE  kind'[c] = kind[c] /\ pc'[c] = "done"
      BY <3>1, <3>2 DEF Begin, TypeInv, TypeOK
    <3>3. ASSUME NEW d \in Calls, Fail(d) \/ HandBack(d)
          PROVE  kind'[c] = kind[c] /\ pc'[c] = "done"
      BY <3>1, <3>3 DEF Fail, HandBack, TypeInv, TypeOK
    <3> QED
      BY <1>2, <3>1, <3>2, <3>3 DEF Next, Tick, Finished, vars
  <2>3. \A c \in Calls : Counts(c)' => Counts(c)
    BY <2>1, <2>2 DEF Counts
  <2> QED
    BY <2>1, <2>2, <2>3 DEF AllCounted, Counts
<1> QED
  BY <1>1, <1>2

LimitInv == TypeInv /\ AllAsked /\ Numbered /\ AllCounted

LEMMA LimitAlways == Spec => []LimitInv
<1>1. Init => AllCounted
  BY DEF Init, AllCounted, Counts
<1>2. Init => LimitInv
  BY <1>1, TypeInit, AskedInit DEF LimitInv
<1>3. LimitInv /\ [Next]_vars => LimitInv'
  BY TypeStep, AskedStep, NumberedAlways, CountedStep DEF LimitInv
<1> QED
  BY <1>2, <1>3, PTL DEF Spec

LEMMA LimitCounts ==
    ASSUME LimitInv, NEW w \in Nat, w \notin down, NEW L \in Nat
    PROVE  Cardinality({c \in Calls : kind[c] = "incr" /\ Amount[c] > 0 /\ window[c] = w
                                        /\ told[c] # Untold /\ told[c] <= L}) <= L
<1> DEFINE S == {c \in Calls : kind[c] = "incr" /\ Amount[c] > 0 /\ window[c] = w
                                 /\ told[c] # Untold /\ told[c] <= L}
           f == [c \in S |-> told[c]]
<1>1. \A c \in S : Counts(c) /\ told[c] \in 1..L
  <2> SUFFICES ASSUME NEW c \in S PROVE Counts(c) /\ told[c] \in 1..L
    OBVIOUS
  <2>1. Counts(c) /\ told[c] \in Nat
    BY ToldNat DEF Counts, LimitInv
  <2>2. told[c] > 0
    BY <2>1 DEF LimitInv, AllCounted
  <2> QED
    BY <2>1, <2>2
<1>2. f \in [S -> 1..L]
  BY <1>1
<1>3. \A c, d \in S : f[c] = f[d] => c = d
  BY <1>1 DEF LimitInv, AllCounted
<1>4. f \in Injection(S, 1..L)
  BY <1>2, <1>3, Fun_IsInj
<1>5. IsFiniteSet(1..L) /\ Cardinality(1..L) = L
  BY FS_Interval
<1> HIDE DEF S, f
<1>6. Cardinality(S) <= Cardinality(1..L)
  BY <1>4, <1>5, FS_Injection
<1> QED
  BY <1>5, <1>6 DEF S

(* For any callers, deltas and width of the counter: a caller who lets     *)
(* through only those told at most L by Incr lets at most L through per    *)
(* window, whatever expires, fails and is executed late, as long as        *)
(* nothing counts down.                                                    *)
THEOREM LimitHoldsAlways == Spec => []LimitHolds
<1>1. LimitInv => LimitHolds
  <2> SUFFICES ASSUME LimitInv,
                      NEW w \in {window[c] : c \in Calls} \ (down \cup {0}),
                      NEW L \in 0..(Modulus - 1)
               PROVE  Cardinality({c \in Calls : kind[c] = "incr" /\ Amount[c] > 0
                                     /\ window[c] = w /\ told[c] # Untold
                                     /\ told[c] <= L}) <= L
    BY DEF LimitHolds
  <2>1. w \in Nat /\ w \notin down /\ L \in Nat
    BY LifetimesAssumption DEF LimitInv, TypeInv, TypeOK
  <2> QED
    BY <2>1, LimitCounts
<1> QED
  BY <1>1, LimitAlways, PTL


-----------------------------------------------------------------------------
(* The counter callers see *)

Value == IF Live(item, now) THEN item.val ELSE 0
CountedCalls == {c \in Calls : window[c] # 0}

CounterInv == TypeInv /\ AllAsked /\ Numbered

LEMMA CounterAlways == Spec => []CounterInv
<1>1. Init => CounterInv
  BY TypeInit, AskedInit DEF CounterInv
<1>2. CounterInv /\ [Next]_vars => CounterInv'
  BY TypeStep, AskedStep, NumberedAlways DEF CounterInv
<1> QED
  BY <1>1, <1>2, PTL DEF Spec

(* Steps that leave what callers see, but may end the counter's life. *)
LEMMA CounterReset ==
    ASSUME Value' \in {Value, 0}, CountedCalls' = CountedCalls, UNCHANGED <<kind, told>>
    PROVE  [Abstract!ANext]_(Abstract!avars)
BY DEF Abstract!ANext, Abstract!Reset, Abstract!avars, Value, CountedCalls

LEMMA CounterBegin ==
    ASSUME CounterInv, NEW c \in Calls, NEW k \in Verbs, NEW d, Begin(c, k, d)
    PROVE  Abstract!Call(c)
<1>1. kind[c] = "none"
  BY DEF CounterInv, AllAsked, Untouched, Begin
<1>2. UNCHANGED <<now, item, window, told>> /\ kind' = [kind EXCEPT ![c] = k]
  BY DEF Begin
<1> QED
  BY <1>1, <1>2 DEF Abstract!Call, Live, Verbs

(* A counter's command, whether the counter is there or created. *)
LEMMA CounterCounts ==
    ASSUME CounterInv, NEW c \in Calls, Execute(c), wire[c].op \in Counters
    PROVE  /\ kind[c] \in {"incr", "decr"} /\ c \notin CountedCalls
           /\ item'.val = Counted(c, Value) /\ item'.life # 0
<1>1. wire[c].op = kind[c] /\ window[c] = 0
  BY DEF CounterInv, AllAsked, Asked, Counters, Verbs
<1>2. item.life \in Nat
  BY ItemFields DEF CounterInv, TypeInv, TypeOK
<1>3. Creates(c) \/ CountsOn(c)
  <2>1. Effect(c)
    BY ExecuteEffect DEF CounterInv
  <2> QED
    BY <2>1 DEF Effect, ReadsOn, TouchesOn, InvalidatesOn, LeavesAlone, Counters, Reads
<1>4. CASE Creates(c)
  <2>1. item'.life = item.life + 1 /\ item'.val = initial(c) /\ ~Live(item, now)
    BY <1>4 DEF Creates, Counters
  <2>2. Modulus \in Nat \ {0} /\ Amount[c] \in 0..(Modulus - 1)
    BY LifetimesAssumption
  <2>3. (0 + Amount[c]) % Modulus = Amount[c]
    BY <2>2
  <2>4. initial(c) = Counted(c, 0)
    BY <1>1, <2>2, <2>3 DEF initial, Counted, Counters
  <2> QED
    BY <1>1, <1>2, <2>1, <2>4 DEF Value, CountedCalls, Counters
<1>5. CASE CountsOn(c)
  BY <1>1, <1>2, <1>5 DEF CounterInv, CountsOn, Value, CountedCalls, Counters, Numbered
<1> QED
  BY <1>3, <1>4, <1>5

LEMMA CounterExecute ==
    ASSUME CounterInv, NEW c \in Calls, Execute(c)
    PROVE  [Abstract!ANext]_(Abstract!avars)
<1>0. TypeInv /\ TypeOK /\ kind' = kind /\ now' = now
  BY ExecuteCases DEF CounterInv, TypeInv
<1>1. Effect(c)
  BY <1>0, ExecuteEffect
<1>2. CASE wire[c].op \in Counters
  <2> DEFINE n == Counted(c, Value)
  <2>1. /\ kind[c] \in {"incr", "decr"} /\ c \notin CountedCalls
        /\ item'.val = n /\ item'.life # 0
    BY <1>2, CounterCounts
  <2>2. CountedCalls' = CountedCalls \cup {c}
    <3>1. window' = [window EXCEPT ![c] = item'.life]
      BY <1>2, ExecuteCases
    <3> QED
      BY <1>0, <2>1, <3>1 DEF CountedCalls, TypeOK
  <2>3. told' \in {told, [told EXCEPT ![c] = n]}
    BY <1>2, <2>1, ExecuteCases
  <2>4. Value' \in {n, 0}
    BY <2>1 DEF Value
  <2> HIDE DEF n
  <2>5. n = IF kind[c] = "incr" THEN (Value + Amount[c]) % Modulus
            ELSE IF Amount[c] > Value THEN 0 ELSE Value - Amount[c]
    BY DEF n, Counted
  <2>6. Abstract!Count(c)
    BY <1>0, <2>1, <2>2, <2>3, <2>4, <2>5 DEF Abstract!Count, Value, CountedCalls
  <2> QED
    BY <2>6 DEF Abstract!ANext
<1>3. CASE wire[c].op \notin Counters
  <2>1. UNCHANGED <<told, window>>
    BY <1>0, <1>3, ExecuteCases DEF TypeOK
  <2>2. CountedCalls' = CountedCalls
    BY <2>1 DEF CountedCalls
  <2>3. CASE Creates(c)
    <3>1. wire[c].op = "set" /\ item'.val = Amount[c]
      BY <1>3, <2>3 DEF Creates
    <3>2. kind[c] = "set"
      BY <3>1 DEF CounterInv, AllAsked, Asked, Verbs
    <3>3. Value' \in {Amount[c], 0}
      BY <3>1 DEF Value
    <3>4. Abstract!Store(c)
      BY <1>0, <2>1, <2>2, <3>2, <3>3 DEF Abstract!Store, Value, CountedCalls
    <3> QED
      BY <3>4 DEF Abstract!ANext
  <2>4. CASE ReadsOn(c) \/ TouchesOn(c) \/ InvalidatesOn(c)
    <3>1. Live(item, now) /\ item'.val = item.val
      BY <2>4 DEF ReadsOn, TouchesOn, InvalidatesOn
    <3>2. Value' \in {Value, 0}
      BY <3>1 DEF Value
    <3> QED
      BY <1>0, <2>1, <2>2, <3>2, CounterReset
  <2>5. CASE LeavesAlone(c)
    <3>1. item'.has => item' = item
      BY <1>0, <2>5, LeftAlone
    <3>2. Value' \in {Value, 0}
      BY <1>0, <3>1 DEF Value, Live
    <3> QED
      BY <1>0, <2>1, <2>2, <3>2, CounterReset
  <2> QED
    BY <1>1, <1>3, <2>3, <2>4, <2>5 DEF Effect, CountsOn
<1> QED
  BY <1>2, <1>3

LEMMA CounterTick ==
    ASSUME CounterInv, Tick
    PROVE  [Abstract!ANext]_(Abstract!avars)
<1>1. now' = now + 1 /\ UNCHANGED <<item, kind, told, window>>
  BY DEF Tick
<1>2. now \in Int /\ item.exp \in Int
  BY ClockNat, ItemFields DEF CounterInv, TypeInv, TypeOK
<1>3. Unix(now) <= Unix(now + 1) /\ Unix(now) \in Int /\ Unix(now + 1) \in Int
  BY <1>2, UnixMonotonic, UnixBounds
<1>4. Live(item, now + 1) => Live(item, now)
  BY <1>2, <1>3 DEF Live
<1>5. Value' \in {Value, 0}
  BY <1>1, <1>4 DEF Value
<1> QED
  BY <1>1, <1>5, CounterReset DEF CountedCalls

LEMMA CounterStep == CounterInv /\ [Next]_vars => [Abstract!ANext]_(Abstract!avars)
<1> SUFFICES ASSUME CounterInv, [Next]_vars PROVE [Abstract!ANext]_(Abstract!avars)
  OBVIOUS
<1>1. ASSUME NEW c \in Calls, NEW o \in Offers, Begin(c, o[1], o[2])
      PROVE  [Abstract!ANext]_(Abstract!avars)
  <2>1. Abstract!Call(c)
    BY <1>1, OfferType, CounterBegin
  <2> QED
    BY <2>1 DEF Abstract!ANext
<1>2. ASSUME NEW c \in Calls, Fail(c) \/ HandBack(c)
      PROVE  [Abstract!ANext]_(Abstract!avars)
  <2>1. UNCHANGED <<now, item, kind, told, window>>
    BY <1>2 DEF Fail, HandBack
  <2> QED
    BY <2>1, CounterReset DEF Value, Live, CountedCalls
<1>3. CASE UNCHANGED vars
  BY <1>3, CounterReset DEF vars, Value, Live, CountedCalls
<1> QED
  BY <1>1, <1>2, <1>3, CounterExecute, CounterTick DEF Next, Finished

(* For any calls, TTLs, deltas and width: to callers of Incr and Decr the  *)
(* item is one number that counts from zero, adds and subtracts as         *)
(* documented, counts every call once at most and tells it the number it   *)
(* made, and returns to zero only when it expires (counter's seeding of a  *)
(* missing item included).                                                 *)
THEOREM CounterRefined == Spec => ImplementsCounter
<1>1. Init => Abstract!AInit
  BY DEF Init, Abstract!AInit, Gone, Live
<1> QED
  BY <1>1, CounterStep, CounterAlways, PTL DEF Spec, ImplementsCounter, Abstract!ASpec

=============================================================================
