-------------------------- MODULE TransportContract --------------------------
(***************************************************************************)
(* Proof that Transport keeps the contract of ExchangeSpec and gives every *)
(* call its own answers, for any requests, connections and faults.         *)
(***************************************************************************)
EXTENDS TransportFrames

-----------------------------------------------------------------------------
(* Queues without repetition *)

Distinct(q) == \A i, j \in 1..Len(q) : q[i] = q[j] => i = j

LEMMA DistinctNone == Distinct(<<>>)
BY DEF Distinct

LEMMA DistinctOne == ASSUME NEW x PROVE Distinct(<<x>>)
BY DEF Distinct

LEMMA TailProperties ==
    ASSUME NEW q \in Seq(Requests), q # <<>>
    PROVE  /\ Head(q) = q[1] /\ Tail(q) \in Seq(Requests) /\ Len(Tail(q)) \in Nat
           /\ Len(q) = Len(Tail(q)) + 1 /\ \A i \in 1..Len(Tail(q)) : Tail(q)[i] = q[i + 1]
OBVIOUS

LEMMA DistinctTail ==
    ASSUME NEW q \in Seq(Requests), q # <<>>, Distinct(q)
    PROVE  Distinct(Tail(q)) /\ Head(q) \notin Elems(Tail(q))
<1> DEFINE p == Tail(q)
<1>1. Head(q) = q[1] /\ Len(p) \in Nat /\ Len(q) = Len(p) + 1 /\ \A i \in 1..Len(p) : p[i] = q[i + 1]
  BY TailProperties
<1> HIDE DEF p
<1>2. \A i \in 1..Len(p) : i + 1 \in 1..Len(q) /\ i + 1 # 1
  BY <1>1
<1>3. 1 \in 1..Len(q)
  BY <1>1
<1>4. ASSUME NEW i \in 1..Len(p), NEW j \in 1..Len(p), p[i] = p[j] PROVE i = j
  <2>1. i + 1 = j + 1
    BY <1>1, <1>2, <1>4 DEF Distinct
  <2> QED
    BY <2>1
<1>5. Distinct(p)
  BY <1>4 DEF Distinct
<1>6. q[1] \notin Elems(p)
  BY <1>1, <1>2, <1>3 DEF Distinct, Elems
<1> QED
  BY <1>1, <1>5, <1>6 DEF p

LEMMA DistinctAppend ==
    ASSUME NEW q \in Seq(Requests), Distinct(q), NEW x \in Requests, x \notin Elems(q)
    PROVE  Distinct(Append(q, x)) /\ Elems(Append(q, x)) = Elems(q) \cup {x}
<1> DEFINE p == Append(q, x)
<1>1. Len(q) \in Nat /\ Len(p) = Len(q) + 1 /\ p[Len(q) + 1] = x /\ \A i \in 1..Len(q) : p[i] = q[i]
  BY AppendProperties
<1> HIDE DEF p
<1>2. ASSUME NEW i \in 1..Len(p)
      PROVE  (i \in 1..Len(q) /\ p[i] = q[i]) \/ (i = Len(q) + 1 /\ p[i] = x)
  BY <1>1
<1>3. Distinct(p)
  BY <1>1, <1>2 DEF Distinct, Elems
<1>4. Elems(p) = Elems(q) \cup {x}
  <2>1. Elems(p) \subseteq Elems(q) \cup {x}
    BY <1>2 DEF Elems
  <2>2. \A i \in 1..Len(q) : i \in 1..Len(p)
    BY <1>1
  <2>3. Len(q) + 1 \in 1..Len(p)
    BY <1>1
  <2>4. x \in Elems(p)
    BY <1>1, <2>3 DEF Elems
  <2>5. Elems(q) \subseteq Elems(p)
    BY <1>1, <2>2 DEF Elems
  <2> QED
    BY <2>1, <2>4, <2>5
<1> QED
  BY <1>3, <1>4 DEF p

LEMMA DistinctExtract ==
    ASSUME NEW q \in Seq(Requests), Distinct(q), NEW I \in SUBSET (1..Len(q)),
           NEW f \in Enumerations(I)
    PROVE  Distinct(Extract(q, f))
<1> DEFINE n == Cardinality(I)
           p == Extract(q, f)
<1>1. Len(q) \in Nat /\ IsFiniteSet(1..Len(q))
  BY LenProperties, FS_Interval
<1>2. n \in Nat
  BY <1>1, FS_Subset, FS_CardinalityType
<1>3. f \in [1..n -> I] /\ \A i, j \in 1..n : i < j => f[i] < f[j]
  BY DEF Enumerations
<1>4. Len(p) = n
  BY ExtractElems
<1> HIDE DEF n
<1>5. \A i \in 1..n : p[i] = q[f[i]]
  BY <1>3 DEF Extract
<1> HIDE DEF p
<1>6. ASSUME NEW i \in 1..n, NEW j \in 1..n, p[i] = p[j] PROVE i = j
  <2>0. f[i] \in 1..Len(q) /\ f[j] \in 1..Len(q) /\ q[f[i]] = q[f[j]]
    BY <1>3, <1>5, <1>6
  <2>1. f[i] = f[j]
    BY <2>0 DEF Distinct
  <2>2. ~(i < j) /\ ~(j < i)
    BY <1>1, <1>3, <2>0, <2>1
  <2> QED
    BY <1>2, <2>2
<1> QED
  BY <1>4, <1>6 DEF Distinct, p

-----------------------------------------------------------------------------
(* Where a request waits to be handed to a socket.  The first request of   *)
(* plist has left it when add has appended it; the part of a batch that    *)
(* the writer still has to hand over, settle or requeue is its rest.       *)

InRest(w, i) ==
    /\ w.pc \in {"flush", "settle", "fail", "tail", "requeue"}
    /\ w.pc \in {"flush", "settle"} => i > w.n

Rest(w) == {w.batch[i] : i \in {j \in 1..Len(w.batch) : InRest(w, j)}}

PoolRest(q, signal1) == {q[i] : i \in {j \in 1..Len(q) : signal1 => j > 1}}

At(k, c, r) ==
    \/ k = "pool" /\ c = None /\ r \in PoolRest(plist, psignal)
    \/ k = "pending" /\ c \in Conns /\ r \in Elems(pending[c])
    \/ k = "move" /\ c \in Conns /\ r \in Elems(tear[c].move)
    \/ k = "batch" /\ c \in Conns /\ r \in Rest(writer[c])

(* No request waits in two places, ... *)
Apart == \A r \in Requests : \A k, l, c, d : At(k, c, r) /\ At(l, d, r) => k = l /\ c = d

(* ... or twice in one, ... *)
AllDistinct ==
    /\ Distinct(plist)
    /\ \A c \in Conns : /\ Distinct(pending[c]) /\ Distinct(tear[c].move)
                        /\ Distinct(writer[c].batch)

(* ... and one that waits was never written. *)
Untried == \A r \in Requests : \A k, c : At(k, c, r) => puts[r] = 0 /\ state[r] # "new"

OnePlace == Apart /\ AllDistinct /\ Untried

(* Nobody enters a place where it was not, except M, which goes from place *)
(* k0 of c0 (or from nowhere) to place k1 of c1.                           *)
Moves(M, k1, c1) ==
    \A r \in Requests : \A k, c : At(k, c, r)' => At(k, c, r) \/ (r \in M /\ k = k1 /\ c = c1)

LEMMA ApartMoves ==
    ASSUME Apart, NEW M, NEW k0, NEW c0, NEW k1, NEW c1, Moves(M, k1, c1),
           \A r \in M : \/ At(k0, c0, r) /\ ~At(k0, c0, r)'
                        \/ \A k, c : ~At(k, c, r)
    PROVE  Apart'
BY DEF Apart, Moves

LEMMA ApartStays ==
    ASSUME Apart, \A r \in Requests : \A k, c : At(k, c, r)' => At(k, c, r)
    PROVE  Apart'
BY DEF Apart

(* A request that exists goes on existing. *)
NewStays == \A r \in Requests : state[r] # "new" => state'[r] # "new"

LEMMA UntriedStays ==
    ASSUME Untried, NewStays, puts' = puts, NEW M, NEW k1, NEW c1, Moves(M, k1, c1),
           \A r \in M : puts[r] = 0 /\ state'[r] # "new"
    PROVE  Untried'
BY DEF Untried, NewStays, Moves

(* Steps that may shorten the places. *)
LEMMA PlacesShrink ==
    ASSUME OnePlace, NewStays, puts' = puts, Distinct(plist'),
           PoolRest(plist', psignal') \subseteq PoolRest(plist, psignal),
           \A c \in Conns : /\ Distinct(pending'[c]) /\ Elems(pending'[c]) \subseteq Elems(pending[c])
                            /\ tear'[c].move = tear[c].move \/ tear'[c].move = <<>>
                            /\ Distinct(writer'[c].batch)
                            /\ Rest(writer'[c]) \subseteq Rest(writer[c])
    PROVE  OnePlace'
<1>0. Elems(<<>>) = {}
  BY DEF Elems
<1>1. \A r \in Requests : \A k, c : At(k, c, r)' => At(k, c, r)
  BY <1>0 DEF At
<1>2. Apart' /\ Untried'
  BY <1>1, ApartStays DEF OnePlace, Untried, NewStays
<1>3. AllDistinct'
  BY DistinctNone DEF OnePlace, AllDistinct
<1> QED
  BY <1>2, <1>3 DEF OnePlace

(* The writers keep their batches, or lose some of them. *)
BatchesShrink ==
    \A c \in Conns : Distinct(writer'[c].batch) /\ Rest(writer'[c]) \subseteq Rest(writer[c])

(* Steps of the writers alone. *)
LEMMA PlacesIdle ==
    ASSUME OnePlace, NewStays, BatchesShrink, UNCHANGED <<plist, psignal, puts, pending>>,
           \A c \in Conns : tear'[c].move = tear[c].move \/ tear'[c].move = <<>>
    PROVE  OnePlace'
BY PlacesShrink DEF OnePlace, AllDistinct, BatchesShrink

(* teardownLocked takes the queue of c for detach. *)
LEMMA PlacesTear ==
    ASSUME TypeOK, OnePlace, NewStays, BatchesShrink, UNCHANGED <<plist, psignal, puts>>,
           NEW c \in Conns, NEW t, t.move = pending[c],
           pending' = [pending EXCEPT ![c] = <<>>], tear' = [tear EXCEPT ![c] = t]
    PROVE  OnePlace'
<1> DEFINE M == Elems(pending[c])
<1>0. Elems(<<>>) = {}
  BY DEF Elems
<1>1. \A k \in Conns : /\ pending'[k] = IF k = c THEN <<>> ELSE pending[k]
                       /\ tear'[k] = IF k = c THEN t ELSE tear[k]
  BY DEF TypeOK
<1>2. Moves(M, "move", c)
  BY <1>0, <1>1 DEF Moves, At, BatchesShrink
<1>3. \A r \in M : At("pending", c, r) /\ ~At("pending", c, r)'
  BY <1>0, <1>1 DEF At
<1>4. Apart'
  <2> HIDE DEF M
  <2> QED
    BY <1>2, <1>3, ApartMoves DEF OnePlace
<1>5. \A r \in M : puts[r] = 0 /\ state'[r] # "new"
  <2>1. M \subseteq Requests
    BY ElemsType DEF TypeOK
  <2> HIDE DEF M
  <2> QED
    BY <1>3, <2>1 DEF OnePlace, Untried, NewStays
<1>6. Untried'
  <2> HIDE DEF M
  <2> QED
    BY <1>2, <1>5, UntriedStays DEF OnePlace
<1>7. AllDistinct'
  BY <1>1, DistinctNone DEF OnePlace, AllDistinct, BatchesShrink
<1> QED
  BY <1>4, <1>6, <1>7 DEF OnePlace

(* detach has taken serverPool.mu to place q. *)
LEMMA PlacesDetach ==
    ASSUME TypeOK, OnePlace, NewStays, BatchesShrink, UNCHANGED <<psignal, puts, pending>>,
           NEW q \in Seq(Requests), Distinct(q), plist = <<>>, plist' = q,
           \A c \in Conns : tear'[c].move = tear[c].move \/ tear'[c].move = <<>>,
           NEW k0, NEW c0, \A r \in Elems(q) : At(k0, c0, r) /\ ~At(k0, c0, r)'
    PROVE  OnePlace'
<1> DEFINE M == Elems(q)
<1>0. Elems(<<>>) = {}
  BY DEF Elems
<1>1. PoolRest(plist', psignal') \subseteq M
  BY DEF PoolRest, Elems
<1>2. Moves(M, "pool", None)
  BY <1>0, <1>1 DEF Moves, At, BatchesShrink
<1>4. Apart'
  <2> HIDE DEF M
  <2>1. \A r \in M : At(k0, c0, r) /\ ~At(k0, c0, r)'
    BY DEF M
  <2> QED
    BY <1>2, <2>1, ApartMoves DEF OnePlace
<1>5. \A r \in M : puts[r] = 0 /\ state'[r] # "new"
  <2>1. M \subseteq Requests
    BY ElemsType
  <2>2. \A r \in M : At(k0, c0, r)
    OBVIOUS
  <2> HIDE DEF M
  <2> QED
    BY <2>1, <2>2 DEF OnePlace, Untried, NewStays
<1>6. Untried'
  <2> HIDE DEF M
  <2> QED
    BY <1>2, <1>5, UntriedStays DEF OnePlace
<1>7. AllDistinct'
  BY DistinctNone DEF OnePlace, AllDistinct, BatchesShrink
<1> QED
  BY <1>4, <1>6, <1>7 DEF OnePlace

(* The lock holder has dealt with the first request of plist. *)
LEMMA PoolTail ==
    ASSUME TypeOK, OnePlace, plist # <<>>, plist' = Tail(plist)
    PROVE  /\ Distinct(plist') /\ PoolRest(plist', psignal') \subseteq PoolRest(plist, psignal)
           /\ Head(plist) \notin PoolRest(plist', psignal')
<1> DEFINE p == Tail(plist)
<1>0. plist \in Seq(Requests) /\ Distinct(plist)
  BY DEF TypeOK, OnePlace, AllDistinct
<1>1. /\ Len(p) \in Nat /\ Len(plist) = Len(p) + 1
      /\ \A i \in 1..Len(p) : p[i] = plist[i + 1]
  BY <1>0, TailProperties
<1>2. Distinct(p) /\ Head(plist) \notin Elems(p)
  BY <1>0, DistinctTail
<1>3. plist' = p
  OBVIOUS
<1> HIDE DEF p
<1>4. PoolRest(p, psignal') \subseteq Elems(p)
  BY DEF PoolRest, Elems
<1>5. \A i \in 1..Len(p) : i + 1 \in 1..Len(plist) /\ i + 1 > 1
  BY <1>1
<1>6. Elems(p) \subseteq PoolRest(plist, psignal)
  BY <1>1, <1>5 DEF PoolRest, Elems
<1> QED
  BY <1>2, <1>3, <1>4, <1>6

LEMMA NewForGood == TypeOK /\ [Next]_vars => NewStays
<1> SUFFICES ASSUME TypeOK, [Next]_vars, NEW q \in Requests, state[q] # "new"
             PROVE  state'[q] # "new"
  BY DEF NewStays
<1>1. ASSUME NEW r \in Requests, Exchange(r) PROVE state'[q] # "new"
  BY <1>1 DEF Exchange, TypeOK
<1>2. ASSUME NEW r \in Requests, ExchangeRefused(r) PROVE state'[q] # "new"
  BY <1>2 DEF ExchangeRefused, TypeOK
<1>3. ASSUME NEW r \in Requests, GiveUpQueued(r) \/ GiveUpWriting(r) PROVE state'[q] # "new"
  BY <1>3 DEF GiveUpQueued, GiveUpWriting, TypeOK
<1>4. ASSUME NEW r \in Requests,
             \/ Cancel(r) \/ Deadline(r) \/ MissQueued(r) \/ MissWriting(r)
             \/ Expire(r) \/ Orphan(r)
      PROVE  state'[q] # "new"
  BY <1>4 DEF Cancel, Deadline, MissQueued, MissWriting, Expire, Orphan
<1>5. ASSUME NEW R, complete(R) PROVE state'[q] # "new"
  BY <1>5 DEF complete, Open
<1>6. ASSUME NEW c \in Conns, Claim(c) PROVE state'[q] # "new"
  BY <1>6 DEF Claim
<1>7. ASSUME NEW c \in Conns, SettleBatch(c) PROVE state'[q] # "new"
  BY <1>7 DEF SettleBatch
<1>8. ASSUME NEW c \in Conns, WriterStep(c) PROVE state'[q] # "new"
  BY <1>6, <1>7, <1>8 DEF WriterStep, WriterRuns, DialOK, DialFail, WriterWake, WriterExit,
     Write, FlushDone, FlushFail, WriterFail, WriterRequeue, reqVars
<1>9. ASSUME NEW c \in Conns, ReaderStep(c) PROVE state'[q] # "new"
  BY <1>5, <1>9 DEF ReaderStep, ReadPart, ReadLast, Deliver, ReadFail, ReaderExit, reqVars
<1>10. ASSUME NEW c \in Conns,
              TearStep(c) \/ Answer(c) \/ AnswerError(c) \/ Break(c) \/ Drain(c)
       PROVE  state'[q] # "new"
  BY <1>5, <1>10 DEF TearStep, TearSettle, TearDetach, Answer, AnswerError, Break, Drain, reqVars
<1>11. CASE PoolStep \/ CancelRoot \/ PoolClose \/ Finished \/ UNCHANGED vars
  BY <1>5, <1>11 DEF PoolStep, PoolAdd, PoolSignal, DetachSkip, DetachPick, DetachFail,
     CancelRoot, PoolClose, Finished, vars, reqVars
<1> QED
  BY <1>1, <1>2, <1>3, <1>4, <1>8, <1>9, <1>10, <1>11 DEF Next, CallerStep, CloseStep

-----------------------------------------------------------------------------
(* One lemma per action, or per group of actions alike *)

LEMMA BatchEmpty ==
    ASSUME NEW p
    PROVE  /\ Distinct([NoWriter EXCEPT !.pc = p].batch) /\ Rest([NoWriter EXCEPT !.pc = p]) = {}
           /\ Distinct(NoWriter.batch) /\ Rest(NoWriter) = {}
BY DEF NoWriter, Rest, Distinct

LEMMA BatchesStay == OnePlace /\ writer' = writer => BatchesShrink
BY DEF OnePlace, AllDistinct, BatchesShrink

LEMMA BatchesAt ==
    ASSUME TypeOK, OnePlace, NEW c \in Conns, NEW w, writer' = [writer EXCEPT ![c] = w],
           Distinct(w.batch), Rest(w) \subseteq Rest(writer[c])
    PROVE  BatchesShrink
<1>1. \A k \in Conns : writer'[k] = IF k = c THEN w ELSE writer[k]
  BY DEF TypeOK
<1> QED
  BY <1>1 DEF OnePlace, AllDistinct, BatchesShrink

LEMMA PlacesIdleSteps ==
    ASSUME TypeOK, OnePlace, NewStays,
           \/ \E r \in Requests : ExchangeRefused(r) \/ Cancel(r) \/ Deadline(r)
                                  \/ GiveUpQueued(r) \/ GiveUpWriting(r) \/ Orphan(r)
                                  \/ MissQueued(r) \/ MissWriting(r)
           \/ \E c \in Conns : ReadPart(c) \/ ReadLast(c) \/ Deliver(c) \/ ReaderExit(c)
                               \/ Answer(c) \/ AnswerError(c) \/ Break(c)
           \/ CancelRoot \/ PoolClose \/ Finished \/ UNCHANGED vars
    PROVE  OnePlace'
<1>1. UNCHANGED <<plist, psignal, puts, pending, writer, tear>>
  BY DEF ExchangeRefused, Cancel, Deadline, GiveUpQueued, GiveUpWriting, MissQueued,
         MissWriting, Orphan, ReadPart,
         ReadLast, Deliver, ReaderExit, Answer, AnswerError, Break, CancelRoot, PoolClose,
         Finished, vars, connVars, poolVars, reqVars
<1> QED
  BY <1>1, BatchesStay, PlacesIdle

LEMMA PlacesTearSettle ==
    ASSUME TypeOK, OnePlace, NewStays, NEW c \in Conns, TearSettle(c)
    PROVE  OnePlace'
<1>1. UNCHANGED <<plist, psignal, puts, pending, writer>>
  BY DEF TearSettle, poolVars
<1>2. \A k \in Conns : tear'[k].move = tear[k].move
  BY DEF TearSettle, TypeOK, TearFields
<1> QED
  BY <1>1, <1>2, BatchesStay, PlacesIdle

LEMMA PlacesDrain ==
    ASSUME TypeOK, OnePlace, NewStays, NEW c \in Conns, Drain(c)
    PROVE  OnePlace'
<1>1. UNCHANGED <<plist, psignal, puts, writer, tear>>
  BY DEF Drain
<1>2. \A k \in Conns : pending'[k] = pending[k] \/ pending'[k] = <<>>
  BY DEF Drain, TypeOK
<1>3. Elems(<<>>) = {}
  BY DEF Elems
<1> QED
  BY <1>1, <1>2, <1>3, DistinctNone, PlacesShrink DEF OnePlace, AllDistinct

(* The writer changes places, or hands some of the batch over. *)
LEMMA RestShrinks ==
    ASSUME NEW w, NEW w2, w2.batch = w.batch, \A i : InRest(w2, i) => InRest(w, i)
    PROVE  Rest(w2) \subseteq Rest(w)
BY DEF Rest

LEMMA BatchesWriter ==
    ASSUME TypeOK, OnePlace, NEW c \in Conns,
           \/ DialOK(c) \/ WriterWake(c) \/ WriterExit(c) \/ FlushDone(c)
           \/ \E part \in BOOLEAN, err \in {"io", "iotimeout"} : FlushFail(c, part, err)
    PROVE  BatchesShrink
<1>0. writer[c] \in WriterFields /\ Distinct(writer[c].batch)
  BY DEF TypeOK, OnePlace, AllDistinct
<1>1. CASE \E p : writer' = [writer EXCEPT ![c] = [NoWriter EXCEPT !.pc = p]]
  BY <1>1, BatchEmpty, BatchesAt
<1>2. CASE WriterWake(c)
  <2> DEFINE w == [writer[c] EXCEPT !.pc = "claim"]
  <2>1. w.batch = writer[c].batch /\ w.pc = "claim"
    BY <1>0 DEF WriterFields
  <2>2. writer' = [writer EXCEPT ![c] = w]
    BY <1>2 DEF WriterWake
  <2> HIDE DEF w
  <2>3. Rest(w) \subseteq Rest(writer[c])
    BY <2>1, RestShrinks DEF InRest
  <2> QED
    BY <1>0, <2>1, <2>2, <2>3, BatchesAt
<1>3. CASE FlushDone(c) /\ mux[c].closed
  <2> DEFINE w == [writer[c] EXCEPT !.pc = "settle", !.closed = TRUE,
                                    !.served = mux[c].served]
  <2>1. w.batch = writer[c].batch /\ w.pc = "settle" /\ w.n = writer[c].n
    BY <1>0 DEF WriterFields
  <2>2. writer' = [writer EXCEPT ![c] = w] /\ writer[c].pc = "flush"
    BY <1>3 DEF FlushDone
  <2> HIDE DEF w
  <2>3. Rest(w) \subseteq Rest(writer[c])
    BY <2>1, <2>2, RestShrinks DEF InRest
  <2> QED
    BY <1>0, <2>1, <2>2, <2>3, BatchesAt
<1>4. ASSUME NEW part \in BOOLEAN, NEW err \in {"io", "iotimeout"}, FlushFail(c, part, err)
      PROVE  BatchesShrink
  <2> DEFINE w == [writer[c] EXCEPT !.pc = "settle", !.err = err, !.part = part,
                    !.closed = mux[c].closed, !.served = mux[c].served]
  <2>1. w.batch = writer[c].batch /\ w.pc = "settle" /\ w.n = writer[c].n
    BY <1>0 DEF WriterFields
  <2>2. writer' = [writer EXCEPT ![c] = w] /\ writer[c].pc = "flush"
    BY <1>4 DEF FlushFail
  <2> HIDE DEF w
  <2>3. Rest(w) \subseteq Rest(writer[c])
    BY <2>1, <2>2, RestShrinks DEF InRest
  <2> QED
    BY <1>0, <2>1, <2>2, <2>3, BatchesAt
<1> QED
  BY <1>1, <1>2, <1>3, <1>4, BatchesStay DEF DialOK, WriterExit, FlushDone

LEMMA PlacesWriter ==
    ASSUME TypeOK, OnePlace, NewStays, NEW c \in Conns,
           \/ DialOK(c) \/ WriterWake(c) \/ WriterExit(c) \/ FlushDone(c)
           \/ \E part \in BOOLEAN, err \in {"io", "iotimeout"} : FlushFail(c, part, err)
    PROVE  OnePlace'
<1>1. UNCHANGED <<plist, psignal, puts, pending, tear>>
  BY DEF DialOK, WriterWake, WriterExit, FlushDone, FlushFail, reqVars, poolVars
<1> QED
  BY <1>1, BatchesWriter, PlacesIdle

(* What SettleBatch keeps are requests it had not handed over. *)
LEMMA PlacesSettle ==
    ASSUME TypeOK, OnePlace, NewStays, NEW c \in Conns, SettleBatch(c)
    PROVE  OnePlace'
<1> DEFINE I == {i \in 1..Len(writer[c].batch) : Requeued(c, i)}
<1>0. /\ writer[c] \in WriterFields /\ Distinct(writer[c].batch) /\ writer[c].pc = "settle"
      /\ writer[c].batch \in Seq(Requests) /\ writer[c].n \in Nat
  BY WriterParts DEF TypeOK, OnePlace, AllDistinct, SettleBatch
<1>1. PICK f \in Enumerations(I) : writer' = [writer EXCEPT ![c] =
         [writer[c] EXCEPT !.batch = Extract(writer[c].batch, f),
                           !.pc = IF writer[c].err = "nil" THEN "claim" ELSE "fail"]]
  BY DEF SettleBatch
<1>2. I \in SUBSET (1..Len(writer[c].batch))
  OBVIOUS
<1>3. \A i \in I : InRest(writer[c], i)
  BY <1>0 DEF Requeued, InRest
<1> HIDE DEF I
<1>4. /\ Distinct(Extract(writer[c].batch, f))
      /\ Elems(Extract(writer[c].batch, f)) \subseteq {writer[c].batch[i] : i \in I}
  BY <1>0, <1>2, DistinctExtract, ExtractElems
<1> DEFINE w == [writer[c] EXCEPT !.batch = Extract(writer[c].batch, f),
                           !.pc = IF writer[c].err = "nil" THEN "claim" ELSE "fail"]
<1>5. w.batch = Extract(writer[c].batch, f)
  BY <1>0 DEF WriterFields
<1>6. writer' = [writer EXCEPT ![c] = w]
  BY <1>1
<1> HIDE DEF w
<1>7. Rest(w) \subseteq Elems(w.batch)
  BY DEF Rest, Elems
<1>8. Rest(w) \subseteq Rest(writer[c])
  BY <1>2, <1>3, <1>4, <1>5, <1>7 DEF Rest
<1>9. BatchesShrink
  BY <1>4, <1>5, <1>6, <1>8, BatchesAt
<1>10. UNCHANGED <<plist, psignal, puts, pending, tear>>
  BY DEF SettleBatch, poolVars
<1> QED
  BY <1>9, <1>10, PlacesIdle

(* The payload is handed over: its request waits no more. *)
LEMMA PlacesWrite ==
    ASSUME TypeOK, OnePlace, NewStays, NEW c \in Conns, Write(c)
    PROVE  /\ OnePlace' /\ puts[writer[c].batch[writer[c].n + 1]] = 0
           /\ writer[c].batch[writer[c].n + 1] \in Requests \cap Rest(writer[c])
<1> DEFINE w == [writer[c] EXCEPT !.n = writer[c].n + 1]
<1>0. /\ writer[c] \in WriterFields /\ Distinct(writer[c].batch) /\ writer[c].pc = "flush"
      /\ writer[c].batch \in Seq(Requests) /\ writer[c].n \in Nat
      /\ writer[c].n < Len(writer[c].batch) /\ Len(writer[c].batch) \in Nat
  BY WriterParts DEF TypeOK, OnePlace, AllDistinct, Write
<1>14. PICK x \in Requests : x = writer[c].batch[writer[c].n + 1]
  BY <1>0
<1>1. /\ writer' = [writer EXCEPT ![c] = w] /\ puts' = [puts EXCEPT ![x] = @ + 1]
      /\ UNCHANGED <<plist, psignal, pending, tear, state>>
  BY <1>14 DEF Write, poolVars
<1>2. w.batch = writer[c].batch /\ w.pc = "flush" /\ w.n = writer[c].n + 1
  BY <1>0 DEF WriterFields
<1>3. writer[c].n + 1 \in 1..Len(writer[c].batch)
  BY <1>0
<1>4. x \in Rest(writer[c])
  BY <1>14, <1>0, <1>3 DEF Rest, InRest
<1> HIDE DEF w
<1>5. Rest(w) \subseteq Rest(writer[c])
  <2>1. \A i \in 1..Len(w.batch) : InRest(w, i) => InRest(writer[c], i)
    BY <1>0, <1>2 DEF InRest
  <2> QED
    BY <1>2, <2>1 DEF Rest
<1>6. x \notin Rest(w)
  <2>1. \A i \in 1..Len(w.batch) : InRest(w, i) => i # writer[c].n + 1
    BY <1>0, <1>2 DEF InRest
  <2> QED
    BY <1>14, <1>0, <1>2, <1>3, <2>1 DEF Rest, Distinct
<1>7. BatchesShrink
  BY <1>0, <1>1, <1>2, <1>5, BatchesAt
<1>8. \A r \in Requests : \A k, d : At(k, d, r)' => At(k, d, r)
  BY <1>1, <1>7 DEF At, BatchesShrink
<1>9. At("batch", c, x) /\ ~At("batch", c, x)'
  <2>1. writer'[c] = w
    BY <1>1 DEF TypeOK
  <2> QED
    BY <1>4, <1>6, <2>1 DEF At
<1>10. \A k, d : ~At(k, d, x)'
  BY <1>3, <1>8, <1>9 DEF OnePlace, Apart
<1>11. puts[x] = 0
  BY <1>3, <1>9 DEF OnePlace, Untried
<1>12. Apart' /\ Untried'
  <2>1. \A r \in Requests : r # x => puts'[r] = puts[r]
    BY <1>1, <1>3 DEF TypeOK
  <2>2. Apart'
    BY <1>8, ApartStays DEF OnePlace
  <2>3. Untried'
    BY <1>8, <1>10, <2>1 DEF OnePlace, Untried, NewStays
  <2> QED
    BY <2>2, <2>3
<1>13. AllDistinct'
  BY <1>1, <1>7 DEF OnePlace, AllDistinct, BatchesShrink
<1> QED
  BY <1>14, <1>4, <1>11, <1>12, <1>13 DEF OnePlace

(* The holder of serverPool.mu has placed or dropped a request. *)
LEMMA PlacesTail ==
    ASSUME TypeOK, OnePlace, NewStays, PoolSignal \/ DetachSkip \/ DetachFail
    PROVE  OnePlace'
<1>1. plist # <<>> /\ plist' = Tail(plist) /\ UNCHANGED <<puts, pending, writer, tear>>
  BY DEF PoolSignal, DetachSkip, DetachFail, reqVars, connVars
<1> QED
  BY <1>1, PoolTail, PlacesShrink DEF OnePlace, AllDistinct

LEMMA BatchesPick ==
    ASSUME TypeOK, OnePlace, NEW c \in Conns, pickLocked(c)
    PROVE  BatchesShrink
<1>1. writer' = writer \/ writer' = [writer EXCEPT ![c] = NoWriter]
  BY DEF pickLocked
<1> QED
  BY <1>1, BatchesStay, BatchesAt, BatchEmpty

LEMMA PlacesPick ==
    ASSUME TypeOK, OnePlace, NewStays, DetachPick
    PROVE  OnePlace'
<1>1. UNCHANGED <<plist, psignal, puts, pending, tear>>
  BY DEF DetachPick, reqVars
<1>2. BatchesShrink
  BY BatchesPick DEF DetachPick
<1> QED
  BY <1>1, <1>2, PlacesIdle

LEMMA PlacesExchange ==
    ASSUME TypeOK, OnePlace, NewStays, NEW r \in Requests, Exchange(r), puts[r] = 0
    PROVE  OnePlace'
<1>1. /\ plist = <<>> /\ plist' = <<r>> /\ state[r] = "new" /\ state'[r] # "new"
      /\ UNCHANGED <<psignal, puts, pending, tear>>
  BY DEF Exchange, TypeOK
<1>2. BatchesShrink
  BY BatchesPick DEF Exchange
<1>3. PoolRest(plist', psignal') \subseteq {r}
  BY <1>1 DEF PoolRest
<1>4. Moves({r}, "pool", None)
  BY <1>1, <1>2, <1>3 DEF Moves, At, BatchesShrink
<1>5. \A k, c : ~At(k, c, r)
  BY <1>1 DEF OnePlace, Untried
<1>6. Apart'
  BY <1>4, <1>5, ApartMoves DEF OnePlace
<1>7. Untried'
  BY <1>1, <1>4, UntriedStays DEF OnePlace
<1>8. AllDistinct'
  BY <1>1, <1>2, DistinctOne DEF OnePlace, AllDistinct, BatchesShrink
<1> QED
  BY <1>6, <1>7, <1>8 DEF OnePlace

LEMMA PlacesAdd ==
    ASSUME TypeOK, OnePlace, NewStays, PoolAdd
    PROVE  OnePlace'
<1>0. PICK h : h = Head(plist)
  OBVIOUS
<1>1. PICK t \in Conns : t = ptarget
  BY DEF PoolAdd, TypeOK
<1>2. /\ plist # <<>> /\ ~psignal /\ psignal' = TRUE /\ plist \in Seq(Requests)
      /\ pending' = [pending EXCEPT ![t] = Append(pending[t], h)]
      /\ UNCHANGED <<plist, puts, tear, writer, state>>
  BY <1>0, <1>1 DEF PoolAdd, TypeOK, reqVars
<1>3. /\ h = plist[1] /\ h \in Requests /\ 1 \in 1..Len(plist) /\ Len(plist) \in Nat
  BY <1>0, <1>2, TailProperties
<1>4. At("pool", None, h)
  BY <1>2, <1>3 DEF At, PoolRest
<1>5. PoolRest(plist', psignal') \subseteq PoolRest(plist, psignal)
  BY <1>2 DEF PoolRest
<1>6. h \notin PoolRest(plist', psignal')
  BY <1>2, <1>3 DEF PoolRest, OnePlace, AllDistinct, Distinct
<1>7. pending[t] \in Seq(Requests) /\ Distinct(pending[t]) /\ h \notin Elems(pending[t])
  <2>1. ~At("pending", t, h)
    BY <1>3, <1>4 DEF OnePlace, Apart
  <2> QED
    BY <2>1 DEF At, TypeOK, OnePlace, AllDistinct
<1>8. /\ Distinct(Append(pending[t], h))
      /\ Elems(Append(pending[t], h)) = Elems(pending[t]) \cup {h}
  BY <1>3, <1>7, DistinctAppend
<1>9. \A k \in Conns : pending'[k] = IF k = t THEN Append(pending[t], h) ELSE pending[k]
  BY <1>2 DEF TypeOK
<1>10. Moves({h}, "pending", t)
  BY <1>2, <1>5, <1>8, <1>9 DEF Moves, At
<1>11. ~At("pool", None, h)'
  BY <1>6 DEF At
<1>12. Apart'
  BY <1>4, <1>10, <1>11, ApartMoves DEF OnePlace
<1>13. Untried'
  <2>1. puts[h] = 0 /\ state'[h] # "new"
    BY <1>2, <1>3, <1>4 DEF OnePlace, Untried
  <2> QED
    BY <1>2, <1>10, <2>1, UntriedStays DEF OnePlace
<1>14. AllDistinct'
  BY <1>2, <1>8, <1>9 DEF OnePlace, AllDistinct
<1> QED
  BY <1>12, <1>13, <1>14 DEF OnePlace

(* A connection is torn down, or it was already. *)
LEMMA PlacesTearIn ==
    ASSUME TypeOK, OnePlace, NewStays, BatchesShrink, UNCHANGED <<plist, psignal, puts>>,
           NEW c, NEW cause, NEW headSaw, teardownLocked(c, cause, headSaw)
    PROVE  OnePlace'
<1>1. CASE UNCHANGED <<pending, tear>>
  BY <1>1, PlacesIdle
<1>2. CASE c \in Conns /\ ~mux[c].closed
  <2> DEFINE t == [on |-> TRUE, lost |-> inflight[c], move |-> pending[c]]
  <2>1. pending' = [pending EXCEPT ![c] = <<>>] /\ tear' = [tear EXCEPT ![c] = t]
    BY <1>2 DEF teardownLocked
  <2>2. t.move = pending[c]
    OBVIOUS
  <2> HIDE DEF t
  <2> QED
    BY <1>2, <2>1, <2>2, PlacesTear
<1>3. CASE c \notin Conns /\ ~mux[c].closed
  <2>1. pending' = [pending EXCEPT ![c] = <<>>]
    BY <1>3 DEF teardownLocked
  <2>2. tear' = [tear EXCEPT ![c] = [on |-> TRUE, lost |-> inflight[c], move |-> pending[c]]]
    BY <1>3 DEF teardownLocked
  <2>3. pending' = pending
    BY <1>3, <2>1 DEF TypeOK
  <2>4. tear' = tear
    BY <1>3, <2>2 DEF TypeOK
  <2> QED
    BY <2>3, <2>4, <1>1
<1> QED
  BY <1>1, <1>2, <1>3 DEF teardownLocked

LEMMA PlacesFail ==
    ASSUME TypeOK, OnePlace, NewStays,
           \/ \E r \in Requests : Expire(r)
           \/ \E c \in Conns : ReadFail(c)
    PROVE  OnePlace'
<1>1. UNCHANGED <<plist, psignal, puts, writer>>
  BY DEF Expire, ReadFail, reqVars, poolVars
<1>2. \/ UNCHANGED <<pending, tear>>
      \/ \E c, cause : teardownLocked(c, cause, TRUE)
  BY DEF Expire, ReadFail
<1> QED
  BY <1>1, <1>2, BatchesStay, PlacesTearIn, PlacesIdle

LEMMA PlacesDialFail ==
    ASSUME TypeOK, OnePlace, NewStays, NEW c \in Conns, DialFail(c)
    PROVE  OnePlace'
<1>1. UNCHANGED <<plist, psignal, puts, writer>>
  BY DEF DialFail, reqVars, poolVars
<1>2. CASE mux[c].closed
  <2>1. pending' = [pending EXCEPT ![c] = pending[c]] /\ tear' = [tear EXCEPT ![c] = tear[c]]
    BY <1>2 DEF DialFail
  <2>2. UNCHANGED <<pending, tear>>
    BY <2>1 DEF TypeOK
  <2> QED
    BY <1>1, <2>2, BatchesStay, PlacesIdle
<1>3. CASE ~mux[c].closed
  <2> DEFINE t == [on |-> TRUE, lost |-> inflight[c], move |-> pending[c]]
  <2>1. pending' = [pending EXCEPT ![c] = <<>>] /\ tear' = [tear EXCEPT ![c] = t]
    BY <1>3 DEF DialFail
  <2>2. t.move = pending[c]
    OBVIOUS
  <2> HIDE DEF t
  <2> QED
    BY <1>1, <2>1, <2>2, BatchesStay, PlacesTear
<1> QED
  BY <1>2, <1>3

LEMMA PlacesWriterFail ==
    ASSUME TypeOK, OnePlace, NewStays, NEW c \in Conns, WriterFail(c)
    PROVE  OnePlace'
<1> DEFINE w == [writer[c] EXCEPT !.pc = IF mux[c].closed THEN "requeue" ELSE "tail"]
<1>1. /\ UNCHANGED <<plist, psignal, puts>> /\ writer' = [writer EXCEPT ![c] = w]
      /\ teardownLocked(c, writer[c].err, FALSE) /\ writer[c].pc = "fail"
      /\ writer[c] \in WriterFields /\ Distinct(writer[c].batch)
  BY DEF WriterFail, reqVars, poolVars, TypeOK, OnePlace, AllDistinct
<1>2. w.batch = writer[c].batch /\ w.pc \in {"requeue", "tail"}
  BY <1>1 DEF WriterFields
<1> HIDE DEF w
<1>3. Rest(w) \subseteq Rest(writer[c])
  BY <1>1, <1>2, RestShrinks DEF InRest
<1>4. BatchesShrink
  BY <1>1, <1>2, <1>3, BatchesAt
<1> QED
  BY <1>1, <1>4, PlacesTearIn

(* writeLoop takes the queue; what is not claimed is dropped. *)
LEMMA PlacesClaim ==
    ASSUME TypeOK, OnePlace, NewStays, NEW c \in Conns, Claim(c)
    PROVE  OnePlace'
<1> DEFINE I == {i \in 1..Len(pending[c]) : Claimable(pending[c][i])}
<1>0. pending[c] \in Seq(Requests) /\ Distinct(pending[c]) /\ Elems(<<>>) = {}
  BY DEF TypeOK, OnePlace, AllDistinct, Elems
<1>1. PICK f \in Enumerations(I) : writer' = [writer EXCEPT ![c] =
         IF Extract(pending[c], f) = <<>> THEN [NoWriter EXCEPT !.pc = "idle"]
         ELSE [NoWriter EXCEPT !.pc = "flush", !.batch = Extract(pending[c], f)]]
  BY DEF Claim
<1>2. UNCHANGED <<plist, psignal, puts, tear>> /\ pending' = [pending EXCEPT ![c] = <<>>]
  BY DEF Claim, poolVars
<1>3. PICK b : b = Extract(pending[c], f)
  OBVIOUS
<1>4. Distinct(b) /\ Elems(b) \subseteq Elems(pending[c])
  <2>1. I \in SUBSET (1..Len(pending[c]))
    OBVIOUS
  <2> HIDE DEF I
  <2>2. {pending[c][i] : i \in I} \subseteq Elems(pending[c])
    BY <2>1 DEF Elems
  <2> QED
    BY <1>0, <1>3, <2>1, <2>2, DistinctExtract, ExtractElems
<1> HIDE DEF I
<1>5. PICK w : /\ w = IF b = <<>> THEN [NoWriter EXCEPT !.pc = "idle"]
                      ELSE [NoWriter EXCEPT !.pc = "flush", !.batch = b]
               /\ writer' = [writer EXCEPT ![c] = w]
  BY <1>1, <1>3
<1>6. Distinct(w.batch) /\ Rest(w) \subseteq Elems(b)
  <2>1. CASE b = <<>>
    BY <1>5, <2>1, BatchEmpty
  <2>2. CASE b # <<>>
    <3>1. w.batch = b
      BY <1>5, <2>2 DEF NoWriter
    <3> QED
      BY <1>4, <3>1 DEF Rest, Elems
  <2> QED
    BY <2>1, <2>2
<1>7. \A k \in Conns : /\ writer'[k] = IF k = c THEN w ELSE writer[k]
                       /\ pending'[k] = IF k = c THEN <<>> ELSE pending[k]
  BY <1>2, <1>5 DEF TypeOK
<1>8. PICK M : M = Elems(pending[c])
  OBVIOUS
<1>9. Moves(M, "batch", c)
  BY <1>0, <1>2, <1>4, <1>6, <1>7, <1>8 DEF Moves, At
<1>10. \A r \in M : At("pending", c, r) /\ ~At("pending", c, r)'
  BY <1>0, <1>7, <1>8 DEF At
<1>11. Apart'
  BY <1>9, <1>10, ApartMoves DEF OnePlace
<1>12. \A r \in M : puts[r] = 0 /\ state'[r] # "new"
  <2>1. M \subseteq Requests
    BY <1>0, <1>8, ElemsType
  <2> QED
    BY <1>10, <2>1 DEF OnePlace, Untried, NewStays
<1>13. Untried'
  BY <1>2, <1>9, <1>12, UntriedStays DEF OnePlace
<1>14. AllDistinct'
  BY <1>2, <1>6, <1>7, DistinctNone DEF OnePlace, AllDistinct
<1> QED
  BY <1>11, <1>13, <1>14 DEF OnePlace

LEMMA PlacesRequeue ==
    ASSUME TypeOK, OnePlace, NewStays, NEW c \in Conns, WriterRequeue(c)
    PROVE  OnePlace'
<1>1. PICK q : q = writer[c].batch
  OBVIOUS
<1>2. /\ q \in Seq(Requests) /\ Distinct(q) /\ plist = <<>> /\ plist' = q
      /\ writer' = [writer EXCEPT ![c] = [NoWriter EXCEPT !.pc = "claim"]]
      /\ UNCHANGED <<psignal, puts, pending, tear>> /\ writer[c].pc \in {"requeue", "tail"}
  <2>1. q \in Seq(Requests) /\ Distinct(q)
    BY <1>1, WriterParts DEF TypeOK, OnePlace, AllDistinct
  <2>2. plist = <<>> /\ plist' = q
    BY <1>1 DEF WriterRequeue, detach
  <2>3. /\ writer' = [writer EXCEPT ![c] = [NoWriter EXCEPT !.pc = "claim"]]
        /\ UNCHANGED <<psignal, puts, pending, tear>> /\ writer[c].pc \in {"requeue", "tail"}
    BY DEF WriterRequeue, reqVars
  <2> QED
    BY <2>1, <2>2, <2>3
<1>3. BatchesShrink
  BY <1>2, BatchEmpty, BatchesAt
<1>4. \A r \in Elems(q) : At("batch", c, r)
  BY <1>1, <1>2 DEF Elems, At, Rest, InRest
<1>5. \A r : ~At("batch", c, r)'
  <2>1. writer'[c] = [NoWriter EXCEPT !.pc = "claim"]
    BY <1>2 DEF TypeOK
  <2>2. Rest(writer'[c]) = {}
    BY <2>1, BatchEmpty
  <2> QED
    BY <2>2 DEF At
<1> QED
  BY <1>2, <1>3, <1>4, <1>5, PlacesDetach

LEMMA PlacesTearDetach ==
    ASSUME TypeOK, OnePlace, NewStays, NEW c \in Conns, TearDetach(c)
    PROVE  OnePlace'
<1>0. Elems(<<>>) = {}
  BY DEF Elems
<1>1. PICK q : q = tear[c].move
  OBVIOUS
<1>2. /\ q \in Seq(Requests) /\ Distinct(q) /\ plist = <<>> /\ plist' = q
      /\ UNCHANGED <<psignal, puts, pending, writer>>
  BY <1>1 DEF TearDetach, detach, OnePlace, AllDistinct, reqVars, TypeOK, TearFields
<1>3. \A k \in Conns : tear'[k].move = IF k = c THEN <<>> ELSE tear[k].move
  BY DEF TearDetach, TypeOK, NoTear
<1>4. \A r \in Elems(q) : At("move", c, r) /\ ~At("move", c, r)'
  BY <1>0, <1>1, <1>3 DEF At
<1> QED
  BY <1>2, <1>3, <1>4, BatchesStay, PlacesDetach

LEMMA PlacesInit == Init => OnePlace
<1> SUFFICES ASSUME Init PROVE OnePlace
  OBVIOUS
<1>1. /\ plist = <<>> /\ \A c \in Conns : /\ pending[c] = <<>> /\ tear[c].move = <<>>
                                          /\ writer[c] = NoWriter
  BY DEF Init, NoTear
<1>2. Elems(<<>>) = {} /\ PoolRest(<<>>, psignal) = {}
  BY DEF Elems, PoolRest
<1>3. \A r, k, c : ~At(k, c, r)
  BY <1>1, <1>2, BatchEmpty DEF At
<1>4. AllDistinct
  BY <1>1, BatchEmpty, DistinctNone DEF AllDistinct
<1> QED
  BY <1>3, <1>4 DEF OnePlace, Apart, Untried

(* A call that is queued, or not yet made, has not been written. *)
Unsent == \A r \in Requests : state[r] \in {"new", "queued"} => puts[r] = 0

LEMMA PlacesNext ==
    ASSUME TypeOK, OnePlace, Unsent, [Next]_vars
    PROVE  OnePlace'
<1>0. NewStays
  BY NewForGood
<1>1. ASSUME NEW r \in Requests, Exchange(r) PROVE OnePlace'
  BY <1>0, <1>1, PlacesExchange DEF Exchange, Unsent
<1>2. ASSUME NEW c \in Conns, WriterStep(c) PROVE OnePlace'
  BY <1>0, <1>2, PlacesWriter, PlacesDialFail, PlacesClaim, PlacesSettle, PlacesWriterFail,
     PlacesRequeue, PlacesWrite DEF WriterStep, WriterRuns
<1>3. ASSUME NEW c \in Conns, ReaderStep(c) PROVE OnePlace'
  BY <1>0, <1>3, PlacesIdleSteps, PlacesFail DEF ReaderStep
<1>4. ASSUME NEW c \in Conns, TearStep(c) \/ Drain(c) PROVE OnePlace'
  BY <1>0, <1>4, PlacesTearSettle, PlacesTearDetach, PlacesDrain DEF TearStep
<1>5. CASE PoolStep
  BY <1>0, <1>5, PlacesAdd, PlacesTail, PlacesPick DEF PoolStep
<1>6. ASSUME NEW r \in Requests,
             ExchangeRefused(r) \/ Cancel(r) \/ Deadline(r) \/ CallerStep(r)
      PROVE  OnePlace'
  BY <1>0, <1>6, PlacesIdleSteps, PlacesFail DEF CallerStep
<1>7. ASSUME NEW c \in Conns, Answer(c) \/ AnswerError(c) \/ Break(c) PROVE OnePlace'
  BY <1>0, <1>7, PlacesIdleSteps
<1>8. CASE CancelRoot \/ PoolClose \/ Finished \/ UNCHANGED vars
  BY <1>0, <1>8, PlacesIdleSteps
<1> QED
  BY <1>1, <1>2, <1>3, <1>4, <1>5, <1>6, <1>7, <1>8 DEF Next, CloseStep

-----------------------------------------------------------------------------
(* The requests handed to a socket and not yet answered *)

HandedAt(q, w, i) == i \in 1..Len(q) /\ i <= Handed(q, w)

(* r is the i-th request whose answer connection c awaits. *)
Awaits(c, i, r) == HandedAt(inflight[c], writer[c], i) /\ inflight[c][i] = r

Keeps(c) == \A i, r : Awaits(c, i, r)' => Awaits(c, i, r)

LEMMA KeepsSame == UNCHANGED <<inflight, writer>> => \A c \in Conns : Keeps(c)
BY DEF Keeps, Awaits

LEMMA KeepsEmpty ==
    ASSUME NEW c \in Conns, inflight'[c] = <<>>
    PROVE  Keeps(c)
BY DEF Keeps, Awaits, HandedAt

(* The writer does something else, or is done with all of its batch. *)
LEMMA KeepsWriter ==
    ASSUME TypeOK, NEW c \in Conns, NEW w, writer' = [writer EXCEPT ![c] = w], w.pc # "flush",
           inflight' = inflight,
           writer[c].pc = "flush" => inflight[c] = <<>> \/ writer[c].n = Len(writer[c].batch)
    PROVE  \A k \in Conns : Keeps(k)
<1>1. \A k \in Conns : writer'[k] = IF k = c THEN w ELSE writer[k]
  BY DEF TypeOK
<1>2. ASSUME NEW k \in Conns, k # c PROVE Keeps(k)
  BY <1>1, <1>2 DEF Keeps, Awaits
<1>3. CASE inflight[c] = <<>>
  BY <1>2, <1>3, KeepsEmpty
<1>4. CASE writer[c].pc # "flush" \/ writer[c].n = Len(writer[c].batch)
  <2>1. writer[c].n \in Nat /\ Len(inflight[c]) \in Nat
    BY WriterParts DEF TypeOK
  <2>2. Handed(inflight[c], writer[c]) = Len(inflight[c])
    BY <1>4, <2>1 DEF Handed, Unwritten
  <2>3. Handed(inflight'[c], writer'[c]) = Len(inflight[c])
    BY <1>1 DEF Handed
  <2>4. Keeps(c)
    BY <2>2, <2>3 DEF Keeps, Awaits, HandedAt
  <2> QED
    BY <1>2, <2>4
<1> QED
  BY <1>3, <1>4

LEMMA KeepsTear ==
    ASSUME TypeOK, NEW c, NEW cause, NEW headSaw, teardownLocked(c, cause, headSaw),
           \/ writer' = writer
           \/ /\ c \in Conns /\ writer[c].pc # "flush"
              /\ \E w : writer' = [writer EXCEPT ![c] = w] /\ w.pc # "flush"
    PROVE  \A k \in Conns : Keeps(k)
<1>1. inflight' = inflight \/ inflight' = [inflight EXCEPT ![c] = <<>>]
  BY DEF teardownLocked
<1>2. CASE inflight' = inflight
  BY <1>2, KeepsSame, KeepsWriter
<1>3. CASE inflight' = [inflight EXCEPT ![c] = <<>>]
  <2>1. \A k \in Conns : /\ k = c => inflight'[k] = <<>>
                         /\ k # c => inflight'[k] = inflight[k] /\ writer'[k] = writer[k]
    BY <1>3 DEF TypeOK
  <2> QED
    BY <2>1, KeepsEmpty DEF Keeps, Awaits
<1> QED
  BY <1>1, <1>2, <1>3

LEMMA KeepsPick ==
    ASSUME TypeOK, NEW c \in Conns, pickLocked(c)
    PROVE  \A k \in Conns : Keeps(k)
<1>1. \/ UNCHANGED <<inflight, writer>>
      \/ /\ inflight' = [inflight EXCEPT ![c] = <<>>]
         /\ writer' = [writer EXCEPT ![c] = NoWriter]
  BY DEF pickLocked
<1>2. CASE inflight' = [inflight EXCEPT ![c] = <<>>] /\ writer' = [writer EXCEPT ![c] = NoWriter]
  <2>1. \A k \in Conns : /\ k = c => inflight'[k] = <<>>
                         /\ k # c => inflight'[k] = inflight[k] /\ writer'[k] = writer[k]
    BY <1>2 DEF TypeOK
  <2> QED
    BY <2>1, KeepsEmpty DEF Keeps, Awaits
<1> QED
  BY <1>1, <1>2, KeepsSame

(* What is claimed is not handed over yet. *)
LEMMA KeepsClaim ==
    ASSUME TypeOK, NEW c \in Conns, Claim(c)
    PROVE  \A k \in Conns : Keeps(k)
<1> DEFINE I == {i \in 1..Len(pending[c]) : Claimable(pending[c][i])}
<1>1. PICK f \in Enumerations(I) :
        /\ inflight' = [inflight EXCEPT ![c] = inflight[c] \o Extract(pending[c], f)]
        /\ writer' = [writer EXCEPT ![c] =
             IF Extract(pending[c], f) = <<>> THEN [NoWriter EXCEPT !.pc = "idle"]
             ELSE [NoWriter EXCEPT !.pc = "flush", !.batch = Extract(pending[c], f)]]
  BY DEF Claim, Enlist
<1>2. PICK b : b = Extract(pending[c], f)
  OBVIOUS
<1>3. b \in Seq(Requests) /\ inflight[c] \in Seq(Requests) /\ pending[c] \in Seq(Requests)
  <2>1. I \in SUBSET (1..Len(pending[c])) /\ pending[c] \in Seq(Requests)
    BY DEF TypeOK
  <2> HIDE DEF I
  <2> QED
    BY <1>2, <2>1, ExtractElems DEF TypeOK
<1>4. PICK w : w = IF b = <<>> THEN [NoWriter EXCEPT !.pc = "idle"]
                   ELSE [NoWriter EXCEPT !.pc = "flush", !.batch = b]
  OBVIOUS
<1>5. \A k \in Conns : /\ inflight'[k] = IF k = c THEN inflight[c] \o b ELSE inflight[k]
                       /\ writer'[k] = IF k = c THEN w ELSE writer[k]
  BY <1>1, <1>2, <1>4 DEF TypeOK
<1>6. PICK m \in Nat, n \in Nat : m = Len(inflight[c]) /\ n = Len(b)
  BY <1>3
<1>7. /\ Len(inflight[c] \o b) = m + n
      /\ \A i \in 1..m : (inflight[c] \o b)[i] = inflight[c][i]
  BY <1>3, <1>6
<1>8. Handed(inflight[c] \o b, w) <= m
  <2>1. CASE b = <<>>
    BY <1>4, <1>6, <1>7, <2>1 DEF Handed, NoWriter
  <2>2. CASE b # <<>>
    <3>1. w.pc = "flush" /\ w.batch = b /\ w.n = 0
      BY <1>4, <2>2 DEF NoWriter
    <3>2. Handed(inflight[c] \o b, w) = (m + n) - (n - 0)
      BY <1>6, <1>7, <3>1 DEF Handed, Unwritten
    <3> QED
      BY <3>2
  <2> QED
    BY <2>1, <2>2
<1>9. Handed(inflight[c] \o b, w) \in Int
  <2>1. CASE b = <<>>
    BY <1>4, <1>6, <1>7, <2>1 DEF Handed, NoWriter
  <2>2. CASE b # <<>>
    <3>1. w.pc = "flush" /\ w.batch = b /\ w.n = 0
      BY <1>4, <2>2 DEF NoWriter
    <3> QED
      BY <1>6, <1>7, <3>1 DEF Handed, Unwritten
  <2> QED
    BY <2>1, <2>2
<1>10. \A i : HandedAt(inflight[c] \o b, w, i) =>
                i \in 1..m /\ (inflight[c] \o b)[i] = inflight[c][i]
  BY <1>6, <1>7, <1>8, <1>9 DEF HandedAt
<1>11. writer[c].pc # "flush"
  BY DEF Claim
<1>12. Handed(inflight[c], writer[c]) = m
  BY <1>6, <1>11 DEF Handed
<1>13. Keeps(c)
  <2>1. ASSUME NEW i, NEW r, Awaits(c, i, r)' PROVE Awaits(c, i, r)
    <3>1. HandedAt(inflight[c] \o b, w, i) /\ (inflight[c] \o b)[i] = r
      BY <1>5, <2>1 DEF Awaits
    <3>2. i \in 1..m /\ inflight[c][i] = r
      BY <1>10, <3>1
    <3> QED
      BY <1>6, <1>12, <3>2 DEF Awaits, HandedAt
  <2> QED
    BY <2>1 DEF Keeps
<1> QED
  BY <1>5, <1>13 DEF Keeps, Awaits

(* A failed flush cuts what it had not handed over. *)
LEMMA KeepsCut ==
    ASSUME TypeOK, AllSound, NEW c \in Conns, NEW part \in BOOLEAN,
           NEW err \in {"io", "iotimeout"}, FlushFail(c, part, err)
    PROVE  \A k \in Conns : Keeps(k)
<1> DEFINE q == CutTail(inflight[c], Len(writer[c].batch) - writer[c].n)
           w == [writer[c] EXCEPT !.pc = "settle", !.err = err, !.part = part,
                    !.closed = mux[c].closed, !.served = mux[c].served]
<1>0. /\ writer[c].pc = "flush" /\ writer' = [writer EXCEPT ![c] = w]
      /\ writer[c] \in WriterFields
      /\ Sound(mux[c], inflight[c], writer[c], sock[c], state)
  BY DEF FlushFail, AllSound, SoundAt, TypeOK
<1>1. w.pc = "settle"
  BY <1>0 DEF WriterFields
<1> HIDE DEF w
<1>2. CASE mux[c].closed
  <2>1. inflight' = inflight /\ inflight[c] = <<>>
    BY <1>0, <1>2 DEF FlushFail, Sound
  <2> QED
    BY <1>0, <1>1, <2>1, KeepsWriter
<1>3. CASE ~mux[c].closed
  <2>1. inflight' = [inflight EXCEPT ![c] = q]
    BY <1>3 DEF FlushFail
  <2>2. mux[c].dial = "up" /\ Flushing(inflight[c], writer[c])
    BY <1>0, <1>3 DEF Sound, Lives, Streaming
  <2>3. /\ Len(inflight[c]) \in Nat /\ inflight[c] \in Seq(Requests)
        /\ Handed(inflight[c], writer[c]) \in 0..Len(inflight[c])
        /\ q = SubSeq(inflight[c], 1, Handed(inflight[c], writer[c]))
    BY <1>0, <2>2 DEF Flushing, Handed, Unwritten, CutTail, TypeOK
  <2>4. PICK h \in Nat : h = Handed(inflight[c], writer[c])
    BY <2>3
  <2>5. h <= Len(inflight[c]) /\ Len(q) = h /\ \A i \in 1..h : q[i] = inflight[c][i]
    BY <2>3, <2>4
  <2> HIDE DEF q
  <2>6. \A k \in Conns : /\ inflight'[k] = IF k = c THEN q ELSE inflight[k]
                         /\ writer'[k] = IF k = c THEN w ELSE writer[k]
    BY <1>0, <2>1 DEF TypeOK
  <2>7. Keeps(c)
    <3>1. ASSUME NEW i, NEW r, Awaits(c, i, r)' PROVE Awaits(c, i, r)
      <4>1. HandedAt(q, w, i) /\ q[i] = r
        BY <2>6, <3>1 DEF Awaits
      <4>2. i \in 1..h /\ inflight[c][i] = r
        BY <2>5, <4>1 DEF HandedAt
      <4>3. i \in 1..Len(inflight[c]) /\ i <= h
        BY <2>3, <2>5, <4>2
      <4> QED
        BY <2>4, <4>2, <4>3 DEF Awaits, HandedAt
    <3> QED
      BY <3>1 DEF Keeps
  <2> QED
    BY <2>6, <2>7 DEF Keeps, Awaits
<1> QED
  BY <1>2, <1>3

(* The writer hands one request over, behind the others. *)
LEMMA AwaitsWrite ==
    ASSUME TypeOK, AllSound, NEW c \in Conns, Write(c)
    PROVE  /\ \A k \in Conns \ {c} : Keeps(k)
           /\ \A i, r : Awaits(c, i, r)' =>
                \/ Awaits(c, i, r)
                \/ /\ r = writer[c].batch[writer[c].n + 1]
                   /\ i = Handed(inflight[c], writer[c]) + 1
<1> DEFINE w == [writer[c] EXCEPT !.n = writer[c].n + 1]
<1>0. /\ writer[c].pc = "flush" /\ writer' = [writer EXCEPT ![c] = w] /\ inflight' = inflight
      /\ writer[c] \in WriterFields /\ ~mux[c].closed /\ writer[c].n < Len(writer[c].batch)
      /\ Sound(mux[c], inflight[c], writer[c], sock[c], state)
  BY DEF Write, AllSound, SoundAt, TypeOK
<1>1. /\ w.pc = "flush" /\ w.n = writer[c].n + 1 /\ w.batch = writer[c].batch
      /\ writer[c].n \in Nat /\ writer[c].batch \in Seq(Requests)
      /\ Len(writer[c].batch) \in Nat
  BY <1>0, WriterParts DEF WriterFields
<1> HIDE DEF w
<1>2. mux[c].dial = "up" /\ Flushing(inflight[c], writer[c]) /\ Len(inflight[c]) \in Nat
  BY <1>0 DEF Sound, Lives, Streaming, TypeOK
<1>3. PICK h \in Nat : h = Handed(inflight[c], writer[c])
  BY <1>0, <1>1, <1>2 DEF Flushing, Handed, Unwritten
<1>4. Handed(inflight[c], w) = h + 1
  <2>1. PICK m \in Nat, n \in Nat, l \in Nat :
          m = Len(inflight[c]) /\ n = Len(writer[c].batch) /\ l = writer[c].n
    BY <1>1, <1>2
  <2>2. h = m - (n - l)
    BY <1>0, <1>3, <2>1 DEF Handed, Unwritten
  <2>3. Handed(inflight[c], w) = m - (n - (l + 1))
    BY <1>1, <2>1 DEF Handed, Unwritten
  <2> QED
    BY <2>2, <2>3
<1>5. inflight[c][h + 1] = writer[c].batch[writer[c].n + 1]
  <2>1. 1 \in 1..Unwritten(writer[c])
    BY <1>0, <1>1 DEF Unwritten
  <2> QED
    BY <1>2, <1>3, <2>1 DEF Flushing
<1>6. \A k \in Conns : writer'[k] = IF k = c THEN w ELSE writer[k]
  BY <1>0 DEF TypeOK
<1>7. ASSUME NEW i, NEW r, Awaits(c, i, r)'
      PROVE  \/ Awaits(c, i, r)
             \/ r = writer[c].batch[writer[c].n + 1] /\ i = h + 1
  <2>1. i \in 1..Len(inflight[c]) /\ i <= h + 1 /\ inflight[c][i] = r
    BY <1>0, <1>4, <1>6, <1>7 DEF Awaits, HandedAt
  <2>2. i <= h \/ i = h + 1
    BY <1>2, <2>1
  <2> QED
    BY <1>3, <1>5, <2>1, <2>2 DEF Awaits, HandedAt
<1>8. \A k \in Conns \ {c} : Keeps(k)
  BY <1>0, <1>6 DEF Keeps, Awaits
<1> QED
  BY <1>3, <1>7, <1>8

(* The reader takes the oldest one off. *)
LEMMA AwaitsRead ==
    ASSUME TypeOK, AllSound, NEW c \in Conns, ReadLast(c)
    PROVE  /\ \A k \in Conns \ {c} : Keeps(k)
           /\ \A i, r : Awaits(c, i, r)' => i + 1 # 1 /\ Awaits(c, i + 1, r)
<1>1. /\ inflight' = [inflight EXCEPT ![c] = Tail(inflight[c])] /\ writer' = writer
      /\ inflight[c] \in Seq(Requests) /\ inflight[c] # <<>>
  BY DEF ReadLast, TypeOK
<1>2. PICK p : p = Tail(inflight[c])
  OBVIOUS
<1>3. /\ Len(p) \in Nat /\ Len(inflight[c]) = Len(p) + 1
      /\ \A i \in 1..Len(p) : p[i] = inflight[c][i + 1]
  BY <1>1, <1>2, TailProperties
<1>4. \A k \in Conns : inflight'[k] = IF k = c THEN p ELSE inflight[k]
  BY <1>1, <1>2 DEF TypeOK
<1>5. writer[c].n \in Nat /\ Len(writer[c].batch) \in Nat
  BY WriterParts DEF TypeOK
<1>6. PICK u \in Int : u = IF writer[c].pc = "flush" THEN Unwritten(writer[c]) ELSE 0
  BY <1>5 DEF Unwritten
<1>7. /\ Handed(p, writer[c]) = Len(p) - u
      /\ Handed(inflight[c], writer[c]) = (Len(p) + 1) - u
  BY <1>3, <1>6 DEF Handed
<1>8. ASSUME NEW i, NEW r, Awaits(c, i, r)' PROVE i + 1 # 1 /\ Awaits(c, i + 1, r)
  <2>1. i \in 1..Len(p) /\ i <= Len(p) - u /\ p[i] = r
    BY <1>1, <1>4, <1>7, <1>8 DEF Awaits, HandedAt
  <2>2. i + 1 \in 1..Len(inflight[c]) /\ i + 1 <= (Len(p) + 1) - u /\ i + 1 # 1
    BY <1>3, <2>1
  <2> QED
    BY <1>3, <1>7, <2>1, <2>2 DEF Awaits, HandedAt
<1>9. \A k \in Conns \ {c} : Keeps(k)
  BY <1>1, <1>4 DEF Keeps, Awaits
<1> QED
  BY <1>8, <1>9

(* No other step hands a request over, or changes their order. *)
LEMMA KeepsNext ==
    ASSUME TypeOK, AllSound, [Next]_vars, ~ \E c \in Conns : Write(c) \/ ReadLast(c)
    PROVE  \A k \in Conns : Keeps(k)
<1> DEFINE Goal == \A k \in Conns : Keeps(k)
<1>1. ASSUME NEW r \in Requests, Exchange(r) PROVE Goal
  BY <1>1, KeepsPick DEF Exchange
<1>2. ASSUME NEW r \in Requests,
             ExchangeRefused(r) \/ Cancel(r) \/ Deadline(r) \/ CallerStep(r)
      PROVE  Goal
  <2>1. ASSUME Expire(r) PROVE Goal
    <3>1. UNCHANGED writer /\ (UNCHANGED inflight \/ teardownLocked(rconn[r], "deadline", TRUE))
      BY <2>1 DEF Expire
    <3> QED
      BY <3>1, KeepsSame, KeepsTear
  <2>2. ExchangeRefused(r) \/ Cancel(r) \/ Deadline(r) \/ Orphan(r) \/ GiveUpQueued(r)
        \/ GiveUpWriting(r) \/ MissQueued(r) \/ MissWriting(r)
        => UNCHANGED <<inflight, writer>>
    BY DEF ExchangeRefused, Cancel, Deadline, Orphan, GiveUpQueued, GiveUpWriting, MissQueued,
       MissWriting, connVars
  <2> QED
    BY <1>2, <2>1, <2>2, KeepsSame DEF CallerStep
<1>3. ASSUME NEW c \in Conns, WriterStep(c) PROVE Goal
  <2>1. CASE DialOK(c) \/ DialFail(c)
    <3>1. CASE UNCHANGED <<inflight, writer>>
      BY <3>1, KeepsSame
    <3>2. CASE inflight' = inflight /\ mux[c].dial = "dialing"
               /\ writer' = [writer EXCEPT ![c] = [NoWriter EXCEPT !.pc = "idle"]]
      <4>1. [NoWriter EXCEPT !.pc = "idle"].pc # "flush" /\ writer[c].pc = "off"
        BY <3>2 DEF NoWriter, AllSound, SoundAt, Sound
      <4> QED
        BY <3>2, <4>1, KeepsWriter
    <3> QED
      BY <2>1, <3>1, <3>2 DEF DialOK, DialFail
  <2>2. CASE WriterWake(c)
    <3>1. writer[c] \in WriterFields
      BY DEF TypeOK
    <3>2. /\ writer' = [writer EXCEPT ![c] = [writer[c] EXCEPT !.pc = "claim"]]
          /\ inflight' = inflight /\ writer[c].pc = "idle"
          /\ [writer[c] EXCEPT !.pc = "claim"].pc # "flush"
      BY <2>2, <3>1 DEF WriterWake, WriterFields
    <3> QED
      BY <3>2, KeepsWriter
  <2>3. CASE WriterExit(c) \/ WriterRequeue(c)
    <3>1. \E p \in {"exit", "claim"} :
             /\ writer' = [writer EXCEPT ![c] = [NoWriter EXCEPT !.pc = p]]
             /\ inflight' = inflight /\ writer[c].pc # "flush"
             /\ [NoWriter EXCEPT !.pc = p].pc # "flush"
      BY <2>3 DEF WriterExit, WriterRequeue, NoWriter
    <3> QED
      BY <3>1, KeepsWriter
  <2>4. CASE Claim(c)
    BY <2>4, KeepsClaim
  <2>5. CASE FlushDone(c)
    <3>1. writer[c] \in WriterFields
      BY DEF TypeOK
    <3>2. PICK w : writer' = [writer EXCEPT ![c] = w] /\ w.pc # "flush"
      <4>1. CASE mux[c].closed
        <5>1. writer' = [writer EXCEPT ![c] = [writer[c] EXCEPT !.pc = "settle",
                            !.closed = TRUE, !.served = mux[c].served]]
          BY <2>5, <4>1 DEF FlushDone
        <5>2. [writer[c] EXCEPT !.pc = "settle",
                            !.closed = TRUE, !.served = mux[c].served].pc = "settle"
          BY <3>1 DEF WriterFields
        <5> QED
          BY <5>1, <5>2
      <4>2. CASE ~mux[c].closed
        BY <2>5, <4>2 DEF FlushDone, NoWriter
      <4> QED
        BY <4>1, <4>2
    <3>3. inflight' = inflight /\ writer[c].n = Len(writer[c].batch)
      BY <2>5 DEF FlushDone
    <3> QED
      BY <3>2, <3>3, KeepsWriter
  <2>6. CASE \E part \in BOOLEAN, err \in {"io", "iotimeout"} : FlushFail(c, part, err)
    BY <2>6, KeepsCut
  <2>7. CASE SettleBatch(c)
    <3>1. writer[c] \in WriterFields /\ writer[c].pc # "flush" /\ inflight' = inflight
      BY <2>7 DEF TypeOK, SettleBatch
    <3>2. PICK b : writer' = [writer EXCEPT ![c] = [writer[c] EXCEPT !.batch = b,
                                  !.pc = IF writer[c].err = "nil" THEN "claim" ELSE "fail"]]
      BY <2>7 DEF SettleBatch
    <3>3. [writer[c] EXCEPT !.batch = b,
             !.pc = IF writer[c].err = "nil" THEN "claim" ELSE "fail"].pc # "flush"
      BY <3>1 DEF WriterFields
    <3> QED
      BY <3>1, <3>2, <3>3, KeepsWriter
  <2>8. CASE WriterFail(c)
    <3>1. writer[c] \in WriterFields /\ writer[c].pc = "fail"
          /\ teardownLocked(c, writer[c].err, FALSE)
      BY <2>8 DEF TypeOK, WriterFail
    <3>2. PICK p \in {"requeue", "tail"} :
             writer' = [writer EXCEPT ![c] = [writer[c] EXCEPT !.pc = p]]
      BY <2>8 DEF WriterFail
    <3>3. [writer[c] EXCEPT !.pc = p].pc # "flush"
      BY <3>1 DEF WriterFields
    <3> QED
      BY <3>1, <3>2, <3>3, KeepsTear
  <2> QED
    BY <1>3, <2>1, <2>2, <2>3, <2>4, <2>5, <2>6, <2>7, <2>8 DEF WriterStep, WriterRuns
<1>4. ASSUME NEW c \in Conns, ReadFail(c) PROVE Goal
  <2>1. UNCHANGED writer /\ \E cause : teardownLocked(c, cause, TRUE)
    BY <1>4 DEF ReadFail
  <2> QED
    BY <2>1, KeepsTear
<1>5. ASSUME NEW c \in Conns,
             \/ ReadPart(c) \/ Deliver(c) \/ ReaderExit(c) \/ TearStep(c)
             \/ Answer(c) \/ AnswerError(c) \/ Break(c) \/ Drain(c)
      PROVE  Goal
  <2>1. UNCHANGED <<inflight, writer>>
    BY <1>5 DEF ReadPart, Deliver, ReaderExit, TearStep, TearSettle, TearDetach, Answer,
       AnswerError, Break, Drain
  <2> QED
    BY <2>1, KeepsSame
<1>6. CASE PoolStep
  <2>1. CASE DetachPick
    BY <2>1, KeepsPick DEF DetachPick
  <2>2. CASE PoolAdd \/ PoolSignal \/ DetachSkip \/ DetachFail
    BY <2>2, KeepsSame DEF PoolAdd, PoolSignal, DetachSkip, DetachFail, connVars
  <2> QED
    BY <1>6, <2>1, <2>2 DEF PoolStep
<1>7. CASE CancelRoot \/ PoolClose \/ Finished \/ UNCHANGED vars
  BY <1>7, KeepsSame DEF CancelRoot, PoolClose, Finished, vars, connVars
<1> QED
  BY <1>1, <1>2, <1>3, <1>4, <1>5, <1>6, <1>7 DEF Next, CloseStep, ReaderStep

-----------------------------------------------------------------------------
(* The contract: what a step does to a call *)

(* r will be written whatever happens to its caller. *)
Pledged(c, r) == At("batch", c, r) /\ writer[c].pc = "flush"

(* A call whose outcome is open has none yet. *)
Unsettled == \A r \in Requests : state[r] # "done" => res[r] = Unset

(* A call that will be written is not settled, except by an outcome that   *)
(* says that all of it may have been written.                              *)
Promised ==
    \A r \in Requests : \A c : Pledged(c, r) =>
        state[r] = "writing" \/ (state[r] = "done" /\ res[r].wrote = "all")

(* A call whose answer is awaited or being delivered was written once. *)
Sent ==
    /\ \A r \in Requests, c \in Conns : \A i : Awaits(c, i, r) => puts[r] = 1
    /\ \A c \in Conns : reader[c].pc = "deliver" =>
          reader[c].head \in Requests /\ puts[reader[c].head] = 1

Accounted == OnePlace /\ Unsent /\ Unsettled /\ Promised /\ Sent

(* A reader is handing r its complete answer. *)
Delivering(r) == \E c \in Conns : reader[c].pc = "deliver" /\ reader[c].head = r

(* The outcome o may be given to r: it succeeds on a complete answer only, *)
(* and is called unwritten only if it never was, nor will be, written.     *)
Deserves(r, o) ==
    /\ o.err = "ok" => Delivering(r)
    /\ o.wrote # "all" => puts[r] = 0 /\ \A c : ~Pledged(c, r)'

(* What a step may do to the call r: settle it, claim it, or let it wait   *)
(* for a connection.                                                       *)
Effect(r) ==
    \/ state'[r] = state[r] /\ res'[r] = res[r]
    \/ state[r] # "done" /\ state'[r] = "done" /\ Deserves(r, res'[r])
    \/ state[r] # "done" /\ state'[r] = "writing" /\ res'[r] = res[r]
    \/ /\ state[r] # "done" /\ state'[r] = "queued" /\ res'[r] = res[r]
       /\ puts[r] = 0 /\ \A c : ~Pledged(c, r)'

LEMMA NotPledged ==
    ASSUME Accounted, writer' = writer, NEW r \in Requests,
           \/ state[r] \in {"new", "queued"}
           \/ \E k, c : At(k, c, r) /\ k # "batch"
    PROVE  puts[r] = 0 /\ \A c : ~Pledged(c, r)'
<1>1. puts[r] = 0 /\ \A c : ~Pledged(c, r)
  BY DEF Accounted, OnePlace, Unsent, Untried, Promised, Apart, Pledged
<1>2. \A c : Pledged(c, r)' => Pledged(c, r)
  BY DEF Pledged, At
<1> QED
  BY <1>1, <1>2

LEMMA EffectComplete ==
    ASSUME TypeOK, NEW R, complete(R), NEW r \in Requests,
           r \in DOMAIN R /\ Open(r) => Deserves(r, R[r])
    PROVE  Effect(r)
<1>1. CASE r \in DOMAIN R /\ Open(r)
  BY <1>1 DEF complete, Effect, Open, Deserves
<1>2. CASE ~(r \in DOMAIN R /\ Open(r))
  BY <1>2 DEF complete, Effect
<1> QED
  BY <1>1, <1>2

LEMMA ResultFields ==
    /\ \A e, x : Result(e, x).err = e /\ Result(e, x).wrote = x
    /\ \A why : Lost(why).err = "lost" /\ Lost(why).wrote = "all"
BY DEF Result, Lost

LEMMA EffectCaller ==
    ASSUME TypeOK, Accounted, NEW q \in Requests, NEW r \in Requests,
           ExchangeRefused(q) \/ GiveUpQueued(q) \/ GiveUpWriting(q)
    PROVE  Effect(r)
<1>1. CASE r # q
  BY <1>1 DEF ExchangeRefused, GiveUpQueued, GiveUpWriting, Effect, TypeOK
<1>2. CASE r = q
  <2>1. /\ state[q] # "done" /\ state'[q] = "done" /\ writer' = writer
        /\ CtxErr(q) # "ok"
    BY DEF ExchangeRefused, GiveUpQueued, GiveUpWriting, TypeOK, connVars, CtxErr
  <2>2. CASE ExchangeRefused(q) \/ GiveUpQueued(q)
    <3>1. res'[q].err # "ok"
      BY <2>1, <2>2, ResultFields DEF ExchangeRefused, GiveUpQueued, TypeOK
    <3>2. state[q] \in {"new", "queued"}
      BY <2>2 DEF ExchangeRefused, GiveUpQueued
    <3> QED
      BY <1>2, <2>1, <3>1, <3>2, NotPledged DEF Effect, Deserves
  <2>3. CASE GiveUpWriting(q)
    <3>1. res'[q].err # "ok" /\ res'[q].wrote = "all"
      BY <2>1, <2>3, ResultFields DEF GiveUpWriting, TypeOK
    <3> QED
      BY <1>2, <2>1, <3>1 DEF Effect, Deserves
  <2> QED
    BY <2>2, <2>3
<1> QED
  BY <1>1, <1>2

LEMMA EffectExchange ==
    ASSUME TypeOK, Accounted, NEW q \in Requests, NEW r \in Requests, Exchange(q)
    PROVE  Effect(r)
<1>1. /\ state[q] = "new" /\ state' = [state EXCEPT ![q] = "queued"] /\ res' = res
      /\ UNCHANGED <<puts, tear, pending>>
  BY DEF Exchange
<1>2. CASE r # q
  BY <1>1, <1>2 DEF Effect, TypeOK
<1>3. CASE r = q
  <2>1. puts[q] = 0 /\ \A k, c : ~At(k, c, q)
    BY <1>1 DEF Accounted, OnePlace, Untried, Unsent
  <2>2. BatchesShrink
    BY BatchesPick DEF Exchange, Accounted
  <2>3. \A c : ~Pledged(c, q)'
    BY <2>1, <2>2 DEF Pledged, At, BatchesShrink
  <2> QED
    BY <1>1, <1>3, <2>1, <2>3 DEF Effect, TypeOK
<1> QED
  BY <1>2, <1>3

LEMMA EffectClaim ==
    ASSUME TypeOK, NEW c \in Conns, NEW r \in Requests, Claim(c)
    PROVE  Effect(r)
<1> DEFINE I == {i \in 1..Len(pending[c]) : Claimable(pending[c][i])}
<1>1. PICK f \in Enumerations(I) :
        state' = [x \in Requests |->
                    IF x \in Elems(Extract(pending[c], f)) THEN "writing" ELSE state[x]]
  BY DEF Claim
<1>2. I \in SUBSET (1..Len(pending[c])) /\ pending[c] \in Seq(Requests) /\ res' = res
  BY DEF TypeOK, Claim
<1>3. \A i \in I : state[pending[c][i]] = "queued"
  BY DEF Claimable
<1> HIDE DEF I
<1>4. r \in Elems(Extract(pending[c], f)) => state[r] = "queued"
  BY <1>2, <1>3, ExtractElems
<1> QED
  BY <1>1, <1>2, <1>4 DEF Effect

(* What flush's switch does to its batch. *)
LEMMA EffectSettle ==
    ASSUME TypeOK, Accounted, NEW c \in Conns, NEW r \in Requests, SettleBatch(c)
    PROVE  Effect(r)
<1> DEFINE I == {i \in 1..Len(writer[c].batch) : Requeued(c, i)}
           S == {i \in 1..Len(writer[c].batch) :
                    i \notin I /\ (i <= writer[c].n => writer[c].closed)}
           settles == Open(r) /\ \E i \in S : writer[c].batch[i] = r
<1>0. /\ writer[c] \in WriterFields /\ writer[c].pc = "settle" /\ writer[c].n \in Nat
      /\ writer[c].err \in {"nil", "io", "iotimeout"} /\ puts' = puts /\ tear' = tear
  BY WriterParts DEF TypeOK, SettleBatch, WriterFields
<1>1. /\ state'[r] = IF settles THEN "done"
                     ELSE IF \E i \in I : writer[c].batch[i] = r THEN "queued" ELSE state[r]
      /\ res'[r] = IF settles THEN FlushResult(c, CHOOSE i \in S : writer[c].batch[i] = r)
                   ELSE res[r]
  BY DEF SettleBatch
<1>2. PICK b : writer' = [writer EXCEPT ![c] = [writer[c] EXCEPT !.batch = b,
                              !.pc = IF writer[c].err = "nil" THEN "claim" ELSE "fail"]]
  BY DEF SettleBatch
<1>3. \A k \in Conns : /\ k = c => writer'[k].pc # "flush"
                       /\ k # c => writer'[k] = writer[k]
  BY <1>0, <1>2 DEF TypeOK, WriterFields
(* a request that was not handed over is nowhere else *)
<1>4. ASSUME NEW i \in 1..Len(writer[c].batch), i > writer[c].n, writer[c].batch[i] = r
      PROVE  puts[r] = 0 /\ \A k : ~Pledged(k, r)'
  <2>1. At("batch", c, r)
    BY <1>0, <1>4 DEF At, Rest, InRest
  <2>2. puts[r] = 0 /\ \A k : At("batch", k, r) => k = c
    BY <2>1 DEF Accounted, OnePlace, Untried, Apart
  <2>3. ASSUME NEW k, Pledged(k, r)' PROVE FALSE
    <3>1. k \in Conns /\ writer'[k].pc = "flush" /\ r \in Rest(writer'[k])
      BY <2>3 DEF Pledged, At
    <3>2. k # c /\ writer'[k] = writer[k]
      BY <1>3, <3>1
    <3> QED
      BY <2>2, <3>1, <3>2 DEF At
  <2> QED
    BY <2>2, <2>3
<1>5. CASE settles
  <2>1. PICK i \in S : res'[r] = FlushResult(c, i) /\ writer[c].batch[i] = r
    BY <1>1, <1>5
  <2>2. i \in 1..Len(writer[c].batch)
    OBVIOUS
  <2>3. CASE i <= writer[c].n
    <3>1. res'[r].wrote = "all" /\ (res'[r].err = "ok" => mux[c].cause = "ok")
      BY <2>1, <2>3, ResultFields DEF FlushResult
    <3>2. mux[c].cause # "ok"
      BY DEF TypeOK, MuxFields, Causes
    <3> QED
      BY <1>1, <1>5, <3>1, <3>2 DEF Effect, Deserves, Open
  <2>4. CASE ~(i <= writer[c].n)
    <3>1. i > writer[c].n
      BY <1>0, <2>2, <2>4
    <3>2. res'[r].err = writer[c].err
      BY <2>1, <2>4, ResultFields DEF FlushResult
    <3> QED
      BY <1>0, <1>1, <1>4, <1>5, <2>1, <2>2, <3>1, <3>2 DEF Effect, Deserves, Open
  <2> QED
    BY <2>3, <2>4
<1>6. CASE ~settles /\ \E i \in I : writer[c].batch[i] = r
  <2>1. PICK i \in I : writer[c].batch[i] = r
    BY <1>6
  <2>2. i \in 1..Len(writer[c].batch) /\ i > writer[c].n /\ state[r] = "writing"
    BY <1>0, <2>1 DEF Requeued
  <2> QED
    BY <1>1, <1>4, <1>6, <2>1, <2>2 DEF Effect
<1>7. CASE ~settles /\ ~ \E i \in I : writer[c].batch[i] = r
  BY <1>1, <1>7 DEF Effect
<1> QED
  BY <1>5, <1>6, <1>7

LEMMA EffectDeliver ==
    ASSUME TypeOK, Accounted, NEW c \in Conns, NEW r \in Requests, Deliver(c)
    PROVE  Effect(r)
<1> DEFINE R == [x \in {reader[c].head} |-> Result("ok", "all")]
<1>1. complete(R) /\ reader[c].pc = "deliver"
  BY DEF Deliver
<1>2. r \in DOMAIN R => R[r] = Result("ok", "all") /\ r = reader[c].head
  OBVIOUS
<1> HIDE DEF R
<1>3. r = reader[c].head => Delivering(r)
  BY <1>1 DEF Delivering
<1> QED
  BY <1>1, <1>2, <1>3, ResultFields, EffectComplete DEF Deserves

LEMMA EffectTear ==
    ASSUME TypeOK, Accounted, NEW c \in Conns, NEW r \in Requests, TearSettle(c)
    PROVE  Effect(r)
<1> DEFINE R == [x \in {q \in {Head(tear[c].lost)} : onWire[q]} |->
          IF x = mux[c].blamed THEN Result(mux[c].cause, "all") ELSE Lost(mux[c].cause)]
<1>1. complete(R)
  BY DEF TearSettle
<1>2. mux[c].cause # "ok"
  BY DEF TypeOK, MuxFields, Causes
<1>3. r \in DOMAIN R => R[r].err # "ok" /\ R[r].wrote = "all"
  BY <1>2, ResultFields
<1> HIDE DEF R
<1> QED
  BY <1>1, <1>3, EffectComplete DEF Deserves

LEMMA EffectDrain ==
    ASSUME TypeOK, Accounted, NEW c \in Conns, NEW r \in Requests, Drain(c)
    PROVE  Effect(r)
<1>1. CASE mux[c].closed
  BY <1>1 DEF Drain, Effect
<1>2. CASE ~mux[c].closed
  <2> DEFINE R == [x \in Elems(pending[c]) |-> Result("closed", "none")]
  <2>1. complete(R) /\ writer' = writer
    BY <1>2 DEF Drain
  <2>2. r \in DOMAIN R => R[r].err = "closed" /\ At("pending", c, r)
    BY ResultFields DEF At
  <2> HIDE DEF R
  <2> QED
    BY <2>1, <2>2, NotPledged, EffectComplete DEF Deserves
<1> QED
  BY <1>1, <1>2

LEMMA EffectFail ==
    ASSUME TypeOK, Accounted, NEW r \in Requests, DetachFail
    PROVE  Effect(r)
<1> DEFINE R == [x \in {Head(plist)} |-> Result(pcause, "none")]
<1>1. complete(R) /\ writer' = writer /\ state[Head(plist)] = "queued"
  BY DEF DetachFail, connVars
<1>2. pcause # "ok"
  BY DEF TypeOK, Causes
<1>3. r \in DOMAIN R => R[r].err # "ok" /\ state[r] = "queued"
  BY <1>1, <1>2, ResultFields
<1> HIDE DEF R
<1> QED
  BY <1>1, <1>3, NotPledged, EffectComplete DEF Deserves

LEMMA EffectNext ==
    ASSUME TypeOK, Accounted, [Next]_vars, NEW r \in Requests
    PROVE  Effect(r)
<1>0. CASE UNCHANGED <<state, res>>
  BY <1>0 DEF Effect
<1>1. ASSUME NEW q \in Requests, Exchange(q) PROVE Effect(r)
  BY <1>1, EffectExchange
<1>2. ASSUME NEW q \in Requests,
             ExchangeRefused(q) \/ Cancel(q) \/ Deadline(q) \/ CallerStep(q)
      PROVE  Effect(r)
  BY <1>0, <1>2, EffectCaller DEF CallerStep, Cancel, Deadline, MissQueued,
     MissWriting, Expire, Orphan
<1>3. ASSUME NEW c \in Conns, WriterStep(c) PROVE Effect(r)
  BY <1>0, <1>3, EffectClaim, EffectSettle DEF WriterStep, WriterRuns, DialOK, DialFail,
     WriterWake, WriterExit, Write, FlushDone, FlushFail, WriterFail, WriterRequeue, reqVars
<1>4. ASSUME NEW c \in Conns, ReaderStep(c) PROVE Effect(r)
  BY <1>0, <1>4, EffectDeliver DEF ReaderStep, ReadPart, ReadLast, ReadFail, ReaderExit, reqVars
<1>5. ASSUME NEW c \in Conns,
             TearStep(c) \/ Answer(c) \/ AnswerError(c) \/ Break(c) \/ Drain(c)
      PROVE  Effect(r)
  BY <1>0, <1>5, EffectTear, EffectDrain DEF TearStep, TearDetach, Answer, AnswerError, Break,
     reqVars
<1>6. CASE PoolStep \/ CancelRoot \/ PoolClose \/ Finished \/ UNCHANGED vars
  BY <1>0, <1>6, EffectFail DEF PoolStep, PoolAdd, PoolSignal, DetachSkip, DetachPick,
     CancelRoot, PoolClose, Finished, vars, reqVars
<1> QED
  BY <1>1, <1>2, <1>3, <1>4, <1>5, <1>6 DEF Next, CloseStep

(* Only a claim obliges a writer to write a call. *)
LEMMA PledgedStays ==
    ASSUME TypeOK, NEW c \in Conns, NEW w, writer' = [writer EXCEPT ![c] = w],
           w.pc # "flush", NEW r \in Requests, NEW k, Pledged(k, r)'
    PROVE  Pledged(k, r)
<1>1. k \in Conns /\ writer'[k].pc = "flush" /\ r \in Rest(writer'[k])
  BY DEF Pledged, At
<1>2. k # c /\ writer'[k] = writer[k]
  BY <1>1 DEF TypeOK
<1> QED
  BY <1>1, <1>2 DEF Pledged, At

LEMMA PledgedClaim ==
    ASSUME TypeOK, NEW c \in Conns, Claim(c), NEW r \in Requests, NEW k, Pledged(k, r)'
    PROVE  Pledged(k, r) \/ state'[r] = "writing"
<1> DEFINE I == {i \in 1..Len(pending[c]) : Claimable(pending[c][i])}
<1>0. k \in Conns /\ writer'[k].pc = "flush" /\ r \in Rest(writer'[k])
  BY DEF Pledged, At
<1>1. PICK f \in Enumerations(I) :
        /\ state' = [x \in Requests |->
                       IF x \in Elems(Extract(pending[c], f)) THEN "writing" ELSE state[x]]
        /\ writer' = [writer EXCEPT ![c] =
             IF Extract(pending[c], f) = <<>> THEN [NoWriter EXCEPT !.pc = "idle"]
             ELSE [NoWriter EXCEPT !.pc = "flush", !.batch = Extract(pending[c], f)]]
  BY DEF Claim
<1>2. PICK b : b = Extract(pending[c], f)
  OBVIOUS
<1>3. CASE k # c
  BY <1>0, <1>1, <1>3 DEF TypeOK, Pledged, At
<1>4. CASE k = c
  <2>1. writer'[c] = IF b = <<>> THEN [NoWriter EXCEPT !.pc = "idle"]
                     ELSE [NoWriter EXCEPT !.pc = "flush", !.batch = b]
    BY <1>1, <1>2 DEF TypeOK
  <2>2. writer'[c].batch = b
    BY <1>0, <1>4, <2>1 DEF NoWriter
  <2>3. r \in Elems(b)
    BY <1>0, <1>4, <2>2 DEF Rest, Elems
  <2> QED
    BY <1>1, <1>2, <2>3
<1> QED
  BY <1>3, <1>4

LEMMA PledgedWrite ==
    ASSUME TypeOK, OnePlace, NEW c \in Conns, Write(c), NEW r \in Requests, NEW k,
           Pledged(k, r)'
    PROVE  Pledged(k, r)
<1> DEFINE w == [writer[c] EXCEPT !.n = writer[c].n + 1]
<1>0. k \in Conns /\ writer'[k].pc = "flush" /\ r \in Rest(writer'[k])
  BY DEF Pledged, At
<1>1. /\ writer' = [writer EXCEPT ![c] = w] /\ writer[c].pc = "flush"
      /\ writer[c] \in WriterFields /\ writer[c].n \in Nat /\ Len(writer[c].batch) \in Nat
  BY WriterParts DEF Write, TypeOK
<1>2. w.batch = writer[c].batch /\ w.pc = "flush" /\ w.n = writer[c].n + 1
  BY <1>1 DEF WriterFields
<1> HIDE DEF w
<1>3. Rest(w) \subseteq Rest(writer[c])
  <2>1. \A i \in 1..Len(w.batch) : InRest(w, i) => InRest(writer[c], i)
    BY <1>1, <1>2 DEF InRest
  <2> QED
    BY <1>2, <2>1 DEF Rest
<1>4. writer'[k] = IF k = c THEN w ELSE writer[k]
  BY <1>0, <1>1 DEF TypeOK
<1> QED
  BY <1>0, <1>1, <1>3, <1>4 DEF Pledged, At

LEMMA PledgedNext ==
    ASSUME TypeOK, Accounted, [Next]_vars, NEW r \in Requests, NEW k, Pledged(k, r)'
    PROVE  Pledged(k, r) \/ state'[r] = "writing"
<1> DEFINE Goal == Pledged(k, r) \/ state'[r] = "writing"
<1>0. CASE UNCHANGED writer
  BY <1>0 DEF Pledged, At
<1>1. ASSUME NEW c \in Conns, pickLocked(c) PROVE Goal
  <2>1. writer' = writer \/ writer' = [writer EXCEPT ![c] = NoWriter]
    BY <1>1 DEF pickLocked
  <2> QED
    <3>1. NoWriter.pc # "flush"
      BY DEF NoWriter
    <3> QED
      BY <1>0, <2>1, <3>1, PledgedStays
<1>2. ASSUME NEW c \in Conns, WriterStep(c) PROVE Goal
  <2>0. writer[c] \in WriterFields
    BY DEF TypeOK
  <2>1. CASE \E p \in {"idle", "exit", "claim"} :
               writer' = [writer EXCEPT ![c] = [NoWriter EXCEPT !.pc = p]]
    <3>1. PICK p \in {"idle", "exit", "claim"} :
             writer' = [writer EXCEPT ![c] = [NoWriter EXCEPT !.pc = p]]
      BY <2>1
    <3>2. [NoWriter EXCEPT !.pc = p].pc # "flush"
      BY DEF NoWriter
    <3> QED
      BY <3>1, <3>2, PledgedStays
  <2>2. CASE WriterWake(c) \/ WriterFail(c)
    <3>1. PICK p \in {"claim", "requeue", "tail"} :
             writer' = [writer EXCEPT ![c] = [writer[c] EXCEPT !.pc = p]]
      BY <2>2 DEF WriterWake, WriterFail
    <3>2. [writer[c] EXCEPT !.pc = p].pc # "flush"
      BY <2>0 DEF WriterFields
    <3> QED
      BY <3>1, <3>2, PledgedStays
  <2>3. CASE FlushDone(c) /\ mux[c].closed
    <3>1. writer' = [writer EXCEPT ![c] = [writer[c] EXCEPT !.pc = "settle",
                        !.closed = TRUE, !.served = mux[c].served]]
      BY <2>3 DEF FlushDone
    <3>2. [writer[c] EXCEPT !.pc = "settle",
                        !.closed = TRUE, !.served = mux[c].served].pc = "settle"
      BY <2>0 DEF WriterFields
    <3> QED
      BY <3>1, <3>2, PledgedStays
  <2>4. ASSUME NEW part \in BOOLEAN, NEW err \in {"io", "iotimeout"}, FlushFail(c, part, err)
        PROVE  Goal
    <3>1. writer' = [writer EXCEPT ![c] = [writer[c] EXCEPT !.pc = "settle", !.err = err,
                       !.part = part, !.closed = mux[c].closed, !.served = mux[c].served]]
      BY <2>4 DEF FlushFail
    <3>2. [writer[c] EXCEPT !.pc = "settle", !.err = err,
             !.part = part, !.closed = mux[c].closed, !.served = mux[c].served].pc = "settle"
      BY <2>0 DEF WriterFields
    <3> QED
      BY <3>1, <3>2, PledgedStays
  <2>5. CASE SettleBatch(c)
    <3>1. PICK b : writer' = [writer EXCEPT ![c] = [writer[c] EXCEPT !.batch = b,
                                !.pc = IF writer[c].err = "nil" THEN "claim" ELSE "fail"]]
      BY <2>5 DEF SettleBatch
    <3>2. [writer[c] EXCEPT !.batch = b,
             !.pc = IF writer[c].err = "nil" THEN "claim" ELSE "fail"].pc # "flush"
      BY <2>0 DEF WriterFields
    <3> QED
      BY <3>1, <3>2, PledgedStays
  <2>6. CASE Claim(c)
    BY <2>6, PledgedClaim
  <2>7. CASE Write(c)
    BY <2>7, PledgedWrite DEF Accounted
  <2>8. CASE DialOK(c) \/ DialFail(c) \/ WriterExit(c) \/ WriterRequeue(c)
             \/ (FlushDone(c) /\ ~mux[c].closed)
    <3>1. \/ UNCHANGED writer
          \/ \E p \in {"idle", "exit", "claim"} :
               writer' = [writer EXCEPT ![c] = [NoWriter EXCEPT !.pc = p]]
      BY <2>8 DEF DialOK, DialFail, WriterExit, WriterRequeue, FlushDone
    <3> QED
      BY <1>0, <2>1, <3>1
  <2> QED
    BY <1>2, <2>2, <2>3, <2>4, <2>5, <2>6, <2>7, <2>8 DEF WriterStep, WriterRuns
<1>3. (\A c \in Conns : ~pickLocked(c) /\ ~WriterStep(c)) => UNCHANGED writer
  <2>1. ASSUME NEW q \in Requests,
               ExchangeRefused(q) \/ Cancel(q) \/ Deadline(q) \/ CallerStep(q)
        PROVE  UNCHANGED writer
    BY <2>1 DEF ExchangeRefused, Cancel, Deadline, CallerStep, GiveUpQueued, GiveUpWriting,
       MissQueued, MissWriting, Expire, Orphan, connVars
  <2>2. ASSUME NEW c \in Conns, ReaderStep(c) \/ TearStep(c) \/ Drain(c)
        PROVE  UNCHANGED writer
    BY <2>2 DEF ReaderStep, TearStep, Drain, ReadPart, ReadLast, Deliver, ReadFail, ReaderExit,
       TearSettle, TearDetach
  <2>3. ASSUME NEW c \in Conns, Answer(c) \/ AnswerError(c) \/ Break(c) PROVE UNCHANGED writer
    BY <2>3 DEF Answer, AnswerError, Break
  <2>4. CASE PoolAdd \/ PoolSignal \/ DetachSkip \/ DetachFail \/ CancelRoot \/ PoolClose
             \/ Finished \/ UNCHANGED vars
    BY <2>4 DEF PoolAdd, PoolSignal, DetachSkip, DetachFail, CancelRoot, PoolClose, Finished,
       vars, connVars
  <2>5. ASSUME NEW q \in Requests, Exchange(q) PROVE \E c \in Conns : pickLocked(c)
    BY <2>5 DEF Exchange
  <2>6. ASSUME DetachPick PROVE \E c \in Conns : pickLocked(c)
    BY <2>6 DEF DetachPick
  <2> QED
    BY <2>1, <2>2, <2>3, <2>4, <2>5, <2>6 DEF Next, CloseStep, PoolStep
<1> QED
  BY <1>0, <1>1, <1>2, <1>3

LEMMA PutsNext ==
    ASSUME [Next]_vars, ~ \E c \in Conns : Write(c)
    PROVE  puts' = puts
<1>1. ASSUME NEW r \in Requests, Exchange(r) \/ ExchangeRefused(r) PROVE puts' = puts
  BY <1>1 DEF Exchange, ExchangeRefused
<1>2. ASSUME NEW r \in Requests, Cancel(r) \/ Deadline(r) \/ CallerStep(r) PROVE puts' = puts
  BY <1>2 DEF Cancel, Deadline, CallerStep, GiveUpQueued, GiveUpWriting, MissQueued,
     MissWriting, Expire, Orphan
<1>3. ASSUME NEW c \in Conns, WriterRuns(c) PROVE puts' = puts
  BY <1>3 DEF WriterRuns, DialOK, DialFail, WriterWake, WriterExit, Claim, FlushDone, FlushFail,
     SettleBatch, WriterFail, WriterRequeue, reqVars
<1>4. ASSUME NEW c \in Conns, ReaderStep(c) \/ TearStep(c) \/ Drain(c) PROVE puts' = puts
  BY <1>4 DEF ReaderStep, TearStep, Drain, ReadPart, ReadLast, Deliver, ReadFail, ReaderExit,
     TearSettle, TearDetach, reqVars
<1>5. ASSUME NEW c \in Conns, Answer(c) \/ AnswerError(c) \/ Break(c) PROVE puts' = puts
  BY <1>5 DEF Answer, AnswerError, Break, reqVars
<1>6. CASE PoolStep \/ CancelRoot \/ PoolClose \/ Finished \/ UNCHANGED vars
  BY <1>6 DEF PoolStep, PoolAdd, PoolSignal, DetachSkip, DetachPick, DetachFail, CancelRoot,
     PoolClose, Finished, vars, reqVars
<1> QED
  BY <1>1, <1>2, <1>3, <1>4, <1>5, <1>6 DEF Next, WriterStep, CloseStep

(* Where the reader gets a request to deliver from. *)
LEMMA ReaderNext ==
    ASSUME TypeOK, [Next]_vars, NEW c \in Conns, reader'[c].pc = "deliver"
    PROVE  reader'[c] = reader[c] \/ (ReadLast(c) /\ reader'[c].head = Head(inflight[c]))
<1> DEFINE Goal == reader'[c] = reader[c] \/ (ReadLast(c) /\ reader'[c].head = Head(inflight[c]))
<1>0. CASE UNCHANGED reader
  BY <1>0
<1>1. ASSUME NEW k \in Conns, NEW x, reader' = [reader EXCEPT ![k] = x], x.pc # "deliver"
      PROVE  Goal
  BY <1>1 DEF TypeOK
<1>2. ASSUME NEW k \in Conns, pickLocked(k) PROVE Goal
  <2>1. UNCHANGED reader \/ reader' = [reader EXCEPT ![k] = NoReader]
    BY <1>2 DEF pickLocked
  <2> QED
    <3>1. NoReader.pc # "deliver"
      BY DEF NoReader
    <3> QED
      BY <1>0, <1>1, <1>2, <2>1, <3>1
<1>3. ASSUME NEW k \in Conns, NEW p \in {"read", "exit"},
             reader' = [reader EXCEPT ![k] = [NoReader EXCEPT !.pc = p]]
      PROVE  Goal
  BY <1>1, <1>3 DEF NoReader
<1>4. ASSUME NEW k \in Conns, ReadLast(k) PROVE Goal
  <2>1. PICK fin : reader' =
          [reader EXCEPT ![k] = [pc |-> "deliver", head |-> Head(inflight[k]), fin |-> fin]]
    BY <1>4 DEF ReadLast
  <2> QED
    BY <1>4, <2>1 DEF TypeOK
<1>5. ASSUME NEW k \in Conns, ReaderStep(k) PROVE Goal
  <2>1. CASE Deliver(k) \/ ReadFail(k) \/ ReaderExit(k)
    <3>1. \E p \in {"read", "exit"} : reader' = [reader EXCEPT ![k] = [NoReader EXCEPT !.pc = p]]
      BY <2>1 DEF Deliver, ReadFail, ReaderExit
    <3> QED
      BY <1>3, <3>1
  <2>2. CASE ReadPart(k)
    BY <1>0, <2>2 DEF ReadPart
  <2> QED
    BY <1>4, <1>5, <2>1, <2>2 DEF ReaderStep
<1>6. ASSUME NEW k \in Conns, WriterStep(k) PROVE Goal
  <2>1. CASE DialOK(k)
    <3>1. UNCHANGED reader \/ reader' = [reader EXCEPT ![k] = [NoReader EXCEPT !.pc = "read"]]
      BY <2>1 DEF DialOK
    <3> QED
      BY <1>0, <1>3, <3>1
  <2>2. ~DialOK(k) => UNCHANGED reader
    BY <1>6 DEF WriterStep, WriterRuns, DialFail, WriterWake, WriterExit, Claim, FlushDone,
       FlushFail, SettleBatch, WriterFail, WriterRequeue, Write
  <2> QED
    BY <1>0, <2>1, <2>2
<1>7. ASSUME NEW q \in Requests,
             ExchangeRefused(q) \/ Cancel(q) \/ Deadline(q) \/ CallerStep(q)
      PROVE  Goal
  BY <1>0, <1>7 DEF ExchangeRefused, Cancel, Deadline, CallerStep, GiveUpQueued, GiveUpWriting,
     MissQueued, MissWriting, Expire, Orphan, connVars
<1>8. ASSUME NEW k \in Conns,
             TearStep(k) \/ Drain(k) \/ Answer(k) \/ AnswerError(k) \/ Break(k)
      PROVE  Goal
  BY <1>0, <1>8 DEF TearStep, Drain, TearSettle, TearDetach, Answer, AnswerError, Break
<1>9. CASE PoolAdd \/ PoolSignal \/ DetachSkip \/ DetachFail \/ CancelRoot \/ PoolClose
           \/ Finished \/ UNCHANGED vars
  BY <1>0, <1>9 DEF PoolAdd, PoolSignal, DetachSkip, DetachFail, CancelRoot, PoolClose, Finished,
     vars, connVars
<1>10. ASSUME NEW q \in Requests, Exchange(q) PROVE Goal
  BY <1>2, <1>10 DEF Exchange
<1>11. CASE DetachPick
  BY <1>2, <1>11 DEF DetachPick
<1> QED
  BY <1>5, <1>6, <1>7, <1>8, <1>9, <1>10, <1>11 DEF Next, CloseStep, PoolStep

(* A frame that has come back answers a request that was handed over. *)
LEMMA HeadAwaited ==
    ASSUME TypeOK, AllSound, NEW c \in Conns, ~mux[c].closed, sock[c].back # <<>>
    PROVE  Awaits(c, 1, Head(inflight[c])) /\ Head(inflight[c]) \in Requests
<1>1. /\ inflight[c] \in Seq(Requests) /\ sock[c] \in SockFields
      /\ Sound(mux[c], inflight[c], writer[c], sock[c], state)
  BY DEF TypeOK, AllSound, SoundAt
<1>2. Streaming(inflight[c], writer[c], sock[c])
  BY <1>1 DEF Sound, Lives, DeadSock
<1>3. inflight[c] # <<>> /\ Handed(inflight[c], writer[c]) \in Nat \ {0}
  BY <1>1, <1>2, HandedWithin, AlignedHead DEF Streaming
<1>4. Head(inflight[c]) = inflight[c][1] /\ 1 \in 1..Len(inflight[c]) /\ inflight[c][1] \in Requests
  BY <1>1, <1>3
<1> QED
  BY <1>3, <1>4 DEF Awaits, HandedAt

LEMMA SentNext ==
    ASSUME TypeOK, AllSound, Accounted, [Next]_vars
    PROVE  Sent'
<1>1. ASSUME NEW c \in Conns, Write(c) PROVE Sent'
  <2>1. PICK x \in Requests : x = writer[c].batch[writer[c].n + 1] /\ puts[x] = 0
    BY <1>1, NewForGood, PlacesWrite DEF Accounted
  <2>2. puts' = [puts EXCEPT ![x] = puts[x] + 1] /\ reader' = reader
    BY <1>1, <2>1 DEF Write
  <2>3. \A r \in Requests : puts'[r] = IF r = x THEN 1 ELSE puts[r]
    BY <2>1, <2>2 DEF TypeOK
  <2>4. \A r, k, i : k \in Conns /\ Awaits(k, i, r)' => Awaits(k, i, r) \/ r = x
    BY <1>1, <2>1, AwaitsWrite DEF Keeps
  <2>5. \A r \in Requests, k \in Conns : \A i : Awaits(k, i, r)' => puts'[r] = 1
    BY <2>3, <2>4 DEF Accounted, Sent
  <2>6. \A k \in Conns : reader'[k].pc = "deliver" =>
            reader'[k].head \in Requests /\ puts'[reader'[k].head] = 1
    BY <2>2, <2>3 DEF Accounted, Sent
  <2> QED
    BY <2>5, <2>6 DEF Sent
<1>2. CASE ~ \E c \in Conns : Write(c)
  <2>0. puts' = puts
    BY <1>2, PutsNext
  <2>1. ASSUME NEW r \in Requests, NEW k \in Conns, NEW i, Awaits(k, i, r)'
        PROVE  puts[r] = 1
    <3>1. \E j : Awaits(k, j, r)
      BY <1>2, <2>1, KeepsNext, AwaitsRead DEF Keeps
    <3> QED
      BY <3>1 DEF Accounted, Sent
  <2>2. ASSUME NEW k \in Conns, reader'[k].pc = "deliver"
        PROVE  reader'[k].head \in Requests /\ puts[reader'[k].head] = 1
    <3>1. CASE reader'[k] = reader[k]
      BY <2>2, <3>1 DEF Accounted, Sent
    <3>2. CASE ReadLast(k) /\ reader'[k].head = Head(inflight[k])
      <4>1. ~mux[k].closed /\ sock[k].back # <<>>
        BY <3>2 DEF ReadLast
      <4> QED
        BY <3>2, <4>1, HeadAwaited DEF Accounted, Sent
    <3> QED
      BY <2>2, <3>1, <3>2, ReaderNext
  <2> QED
    BY <2>0, <2>1, <2>2 DEF Sent
<1> QED
  BY <1>1, <1>2

LEMMA AccountedNext ==
    ASSUME TypeOK, AllSound, Accounted, [Next]_vars
    PROVE  Accounted'
<1>1. OnePlace'
  BY PlacesNext DEF Accounted
<1>2. Sent'
  BY SentNext
<1>3. \A r \in Requests : Effect(r)
  BY EffectNext
<1>4. Unsettled'
  BY <1>3 DEF Accounted, Unsettled, Effect
<1>5. Unsent'
  <2>1. ASSUME NEW c \in Conns, Write(c), NEW r \in Requests, state'[r] \in {"new", "queued"}
        PROVE  puts'[r] = 0
    <3>1. PICK x \in Requests :
             x = writer[c].batch[writer[c].n + 1] /\ x \in Rest(writer[c])
      BY <2>1, NewForGood, PlacesWrite DEF Accounted
    <3>2. puts' = [puts EXCEPT ![x] = puts[x] + 1] /\ state' = state /\ writer[c].pc = "flush"
      BY <2>1, <3>1 DEF Write
    <3>3. state[x] \in {"writing", "done"}
      BY <3>1, <3>2 DEF Accounted, Promised, Pledged, At
    <3> QED
      BY <2>1, <3>2, <3>3 DEF Accounted, Unsent, TypeOK
  <2>2. CASE puts' = puts
    BY <1>3, <2>2 DEF Accounted, Unsent, Effect
  <2> QED
    BY <2>1, <2>2, PutsNext DEF Unsent
<1>6. Promised'
  <2>1. ASSUME NEW r \in Requests, NEW c, Pledged(c, r)'
        PROVE  state'[r] = "writing" \/ (state'[r] = "done" /\ res'[r].wrote = "all")
    <3>1. Pledged(c, r) \/ state'[r] = "writing"
      BY <2>1, PledgedNext
    <3>2. CASE Pledged(c, r)
      BY <1>3, <2>1, <3>2 DEF Accounted, Promised, Effect, Deserves
    <3> QED
      BY <3>1, <3>2
  <2> QED
    BY <2>1 DEF Promised
<1> QED
  BY <1>1, <1>2, <1>4, <1>5, <1>6 DEF Accounted

LEMMA AccountedInit == Init => Accounted
<1> SUFFICES ASSUME Init PROVE Accounted
  OBVIOUS
<1>1. /\ \A r \in Requests : state[r] = "new" /\ puts[r] = 0 /\ res[r] = Unset
      /\ \A c \in Conns : writer[c] = NoWriter /\ reader[c] = NoReader /\ inflight[c] = <<>>
  BY DEF Init
<1>2. OnePlace
  BY PlacesInit
<1>3. Unsent /\ Unsettled
  BY <1>1 DEF Unsent, Unsettled
<1>4. Promised
  BY <1>1, BatchEmpty DEF Promised, Pledged, At
<1>5. Sent
  BY <1>1 DEF Sent, Awaits, HandedAt, NoReader
<1> QED
  BY <1>2, <1>3, <1>4, <1>5 DEF Accounted

LEMMA AccountedAlways == Spec => []Accounted
<1>1. Init => Accounted
  BY AccountedInit
<1>2. TypeOK /\ AllSound /\ Accounted /\ [Next]_vars => Accounted'
  BY AccountedNext
<1> QED
  BY <1>1, <1>2, SoundAlways, TypeCorrect, PTL DEF Spec

(* The only step that writes is allowed to. *)
LEMMA SendStep ==
    ASSUME TypeOK, Accounted, NEW c \in Conns, Write(c)
    PROVE  \E r \in Requests : Contract!Send(r)
<1>1. PICK x \in Requests :
         /\ x = writer[c].batch[writer[c].n + 1] /\ x \in Rest(writer[c]) /\ puts[x] = 0
  <2>1. NewStays
    BY DEF Write, NewStays
  <2> QED
    BY <2>1, PlacesWrite DEF Accounted
<1>2. puts' = [puts EXCEPT ![x] = puts[x] + 1] /\ res' = res /\ writer[c].pc = "flush"
  BY <1>1 DEF Write
<1>3. Pledged(c, x)
  BY <1>1, <1>2 DEF Pledged, At
<1>4. res[x] = Unset \/ res[x].wrote = "all"
  BY <1>3 DEF Accounted, Promised, Unsettled
<1>5. puts' = [puts EXCEPT ![x] = 1]
  BY <1>1, <1>2
<1> QED
  BY <1>1, <1>2, <1>4, <1>5 DEF Contract!Send

LEMMA ContractStep ==
    ASSUME TypeOK, TypeOK', Accounted, [Next]_vars
    PROVE  [Contract!ANext]_(Contract!avars)
<1>1. ASSUME NEW c \in Conns, Write(c) PROVE Contract!ANext
  BY <1>1, SendStep DEF Contract!ANext
<1>2. CASE ~ \E c \in Conns : Write(c)
  <2>1. puts' = puts
    BY <1>2, PutsNext
  <2>2. res' = [r \in Requests |-> res'[r]] /\ \A r \in Requests : res'[r] \in Results
    BY DEF TypeOK
  <2>3. ASSUME NEW r \in Requests PROVE res'[r] = res[r] \/ Contract!Settles(r, res'[r])
    <3>1. Effect(r)
      BY EffectNext
    <3>2. CASE state[r] # "done" /\ state'[r] = "done" /\ Deserves(r, res'[r])
      <4>1. Delivering(r) => puts[r] = 1
        BY DEF Accounted, Sent, Delivering
      <4> QED
        BY <2>2, <3>2, <4>1 DEF Accounted, Unsettled, Deserves, Contract!Settles
    <3> QED
      BY <3>1, <3>2 DEF Effect
  <2>4. Contract!Settle
    BY <2>1, <2>2, <2>3 DEF Contract!Settle
  <2> QED
    BY <2>4 DEF Contract!ANext
<1> QED
  BY <1>1, <1>2

(* exchange keeps the contract of ExchangeSpec: whatever is requeued, torn *)
(* down, abandoned or drained, no payload is written twice, an outcome is  *)
(* given once, and one that says "not all written" is the truth for good.  *)
THEOREM ContractKept == Spec => ImplementsExchange
<1>1. Init => Contract!AInit
  BY DEF Init, Contract!AInit
<1> QED
  BY <1>1, ContractStep, AccountedAlways, TypeCorrect, PTL
     DEF Spec, ImplementsExchange, Contract!ASpec

-----------------------------------------------------------------------------
(* The frames of a batch travel together *)

(* The frame of a barrier that was answered. *)
Barrier(f) == f.last /\ ~f.bad /\ f.of \in Batches

BarrierNext(b) == b # <<>> /\ Barrier(Head(b))

(* A frame that is not the last of its request is followed by the barrier, *)
(* and a barrier follows such a frame, which may have been read.           *)
Whole(b) ==
    \A j \in 1..Len(b) : /\ ~Ends(b[j]) => j + 1 \in 1..Len(b) /\ Barrier(b[j + 1])
                         /\ Barrier(b[j]) /\ j > 1 => ~Ends(b[j - 1])

Joined(g, b, fs) ==
    /\ Len(g) = Len(b) + Len(fs)
    /\ \A i \in 1..Len(b) : g[i] = b[i]
    /\ \A i \in 1..Len(fs) : g[Len(b) + i] = fs[i]

LEMMA WholeJoined ==
    ASSUME NEW b, NEW fs, NEW g, Len(b) \in Nat, Len(fs) \in Nat \ {0}, Whole(b), Whole(fs),
           ~Barrier(fs[1]), Joined(g, b, fs)
    PROVE  Whole(g)
<1>0. PICK m \in Nat, n \in Nat : m = Len(b) /\ n = Len(fs) /\ n # 0
  OBVIOUS
<1>1. /\ Len(g) = m + n /\ \A i \in 1..m : g[i] = b[i]
      /\ \A i \in 1..n : g[m + i] = fs[i]
  BY <1>0 DEF Joined
<1>2. ASSUME NEW j \in 1..m
      PROVE  /\ ~Ends(g[j]) => j + 1 \in 1..(m + n) /\ Barrier(g[j + 1])
             /\ Barrier(g[j]) /\ j > 1 => ~Ends(g[j - 1])
  <2>1. g[j] = b[j] /\ (j > 1 => g[j - 1] = b[j - 1])
    BY <1>1
  <2>2. /\ ~Ends(b[j]) => j + 1 \in 1..m /\ Barrier(b[j + 1])
        /\ Barrier(b[j]) /\ j > 1 => ~Ends(b[j - 1])
    BY <1>0 DEF Whole
  <2> QED
    BY <1>1, <2>1, <2>2
<1>3. ASSUME NEW i \in 1..n
      PROVE  /\ ~Ends(g[m + i]) => m + i + 1 \in 1..(m + n) /\ Barrier(g[m + i + 1])
             /\ Barrier(g[m + i]) => ~Ends(g[m + i - 1])
  <2>1. g[m + i] = fs[i]
    BY <1>1
  <2>2. /\ ~Ends(fs[i]) => i + 1 \in 1..n /\ Barrier(fs[i + 1])
        /\ Barrier(fs[i]) /\ i > 1 => ~Ends(fs[i - 1])
    BY <1>0 DEF Whole
  <2>3. i + 1 \in 1..n => g[m + i + 1] = fs[i + 1] /\ m + i + 1 \in 1..(m + n)
    <3>1. m + (i + 1) = m + i + 1
      OBVIOUS
    <3> QED
      BY <1>1, <3>1
  <2>4. i > 1 => g[m + i - 1] = fs[i - 1]
    <3>1. m + (i - 1) = m + i - 1 /\ (i > 1 => i - 1 \in 1..n)
      OBVIOUS
    <3> QED
      BY <1>1, <3>1
  <2>5. i > 1 \/ i = 1
    OBVIOUS
  <2> QED
    BY <2>1, <2>2, <2>3, <2>4, <2>5
<1>4. ASSUME NEW j \in 1..(m + n), ~(j \in 1..m)
      PROVE  /\ ~Ends(g[j]) => j + 1 \in 1..(m + n) /\ Barrier(g[j + 1])
             /\ Barrier(g[j]) => ~Ends(g[j - 1])
  <2>1. PICK i \in 1..n : j = m + i
    <3>1. j - m \in 1..n /\ j = m + (j - m)
      BY <1>4
    <3> QED
      BY <3>1
  <2> QED
    BY <1>3, <2>1
<1> QED
  BY <1>1, <1>2, <1>4 DEF Whole

LEMMA WholeTail ==
    ASSUME NEW b \in Seq(Frames), b # <<>>, Whole(b)
    PROVE  /\ Whole(Tail(b))
           /\ ~Ends(Head(b)) => BarrierNext(Tail(b))
           /\ Ends(Head(b)) => ~BarrierNext(Tail(b))
<1> DEFINE t == Tail(b)
<1>1. /\ Head(b) = b[1] /\ t \in Seq(Frames) /\ Len(t) \in Nat
      /\ Len(b) = Len(t) + 1 /\ \A i \in 1..Len(t) : t[i] = b[i + 1]
  OBVIOUS
<1>2. t # <<>> => Head(t) = t[1] /\ 1 \in 1..Len(t)
  BY <1>1
<1> HIDE DEF t
<1>3. ASSUME NEW j \in 1..Len(t)
      PROVE  /\ ~Ends(t[j]) => j + 1 \in 1..Len(t) /\ Barrier(t[j + 1])
             /\ Barrier(t[j]) /\ j > 1 => ~Ends(t[j - 1])
  <2>1. j + 1 \in 1..Len(b) /\ t[j] = b[j + 1]
    BY <1>1
  <2>2. /\ ~Ends(b[j + 1]) => j + 1 + 1 \in 1..Len(b) /\ Barrier(b[j + 1 + 1])
        /\ Barrier(b[j + 1]) /\ j + 1 > 1 => ~Ends(b[j + 1 - 1])
    BY <2>1 DEF Whole
  <2>3. j + 1 + 1 \in 1..Len(b) => j + 1 \in 1..Len(t) /\ t[j + 1] = b[j + 1 + 1]
    BY <1>1
  <2>4. j > 1 => j - 1 \in 1..Len(t) /\ t[j - 1] = b[(j - 1) + 1] /\ (j - 1) + 1 = j + 1 - 1
    BY <1>1
  <2> QED
    BY <1>1, <2>1, <2>2, <2>3, <2>4
<1>4. Whole(t)
  BY <1>3 DEF Whole
<1>5. 1 \in 1..Len(b) /\ Len(t) > 0 => 1 \in 1..Len(t) /\ t[1] = b[2] /\ 2 \in 1..Len(b)
  BY <1>1
<1>6. ~Ends(b[1]) => 2 \in 1..Len(b) /\ Barrier(b[2])
  <2>1. 1 \in 1..Len(b) /\ 1 + 1 = 2
    BY <1>1
  <2> QED
    BY <2>1 DEF Whole
<1>7. 2 \in 1..Len(b) /\ Barrier(b[2]) => ~Ends(b[1])
  <2>1. 2 > 1 /\ 2 - 1 = 1
    OBVIOUS
  <2> QED
    BY <2>1 DEF Whole
<1>8. 2 \in 1..Len(b) => Len(t) > 0 /\ t # <<>>
  <2>1. Len(<<>>) = 0
    OBVIOUS
  <2> QED
    BY <1>1, <2>1
<1>9. ~Ends(Head(b)) => BarrierNext(t)
  BY <1>1, <1>2, <1>5, <1>6, <1>8 DEF BarrierNext
<1>10. BarrierNext(t) => ~Ends(Head(b))
  BY <1>1, <1>2, <1>5, <1>7 DEF BarrierNext
<1> QED
  BY <1>4, <1>9, <1>10 DEF t

(* What a step does to the frames that come back on c: nothing, or it      *)
(* reads one, or some join them, or they are lost with their requests.     *)
BackStep(c) ==
    \/ sock'[c].back = sock[c].back
    \/ sock'[c].back = <<>> /\ inflight'[c] = <<>>
    \/ (ReadPart(c) \/ ReadLast(c)) /\ sock'[c].back = Tail(sock[c].back)
    \/ \E fs \in Seq(Frames) : /\ fs # <<>> /\ ~Barrier(fs[1]) /\ Whole(fs)
                               /\ Joined(sock'[c].back, sock[c].back, fs)

LEMMA BackTear ==
    ASSUME TypeOK, NEW c, NEW cause, NEW headSaw, teardownLocked(c, cause, headSaw)
    PROVE  \A k \in Conns : BackStep(k)
<1>1. \/ UNCHANGED <<inflight, sock>>
      \/ inflight' = [inflight EXCEPT ![c] = <<>>] /\ sock' = [sock EXCEPT ![c] = DeadSock]
  BY DEF teardownLocked
<1>2. CASE UNCHANGED <<inflight, sock>>
  BY <1>2 DEF BackStep
<1>3. CASE inflight' = [inflight EXCEPT ![c] = <<>>] /\ sock' = [sock EXCEPT ![c] = DeadSock]
  BY <1>3 DEF BackStep, TypeOK, DeadSock
<1> QED
  BY <1>1, <1>2, <1>3

LEMMA BackPick ==
    ASSUME TypeOK, NEW c \in Conns, pickLocked(c)
    PROVE  \A k \in Conns : BackStep(k)
<1>1. PICK R \in SUBSET {k \in conns : "idle" \in Faults /\ ~mux[k].closed /\ Load(k) = 0} :
        /\ sock' = [k \in Conns |-> IF k \in R THEN DeadSock ELSE sock[k]]
        /\ inflight' = inflight \/ inflight' = [inflight EXCEPT ![c] = <<>>]
  BY DEF pickLocked
<1>2. ASSUME NEW k \in Conns PROVE BackStep(k)
  <2>1. CASE k \in R
    <3>1. Load(k) = 0
      BY <2>1
    <3>2. inflight[k] = <<>>
      <4>1. inflight[k] \in Seq(Requests) /\ pending[k] \in Seq(Requests)
        BY DEF TypeOK
      <4> QED
        <5>0. PICK q \in Seq(Requests) : q = inflight[k]
          BY <4>1
        <5>1. PICK m \in Nat, n \in Nat : m = Len(pending[k]) /\ n = Len(q)
          BY <4>1
        <5>2. m + n = 0
          BY <3>1, <5>0, <5>1 DEF Load
        <5>3. Len(q) = 0
          BY <5>1, <5>2
        <5>4. q = <<>>
          BY <5>3
        <5> QED
          BY <5>0, <5>4
    <3>3. inflight'[k] = <<>> /\ sock'[k].back = <<>>
      BY <1>1, <2>1, <3>2 DEF TypeOK, DeadSock
    <3> QED
      BY <3>3 DEF BackStep
  <2>2. CASE k \notin R
    BY <1>1, <2>2 DEF BackStep
  <2> QED
    BY <2>1, <2>2
<1> QED
  BY <1>2

LEMMA BackAnswer ==
    ASSUME TypeOK, NEW c \in Conns, Answer(c) \/ AnswerError(c)
    PROVE  \A k \in Conns : BackStep(k)
<1> DEFINE r == Head(sock[c].recv)
           part == [of |-> r, last |-> FALSE, bad |-> FALSE]
           good == [of |-> r, last |-> TRUE, bad |-> FALSE]
           bad == [of |-> r, last |-> FALSE, bad |-> TRUE]
<1>0. sock[c].back \in Seq(Frames) /\ sock[c].recv \in Seq(Requests) /\ sock[c].recv # <<>>
      /\ sock[c] \in SockFields
  BY DEF TypeOK, SockFields, Answer, AnswerError
<1>1. r \in Requests
  BY <1>0
<1>2. part \in Frames /\ good \in Frames /\ bad \in Frames
  BY <1>1 DEF Frames
<1>3. \A fs \in Seq(Frames) : Joined(sock[c].back \o fs, sock[c].back, fs)
  BY <1>0 DEF Joined
<1>4. PICK fs \in Seq(Frames) : /\ fs # <<>> /\ ~Barrier(fs[1]) /\ Whole(fs)
                                /\ Joined(sock'[c].back, sock[c].back, fs)
                                /\ \A k \in Conns : k # c => sock'[k].back = sock[k].back
  <2>1. CASE AnswerError(c)
    <3>1. sock' = [sock EXCEPT ![c] = [sock[c] EXCEPT !.recv = Tail(sock[c].recv),
              !.back = Append(sock[c].back, bad)]]
      BY <2>1 DEF AnswerError
    <3>2. Joined(Append(sock[c].back, bad), sock[c].back, <<bad>>)
      <4> PICK q \in Seq(Frames), f \in Frames : q = sock[c].back /\ f = bad
        BY <1>0, <1>2
      <4>1. /\ Len(Append(q, f)) = Len(q) + 1 /\ Append(q, f)[Len(q) + 1] = f
            /\ \A i \in 1..Len(q) : Append(q, f)[i] = q[i]
        BY AppendProperties
      <4>0. Len(<<f>>) = 1 /\ <<f>>[1] = f
        OBVIOUS
      <4>5. PICK z : z = <<f>>
        OBVIOUS
      <4>2. z = <<f>> /\ Len(z) = 1 /\ z[1] = f
        BY <4>0, <4>5
      <4>3. \A i \in 1..Len(z) : i = 1
        BY <4>2
      <4>4. Joined(Append(q, f), q, z)
        <5> PICK p : p = Append(q, f)
          OBVIOUS
        <5> QED
          BY <4>1, <4>2, <4>3 DEF Joined
      <4> QED
        BY <4>2, <4>4
    <3>3. <<bad>> \in Seq(Frames) /\ <<bad>> # <<>> /\ ~Barrier(<<bad>>[1]) /\ Whole(<<bad>>)
      BY <1>2 DEF Barrier, Whole, Ends
    <3>4. \A k \in Conns : sock'[k].back = IF k = c THEN Append(sock[c].back, bad)
                                           ELSE sock[k].back
      BY <1>0, <3>1 DEF TypeOK, SockFields
    <3> QED
      BY <3>2, <3>3, <3>4
  <2>2. CASE Answer(c) /\ r \in Batches
    <3>1. sock' = [sock EXCEPT ![c] = [sock[c] EXCEPT !.recv = Tail(sock[c].recv),
              !.back = sock[c].back \o <<part, good>>]]
      BY <2>2 DEF Answer
    <3>2. /\ <<part, good>> \in Seq(Frames) /\ <<part, good>> # <<>>
          /\ Len(<<part, good>>) = 2 /\ <<part, good>>[1] = part /\ <<part, good>>[2] = good
      BY <1>2
    <3>3. ~Barrier(part) /\ ~Ends(part) /\ Barrier(good) /\ Ends(good)
      BY <2>2 DEF Barrier, Ends
    <3>4. Whole(<<part, good>>)
      <4> PICK p : p = <<part, good>>
        OBVIOUS
      <4>0. Len(p) = 2 /\ p[1] = part /\ p[2] = good
        BY <3>2
      <4>1. ASSUME NEW j \in 1..2
            PROVE  /\ ~Ends(p[j]) => j + 1 \in 1..2 /\ Barrier(p[j + 1])
                   /\ Barrier(p[j]) /\ j > 1 => ~Ends(p[j - 1])
        <5> HIDE DEF part, good
        <5>1. CASE j = 1
          BY <3>3, <4>0, <5>1
        <5>2. CASE j = 2
          BY <3>3, <4>0, <5>2
        <5> QED
          BY <5>1, <5>2
      <4>2. Whole(p)
        BY <4>0, <4>1 DEF Whole
      <4> QED
        BY <4>2
    <3>5. \A k \in Conns : sock'[k].back = IF k = c THEN sock[c].back \o <<part, good>>
                                           ELSE sock[k].back
      BY <1>0, <3>1 DEF TypeOK, SockFields
    <3>6. Joined(sock[c].back \o <<part, good>>, sock[c].back, <<part, good>>)
      BY <1>0, <3>2, <1>3
    <3> QED
      BY <3>2, <3>3, <3>4, <3>5, <3>6
  <2>3. CASE Answer(c) /\ r \notin Batches
    <3>1. sock' = [sock EXCEPT ![c] = [sock[c] EXCEPT !.recv = Tail(sock[c].recv),
              !.back = sock[c].back \o <<good>>]]
      BY <2>3 DEF Answer
    <3>2. <<good>> \in Seq(Frames) /\ <<good>> # <<>> /\ ~Barrier(<<good>>[1]) /\ Whole(<<good>>)
      BY <1>2, <2>3 DEF Barrier, Whole, Ends
    <3>3. \A k \in Conns : sock'[k].back = IF k = c THEN sock[c].back \o <<good>>
                                           ELSE sock[k].back
      BY <1>0, <3>1 DEF TypeOK, SockFields
    <3>4. Joined(sock[c].back \o <<good>>, sock[c].back, <<good>>)
      BY <1>0, <3>2, <1>3
    <3> QED
      BY <3>2, <3>3, <3>4
  <2> QED
    BY <2>1, <2>2, <2>3
<1> QED
  BY <1>4 DEF BackStep

LEMMA BackNext ==
    ASSUME TypeOK, AllSound, [Next]_vars
    PROVE  \A k \in Conns : BackStep(k)
<1> DEFINE Goal == \A k \in Conns : BackStep(k)
<1>0. CASE UNCHANGED sock
  BY <1>0 DEF BackStep
<1>1. ASSUME NEW c \in Conns, NEW s, sock' = [sock EXCEPT ![c] = s],
             \/ s.back = sock[c].back
             \/ s.back = <<>> /\ inflight'[c] = <<>>
             \/ (ReadPart(c) \/ ReadLast(c)) /\ s.back = Tail(sock[c].back)
      PROVE  Goal
  <2>1. \A k \in Conns : sock'[k] = IF k = c THEN s ELSE sock[k]
    BY <1>1 DEF TypeOK
  <2> QED
    BY <1>1, <2>1 DEF BackStep
<1>2. ASSUME NEW c \in Conns PROVE sock[c] \in SockFields /\ inflight[c] \in Seq(Requests)
  BY DEF TypeOK
<1>3. ASSUME NEW c \in Conns, DialOK(c) PROVE Goal
  <2>1. UNCHANGED sock \/ (sock' = [sock EXCEPT ![c] = OpenSock] /\ ~mux[c].closed)
    BY <1>3 DEF DialOK
  <2>2. ~mux[c].closed => inflight'[c] = <<>>
    BY <1>3 DEF AllSound, SoundAt, Sound, Lives, DialOK
  <2> QED
    BY <1>0, <1>1, <2>1, <2>2 DEF OpenSock, DeadSock
<1>4. ASSUME NEW c \in Conns, Write(c) PROVE Goal
  <2>1. PICK s : /\ sock' = [sock EXCEPT ![c] = s]
                 /\ s = IF sock[c].up THEN [sock[c] EXCEPT !.recv =
                          Append(sock[c].recv, writer[c].batch[writer[c].n + 1])] ELSE sock[c]
    BY <1>4 DEF Write
  <2>2. s.back = sock[c].back
    BY <1>2, <2>1 DEF SockFields
  <2> QED
    BY <1>1, <2>1, <2>2
<1>5. ASSUME NEW c \in Conns, Break(c) PROVE Goal
  <2>1. PICK s : /\ sock' = [sock EXCEPT ![c] = s]
                 /\ s = [sock[c] EXCEPT !.up = FALSE, !.recv = <<>>]
    BY <1>5 DEF Break
  <2>2. s.back = sock[c].back
    BY <1>2, <2>1 DEF SockFields
  <2> QED
    BY <1>1, <2>1, <2>2
<1>6. ASSUME NEW c \in Conns, ReadPart(c) PROVE Goal
  <2>1. PICK s : /\ sock' = [sock EXCEPT ![c] = s]
                 /\ s = [sock[c] EXCEPT !.back = Tail(sock[c].back)]
    BY <1>6 DEF ReadPart
  <2>2. s.back = Tail(sock[c].back)
    BY <1>2, <2>1 DEF SockFields
  <2> QED
    BY <1>1, <1>6, <2>1, <2>2
<1>7. ASSUME NEW c \in Conns, ReadLast(c) PROVE Goal
  <2>0. PICK p : p = Tail(inflight[c])
    OBVIOUS
  <2>1. PICK s : /\ sock' = [sock EXCEPT ![c] = s]
                 /\ s = IF Drained(c, p) THEN DeadSock
                        ELSE [sock[c] EXCEPT !.back = Tail(sock[c].back)]
    BY <1>7, <2>0 DEF ReadLast
  <2>2. CASE Drained(c, p)
    <3>1. inflight'[c] = <<>>
      BY <1>7, <2>0, <2>2 DEF ReadLast, Drained, TypeOK
    <3> QED
      BY <1>1, <2>1, <2>2, <3>1 DEF DeadSock
  <2>3. CASE ~Drained(c, p)
    <3>1. s.back = Tail(sock[c].back)
      BY <1>2, <2>1, <2>3 DEF SockFields
    <3> QED
      BY <1>1, <1>7, <2>1, <3>1
  <2> QED
    BY <2>2, <2>3
<1>8. ASSUME NEW c \in Conns, Drain(c) PROVE Goal
  <2>1. CASE mux[c].closed
    BY <1>0, <1>8, <2>1 DEF Drain
  <2>2. CASE ~mux[c].closed
    <3>1. /\ sock' = [sock EXCEPT ![c] = IF inflight[c] = <<>> THEN DeadSock ELSE sock[c]]
          /\ inflight' = inflight
      BY <1>8, <2>2 DEF Drain
    <3>2. CASE inflight[c] = <<>>
      BY <1>1, <3>1, <3>2 DEF DeadSock
    <3>3. CASE inflight[c] # <<>>
      BY <1>1, <3>1, <3>3
    <3> QED
      BY <3>2, <3>3
  <2> QED
    BY <2>1, <2>2
<1>9. ASSUME NEW c \in Conns, WriterStep(c) PROVE Goal
  <2>1. CASE WriterFail(c)
    BY <2>1, BackTear DEF WriterFail
  <2>2. \/ DialOK(c) \/ Write(c) \/ WriterFail(c) \/ UNCHANGED sock
    BY <1>9 DEF WriterStep, WriterRuns, DialFail, WriterWake, WriterExit, Claim, FlushDone,
       FlushFail, SettleBatch, WriterRequeue
  <2> QED
    BY <1>0, <1>3, <1>4, <2>1, <2>2
<1>10. ASSUME NEW c \in Conns, ReaderStep(c) PROVE Goal
  <2>1. CASE ReadFail(c)
    <3>1. \E cause : teardownLocked(c, cause, TRUE)
      BY <2>1 DEF ReadFail
    <3> QED
      BY <3>1, BackTear
  <2> QED
    BY <1>0, <1>6, <1>7, <1>10, <2>1 DEF ReaderStep, Deliver, ReaderExit
<1>11. ASSUME NEW c \in Conns, TearStep(c) PROVE Goal
  BY <1>0, <1>11 DEF TearStep, TearSettle, TearDetach
<1>12. ASSUME NEW r \in Requests,
              ExchangeRefused(r) \/ Cancel(r) \/ Deadline(r) \/ CallerStep(r)
       PROVE  Goal
  <2>1. UNCHANGED sock \/ teardownLocked(rconn[r], "deadline", TRUE)
    BY <1>12 DEF ExchangeRefused, Cancel, Deadline, CallerStep, GiveUpQueued, GiveUpWriting,
       MissQueued, MissWriting, Expire, Orphan, connVars
  <2> QED
    BY <1>0, <2>1, BackTear
<1>13. ASSUME NEW r \in Requests, Exchange(r) PROVE Goal
  BY <1>13, BackPick DEF Exchange
<1>14. CASE PoolStep \/ CancelRoot \/ PoolClose \/ Finished \/ UNCHANGED vars
  <2>1. CASE DetachPick
    BY <2>1, BackPick DEF DetachPick
  <2>2. ~DetachPick => UNCHANGED sock
    BY <1>14 DEF PoolStep, PoolAdd, PoolSignal, DetachSkip, DetachFail, CancelRoot, PoolClose,
       Finished, vars, connVars
  <2> QED
    BY <1>0, <2>1, <2>2
<1> QED
  BY <1>5, <1>8, <1>9, <1>10, <1>11, <1>12, <1>13, <1>14, BackAnswer DEF Next, CloseStep

LEMMA WholeNext ==
    ASSUME TypeOK, TypeOK', AllSound, \A c \in Conns : Whole(sock[c].back), [Next]_vars,
           NEW c \in Conns
    PROVE  Whole(sock'[c].back)
<1>0. Whole(<<>>)
  BY DEF Whole
<1>1. sock[c].back \in Seq(Frames) /\ Whole(sock[c].back)
  BY DEF TypeOK, SockFields
<1>2. CASE sock'[c].back = Tail(sock[c].back) /\ sock[c].back # <<>>
  BY <1>1, <1>2, WholeTail
<1>3. ReadPart(c) \/ ReadLast(c) => sock[c].back # <<>>
  BY DEF ReadPart, ReadLast
<1>4. ASSUME NEW fs \in Seq(Frames), fs # <<>>, ~Barrier(fs[1]), Whole(fs),
             Joined(sock'[c].back, sock[c].back, fs)
      PROVE  Whole(sock'[c].back)
  <2>1. Len(sock[c].back) \in Nat /\ Len(fs) \in Nat \ {0}
    BY <1>1, <1>4
  <2> QED
    BY <1>1, <1>4, <2>1, WholeJoined
<1> QED
  BY <1>0, <1>1, <1>2, <1>3, <1>4, BackNext DEF BackStep

(* The next frame goes on being a barrier's, or not, while its request     *)
(* waits for it.                                                           *)
LEMMA BarrierStays ==
    ASSUME TypeOK, TypeOK', AllSound, [Next]_vars, NEW c \in Conns, ~ReadPart(c), ~ReadLast(c),
           NEW r, Awaits(c, 1, r)'
    PROVE  BarrierNext(sock'[c].back) <=> BarrierNext(sock[c].back)
<1>1. CASE sock'[c].back = sock[c].back
  BY <1>1
<1>2. inflight'[c] # <<>>
  BY DEF Awaits, HandedAt
<1>3. ASSUME NEW fs \in Seq(Frames), fs # <<>>, ~Barrier(fs[1]),
             Joined(sock'[c].back, sock[c].back, fs)
      PROVE  BarrierNext(sock'[c].back) <=> BarrierNext(sock[c].back)
  <2>1. PICK g \in Seq(Frames), b \in Seq(Frames) : g = sock'[c].back /\ b = sock[c].back
    BY DEF TypeOK, SockFields
  <2>2. PICK l \in Nat, m \in Nat, n \in Nat : l = Len(g) /\ m = Len(b) /\ n = Len(fs) /\ n # 0
    BY <1>3
  <2>3. /\ l = m + n
        /\ \A i \in 1..m : g[i] = b[i]
        /\ \A i \in 1..n : g[m + i] = fs[i]
    BY <1>3, <2>1, <2>2 DEF Joined
  <2>4. g # <<>> /\ Head(g) = g[1]
    <3>1. Len(g) # 0
      BY <2>2, <2>3
    <3> QED
      BY <3>1
  <2>5. CASE b = <<>>
    <3>1. g[1] = fs[1]
      <4>1. m = 0 /\ 1 \in 1..n /\ m + 1 = 1
        BY <2>2, <2>5
      <4>2. PICK i \in 1..n : i = 1
        BY <4>1
      <4>3. g[m + i] = fs[i]
        BY <2>3
      <4>4. m + i = 1
        BY <4>1, <4>2
      <4> QED
        BY <4>2, <4>3, <4>4
    <3> QED
      BY <1>3, <2>1, <2>4, <2>5, <3>1 DEF BarrierNext
  <2>6. CASE b # <<>>
    <3>1. 1 \in 1..m /\ Head(b) = b[1]
      BY <2>2, <2>6
    <3> QED
      BY <2>1, <2>3, <2>4, <2>6, <3>1 DEF BarrierNext
  <2> QED
    BY <2>5, <2>6
<1> QED
  BY <1>1, <1>2, <1>3, BackNext DEF BackStep

-----------------------------------------------------------------------------
(* The answers of a call *)

(* No request awaits two answers. *)
Alike ==
    \A c, d \in Conns : \A i, j, r : Awaits(c, i, r) /\ Awaits(d, j, r) => c = d /\ i = j

(* Written, and no answer is awaited any more. *)
Gone(r) == puts[r] = 1 /\ \A c \in Conns : \A i : ~Awaits(c, i, r)

Full(r) == got[r] = IF r \in Batches THEN <<r, r>> ELSE <<r>>

(* What has been read for a request that awaits its answer: nothing, or    *)
(* for the oldest one the first frame, when the barrier's is next.         *)
ReadSoFar(c) ==
    \A i, r : Awaits(c, i, r) =>
        got[r] = IF i = 1 /\ BarrierNext(sock[c].back) THEN <<r>> ELSE <<>>

Answered ==
    /\ Alike
    /\ \A c \in Conns : Whole(sock[c].back) /\ ReadSoFar(c)
    /\ \A r \in Requests : puts[r] = 0 => got[r] = <<>>
    /\ \A r \in Requests : Delivering(r) \/ res[r].err = "ok" => Gone(r) /\ Full(r)

LEMMA AwaitsType ==
    ASSUME TypeOK, NEW c \in Conns, NEW i, NEW r, Awaits(c, i, r)
    PROVE  r \in Requests
<1>1. inflight[c] \in Seq(Requests)
  BY DEF TypeOK
<1> QED
  BY <1>1 DEF Awaits, HandedAt

LEMMA AlikeStays == ASSUME Alike, \A c \in Conns : Keeps(c) PROVE Alike'
BY DEF Alike, Keeps

LEMMA GoneStays ==
    ASSUME NEW r, Gone(r), puts'[r] = puts[r], \A c \in Conns : Keeps(c)
    PROVE  Gone(r)'
BY DEF Gone, Keeps

(* Steps that read and write nothing. *)
LEMMA AnsweredIdle ==
    ASSUME TypeOK, TypeOK', AllSound, Accounted, Answered, [Next]_vars,
           ~ \E c \in Conns : Write(c) \/ ReadLast(c) \/ ReadPart(c)
    PROVE  Answered'
<1>1. puts' = puts /\ \A c \in Conns : Keeps(c)
  BY PutsNext, KeepsNext
<1>2. got' = got
  <2>1. ASSUME NEW r \in Requests,
               Exchange(r) \/ ExchangeRefused(r) \/ Cancel(r) \/ Deadline(r) \/ CallerStep(r)
        PROVE  got' = got
    BY <2>1 DEF Exchange, ExchangeRefused, Cancel, Deadline, CallerStep, GiveUpQueued,
       GiveUpWriting, MissQueued, MissWriting, Expire, Orphan
  <2>2. ASSUME NEW c \in Conns, WriterRuns(c) PROVE got' = got
    BY <2>2 DEF WriterRuns, DialOK, DialFail, WriterWake, WriterExit, Claim, FlushDone, FlushFail,
       SettleBatch, WriterFail, WriterRequeue, reqVars
  <2>3. ASSUME NEW c \in Conns, ReaderStep(c) \/ TearStep(c) \/ Drain(c) PROVE got' = got
    BY <2>3 DEF ReaderStep, TearStep, Drain, Deliver, ReadFail, ReaderExit,
       TearSettle, TearDetach, reqVars
  <2>4. ASSUME NEW c \in Conns, Answer(c) \/ AnswerError(c) \/ Break(c) PROVE got' = got
    BY <2>4 DEF Answer, AnswerError, Break, reqVars
  <2>5. CASE PoolStep \/ CancelRoot \/ PoolClose \/ Finished \/ UNCHANGED vars
    BY <2>5 DEF PoolStep, PoolAdd, PoolSignal, DetachSkip, DetachPick, DetachFail, CancelRoot,
       PoolClose, Finished, vars, reqVars
  <2> QED
    BY <2>1, <2>2, <2>3, <2>4, <2>5 DEF Next, WriterStep, CloseStep
<1>3. Alike'
  BY <1>1, AlikeStays DEF Answered
<1>4. ASSUME NEW c \in Conns PROVE Whole(sock'[c].back) /\ ReadSoFar(c)'
  <2>1. ASSUME NEW i, NEW r, Awaits(c, i, r)'
        PROVE  got'[r] = IF i = 1 /\ BarrierNext(sock'[c].back) THEN <<r>> ELSE <<>>
    <3>1. got[r] = IF i = 1 /\ BarrierNext(sock[c].back) THEN <<r>> ELSE <<>>
      BY <1>1, <2>1 DEF Answered, ReadSoFar, Keeps
    <3>2. i = 1 => (BarrierNext(sock'[c].back) <=> BarrierNext(sock[c].back))
      BY <2>1, BarrierStays
    <3> QED
      BY <1>2, <3>1, <3>2
  <2>2. Whole(sock'[c].back)
    BY WholeNext DEF Answered
  <2> QED
    BY <2>1, <2>2 DEF ReadSoFar
<1>5. ASSUME NEW r \in Requests, Delivering(r)' \/ res'[r].err = "ok"
      PROVE  Gone(r)' /\ Full(r)'
  <2>1. Delivering(r)' => Delivering(r)
    BY ReaderNext DEF Delivering
  <2>2. res'[r].err = "ok" => Delivering(r) \/ res[r].err = "ok"
    <3>1. Unset.err # "ok"
      BY DEF Unset, Result
    <3> QED
      BY EffectNext DEF Effect, Deserves
  <2>3. Gone(r) /\ Full(r)
    BY <1>5, <2>1, <2>2 DEF Answered
  <2> QED
    BY <1>1, <1>2, <2>3, GoneStays DEF Full
<1> QED
  BY <1>1, <1>2, <1>3, <1>4, <1>5 DEF Answered

(* The writer hands over a request of which nothing was read. *)
LEMMA AnsweredWrite ==
    ASSUME TypeOK, TypeOK', AllSound, Accounted, Answered, [Next]_vars,
           NEW c \in Conns, Write(c)
    PROVE  Answered'
<1>0. PICK x \in Requests : x = writer[c].batch[writer[c].n + 1] /\ puts[x] = 0
  BY NewForGood, PlacesWrite DEF Accounted
<1>1. /\ puts' = [puts EXCEPT ![x] = puts[x] + 1] /\ UNCHANGED <<got, res, reader>>
      /\ ~mux[c].closed
  BY <1>0 DEF Write
<1>2. \A k \in Conns : ~ReadPart(k) /\ ~ReadLast(k)
  <2>1. \A k \in Conns : ReadPart(k) \/ ReadLast(k) => puts' = puts
    BY DEF ReadPart, ReadLast
  <2>2. puts'[x] = 1
    BY <1>0, <1>1 DEF TypeOK
  <2> QED
    BY <1>0, <2>1, <2>2
<1>3. PICK h : h = Handed(inflight[c], writer[c]) + 1
  OBVIOUS
<1>4. ASSUME NEW k \in Conns, NEW i, NEW r, Awaits(k, i, r)'
      PROVE  Awaits(k, i, r) \/ (k = c /\ i = h /\ r = x)
  BY <1>0, <1>3, <1>4, AwaitsWrite DEF Keeps
<1>5. \A k \in Conns : \A i : ~Awaits(k, i, x)
  BY <1>0 DEF Accounted, Sent
<1>6. Alike'
  BY <1>4, <1>5 DEF Alike, Answered
<1>7. h = 1 => ~BarrierNext(sock[c].back)
  <2>1. ASSUME h = 1, sock[c].back # <<>> PROVE FALSE
    <3>1. Awaits(c, 1, Head(inflight[c]))
      BY <1>1, <2>1, HeadAwaited
    <3>2. PICK l \in Nat, m \in Nat, n \in Nat :
            l = Len(inflight[c]) /\ m = Len(writer[c].batch) /\ n = writer[c].n
      <4>1. inflight[c] \in Seq(Requests) /\ writer[c] \in WriterFields
        BY DEF TypeOK
      <4>2. writer[c].batch \in Seq(Requests) /\ writer[c].n \in Nat
        BY <4>1, WriterParts
      <4> QED
        BY <4>1, <4>2
    <3>3. Handed(inflight[c], writer[c]) \in Int
      BY <3>2 DEF Handed, Unwritten
    <3> QED
      BY <1>3, <2>1, <3>1, <3>3 DEF Awaits, HandedAt
  <2> QED
    BY <2>1 DEF BarrierNext
<1>8. ASSUME NEW k \in Conns PROVE Whole(sock'[k].back) /\ ReadSoFar(k)'
  <2>1. ASSUME NEW i, NEW r, Awaits(k, i, r)'
        PROVE  got[r] = IF i = 1 /\ BarrierNext(sock'[k].back) THEN <<r>> ELSE <<>>
    <3>1. i = 1 => (BarrierNext(sock'[k].back) <=> BarrierNext(sock[k].back))
      BY <1>2, <2>1, BarrierStays
    <3>2. CASE Awaits(k, i, r)
      BY <3>1, <3>2 DEF Answered, ReadSoFar
    <3>3. CASE k = c /\ i = h /\ r = x
      BY <1>0, <1>7, <3>1, <3>3 DEF Answered
    <3> QED
      BY <1>4, <2>1, <3>2, <3>3
  <2>2. Whole(sock'[k].back)
    BY WholeNext DEF Answered
  <2> QED
    BY <1>1, <2>1, <2>2 DEF ReadSoFar
<1>9. ASSUME NEW r \in Requests, puts'[r] = 0 PROVE got'[r] = <<>>
  BY <1>0, <1>1, <1>9 DEF Answered, TypeOK
<1>10. ASSUME NEW r \in Requests, Delivering(r)' \/ res'[r].err = "ok"
       PROVE  Gone(r)' /\ Full(r)'
  <2>1. Gone(r) /\ Full(r)
    BY <1>1, <1>10 DEF Answered, Delivering
  <2>2. r # x
    BY <1>0, <2>1 DEF Gone
  <2>3. Gone(r)'
    BY <1>1, <1>4, <2>1, <2>2 DEF Gone, TypeOK
  <2> QED
    BY <1>1, <2>1, <2>3 DEF Full
<1> QED
  BY <1>6, <1>8, <1>9, <1>10 DEF Answered

(* What the frame at hand is: the part of a batch, or the last one of its  *)
(* request.                                                                *)
LEMMA FrameRead ==
    ASSUME TypeOK, AllSound, Accounted, Answered, NEW c \in Conns, ReadPart(c) \/ ReadLast(c),
           NEW h, h = Head(inflight[c]), NEW f, f = Head(sock[c].back)
    PROVE  /\ Awaits(c, 1, h) /\ h \in Requests /\ f.of = h /\ ~f.bad /\ puts[h] = 1
           /\ got[h] = IF BarrierNext(sock[c].back) THEN <<h>> ELSE <<>>
           /\ f.last \/ h \in Batches
           /\ sock[c].back \in Seq(Frames) /\ sock[c].back # <<>> /\ Whole(sock[c].back)
<1>1. ~mux[c].closed /\ sock[c].back # <<>> /\ ~f.bad
  BY DEF ReadPart, ReadLast
<1>2. Awaits(c, 1, h) /\ h \in Requests
  BY <1>1, HeadAwaited
<1>3. /\ inflight[c] \in Seq(Requests) /\ sock[c] \in SockFields
      /\ Sound(mux[c], inflight[c], writer[c], sock[c], state)
  BY DEF TypeOK, AllSound, SoundAt
<1>4. f.of = h /\ (Ends(f) \/ f.of \in Batches)
  BY <1>1, <1>3, HeadFrame
<1>5. f.last \/ h \in Batches
  BY <1>1, <1>4 DEF Ends
<1>6. puts[h] = 1
  BY <1>2 DEF Accounted, Sent
<1>7. got[h] = IF BarrierNext(sock[c].back) THEN <<h>> ELSE <<>>
  BY <1>2 DEF Answered, ReadSoFar
<1> QED
  BY <1>1, <1>2, <1>3, <1>4, <1>5, <1>6, <1>7 DEF Answered, SockFields

LEMMA AnsweredPart ==
    ASSUME TypeOK, TypeOK', AllSound, Accounted, Answered, [Next]_vars,
           NEW c \in Conns, ReadPart(c)
    PROVE  Answered'
<1>0. PICK h, f : h = Head(inflight[c]) /\ f = Head(sock[c].back)
  OBVIOUS
<1>1. /\ Awaits(c, 1, h) /\ h \in Requests /\ f.of = h /\ ~f.bad /\ puts[h] = 1
      /\ got[h] = IF BarrierNext(sock[c].back) THEN <<h>> ELSE <<>>
      /\ sock[c].back \in Seq(Frames) /\ sock[c].back # <<>> /\ Whole(sock[c].back)
  BY <1>0, FrameRead
<1>2. /\ got' = [got EXCEPT ![h] = Append(got[h], f.of)] /\ ~Stops(h, f)
      /\ sock' = [sock EXCEPT ![c] = [sock[c] EXCEPT !.back = Tail(sock[c].back)]]
      /\ UNCHANGED <<puts, res, reader, inflight, writer>>
  BY <1>0 DEF ReadPart
<1>3. ~f.last
  BY <1>2 DEF Stops
<1>4. ~BarrierNext(sock[c].back) /\ ~Ends(f)
  BY <1>0, <1>1, <1>3 DEF BarrierNext, Barrier, Ends
<1>5. \A r \in Requests : got'[r] = IF r = h THEN <<h>> ELSE got[r]
  <2>1. Append(<<>>, h) = <<h>>
    OBVIOUS
  <2> QED
    BY <1>1, <1>2, <1>4, <2>1 DEF TypeOK
<1>6. /\ sock'[c].back = Tail(sock[c].back)
      /\ \A k \in Conns : k # c => sock'[k] = sock[k]
  BY <1>2 DEF TypeOK, SockFields
<1>7. BarrierNext(sock'[c].back)
  BY <1>0, <1>1, <1>4, <1>6, WholeTail
<1>8. \A k, i, r : Awaits(k, i, r)' <=> Awaits(k, i, r)
  BY <1>2 DEF Awaits
<1>9. Alike'
  BY <1>8 DEF Alike, Answered
<1>10. ASSUME NEW k \in Conns PROVE Whole(sock'[k].back) /\ ReadSoFar(k)'
  <2>1. ASSUME NEW i, NEW r, Awaits(k, i, r)'
        PROVE  got'[r] = IF i = 1 /\ BarrierNext(sock'[k].back) THEN <<r>> ELSE <<>>
    <3>1. Awaits(k, i, r) /\ r \in Requests
      BY <1>8, <2>1, AwaitsType
    <3>2. CASE r = h
      <4>1. k = c /\ i = 1
        BY <1>1, <3>1, <3>2 DEF Answered, Alike
      <4> QED
        BY <1>5, <1>7, <3>1, <3>2, <4>1
    <3>3. CASE r # h
      <4>1. got[r] = IF i = 1 /\ BarrierNext(sock[k].back) THEN <<r>> ELSE <<>>
        BY <3>1 DEF Answered, ReadSoFar
      <4>2. k = c => i # 1
        BY <1>1, <3>1, <3>3 DEF Awaits
      <4> QED
        BY <1>5, <1>6, <3>1, <3>3, <4>1, <4>2
    <3> QED
      BY <3>2, <3>3
  <2>2. Whole(sock'[k].back)
    BY WholeNext DEF Answered
  <2> QED
    BY <2>1, <2>2 DEF ReadSoFar
<1>11. ASSUME NEW r \in Requests, puts'[r] = 0 PROVE got'[r] = <<>>
  BY <1>1, <1>2, <1>5, <1>11 DEF Answered
<1>12. ASSUME NEW r \in Requests, Delivering(r)' \/ res'[r].err = "ok"
       PROVE  Gone(r)' /\ Full(r)'
  <2>1. Gone(r) /\ Full(r)
    BY <1>2, <1>12 DEF Answered, Delivering
  <2>2. r # h
    BY <1>1, <2>1 DEF Gone
  <2> QED
    BY <1>2, <1>5, <1>8, <2>1, <2>2 DEF Gone, Full
<1> QED
  BY <1>9, <1>10, <1>11, <1>12 DEF Answered

LEMMA AppendFacts ==
    ASSUME NEW p \in Seq(Requests), NEW h \in Requests
    PROVE  /\ Append(p, h) \in Seq(Requests)
           /\ Len(Append(p, h)) = Len(p) + 1
           /\ \A i \in 1..Len(p) : Append(p, h)[i] = p[i]
           /\ Append(p, h)[Len(p) + 1] = h
<1>1. Append(p, h) \in Seq(Requests)
  BY AppendProperties
<1>2. Len(Append(p, h)) = Len(p) + 1
  BY AppendProperties
<1>3. \A i \in 1..Len(p) : Append(p, h)[i] = p[i]
  BY AppendProperties
<1>4. Append(p, h)[Len(p) + 1] = h
  BY AppendProperties
<1> QED
  BY <1>1, <1>2, <1>3, <1>4

LEMMA AppendTwo ==
    ASSUME NEW h \in Requests
    PROVE  Append(<<>>, h) = <<h>> /\ Append(<<h>>, h) = <<h, h>>
<1>1. Append(<<>>, h) = <<h>>
  OBVIOUS
<1>2. <<h>> \in Seq(Requests) /\ <<h, h>> \in Seq(Requests) /\ Len(<<h>>) = 1 /\ <<h>>[1] = h
  OBVIOUS
<1>3. Len(<<h, h>>) = 2 /\ <<h, h>>[1] = h /\ <<h, h>>[2] = h
  OBVIOUS
<1>4. PICK p \in Seq(Requests), q \in Seq(Requests) : p = <<h>> /\ q = <<h, h>>
  BY <1>2
<1>5. /\ Append(p, h) \in Seq(Requests) /\ Len(Append(p, h)) = 2
      /\ Append(p, h)[1] = h /\ Append(p, h)[2] = h
  <2>1. p \in Seq(Requests) /\ Len(p) = 1 /\ p[1] = h
    BY <1>2, <1>4
  <2>2. /\ Append(p, h) \in Seq(Requests) /\ Len(Append(p, h)) = Len(p) + 1
        /\ \A i \in 1..Len(p) : Append(p, h)[i] = p[i]
        /\ Append(p, h)[Len(p) + 1] = h
    BY <2>1, AppendFacts
  <2>3. 1 \in 1..Len(p) /\ Len(p) + 1 = 2
    BY <2>1
  <2>4. Append(p, h)[1] = p[1]
    BY <2>2, <2>3
  <2>5. Append(p, h)[2] = h
    BY <2>2, <2>3
  <2> QED
    BY <2>1, <2>2, <2>3, <2>4, <2>5
<1>6. \A i \in 1..2 : Append(p, h)[i] = q[i]
  <2>1. q[1] = h /\ q[2] = h
    BY <1>3, <1>4
  <2> QED
    BY <1>5, <2>1
<1>7. Append(p, h) = q
  <2>1. q \in Seq(Requests) /\ Len(q) = 2
    BY <1>2, <1>3, <1>4
  <2> QED
    BY <1>5, <1>6, <2>1, SeqEqual
<1> QED
  BY <1>1, <1>4, <1>7

LEMMA AnsweredLast ==
    ASSUME TypeOK, TypeOK', AllSound, Accounted, Answered, [Next]_vars,
           NEW c \in Conns, ReadLast(c)
    PROVE  Answered'
<1>0. PICK h, f : h = Head(inflight[c]) /\ f = Head(sock[c].back)
  OBVIOUS
<1>1. /\ Awaits(c, 1, h) /\ h \in Requests /\ f.of = h /\ ~f.bad /\ puts[h] = 1
      /\ got[h] = IF BarrierNext(sock[c].back) THEN <<h>> ELSE <<>>
      /\ f.last \/ h \in Batches
      /\ sock[c].back \in Seq(Frames) /\ sock[c].back # <<>> /\ Whole(sock[c].back)
  BY <1>0, FrameRead
<1>2. /\ got' = [got EXCEPT ![h] = Append(got[h], f.of)] /\ Stops(h, f)
      /\ UNCHANGED <<puts, res>>
  BY <1>0 DEF ReadLast
<1>3. f.last
  BY <1>1, <1>2 DEF Stops
<1>4. (BarrierNext(sock[c].back) <=> h \in Batches) /\ Ends(f)
  BY <1>0, <1>1, <1>3 DEF BarrierNext, Barrier, Ends
<1>5. \A r \in Requests : got'[r] = IF r # h THEN got[r]
                                    ELSE IF h \in Batches THEN <<h, h>> ELSE <<h>>
  <2>1. Append(<<>>, h) = <<h>> /\ Append(<<h>>, h) = <<h, h>>
    BY <1>1, AppendTwo
  <2> QED
    BY <1>1, <1>2, <1>4, <2>1 DEF TypeOK
<1>6. /\ \A k \in Conns \ {c} : Keeps(k)
      /\ \A i, r : Awaits(c, i, r)' => i + 1 # 1 /\ Awaits(c, i + 1, r)
  BY AwaitsRead
<1>7. \A k \in Conns : \A i, r : Awaits(k, i, r)' =>
         r # h /\ r \in Requests /\ \E j : Awaits(k, j, r) /\ (k = c => j = i + 1) /\ (k # c => j = i)
  <2>1. ASSUME NEW k \in Conns, NEW i, NEW r, Awaits(k, i, r)'
        PROVE  \E j : Awaits(k, j, r) /\ (k = c => j = i + 1 /\ j # 1) /\ (k # c => j = i)
    BY <1>6, <2>1 DEF Keeps
  <2> QED
    BY <1>1, <2>1, AwaitsType DEF Answered, Alike
<1>8. Alike'
  <2>1. ASSUME NEW k \in Conns, NEW l \in Conns, NEW i, NEW j, NEW r,
               Awaits(k, i, r)', Awaits(l, j, r)'
        PROVE  k = l /\ i = j
    <3>1. \A m \in Conns : \A n : Awaits(m, n, r)' => n \in Nat
      BY DEF Awaits, HandedAt
    <3>2. k = l
      BY <1>7, <2>1 DEF Answered, Alike
    <3>3. CASE k # c
      BY <1>7, <2>1, <3>2, <3>3 DEF Answered, Alike
    <3>4. CASE k = c
      <4>1. i + 1 = j + 1 /\ i \in Nat /\ j \in Nat
        BY <1>6, <2>1, <3>1, <3>2, <3>4 DEF Answered, Alike
      <4> QED
        BY <3>2, <4>1
    <3> QED
      BY <3>3, <3>4
  <2> QED
    BY <2>1 DEF Alike
<1>9. ASSUME NEW k \in Conns PROVE Whole(sock'[k].back) /\ ReadSoFar(k)'
  <2>1. ASSUME NEW i, NEW r, Awaits(k, i, r)'
        PROVE  got'[r] = IF i = 1 /\ BarrierNext(sock'[k].back) THEN <<r>> ELSE <<>>
    <3>1. r # h /\ r \in Requests /\ got'[r] = got[r]
      BY <1>5, <1>7, <2>1
    <3>2. CASE k # c
      <4>1. Awaits(k, i, r) /\ sock'[k] = sock[k]
        BY <1>6, <2>1, <3>2 DEF Keeps, ReadLast, TypeOK
      <4> QED
        BY <3>1, <4>1 DEF Answered, ReadSoFar
    <3>3. CASE k = c
      <4>1. got[r] = <<>>
        BY <1>6, <2>1, <3>3 DEF Answered, ReadSoFar
      <4>2. sock'[c].back = Tail(sock[c].back) \/ sock'[c].back = <<>>
        BY DEF ReadLast, TypeOK, SockFields, DeadSock
      <4>3. ~BarrierNext(sock'[c].back)
        <5>1. ~BarrierNext(Tail(sock[c].back))
          BY <1>0, <1>1, <1>4, WholeTail
        <5>2. ~BarrierNext(<<>>)
          BY DEF BarrierNext
        <5> QED
          BY <4>2, <5>1, <5>2
      <4> QED
        BY <3>1, <3>3, <4>1, <4>3
    <3> QED
      BY <3>2, <3>3
  <2>2. Whole(sock'[k].back)
    BY WholeNext DEF Answered
  <2> QED
    BY <2>1, <2>2 DEF ReadSoFar
<1>10. ASSUME NEW r \in Requests, puts'[r] = 0 PROVE got'[r] = <<>>
  BY <1>1, <1>2, <1>5, <1>10 DEF Answered
<1>11. ASSUME NEW r \in Requests, Delivering(r)' \/ res'[r].err = "ok"
       PROVE  Gone(r)' /\ Full(r)'
  <2>1. CASE r = h
    <3>1. puts'[r] = 1 /\ \A k \in Conns : \A i : ~Awaits(k, i, r)'
      BY <1>1, <1>2, <1>7, <2>1
    <3> QED
      BY <1>5, <2>1, <3>1 DEF Gone, Full
  <2>2. CASE r # h
    <3>1. Delivering(r)' => Delivering(r)
      <4>1. ASSUME NEW k \in Conns, reader'[k].pc = "deliver", reader'[k].head = r
            PROVE  reader'[k] = reader[k]
        <5>1. \A l \in Conns : l # c => reader'[l] = reader[l]
          BY DEF ReadLast, TypeOK
        <5>2. reader'[k] = reader[k] \/ reader'[k].head = Head(inflight[k])
          BY <4>1, ReaderNext
        <5> QED
          BY <1>0, <2>2, <4>1, <5>1, <5>2
      <4> QED
        BY <4>1 DEF Delivering
    <3>2. Gone(r) /\ Full(r)
      BY <1>2, <1>11, <3>1 DEF Answered
    <3>3. \A k \in Conns : \A i : ~Awaits(k, i, r)'
      BY <1>7, <3>2 DEF Gone
    <3> QED
      BY <1>2, <1>5, <2>2, <3>2, <3>3 DEF Gone, Full
  <2> QED
    BY <2>1, <2>2
<1> QED
  BY <1>8, <1>9, <1>10, <1>11 DEF Answered

LEMMA AnsweredInit == Init => Answered
<1> SUFFICES ASSUME Init PROVE Answered
  OBVIOUS
<1>1. /\ \A c \in Conns : inflight[c] = <<>> /\ reader[c] = NoReader /\ sock[c] = DeadSock
      /\ \A r \in Requests : got[r] = <<>> /\ res[r] = Unset
  BY DEF Init
<1>2. \A c \in Conns : \A i, r : ~Awaits(c, i, r)
  BY <1>1 DEF Awaits, HandedAt
<1>3. \A c \in Conns : Whole(sock[c].back)
  BY <1>1 DEF Whole, DeadSock
<1>4. \A r \in Requests : ~Delivering(r) /\ res[r].err # "ok"
  BY <1>1 DEF Delivering, NoReader, Unset, Result
<1> QED
  BY <1>1, <1>2, <1>3, <1>4 DEF Answered, Alike, ReadSoFar

LEMMA AnsweredNext ==
    ASSUME TypeOK, TypeOK', AllSound, Accounted, Answered, [Next]_vars
    PROVE  Answered'
BY AnsweredIdle, AnsweredWrite, AnsweredPart, AnsweredLast

(* exchange returns nil only with the call's own responses: the one, or    *)
(* for a batch its item's and the barrier's, in this order.                *)
THEOREM AnswersOwn == Spec => []OwnAnswers
<1>1. Answered => OwnAnswers
  BY DEF Answered, OwnAnswers, Full
<1>2. TypeOK /\ TypeOK' /\ AllSound /\ Accounted /\ Answered /\ [Next]_vars => Answered'
  BY AnsweredNext
<1>3. Init => Answered
  BY AnsweredInit
<1> QED
  BY <1>1, <1>2, <1>3, SoundAlways, AccountedAlways, TypeCorrect, PTL DEF Spec

=============================================================================
