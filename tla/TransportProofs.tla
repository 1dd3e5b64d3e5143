--------------------------- MODULE TransportProofs ---------------------------
(***************************************************************************)
(* Theorems about Transport, for any requests, connections, cap on the     *)
(* connections, deadlines and faults.                                      *)
(***************************************************************************)
EXTENDS Transport, TLAPS, FiniteSetTheorems, SequenceTheorems

-----------------------------------------------------------------------------
(* Updating one place of a function, which may not be one of its own *)

LEMMA Update ==
    ASSUME NEW S, NEW T, NEW f \in [S -> T], NEW x, NEW e, x \in S => e \in T
    PROVE  [f EXCEPT ![x] = e] \in [S -> T]
OBVIOUS

LEMMA NoRequests == <<>> \in Seq(Requests)
OBVIOUS

-----------------------------------------------------------------------------
(* The records a connection is made of *)

LEMMA MuxParts ==
    ASSUME NEW m \in MuxFields
    PROVE  /\ m.closed \in BOOLEAN /\ m.closing \in BOOLEAN /\ m.served \in BOOLEAN
           /\ m.wake \in BOOLEAN /\ m.cause \in Causes
           /\ m.blamed \in Requests \cup {None} /\ m.rd \in Requests \cup {None}
BY DEF MuxFields

LEMMA MuxWake ==
    ASSUME NEW m \in MuxFields, NEW b \in BOOLEAN
    PROVE  [m EXCEPT !.wake = b] \in MuxFields
BY DEF MuxFields

LEMMA MuxClose ==
    ASSUME NEW m \in MuxFields
    PROVE  [m EXCEPT !.closed = TRUE, !.wake = TRUE] \in MuxFields
BY DEF MuxFields

LEMMA MuxTear ==
    ASSUME NEW m \in MuxFields, NEW x \in Causes, NEW y \in Requests \cup {None}
    PROVE  [m EXCEPT !.closed = TRUE, !.cause = x, !.blamed = y, !.wake = TRUE] \in MuxFields
BY DEF MuxFields

LEMMA MuxArm ==
    ASSUME NEW m \in MuxFields, NEW y \in Requests \cup {None}
    PROVE  [m EXCEPT !.rd = y] \in MuxFields
BY DEF MuxFields

LEMMA MuxDial ==
    ASSUME NEW m \in MuxFields, NEW x \in {"up", "gone"}
    PROVE  [m EXCEPT !.dial = x] \in MuxFields
BY DEF MuxFields

LEMMA MuxDialFail ==
    ASSUME NEW m \in MuxFields, NEW x \in Causes
    PROVE  [m EXCEPT !.dial = "gone", !.closed = TRUE, !.wake = TRUE, !.cause = x] \in MuxFields
BY DEF MuxFields

LEMMA MuxAnswered ==
    ASSUME NEW m \in MuxFields, NEW b \in BOOLEAN, NEW y \in Requests \cup {None}
    PROVE  [m EXCEPT !.served = TRUE, !.closed = b, !.rd = y] \in MuxFields
BY DEF MuxFields

LEMMA MuxDrain ==
    ASSUME NEW m \in MuxFields, NEW b \in BOOLEAN
    PROVE  [m EXCEPT !.closing = TRUE, !.wake = TRUE, !.closed = b] \in MuxFields
BY DEF MuxFields

LEMMA MuxBorn ==
    ASSUME NEW m \in MuxFields
    PROVE  [m EXCEPT !.dial = "dialing", !.closed = FALSE] \in MuxFields
BY DEF MuxFields

LEMMA MuxConstants == NoMux \in MuxFields /\ NewMux \in MuxFields
<1>1. NoMux \in MuxFields
  BY DEF NoMux, MuxFields, Causes
<1> QED
  BY <1>1, MuxBorn DEF NewMux

LEMMA WriterParts ==
    ASSUME NEW w \in WriterFields
    PROVE  /\ w.batch \in Seq(Requests) /\ w.n \in Nat
           /\ w.err \in {"nil", "io", "iotimeout"}
           /\ w.part \in BOOLEAN /\ w.closed \in BOOLEAN /\ w.served \in BOOLEAN
BY DEF WriterFields

WriterPlaces == {"off", "idle", "claim", "flush", "settle", "fail", "tail", "requeue", "exit"}

LEMMA WriterMove ==
    ASSUME NEW w \in WriterFields, NEW p \in WriterPlaces
    PROVE  [w EXCEPT !.pc = p] \in WriterFields
BY DEF WriterFields, WriterPlaces

LEMMA WriterCount ==
    ASSUME NEW w \in WriterFields, NEW n \in Nat
    PROVE  [w EXCEPT !.n = n] \in WriterFields
BY DEF WriterFields

LEMMA WriterBatch ==
    ASSUME NEW w \in WriterFields, NEW p \in WriterPlaces, NEW b \in Seq(Requests)
    PROVE  /\ [w EXCEPT !.pc = p, !.batch = b] \in WriterFields
           /\ [w EXCEPT !.batch = b, !.pc = p] \in WriterFields
BY DEF WriterFields, WriterPlaces

LEMMA WriterDone ==
    ASSUME NEW w \in WriterFields, NEW s \in BOOLEAN
    PROVE  [w EXCEPT !.pc = "settle", !.closed = TRUE, !.served = s] \in WriterFields
BY DEF WriterFields

LEMMA WriterFailed ==
    ASSUME NEW w \in WriterFields, NEW e \in {"io", "iotimeout"}, NEW p \in BOOLEAN,
           NEW b \in BOOLEAN, NEW s \in BOOLEAN
    PROVE  [w EXCEPT !.pc = "settle", !.err = e, !.part = p, !.closed = b, !.served = s]
             \in WriterFields
BY DEF WriterFields

LEMMA WriterNone == NoWriter \in WriterFields
BY EmptySeq DEF NoWriter, WriterFields

LEMMA ReaderMove ==
    ASSUME NEW p \in {"off", "read", "deliver", "exit"}, NEW h \in Requests \cup {None},
           NEW b \in BOOLEAN
    PROVE  [pc |-> p, head |-> h, fin |-> b] \in ReaderFields
BY DEF ReaderFields

LEMMA ReaderAt ==
    ASSUME NEW x \in ReaderFields, NEW p \in {"off", "read", "deliver", "exit"}
    PROVE  [x EXCEPT !.pc = p] \in ReaderFields
BY DEF ReaderFields

LEMMA ReaderNone == NoReader \in ReaderFields
BY DEF NoReader, ReaderFields

LEMMA ReaderParts ==
    ASSUME NEW x \in ReaderFields
    PROVE  x.head \in Requests \cup {None} /\ x.fin \in BOOLEAN
BY DEF ReaderFields

LEMMA TearParts ==
    ASSUME NEW t \in TearFields
    PROVE  t.lost \in Seq(Requests) /\ t.move \in Seq(Requests)
BY DEF TearFields

LEMMA TearMake ==
    ASSUME NEW p \in Seq(Requests), NEW q \in Seq(Requests)
    PROVE  [on |-> TRUE, lost |-> p, move |-> q] \in TearFields
BY DEF TearFields

LEMMA TearShift ==
    ASSUME NEW t \in TearFields, NEW q \in Seq(Requests)
    PROVE  [t EXCEPT !.lost = q] \in TearFields
BY DEF TearFields

LEMMA TearNone == NoTear \in TearFields
BY EmptySeq DEF NoTear, TearFields

LEMMA SockParts ==
    ASSUME NEW s \in SockFields
    PROVE  s.up \in BOOLEAN /\ s.recv \in Seq(Requests) /\ s.back \in Seq(Frames)
BY DEF SockFields

LEMMA SockReceive ==
    ASSUME NEW s \in SockFields, NEW q \in Seq(Requests), NEW b \in Seq(Frames)
    PROVE  /\ [s EXCEPT !.recv = q] \in SockFields
           /\ [s EXCEPT !.back = b] \in SockFields
           /\ [s EXCEPT !.recv = q, !.back = b] \in SockFields
           /\ [s EXCEPT !.up = FALSE, !.recv = q] \in SockFields
BY DEF SockFields

LEMMA SockUp ==
    ASSUME NEW s \in SockFields
    PROVE  [s EXCEPT !.up = TRUE] \in SockFields
BY DEF SockFields

LEMMA SockConstants == DeadSock \in SockFields /\ OpenSock \in SockFields
<1>1. <<>> \in Seq(Requests) /\ <<>> \in Seq(Frames)
  OBVIOUS
<1>2. DeadSock \in SockFields
  BY <1>1 DEF DeadSock, SockFields
<1> QED
  BY <1>2, SockUp DEF OpenSock

LEMMA ResultType ==
    ASSUME NEW e \in Errors, NEW w \in {"none", "part", "all"}
    PROVE  Result(e, w) \in Results
BY DEF Result, Results, Causes

LEMMA LostType ==
    ASSUME NEW x \in Causes
    PROVE  Lost(x) \in Results
BY DEF Lost, Results, Errors

-----------------------------------------------------------------------------
(* Helpers of Transport *)

LEMMA CompleteType ==
    ASSUME TypeOK, NEW R, \A r \in DOMAIN R : R[r] \in Results, complete(R)
    PROVE  /\ state' \in [Requests -> {"new", "queued", "writing", "done"}]
           /\ res' \in [Requests -> Results]
BY DEF TypeOK, complete

LEMMA ElemsType ==
    ASSUME NEW q \in Seq(Requests)
    PROVE  Elems(q) \subseteq Requests
BY DEF Elems

LEMMA ArmType ==
    ASSUME NEW q \in Seq(Requests), NEW st
    PROVE  armReadDeadline(q, st) \in Requests \cup {None}
<1>1. OldestLive(q, st) \subseteq Requests
  BY DEF OldestLive
<1>2. CASE OldestLive(q, st) \cap Timed = {}
  BY <1>2 DEF armReadDeadline
<1>3. CASE OldestLive(q, st) \cap Timed # {}
  <2>1. (CHOOSE r \in OldestLive(q, st) \cap Timed : TRUE) \in OldestLive(q, st)
    BY <1>3
  <2> QED
    BY <1>1, <1>3, <2>1 DEF armReadDeadline
<1> QED
  BY <1>2, <1>3

LEMMA ExtractType ==
    ASSUME NEW q \in Seq(Requests), NEW I \in SUBSET (1..Len(q)), NEW f \in Enumerations(I)
    PROVE  Extract(q, f) \in Seq(Requests)
<1> DEFINE n == Cardinality(I)
<1>1. Len(q) \in Nat
  BY LenProperties
<1>2. IsFiniteSet(1..Len(q))
  BY <1>1, FS_Interval
<1>3. n \in Nat
  BY <1>2, FS_Subset, FS_CardinalityType
<1>4. f \in [1..n -> I]
  BY DEF Enumerations
<1>5. \A i \in 1..n : q[f[i]] \in Requests
  BY <1>4, ElementOfSeq
<1>6. Extract(q, f) \in [1..n -> Requests]
  BY <1>4, <1>5 DEF Extract
<1> QED
  BY <1>3, <1>6, SeqDef

LEMMA BlamedType ==
    ASSUME TypeOK, NEW c \in Conns, NEW b \in BOOLEAN
    PROVE  BlamedOf(c, b) \in Requests \cup {None}
<1>1. inflight[c] \in Seq(Requests)
  BY DEF TypeOK
<1>2. inflight[c] # <<>> => Head(inflight[c]) \in Requests
  BY <1>1, HeadTailProperties
<1> QED
  BY <1>2 DEF BlamedOf

LEMMA TeardownType ==
    ASSUME TypeOK, NEW c, NEW cause \in Causes, NEW b \in BOOLEAN, teardownLocked(c, cause, b)
    PROVE  /\ mux' \in [Conns -> MuxFields]
           /\ pending' \in [Conns -> Seq(Requests)] /\ inflight' \in [Conns -> Seq(Requests)]
           /\ tear' \in [Conns -> TearFields] /\ sock' \in [Conns -> SockFields]
<1>1. CASE mux[c].closed
  BY <1>1 DEF TypeOK, teardownLocked
<1>2. CASE ~mux[c].closed
  <2>1. c \in Conns => BlamedOf(c, b) \in Requests \cup {None}
    BY BlamedType
  <2> DEFINE m == [mux[c] EXCEPT !.closed = TRUE, !.cause = cause,
                                 !.blamed = BlamedOf(c, b), !.wake = TRUE]
  <2>2. mux' \in [Conns -> MuxFields]
    <3>1. c \in Conns => m \in MuxFields
      BY <2>1, MuxTear DEF TypeOK
    <3>2. mux' = [mux EXCEPT ![c] = m]
      BY <1>2 DEF teardownLocked
    <3> HIDE DEF m
    <3> QED
      BY <3>1, <3>2 DEF TypeOK
  <2>3. c \in Conns => [on |-> TRUE, lost |-> inflight[c], move |-> pending[c]] \in TearFields
    BY TearMake DEF TypeOK
  <2>4. tear' \in [Conns -> TearFields]
    BY <1>2, <2>3 DEF TypeOK, teardownLocked
  <2>5. sock' \in [Conns -> SockFields]
    BY <1>2, SockConstants DEF TypeOK, teardownLocked
  <2>6. /\ pending' \in [Conns -> Seq(Requests)]
        /\ inflight' \in [Conns -> Seq(Requests)]
    <3>1. pending' = [pending EXCEPT ![c] = <<>>] /\ inflight' = [inflight EXCEPT ![c] = <<>>]
      BY <1>2 DEF teardownLocked
    <3>2. <<>> \in Seq(Requests)
      OBVIOUS
    <3> QED
      BY <3>1, <3>2 DEF TypeOK
  <2> QED
    BY <2>2, <2>4, <2>5, <2>6
<1> QED
  BY <1>1, <1>2

LEMMA PickType ==
    ASSUME TypeOK, NEW c \in Conns, pickLocked(c)
    PROVE  /\ conns' \in SUBSET Conns /\ mux' \in [Conns -> MuxFields]
           /\ sock' \in [Conns -> SockFields] /\ inflight' \in [Conns -> Seq(Requests)]
           /\ writer' \in [Conns -> WriterFields] /\ reader' \in [Conns -> ReaderFields]
<1>0. PICK R \in SUBSET {k \in conns : "idle" \in Faults /\ ~mux[k].closed /\ Load(k) = 0} :
      LET kept == {k \in conns \ R : ~mux[k].closed}
          mux1 == [k \in Conns |-> IF k \in R
                        THEN [mux[k] EXCEPT !.closed = TRUE, !.wake = TRUE]
                        ELSE mux[k]]
          sock1 == [k \in Conns |-> IF k \in R THEN DeadSock ELSE sock[k]]
      IN  \/ /\ conns' = kept \cup {c}
             /\ mux' = [mux1 EXCEPT ![c] = NewMux]
             /\ sock' = sock1
             /\ inflight' = [inflight EXCEPT ![c] = <<>>]
             /\ writer' = [writer EXCEPT ![c] = NoWriter]
             /\ reader' = [reader EXCEPT ![c] = NoReader]
          \/ /\ conns' = kept /\ mux' = mux1 /\ sock' = sock1
             /\ UNCHANGED <<inflight, writer, reader>>
  BY DEF pickLocked
<1> DEFINE mux1 == [k \in Conns |-> IF k \in R
                        THEN [mux[k] EXCEPT !.closed = TRUE, !.wake = TRUE]
                        ELSE mux[k]]
           sock1 == [k \in Conns |-> IF k \in R THEN DeadSock ELSE sock[k]]
<1>1. mux1 \in [Conns -> MuxFields]
  BY MuxClose DEF TypeOK
<1>2. sock1 \in [Conns -> SockFields]
  BY SockConstants DEF TypeOK
<1>3. sock' \in [Conns -> SockFields]
  BY <1>0, <1>2
<1>4. mux' = mux1 \/ mux' = [mux1 EXCEPT ![c] = NewMux]
  BY <1>0
<1> HIDE DEF mux1
<1>5. mux' \in [Conns -> MuxFields]
  BY <1>1, <1>4, MuxConstants
<1>6. conns' \in SUBSET Conns
  <2>1. conns \subseteq Conns /\ conns' \subseteq conns \cup {c}
    BY <1>0 DEF TypeOK
  <2> QED
    BY <2>1
<1>7. /\ inflight' \in [Conns -> Seq(Requests)]
      /\ writer' \in [Conns -> WriterFields] /\ reader' \in [Conns -> ReaderFields]
  <2>1. <<>> \in Seq(Requests)
    BY NoRequests
  <2>2. inflight' = inflight \/ inflight' = [inflight EXCEPT ![c] = <<>>]
    BY <1>0
  <2>3. writer' = writer \/ writer' = [writer EXCEPT ![c] = NoWriter]
    BY <1>0
  <2>4. reader' = reader \/ reader' = [reader EXCEPT ![c] = NoReader]
    BY <1>0
  <2>5. inflight' \in [Conns -> Seq(Requests)]
    BY <2>1, <2>2 DEF TypeOK
  <2>6. writer' \in [Conns -> WriterFields]
    BY <2>3, WriterNone DEF TypeOK
  <2>7. reader' \in [Conns -> ReaderFields]
    BY <2>4, ReaderNone DEF TypeOK
  <2> QED
    BY <2>5, <2>6, <2>7
<1> QED
  BY <1>3, <1>5, <1>6, <1>7

-----------------------------------------------------------------------------
(* Type correctness, one lemma per process *)

LEMMA TypeInit == Init => TypeOK
<1> SUFFICES ASSUME Init
             PROVE  TypeOK
  OBVIOUS
<1>1. Unset \in Results
  BY ResultType DEF Unset, Errors
<1>2. res \in [Requests -> Results]
  BY <1>1 DEF Init
<1>3. mux \in [Conns -> MuxFields] /\ sock \in [Conns -> SockFields]
  BY MuxConstants, SockConstants DEF Init
<1>4. writer \in [Conns -> WriterFields] /\ reader \in [Conns -> ReaderFields]
  BY WriterNone, ReaderNone DEF Init
<1>5. tear \in [Conns -> TearFields]
  BY TearNone DEF Init
<1>6. /\ pending \in [Conns -> Seq(Requests)] /\ inflight \in [Conns -> Seq(Requests)]
      /\ got \in [Requests -> Seq(Requests)] /\ plist \in Seq(Requests)
  BY NoRequests DEF Init
<1> QED
  BY <1>2, <1>3, <1>4, <1>5, <1>6 DEF Init, TypeOK, Causes, CallerPlaces

(* exchange and its caller *)

LEMMA CtxErrType ==
    ASSUME NEW r, NEW w \in {"none", "all"}
    PROVE  Result(CtxErr(r), w) \in Results
BY ResultType DEF CtxErr, Errors, Causes

LEMMA TypeExchange ==
    ASSUME TypeOK, NEW r \in Requests, Exchange(r)
    PROVE  TypeOK'
<1>1. PICK c \in Conns : pickLocked(c) /\ ptarget' = c
  BY DEF Exchange
<1>2. /\ conns' \in SUBSET Conns /\ mux' \in [Conns -> MuxFields]
      /\ sock' \in [Conns -> SockFields] /\ inflight' \in [Conns -> Seq(Requests)]
      /\ writer' \in [Conns -> WriterFields] /\ reader' \in [Conns -> ReaderFields]
      /\ ptarget' \in Conns \cup {None}
  BY <1>1, PickType
<1>3. plist' \in Seq(Requests)
  BY DEF Exchange
<1>4. /\ state' \in [Requests -> {"new", "queued", "writing", "done"}]
      /\ caller' \in [Requests -> CallerPlaces]
  BY DEF TypeOK, Exchange, CallerPlaces
<1>5. UNCHANGED <<ctx, rconn, onWire, res, got, puts, pclosed, root, drainq, psignal,
                  prequeue, pcause, pending, tear>>
  BY DEF Exchange
<1> QED
  BY <1>2, <1>3, <1>4, <1>5 DEF TypeOK

LEMMA TypeRefused ==
    ASSUME TypeOK, NEW r \in Requests, ExchangeRefused(r)
    PROVE  TypeOK'
<1>1. Result(CtxErr(r), "none") \in Results /\ Result("closed", "none") \in Results
  BY CtxErrType, ResultType DEF Errors
<1>2. res' \in [Requests -> Results]
  BY <1>1 DEF TypeOK, ExchangeRefused
<1>3. /\ state' \in [Requests -> {"new", "queued", "writing", "done"}]
      /\ caller' \in [Requests -> CallerPlaces]
  BY DEF TypeOK, ExchangeRefused, CallerPlaces
<1> QED
  BY <1>2, <1>3 DEF TypeOK, ExchangeRefused, poolVars, connVars

LEMMA TypeContext ==
    ASSUME TypeOK, NEW r \in Requests, Cancel(r) \/ Deadline(r)
    PROVE  TypeOK'
<1>1. ctx' \in [Requests -> {"live", "canceled", "expired"}]
  BY DEF TypeOK, Cancel, Deadline
<1>2. UNCHANGED <<state, caller, rconn, onWire, res, got, puts, poolVars, connVars>>
  BY DEF Cancel, Deadline
<1> QED
  BY <1>1, <1>2 DEF TypeOK, poolVars, connVars

LEMMA TypeGiveUp ==
    ASSUME TypeOK, NEW r \in Requests, GiveUpQueued(r) \/ GiveUpWriting(r)
    PROVE  TypeOK'
<1>1. Result(CtxErr(r), "none") \in Results /\ Result(CtxErr(r), "all") \in Results
  BY CtxErrType
<1>2. res' \in [Requests -> Results]
  BY <1>1 DEF TypeOK, GiveUpQueued, GiveUpWriting
<1>3. /\ state' \in [Requests -> {"new", "queued", "writing", "done"}]
      /\ caller' \in [Requests -> CallerPlaces]
  BY DEF TypeOK, GiveUpQueued, GiveUpWriting, CallerPlaces
<1>4. UNCHANGED <<ctx, rconn, onWire, got, puts, poolVars, connVars>>
  BY DEF GiveUpQueued, GiveUpWriting
<1> QED
  BY <1>2, <1>3, <1>4 DEF TypeOK, poolVars, connVars

LEMMA TypeMiss ==
    ASSUME TypeOK, NEW r \in Requests, MissQueued(r) \/ MissWriting(r)
    PROVE  TypeOK'
<1>1. caller' \in [Requests -> CallerPlaces]
  BY DEF TypeOK, MissQueued, MissWriting, CallerPlaces
<1>2. UNCHANGED <<state, ctx, rconn, onWire, res, got, puts, poolVars, connVars>>
  BY DEF MissQueued, MissWriting
<1> QED
  BY <1>1, <1>2 DEF TypeOK, poolVars, connVars

LEMMA TypeExpire ==
    ASSUME TypeOK, NEW r \in Requests, Expire(r)
    PROVE  TypeOK'
<1> DEFINE c == rconn[r]
           arm == armReadDeadline(inflight[c], state)
<1>1. caller' \in [Requests -> CallerPlaces]
  BY DEF TypeOK, Expire, CallerPlaces
<1>2. UNCHANGED <<state, ctx, rconn, onWire, res, got, puts, poolVars, writer, reader>>
  BY DEF Expire
<1>3. CASE teardownLocked(c, "deadline", TRUE)
  <2>1. /\ mux' \in [Conns -> MuxFields]
        /\ pending' \in [Conns -> Seq(Requests)] /\ inflight' \in [Conns -> Seq(Requests)]
        /\ tear' \in [Conns -> TearFields] /\ sock' \in [Conns -> SockFields]
    BY <1>3, TeardownType DEF Causes
  <2> QED
    BY <1>1, <1>2, <2>1 DEF TypeOK, poolVars
<1>4. CASE /\ mux' = [mux EXCEPT ![c] = [@ EXCEPT !.rd = arm]]
           /\ UNCHANGED <<pending, inflight, tear, sock>>
  <2>1. c \in Conns => arm \in Requests \cup {None}
    BY ArmType DEF TypeOK
  <2>2. c \in Conns => [mux[c] EXCEPT !.rd = arm] \in MuxFields
    BY <2>1, MuxArm DEF TypeOK
  <2>3. mux' \in [Conns -> MuxFields]
    BY <1>4, <2>2 DEF TypeOK
  <2> QED
    BY <1>1, <1>2, <1>4, <2>3 DEF TypeOK, poolVars
<1> QED
  BY <1>3, <1>4 DEF Expire

LEMMA TypeOrphan ==
    ASSUME TypeOK, NEW r \in Requests, Orphan(r)
    PROVE  TypeOK'
<1> DEFINE c == rconn[r]
           rd == IF mux[c].closed THEN mux[c].rd ELSE armReadDeadline(inflight[c], state)
<1>1. caller' \in [Requests -> CallerPlaces]
  BY DEF TypeOK, Orphan, CallerPlaces
<1>2. c \in Conns => rd \in Requests \cup {None}
  BY ArmType, MuxParts DEF TypeOK
<1>3. c \in Conns => [mux[c] EXCEPT !.rd = rd] \in MuxFields
  BY <1>2, MuxArm DEF TypeOK
<1>4. mux' = [mux EXCEPT ![c] = [mux[c] EXCEPT !.rd = rd]]
  BY DEF Orphan
<1>5. mux' \in [Conns -> MuxFields]
  BY <1>3, <1>4 DEF TypeOK
<1>6. UNCHANGED <<state, ctx, rconn, onWire, res, got, puts, poolVars, pending, inflight,
                  writer, reader, tear, sock>>
  BY DEF Orphan
<1> QED
  BY <1>1, <1>5, <1>6 DEF TypeOK, poolVars

(* serverPool *)

LEMMA ListType ==
    ASSUME NEW q \in Seq(Requests), q # <<>>
    PROVE  Head(q) \in Requests /\ Tail(q) \in Seq(Requests)
BY HeadTailProperties

LEMMA TypePoolAdd ==
    ASSUME TypeOK, PoolAdd
    PROVE  TypeOK'
<1> DEFINE c == ptarget
           r == Head(plist)
<1>1. c \in Conns /\ r \in Requests
  BY ListType DEF TypeOK, PoolAdd
<1>2. Append(pending[c], r) \in Seq(Requests)
  BY <1>1, AppendProperties DEF TypeOK
<1>3. pending' \in [Conns -> Seq(Requests)] /\ psignal' \in BOOLEAN
  BY <1>1, <1>2 DEF TypeOK, PoolAdd
<1>4. UNCHANGED <<reqVars, conns, pclosed, root, drainq, plist, ptarget, prequeue, pcause,
                  mux, inflight, writer, reader, tear, sock>>
  BY DEF PoolAdd
<1> QED
  BY <1>3, <1>4 DEF TypeOK, reqVars

LEMMA TypePoolSignal ==
    ASSUME TypeOK, PoolSignal
    PROVE  TypeOK'
<1> DEFINE c == ptarget
<1>1. c \in Conns /\ Head(plist) \in Requests /\ Tail(plist) \in Seq(Requests)
  BY ListType DEF TypeOK, PoolSignal
<1>2. [mux[c] EXCEPT !.wake = TRUE] \in MuxFields
  BY <1>1, MuxWake DEF TypeOK
<1>3. mux' \in [Conns -> MuxFields]
  BY <1>1, <1>2 DEF TypeOK, PoolSignal, signal
<1>4. /\ caller' \in [Requests -> CallerPlaces]
      /\ plist' \in Seq(Requests) /\ ptarget' \in Conns \cup {None} /\ psignal' \in BOOLEAN
  BY <1>1 DEF TypeOK, PoolSignal, CallerPlaces
<1>5. UNCHANGED <<state, ctx, rconn, onWire, res, got, puts, conns, pclosed, root, drainq,
                  prequeue, pcause, pending, inflight, writer, reader, tear, sock>>
  BY DEF PoolSignal
<1> QED
  BY <1>3, <1>4, <1>5 DEF TypeOK

LEMMA TypeDetachSkip ==
    ASSUME TypeOK, DetachSkip
    PROVE  TypeOK'
<1>1. plist' \in Seq(Requests)
  BY ListType DEF TypeOK, DetachSkip
<1>2. UNCHANGED <<reqVars, conns, pclosed, root, drainq, ptarget, psignal, prequeue, pcause, connVars>>
  BY DEF DetachSkip
<1> QED
  BY <1>1, <1>2 DEF TypeOK, reqVars, connVars

LEMMA TypeDetachPick ==
    ASSUME TypeOK, DetachPick
    PROVE  TypeOK'
<1>1. PICK c \in Conns : pickLocked(c) /\ ptarget' = c
  BY DEF DetachPick
<1>2. /\ conns' \in SUBSET Conns /\ mux' \in [Conns -> MuxFields]
      /\ sock' \in [Conns -> SockFields] /\ inflight' \in [Conns -> Seq(Requests)]
      /\ writer' \in [Conns -> WriterFields] /\ reader' \in [Conns -> ReaderFields]
      /\ ptarget' \in Conns \cup {None}
  BY <1>1, PickType
<1>3. UNCHANGED <<reqVars, pclosed, root, drainq, plist, psignal, prequeue, pcause, pending, tear>>
  BY DEF DetachPick
<1> QED
  BY <1>2, <1>3 DEF TypeOK, reqVars

LEMMA TypeDetachFail ==
    ASSUME TypeOK, DetachFail
    PROVE  TypeOK'
<1> DEFINE R == [r \in {Head(plist)} |-> Result(pcause, "none")]
<1>1. pcause \in Errors
  BY DEF TypeOK, Errors
<1>2. \A r \in DOMAIN R : R[r] \in Results
  BY <1>1, ResultType
<1>3. complete(R)
  BY DEF DetachFail
<1>4. /\ state' \in [Requests -> {"new", "queued", "writing", "done"}]
      /\ res' \in [Requests -> Results]
  <2> HIDE DEF R
  <2> QED
    BY <1>2, <1>3, CompleteType
<1>5. plist' \in Seq(Requests)
  BY ListType DEF TypeOK, DetachFail
<1>6. UNCHANGED <<ctx, caller, rconn, onWire, got, puts, conns, pclosed, root, drainq,
                  ptarget, psignal, prequeue, pcause, connVars>>
  BY DEF DetachFail
<1> QED
  BY <1>4, <1>5, <1>6 DEF TypeOK, connVars

LEMMA DetachType ==
    ASSUME TypeOK, NEW q \in Seq(Requests), NEW x \in Causes, NEW b \in BOOLEAN,
           detach(q, x, b)
    PROVE  /\ plist' \in Seq(Requests) /\ prequeue' \in BOOLEAN
           /\ pcause' \in Causes \cup {"closed"}
BY DEF TypeOK, detach

(* run, writeLoop and flush *)

LEMMA TypeDialOK ==
    ASSUME TypeOK, NEW c \in Conns, DialOK(c)
    PROVE  TypeOK'
<1>1. UNCHANGED <<reqVars, poolVars, pending, inflight, tear>>
  BY DEF DialOK
<1>2. /\ [mux[c] EXCEPT !.dial = "gone"] \in MuxFields
      /\ [mux[c] EXCEPT !.dial = "up"] \in MuxFields
  BY MuxDial DEF TypeOK
<1>3. mux' \in [Conns -> MuxFields]
  BY <1>2 DEF TypeOK, DialOK
<1>4. sock' \in [Conns -> SockFields]
  BY SockConstants DEF TypeOK, DialOK
<1>5. [NoWriter EXCEPT !.pc = "idle"] \in WriterFields
  BY WriterNone, WriterMove DEF WriterPlaces
<1>6. [NoReader EXCEPT !.pc = "read"] \in ReaderFields
  BY ReaderNone, ReaderAt
<1>7. writer' \in [Conns -> WriterFields]
  BY <1>5 DEF TypeOK, DialOK
<1>8. reader' \in [Conns -> ReaderFields]
  BY <1>6 DEF TypeOK, DialOK
<1> QED
  BY <1>1, <1>3, <1>4, <1>7, <1>8 DEF TypeOK, reqVars, poolVars

LEMMA TypeDialFail ==
    ASSUME TypeOK, NEW c \in Conns, DialFail(c)
    PROVE  TypeOK'
<1> DEFINE x == IF root THEN "rootcanceled" ELSE "dial"
           m == [mux[c] EXCEPT !.dial = "gone", !.closed = TRUE, !.wake = TRUE, !.cause = x]
           t == [on |-> TRUE, lost |-> inflight[c], move |-> pending[c]]
<1>1. UNCHANGED <<reqVars, poolVars, inflight, writer, reader, sock>>
  BY DEF DialFail
<1>2. x \in Causes
  BY DEF Causes
<1>3. m \in MuxFields /\ [mux[c] EXCEPT !.dial = "gone"] \in MuxFields
  BY <1>2, MuxDial, MuxDialFail DEF TypeOK
<1>4. \/ mux' = [mux EXCEPT ![c] = [mux[c] EXCEPT !.dial = "gone"]]
      \/ mux' = [mux EXCEPT ![c] = m]
  BY DEF DialFail
<1>5. mux' \in [Conns -> MuxFields]
  <2> HIDE DEF m
  <2> QED
    BY <1>3, <1>4 DEF TypeOK
<1>6. t \in TearFields
  BY TearMake DEF TypeOK
<1>7. tear' = [tear EXCEPT ![c] = tear[c]] \/ tear' = [tear EXCEPT ![c] = t]
  BY DEF DialFail
<1>8. tear' \in [Conns -> TearFields]
  <2> HIDE DEF t
  <2> QED
    BY <1>6, <1>7 DEF TypeOK
<1>9. \/ pending' = [pending EXCEPT ![c] = pending[c]]
      \/ pending' = [pending EXCEPT ![c] = <<>>]
  BY DEF DialFail
<1>10. pending' \in [Conns -> Seq(Requests)]
  BY <1>9, NoRequests DEF TypeOK
<1> QED
  BY <1>1, <1>5, <1>8, <1>10 DEF TypeOK, reqVars, poolVars

LEMMA TypeWriterWake ==
    ASSUME TypeOK, NEW c \in Conns, WriterWake(c)
    PROVE  TypeOK'
<1>1. [mux[c] EXCEPT !.wake = FALSE] \in MuxFields
  BY MuxWake DEF TypeOK
<1>2. mux' \in [Conns -> MuxFields]
  BY <1>1 DEF TypeOK, WriterWake
<1>3. [writer[c] EXCEPT !.pc = "claim"] \in WriterFields
  BY WriterMove DEF TypeOK, WriterPlaces
<1>4. writer' \in [Conns -> WriterFields]
  BY <1>3 DEF TypeOK, WriterWake
<1>5. UNCHANGED <<reqVars, poolVars, pending, inflight, reader, tear, sock>>
  BY DEF WriterWake
<1> QED
  BY <1>2, <1>4, <1>5 DEF TypeOK, reqVars, poolVars

LEMMA TypeWriterExit ==
    ASSUME TypeOK, NEW c \in Conns, WriterExit(c)
    PROVE  TypeOK'
<1>1. [NoWriter EXCEPT !.pc = "exit"] \in WriterFields
  BY WriterNone, WriterMove DEF WriterPlaces
<1>2. writer' \in [Conns -> WriterFields]
  BY <1>1 DEF TypeOK, WriterExit
<1>3. UNCHANGED <<reqVars, poolVars, mux, pending, inflight, reader, tear, sock>>
  BY DEF WriterExit
<1> QED
  BY <1>2, <1>3 DEF TypeOK, reqVars, poolVars

LEMMA TypeClaim ==
    ASSUME TypeOK, NEW c \in Conns, Claim(c)
    PROVE  TypeOK'
<1> DEFINE p == pending[c]
           I == {i \in 1..Len(p) : Claimable(p[i])}
           st(b) == [r \in Requests |-> IF r \in Elems(b) THEN "writing" ELSE state[r]]
           arm(b) == IF b # <<>> /\ inflight[c] = <<>> THEN armReadDeadline(b, st(b))
                                                     ELSE mux[c].rd
<1>1. PICK f \in Enumerations(I) :
        /\ state' = st(Extract(p, f))
        /\ inflight' = [inflight EXCEPT ![c] = inflight[c] \o Extract(p, f)]
        /\ writer' = [writer EXCEPT ![c] =
              IF Extract(p, f) = <<>> THEN [NoWriter EXCEPT !.pc = "idle"]
              ELSE [NoWriter EXCEPT !.pc = "flush", !.batch = Extract(p, f)]]
        /\ mux' = [mux EXCEPT ![c] = [mux[c] EXCEPT !.rd = arm(Extract(p, f))]]
  BY DEF Claim, Enlist
<1> DEFINE b == Extract(p, f)
<1>2. p \in Seq(Requests) /\ inflight[c] \in Seq(Requests)
  BY DEF TypeOK
<1>3. b \in Seq(Requests)
  BY <1>2, ExtractType
<1> HIDE DEF b, I, p
<1>4. state' \in [Requests -> {"new", "queued", "writing", "done"}]
  BY <1>1 DEF TypeOK, b
<1>5. inflight[c] \o b \in Seq(Requests)
  BY <1>2, <1>3, ConcatProperties
<1>6. inflight' \in [Conns -> Seq(Requests)]
  BY <1>1, <1>5 DEF TypeOK, b
<1>7. /\ [NoWriter EXCEPT !.pc = "idle"] \in WriterFields
      /\ [NoWriter EXCEPT !.pc = "flush", !.batch = b] \in WriterFields
  BY <1>3, WriterNone, WriterMove, WriterBatch DEF WriterPlaces
<1>8. writer' \in [Conns -> WriterFields]
  BY <1>1, <1>7 DEF TypeOK, b
<1>9. arm(b) \in Requests \cup {None}
  <2>1. armReadDeadline(b, st(b)) \in Requests \cup {None}
    BY <1>3, ArmType
  <2>2. mux[c].rd \in Requests \cup {None}
    BY MuxParts DEF TypeOK
  <2> QED
    BY <2>1, <2>2
<1> HIDE DEF arm
<1>10. [mux[c] EXCEPT !.rd = arm(b)] \in MuxFields
  BY <1>9, MuxArm DEF TypeOK
<1>11. mux' \in [Conns -> MuxFields]
  BY <1>1, <1>10 DEF TypeOK, b
<1>12. rconn' \in [Requests -> Conns \cup {None}]
  BY DEF TypeOK, Claim
<1>13. pending' \in [Conns -> Seq(Requests)]
  <2>1. pending' = [pending EXCEPT ![c] = <<>>]
    BY DEF Claim
  <2> QED
    BY <2>1, NoRequests DEF TypeOK
<1>14. UNCHANGED <<ctx, caller, onWire, res, got, puts, poolVars, reader, tear, sock>>
  BY DEF Claim
<1> QED
  BY <1>4, <1>6, <1>8, <1>11, <1>12, <1>13, <1>14 DEF TypeOK, poolVars

LEMMA TypeWrite ==
    ASSUME TypeOK, NEW c \in Conns, Write(c)
    PROVE  TypeOK'
<1> DEFINE w == writer[c]
           r == w.batch[w.n + 1]
           s == [sock[c] EXCEPT !.recv = Append(sock[c].recv, r)]
<1>1. w \in WriterFields
  BY DEF TypeOK
<1>2. w.batch \in Seq(Requests) /\ w.n \in Nat
  BY <1>1, WriterParts
<1>3. w.n < Len(w.batch)
  BY DEF Write
<1>4. r \in Requests
  <2>1. w.n + 1 \in 1..Len(w.batch)
    BY <1>2, <1>3, LenProperties
  <2> QED
    BY <1>2, <2>1, ElementOfSeq
<1>5. [w EXCEPT !.n = w.n + 1] \in WriterFields
  <2>1. w.n + 1 \in Nat
    BY <1>2
  <2> HIDE DEF w
  <2> QED
    BY <1>1, <2>1, WriterCount
<1>6. writer' = [writer EXCEPT ![c] = [w EXCEPT !.n = w.n + 1]]
  BY DEF Write
<1>7. writer' \in [Conns -> WriterFields]
  BY <1>5, <1>6 DEF TypeOK
<1>8. puts' = [puts EXCEPT ![r] = puts[r] + 1]
  BY DEF Write
<1>9. puts' \in [Requests -> Nat]
  <2> HIDE DEF r
  <2>1. puts[r] + 1 \in Nat
    BY <1>4 DEF TypeOK
  <2> QED
    BY <1>4, <1>8, <2>1 DEF TypeOK
<1>10. sock' = [sock EXCEPT ![c] = IF sock[c].up THEN s ELSE sock[c]]
  BY DEF Write
<1>11. s \in SockFields
  <2> HIDE DEF r
  <2>1. Append(sock[c].recv, r) \in Seq(Requests)
    BY <1>4, SockParts, AppendProperties DEF TypeOK
  <2> QED
    BY <2>1, SockParts, SockReceive DEF TypeOK
<1>12. sock' \in [Conns -> SockFields]
  <2> HIDE DEF s
  <2> QED
    BY <1>10, <1>11 DEF TypeOK
<1>13. UNCHANGED <<state, ctx, caller, rconn, onWire, res, got, poolVars, mux, pending,
                   inflight, reader, tear>>
  BY DEF Write
<1> QED
  BY <1>7, <1>9, <1>12, <1>13 DEF TypeOK, poolVars

LEMMA TypeFlushDone ==
    ASSUME TypeOK, NEW c \in Conns, FlushDone(c)
    PROVE  TypeOK'
<1> DEFINE w == [writer[c] EXCEPT !.pc = "settle", !.closed = TRUE, !.served = mux[c].served]
<1>1. mux[c].served \in BOOLEAN
  BY MuxParts DEF TypeOK
<1>2. w \in WriterFields
  BY <1>1, WriterDone DEF TypeOK
<1>3. [NoWriter EXCEPT !.pc = "claim"] \in WriterFields
  BY WriterNone, WriterMove DEF WriterPlaces
<1>4. \/ writer' = [writer EXCEPT ![c] = w]
      \/ writer' = [writer EXCEPT ![c] = [NoWriter EXCEPT !.pc = "claim"]]
  BY DEF FlushDone
<1>5. writer' \in [Conns -> WriterFields]
  <2> HIDE DEF w
  <2> QED
    BY <1>2, <1>3, <1>4 DEF TypeOK
<1>6. onWire' \in [Requests -> BOOLEAN]
  BY DEF TypeOK, FlushDone
<1>7. UNCHANGED <<state, ctx, caller, rconn, res, got, puts, poolVars, mux, pending,
                  inflight, reader, tear, sock>>
  BY DEF FlushDone
<1> QED
  BY <1>5, <1>6, <1>7 DEF TypeOK, poolVars

LEMMA CutTailType ==
    ASSUME NEW q \in Seq(Requests), NEW n \in Nat
    PROVE  CutTail(q, n) \in Seq(Requests)
<1>1. Len(q) \in Nat
  BY LenProperties
<1>2. \A i \in 1..(Len(q) - n) : q[i] \in Requests
  <2>1. ASSUME NEW i \in 1..(Len(q) - n)
        PROVE  i \in 1..Len(q)
    BY <1>1
  <2> QED
    BY <2>1, ElementOfSeq
<1> QED
  BY <1>1, <1>2, SubSeqProperties DEF CutTail

LEMMA TypeFlushFail ==
    ASSUME TypeOK, NEW c \in Conns, NEW part \in BOOLEAN, NEW err \in {"io", "iotimeout"},
           FlushFail(c, part, err)
    PROVE  TypeOK'
<1> DEFINE w == writer[c]
           w1 == [writer[c] EXCEPT !.pc = "settle", !.err = err, !.part = part,
                                   !.closed = mux[c].closed, !.served = mux[c].served]
           n == Len(w.batch) - w.n
<1>1. mux[c].closed \in BOOLEAN /\ mux[c].served \in BOOLEAN
  BY MuxParts DEF TypeOK
<1>2. w1 \in WriterFields
  BY <1>1, WriterFailed DEF TypeOK
<1>3. writer' = [writer EXCEPT ![c] = w1]
  BY DEF FlushFail
<1>4. writer' \in [Conns -> WriterFields]
  <2> HIDE DEF w1
  <2> QED
    BY <1>2, <1>3 DEF TypeOK
<1>5. n \in Nat
  <2>1. w.batch \in Seq(Requests) /\ w.n \in Nat
    BY WriterParts DEF TypeOK
  <2>2. w.n < Len(w.batch)
    BY DEF FlushFail
  <2> QED
    BY <2>1, <2>2, LenProperties
<1>6. CutTail(inflight[c], n) \in Seq(Requests)
  <2> HIDE DEF n
  <2> QED
    BY <1>5, CutTailType DEF TypeOK
<1>7. inflight' = inflight \/ inflight' = [inflight EXCEPT ![c] = CutTail(inflight[c], n)]
  BY DEF FlushFail
<1>8. inflight' \in [Conns -> Seq(Requests)]
  BY <1>6, <1>7 DEF TypeOK
<1>9. onWire' \in [Requests -> BOOLEAN]
  <2>1. \/ onWire' = onWire
        \/ onWire' = [r \in Requests |-> onWire[r] \/ \E i \in 1..w.n : w.batch[i] = r]
    BY DEF FlushFail
  <2> HIDE DEF w
  <2> QED
    BY <2>1, Zenon DEF TypeOK
<1>10. UNCHANGED <<state, ctx, caller, rconn, res, got, puts, poolVars, mux, pending,
                   reader, tear, sock>>
  BY DEF FlushFail
<1> QED
  BY <1>4, <1>8, <1>9, <1>10 DEF TypeOK, poolVars

LEMMA FlushResultType ==
    ASSUME TypeOK, NEW c \in Conns, NEW i
    PROVE  FlushResult(c, i) \in Results
<1>1. mux[c].cause \in Causes /\ writer[c].err \in {"nil", "io", "iotimeout"}
  BY MuxParts, WriterParts DEF TypeOK
<1>2. mux[c].cause \in Errors /\ writer[c].err \in Errors
  BY <1>1 DEF Errors, Causes
<1>3. Result(mux[c].cause, "all") \in Results /\ Lost(mux[c].cause) \in Results
  BY <1>1, <1>2, ResultType, LostType
<1>4. Result(writer[c].err, "part") \in Results /\ Result(writer[c].err, "none") \in Results
  BY <1>2, ResultType
<1> QED
  BY <1>3, <1>4 DEF FlushResult

LEMMA TypeSettleBatch ==
    ASSUME TypeOK, NEW c \in Conns, SettleBatch(c)
    PROVE  TypeOK'
<1> DEFINE w == writer[c]
           I == {i \in 1..Len(w.batch) : Requeued(c, i)}
           at == IF w.err = "nil" THEN "claim" ELSE "fail"
<1>1. state' \in [Requests -> {"new", "queued", "writing", "done"}]
  BY DEF TypeOK, SettleBatch
<1>2. \A i : FlushResult(c, i) \in Results
  BY FlushResultType
<1>3. res' \in [Requests -> Results]
  BY <1>2 DEF TypeOK, SettleBatch
<1>4. PICK f \in Enumerations(I) :
        writer' = [writer EXCEPT ![c] = [w EXCEPT !.batch = Extract(w.batch, f), !.pc = at]]
  BY DEF SettleBatch
<1>5. w \in WriterFields
  BY DEF TypeOK
<1>6. w.batch \in Seq(Requests)
  BY <1>5, WriterParts
<1>7. Extract(w.batch, f) \in Seq(Requests)
  <2>1. I \in SUBSET (1..Len(w.batch))
    OBVIOUS
  <2> HIDE DEF I, w
  <2> QED
    BY <1>6, <2>1, ExtractType
<1>8. [w EXCEPT !.batch = Extract(w.batch, f), !.pc = at] \in WriterFields
  <2>1. at \in WriterPlaces
    BY DEF WriterPlaces
  <2> HIDE DEF w, at
  <2> QED
    BY <1>5, <1>7, <2>1, WriterBatch
<1>9. writer' \in [Conns -> WriterFields]
  BY <1>4, <1>8 DEF TypeOK
<1>10. UNCHANGED <<ctx, caller, rconn, onWire, got, puts, poolVars, mux, pending, inflight,
                   reader, tear, sock>>
  BY DEF SettleBatch
<1> QED
  BY <1>1, <1>3, <1>9, <1>10 DEF TypeOK, poolVars

LEMMA TypeWriterFail ==
    ASSUME TypeOK, NEW c \in Conns, WriterFail(c)
    PROVE  TypeOK'
<1> DEFINE at == IF mux[c].closed THEN "requeue" ELSE "tail"
<1>1. writer[c].err \in Causes
  BY WriterParts DEF TypeOK, Causes
<1>2. /\ mux' \in [Conns -> MuxFields]
      /\ pending' \in [Conns -> Seq(Requests)] /\ inflight' \in [Conns -> Seq(Requests)]
      /\ tear' \in [Conns -> TearFields] /\ sock' \in [Conns -> SockFields]
  BY <1>1, TeardownType DEF WriterFail
<1>3. [writer[c] EXCEPT !.pc = at] \in WriterFields
  BY WriterMove DEF TypeOK, WriterPlaces
<1>4. writer' \in [Conns -> WriterFields]
  BY <1>3 DEF TypeOK, WriterFail
<1>5. UNCHANGED <<reqVars, poolVars, reader>>
  BY DEF WriterFail
<1> QED
  BY <1>2, <1>4, <1>5 DEF TypeOK, reqVars, poolVars

LEMMA TypeWriterRequeue ==
    ASSUME TypeOK, NEW c \in Conns, WriterRequeue(c)
    PROVE  TypeOK'
<1>1. /\ writer[c].batch \in Seq(Requests) /\ writer[c].err \in Causes
      /\ writer[c].served \in BOOLEAN
  BY WriterParts DEF TypeOK, Causes
<1>2. detach(writer[c].batch, writer[c].err, writer[c].served)
  BY DEF WriterRequeue
<1>3. /\ plist' \in Seq(Requests) /\ prequeue' \in BOOLEAN
      /\ pcause' \in Causes \cup {"closed"}
  BY <1>1, <1>2, DetachType
<1>4. [NoWriter EXCEPT !.pc = "claim"] \in WriterFields
  BY WriterNone, WriterMove DEF WriterPlaces
<1>5. writer' \in [Conns -> WriterFields]
  BY <1>4 DEF TypeOK, WriterRequeue
<1>6. UNCHANGED <<reqVars, conns, pclosed, root, drainq, ptarget, psignal, mux, pending, inflight,
                  reader, tear, sock>>
  BY DEF WriterRequeue
<1> QED
  BY <1>3, <1>5, <1>6 DEF TypeOK, reqVars

(* teardownLocked after its unlock *)

LEMMA TypeTearSettle ==
    ASSUME TypeOK, NEW c \in Conns, TearSettle(c)
    PROVE  TypeOK'
<1> DEFINE r == Head(tear[c].lost)
           R == [x \in {q \in {r} : onWire[q]} |->
                  IF x = mux[c].blamed THEN Result(mux[c].cause, "all") ELSE Lost(mux[c].cause)]
<1>1. mux[c].cause \in Causes
  BY MuxParts DEF TypeOK
<1>2. Result(mux[c].cause, "all") \in Results /\ Lost(mux[c].cause) \in Results
  BY <1>1, ResultType, LostType DEF Errors
<1>3. \A x \in DOMAIN R : R[x] \in Results
  BY <1>2
<1>4. complete(R)
  BY DEF TearSettle
<1>5. /\ state' \in [Requests -> {"new", "queued", "writing", "done"}]
      /\ res' \in [Requests -> Results]
  <2> HIDE DEF R
  <2> QED
    BY <1>3, <1>4, CompleteType
<1>6. tear[c] \in TearFields
  BY DEF TypeOK
<1>7. Tail(tear[c].lost) \in Seq(Requests)
  BY <1>6, TearParts, ListType DEF TearSettle
<1>8. [tear[c] EXCEPT !.lost = Tail(tear[c].lost)] \in TearFields
  BY <1>6, <1>7, TearShift
<1>9. tear' = [tear EXCEPT ![c] = [tear[c] EXCEPT !.lost = Tail(tear[c].lost)]]
  BY DEF TearSettle
<1>10. tear' \in [Conns -> TearFields]
  BY <1>8, <1>9 DEF TypeOK
<1>11. UNCHANGED <<ctx, caller, rconn, onWire, got, puts, poolVars, mux, pending, inflight,
                   writer, reader, sock>>
  BY DEF TearSettle
<1> QED
  BY <1>5, <1>10, <1>11 DEF TypeOK, poolVars

LEMMA TypeTearDetach ==
    ASSUME TypeOK, NEW c \in Conns, TearDetach(c)
    PROVE  TypeOK'
<1>1. tear[c].move \in Seq(Requests) /\ mux[c].cause \in Causes /\ mux[c].served \in BOOLEAN
  BY TearParts, MuxParts DEF TypeOK
<1>2. detach(tear[c].move, mux[c].cause, mux[c].served)
  BY DEF TearDetach
<1>3. /\ plist' \in Seq(Requests) /\ prequeue' \in BOOLEAN
      /\ pcause' \in Causes \cup {"closed"}
  BY <1>1, <1>2, DetachType
<1>4. conns' \in SUBSET Conns
  BY DEF TypeOK, TearDetach
<1>5. tear' \in [Conns -> TearFields]
  BY TearNone DEF TypeOK, TearDetach
<1>6. UNCHANGED <<reqVars, pclosed, root, drainq, ptarget, psignal, mux, pending, inflight, writer,
                  reader, sock>>
  BY DEF TearDetach
<1> QED
  BY <1>3, <1>4, <1>5, <1>6 DEF TypeOK, reqVars

(* readLoop *)

LEMMA FrameType ==
    ASSUME TypeOK, NEW c \in Conns, sock[c].back # <<>>
    PROVE  Head(sock[c].back).of \in Requests /\ Tail(sock[c].back) \in Seq(Frames)
<1>1. sock[c].back \in Seq(Frames)
  BY SockParts DEF TypeOK
<1>2. Head(sock[c].back) \in Frames /\ Tail(sock[c].back) \in Seq(Frames)
  BY <1>1, HeadTailProperties
<1> QED
  BY <1>2 DEF Frames

LEMMA GotType ==
    ASSUME TypeOK, NEW h \in Requests, NEW x \in Requests,
           got' = [got EXCEPT ![h] = Append(got[h], x)]
    PROVE  got' \in [Requests -> Seq(Requests)]
<1>1. Append(got[h], x) \in Seq(Requests)
  BY AppendProperties DEF TypeOK
<1> QED
  BY <1>1 DEF TypeOK

LEMMA TypeReadPart ==
    ASSUME TypeOK, NEW c \in Conns, ReadPart(c)
    PROVE  TypeOK'
<1> DEFINE h == Head(inflight[c])
           x == Head(sock[c].back).of
           s == [sock[c] EXCEPT !.back = Tail(sock[c].back)]
<1>1. inflight[c] # <<>> /\ sock[c].back # <<>>
  BY DEF ReadPart
<1>2. h \in Requests
  BY <1>1, ListType DEF TypeOK
<1>3. x \in Requests /\ Tail(sock[c].back) \in Seq(Frames)
  BY <1>1, FrameType
<1>4. got' = [got EXCEPT ![h] = Append(got[h], x)]
  BY DEF ReadPart
<1>5. got' \in [Requests -> Seq(Requests)]
  <2> HIDE DEF h, x
  <2> QED
    BY <1>2, <1>3, <1>4, GotType
<1>6. s \in SockFields
  BY <1>3, SockParts, SockReceive DEF TypeOK
<1>7. sock' = [sock EXCEPT ![c] = s]
  BY DEF ReadPart
<1>8. sock' \in [Conns -> SockFields]
  <2> HIDE DEF s
  <2> QED
    BY <1>6, <1>7 DEF TypeOK
<1>9. UNCHANGED <<state, ctx, caller, rconn, onWire, res, puts, poolVars, mux, pending,
                  inflight, writer, reader, tear>>
  BY DEF ReadPart
<1> QED
  BY <1>5, <1>8, <1>9 DEF TypeOK, poolVars

LEMMA TypeReadLast ==
    ASSUME TypeOK, NEW c \in Conns, ReadLast(c)
    PROVE  TypeOK'
<1> DEFINE h == Head(inflight[c])
           rest == Tail(inflight[c])
           x == Head(sock[c].back).of
           fin == Drained(c, rest)
           arm == armReadDeadline(rest, state)
           s == [sock[c] EXCEPT !.back = Tail(sock[c].back)]
           m == [mux[c] EXCEPT !.served = TRUE, !.closed = fin, !.rd = arm]
           t == [pc |-> "deliver", head |-> h, fin |-> fin]
<1>1. inflight[c] # <<>> /\ sock[c].back # <<>>
  BY DEF ReadLast
<1>2. h \in Requests /\ rest \in Seq(Requests)
  BY <1>1, ListType DEF TypeOK
<1>3. x \in Requests /\ Tail(sock[c].back) \in Seq(Frames)
  BY <1>1, FrameType
<1>4. fin \in BOOLEAN /\ arm \in Requests \cup {None}
  <2>1. fin \in BOOLEAN
    BY DEF Drained
  <2>2. arm \in Requests \cup {None}
    BY <1>2, ArmType
  <2> QED
    BY <2>1, <2>2
<1>5. /\ got' = [got EXCEPT ![h] = Append(got[h], x)]
      /\ inflight' = [inflight EXCEPT ![c] = rest]
      /\ mux' = [mux EXCEPT ![c] = m]
      /\ sock' = [sock EXCEPT ![c] = IF fin THEN DeadSock ELSE s]
      /\ reader' = [reader EXCEPT ![c] = t]
  BY DEF ReadLast
<1>6. s \in SockFields
  BY <1>3, SockParts, SockReceive DEF TypeOK
<1> HIDE DEF h, rest, x, fin, arm, s
<1>7. m \in MuxFields
  BY <1>4, MuxAnswered DEF TypeOK
<1>8. t \in ReaderFields
  BY <1>2, <1>4, ReaderMove
<1> HIDE DEF m, t
<1>9. got' \in [Requests -> Seq(Requests)]
  BY <1>2, <1>3, <1>5, GotType
<1>10. inflight' \in [Conns -> Seq(Requests)]
  BY <1>2, <1>5 DEF TypeOK
<1>11. mux' \in [Conns -> MuxFields]
  BY <1>5, <1>7 DEF TypeOK
<1>12. sock' \in [Conns -> SockFields]
  BY <1>5, <1>6, SockConstants DEF TypeOK
<1>13. reader' \in [Conns -> ReaderFields]
  BY <1>5, <1>8 DEF TypeOK
<1>14. UNCHANGED <<state, ctx, caller, rconn, onWire, res, puts, poolVars, pending, writer,
                   tear>>
  BY DEF ReadLast
<1> QED
  BY <1>9, <1>10, <1>11, <1>12, <1>13, <1>14 DEF TypeOK, poolVars

LEMMA TypeDeliver ==
    ASSUME TypeOK, NEW c \in Conns, Deliver(c)
    PROVE  TypeOK'
<1> DEFINE R == [r \in {reader[c].head} |-> Result("ok", "all")]
           wake == mux[c].wake \/ reader[c].fin
           at == IF reader[c].fin THEN "exit" ELSE "read"
<1>1. Result("ok", "all") \in Results
  BY ResultType DEF Errors
<1>2. complete(R) /\ \A r \in DOMAIN R : R[r] \in Results
  BY <1>1 DEF Deliver
<1>3. /\ state' \in [Requests -> {"new", "queued", "writing", "done"}]
      /\ res' \in [Requests -> Results]
  <2> HIDE DEF R
  <2> QED
    BY <1>2, CompleteType
<1>4. wake \in BOOLEAN
  OBVIOUS
<1>5. mux' = [mux EXCEPT ![c] = [mux[c] EXCEPT !.wake = wake]]
  BY DEF Deliver
<1>6. mux' \in [Conns -> MuxFields]
  <2> HIDE DEF wake
  <2>1. [mux[c] EXCEPT !.wake = wake] \in MuxFields
    BY <1>4, MuxWake DEF TypeOK
  <2> QED
    BY <1>5, <2>1 DEF TypeOK
<1>7. [NoReader EXCEPT !.pc = at] \in ReaderFields
  BY ReaderNone, ReaderAt
<1>8. reader' \in [Conns -> ReaderFields]
  BY <1>7 DEF TypeOK, Deliver
<1>9. UNCHANGED <<ctx, caller, rconn, onWire, got, puts, poolVars, pending, inflight, writer,
                  tear, sock>>
  BY DEF Deliver
<1> QED
  BY <1>3, <1>6, <1>8, <1>9 DEF TypeOK, poolVars

LEMMA TypeReadFail ==
    ASSUME TypeOK, NEW c \in Conns, ReadFail(c)
    PROVE  TypeOK'
<1>1. PICK cause \in ReadCause(c) : teardownLocked(c, cause, TRUE)
  BY DEF ReadFail
<1>2. cause \in Causes
  BY DEF ReadCause, Causes
<1>3. /\ mux' \in [Conns -> MuxFields]
      /\ pending' \in [Conns -> Seq(Requests)] /\ inflight' \in [Conns -> Seq(Requests)]
      /\ tear' \in [Conns -> TearFields] /\ sock' \in [Conns -> SockFields]
  BY <1>1, <1>2, TeardownType
<1>4. [NoReader EXCEPT !.pc = "exit"] \in ReaderFields
  BY ReaderNone, ReaderAt
<1>5. reader' \in [Conns -> ReaderFields]
  BY <1>4 DEF TypeOK, ReadFail
<1>6. UNCHANGED <<reqVars, poolVars, writer>>
  BY DEF ReadFail
<1> QED
  BY <1>3, <1>5, <1>6 DEF TypeOK, reqVars, poolVars

LEMMA TypeReaderExit ==
    ASSUME TypeOK, NEW c \in Conns, ReaderExit(c)
    PROVE  TypeOK'
<1>1. [NoReader EXCEPT !.pc = "exit"] \in ReaderFields
  BY ReaderNone, ReaderAt
<1>2. reader' \in [Conns -> ReaderFields]
  BY <1>1 DEF TypeOK, ReaderExit
<1>3. UNCHANGED <<reqVars, poolVars, mux, pending, inflight, writer, tear, sock>>
  BY DEF ReaderExit
<1> QED
  BY <1>2, <1>3 DEF TypeOK, reqVars, poolVars

(* Client.Close *)

LEMMA TypeClosing ==
    ASSUME TypeOK, CancelRoot \/ PoolClose
    PROVE  TypeOK'
<1>1. /\ root' \in BOOLEAN /\ pclosed' \in BOOLEAN
      /\ conns' \in SUBSET Conns /\ drainq' \in SUBSET Conns
  BY DEF TypeOK, CancelRoot, PoolClose
<1>2. UNCHANGED <<reqVars, plist, ptarget, psignal, prequeue, pcause, connVars>>
  BY DEF CancelRoot, PoolClose
<1> QED
  BY <1>1, <1>2 DEF TypeOK, reqVars, connVars

LEMMA TypeDrain ==
    ASSUME TypeOK, NEW c \in Conns, Drain(c)
    PROVE  TypeOK'
<1> DEFINE R == [r \in Elems(pending[c]) |-> Result("closed", "none")]
           b == inflight[c] = <<>>
           m == [mux[c] EXCEPT !.closing = TRUE, !.wake = TRUE, !.closed = b]
<1>1. drainq' \in SUBSET Conns
  BY DEF TypeOK, Drain
<1>2. UNCHANGED <<ctx, caller, rconn, onWire, got, puts, conns, pclosed, root, plist,
                  ptarget, psignal, prequeue, pcause, inflight, writer, reader, tear>>
  BY DEF Drain
<1>3. CASE mux[c].closed
  <2>1. UNCHANGED <<state, res, mux, pending, sock>>
    BY <1>3 DEF Drain
  <2> QED
    BY <1>1, <1>2, <2>1 DEF TypeOK
<1>4. CASE ~mux[c].closed
  <2>1. /\ complete(R)
        /\ pending' = [pending EXCEPT ![c] = <<>>]
        /\ mux' = [mux EXCEPT ![c] = m]
        /\ sock' = [sock EXCEPT ![c] = IF b THEN DeadSock ELSE sock[c]]
    BY <1>4 DEF Drain
  <2>2. \A r \in DOMAIN R : R[r] \in Results
    BY ResultType DEF Errors
  <2> HIDE DEF R
  <2>3. /\ state' \in [Requests -> {"new", "queued", "writing", "done"}]
        /\ res' \in [Requests -> Results]
    BY <2>1, <2>2, CompleteType
  <2>4. pending' \in [Conns -> Seq(Requests)]
    BY <2>1, NoRequests DEF TypeOK
  <2>5. b \in BOOLEAN
    OBVIOUS
  <2> HIDE DEF b
  <2>6. m \in MuxFields
    BY <2>5, MuxDrain DEF TypeOK
  <2> HIDE DEF m
  <2>7. mux' \in [Conns -> MuxFields]
    BY <2>1, <2>6 DEF TypeOK
  <2>8. sock' \in [Conns -> SockFields]
    BY <2>1, SockConstants DEF TypeOK
  <2> QED
    BY <1>1, <1>2, <2>3, <2>4, <2>7, <2>8 DEF TypeOK
<1> QED
  BY <1>3, <1>4

(* The server *)

LEMMA SockStep ==
    ASSUME TypeOK, NEW c \in Conns, NEW s \in SockFields, sock' = [sock EXCEPT ![c] = s],
           UNCHANGED <<reqVars, poolVars, mux, pending, inflight, writer, reader, tear>>
    PROVE  TypeOK'
<1>1. sock' \in [Conns -> SockFields]
  BY DEF TypeOK
<1> QED
  BY <1>1 DEF TypeOK, reqVars, poolVars

LEMMA ShortSeqs ==
    ASSUME NEW S, NEW a \in S, NEW b \in S
    PROVE  <<a>> \in Seq(S) /\ <<a, b>> \in Seq(S)
OBVIOUS

LEMMA TypeAnswer ==
    ASSUME TypeOK, NEW c \in Conns, Answer(c) \/ AnswerError(c)
    PROVE  TypeOK'
<1> DEFINE r == Head(sock[c].recv)
           frame(last, bad) == [of |-> r, last |-> last, bad |-> bad]
           rest == Tail(sock[c].recv)
<1>1. sock[c] \in SockFields
  BY DEF TypeOK
<1>2. sock[c].recv \in Seq(Requests) /\ sock[c].back \in Seq(Frames)
  BY <1>1, SockParts
<1>3. sock[c].recv # <<>>
  BY DEF Answer, AnswerError
<1>4. r \in Requests /\ rest \in Seq(Requests)
  BY <1>2, <1>3, ListType
<1>5. /\ frame(FALSE, FALSE) \in Frames /\ frame(TRUE, FALSE) \in Frames
      /\ frame(FALSE, TRUE) \in Frames
  BY <1>4 DEF Frames
<1> DEFINE answer == IF r \in Batches THEN <<frame(FALSE, FALSE), frame(TRUE, FALSE)>>
                                      ELSE <<frame(TRUE, FALSE)>>
           good == sock[c].back \o answer
           bad == Append(sock[c].back, frame(FALSE, TRUE))
<1>6. \/ sock' = [sock EXCEPT ![c] = [sock[c] EXCEPT !.recv = rest, !.back = good]]
      \/ sock' = [sock EXCEPT ![c] = [sock[c] EXCEPT !.recv = rest, !.back = bad]]
  BY DEF Answer, AnswerError
<1>7. UNCHANGED <<reqVars, poolVars, mux, pending, inflight, writer, reader, tear>>
  BY DEF Answer, AnswerError
<1> HIDE DEF r, frame, rest
<1>8. answer \in Seq(Frames)
  <2>1. /\ <<frame(TRUE, FALSE)>> \in Seq(Frames)
        /\ <<frame(FALSE, FALSE), frame(TRUE, FALSE)>> \in Seq(Frames)
    BY <1>5, ShortSeqs
  <2> QED
    BY <2>1
<1> HIDE DEF answer
<1>9. good \in Seq(Frames) /\ bad \in Seq(Frames)
  BY <1>2, <1>5, <1>8, ConcatProperties, AppendProperties
<1> HIDE DEF good, bad
<1>10. /\ [sock[c] EXCEPT !.recv = rest, !.back = good] \in SockFields
       /\ [sock[c] EXCEPT !.recv = rest, !.back = bad] \in SockFields
  BY <1>1, <1>4, <1>9, SockReceive
<1> QED
  BY <1>6, <1>7, <1>10, SockStep

LEMMA TypeBreak ==
    ASSUME TypeOK, NEW c \in Conns, Break(c)
    PROVE  TypeOK'
<1>1. [sock[c] EXCEPT !.up = FALSE, !.recv = <<>>] \in SockFields
  <2>1. sock[c] \in SockFields
    BY DEF TypeOK
  <2>2. sock[c].back \in Seq(Frames)
    BY <2>1, SockParts
  <2> QED
    BY <2>1, <2>2, NoRequests, SockReceive
<1>2. /\ sock' = [sock EXCEPT ![c] = [sock[c] EXCEPT !.up = FALSE, !.recv = <<>>]]
      /\ UNCHANGED <<reqVars, poolVars, mux, pending, inflight, writer, reader, tear>>
  BY DEF Break
<1> QED
  BY <1>1, <1>2, SockStep

LEMMA TypeStutter ==
    ASSUME TypeOK, UNCHANGED vars
    PROVE  TypeOK'
BY DEF TypeOK, vars, reqVars, poolVars, connVars

LEMMA TypeNext == TypeOK /\ [Next]_vars => TypeOK'
<1> SUFFICES ASSUME TypeOK, [Next]_vars
             PROVE  TypeOK'
  OBVIOUS
<1>1. ASSUME NEW r \in Requests,
             \/ Exchange(r) \/ ExchangeRefused(r) \/ Cancel(r) \/ Deadline(r)
             \/ CallerStep(r)
      PROVE  TypeOK'
  BY <1>1, TypeExchange, TypeRefused, TypeContext, TypeGiveUp, TypeMiss, TypeExpire,
     TypeOrphan DEF CallerStep
<1>2. ASSUME NEW c \in Conns, WriterStep(c)
      PROVE  TypeOK'
  BY <1>2, TypeDialOK, TypeDialFail, TypeWriterWake, TypeWriterExit, TypeClaim, TypeWrite,
     TypeFlushDone, TypeFlushFail, TypeSettleBatch, TypeWriterFail, TypeWriterRequeue
     DEF WriterStep, WriterRuns
<1>3. ASSUME NEW c \in Conns, ReaderStep(c) \/ TearStep(c)
      PROVE  TypeOK'
  BY <1>3, TypeReadPart, TypeReadLast, TypeDeliver, TypeReadFail, TypeReaderExit,
     TypeTearSettle, TypeTearDetach
     DEF ReaderStep, TearStep
<1>4. ASSUME NEW c \in Conns, Answer(c) \/ AnswerError(c) \/ Break(c)
      PROVE  TypeOK'
  BY <1>4, TypeAnswer, TypeBreak
<1>5. CASE PoolStep
  BY <1>5, TypePoolAdd, TypePoolSignal, TypeDetachSkip, TypeDetachPick, TypeDetachFail DEF PoolStep
<1>6. CASE CancelRoot \/ CloseStep
  BY <1>6, TypeClosing, TypeDrain DEF CloseStep
<1>7. CASE Finished \/ UNCHANGED vars
  BY <1>7, TypeStutter DEF Finished
<1> QED
  BY <1>1, <1>2, <1>3, <1>4, <1>5, <1>6, <1>7 DEF Next

(* Every queue of muxConn and serverPool only ever holds requests, every   *)
(* result is one exchange can return, and every goroutine is at a place it *)
(* has, whatever the pool's size and the order of the goroutines' steps.   *)
THEOREM TypeCorrect == Spec => []TypeOK
<1>1. Init => TypeOK
  BY TypeInit
<1>2. TypeOK /\ [Next]_vars => TypeOK'
  BY TypeNext
<1> QED
  BY <1>1, <1>2, PTL DEF Spec

-----------------------------------------------------------------------------
(* serverPool: the cap on sockets, the ownership of connections, and the   *)
(* wake-ups its callers owe the writers                                    *)

(* A connection whose teardown still runs is closed. *)
TornClosed == \A c \in Conns : tear[c].on => mux[c].closed

(* Only close drains connections. *)
DrainLater == ~pclosed => drainq = {} /\ \A c \in Conns : mux[c].closed \/ ~mux[c].closing

(* close waits for the holder of serverPool.mu, so what detach found open  *)
(* when it began is open until it ends.                                    *)
RequeueOpen == plist # <<>> /\ prequeue => ~pclosed

Capped == IsFiniteSet(LiveConns) /\ Cardinality(LiveConns) <= MaxConns

PoolInv == LiveConnOwned /\ TornClosed /\ DrainLater /\ RequeueOpen /\ Capped

(* What a step does that opens no connection and leaves the pool alone. *)
Bystands ==
    /\ UNCHANGED <<conns, drainq, pclosed>>
    /\ \A k \in Conns :
        /\ mux[k].closed => mux'[k].closed
        /\ mux'[k].closed \/ mux'[k].closing = mux[k].closing
        /\ tear'[k].on => tear[k].on \/ mux'[k].closed
    /\ plist' # <<>> /\ prequeue' => (plist # <<>> /\ prequeue) \/ ~pclosed

LEMMA CappedShrinks ==
    ASSUME Capped, \A k \in Conns : mux[k].closed => mux'[k].closed
    PROVE  Capped'
<1>1. LiveConns' \subseteq LiveConns
  BY DEF LiveConns
<1>2. IsFiniteSet(LiveConns') /\ Cardinality(LiveConns') <= Cardinality(LiveConns)
  BY <1>1, FS_Subset DEF Capped
<1>3. Cardinality(LiveConns) \in Nat /\ Cardinality(LiveConns') \in Nat
  BY <1>2, FS_CardinalityType DEF Capped
<1>4. MaxConns \in Nat
  BY TransportAssumption
<1> QED
  BY <1>2, <1>3, <1>4 DEF Capped

LEMMA PoolBystands ==
    ASSUME PoolInv, Bystands
    PROVE  PoolInv'
<1>1. Capped'
  BY CappedShrinks DEF PoolInv, Bystands
<1>2. LiveConnOwned'
  BY DEF PoolInv, Bystands, LiveConnOwned, LiveConns
<1>3. TornClosed'
  BY DEF PoolInv, Bystands, TornClosed
<1>4. DrainLater'
  BY DEF PoolInv, Bystands, DrainLater
<1>5. RequeueOpen'
  BY DEF PoolInv, Bystands, RequeueOpen
<1> QED
  BY <1>1, <1>2, <1>3, <1>4, <1>5 DEF PoolInv

LEMMA CallersBystand ==
    ASSUME TypeOK, NEW r \in Requests,
           ExchangeRefused(r) \/ Cancel(r) \/ Deadline(r) \/ GiveUpQueued(r)
             \/ GiveUpWriting(r) \/ MissQueued(r) \/ MissWriting(r)
    PROVE  Bystands
BY DEF Bystands, ExchangeRefused, Cancel, Deadline, GiveUpQueued, GiveUpWriting, MissQueued,
       MissWriting, poolVars, connVars

(* Steps that write one connection's fields without opening it. *)
LEMMA FieldBystands ==
    ASSUME TypeOK, NEW c \in Conns, NEW m, mux' = [mux EXCEPT ![c] = m],
           mux[c].closed => m.closed, m.closed \/ m.closing = mux[c].closing,
           UNCHANGED <<conns, drainq, pclosed>>,
           \A k \in Conns : tear'[k].on => tear[k].on \/ (k = c /\ m.closed),
           plist' # <<>> /\ prequeue' => (plist # <<>> /\ prequeue) \/ ~pclosed
    PROVE  Bystands
<1>1. \A k \in Conns : mux'[k] = IF k = c THEN m ELSE mux[k]
  BY DEF TypeOK
<1> QED
  BY <1>1 DEF Bystands

LEMMA TeardownBystands ==
    ASSUME TypeOK, NEW c \in Conns, NEW cause, NEW saw, teardownLocked(c, cause, saw),
           UNCHANGED poolVars
    PROVE  Bystands
<1>1. UNCHANGED <<conns, drainq, pclosed, plist, prequeue>>
  BY DEF poolVars
<1>2. CASE mux[c].closed
  BY <1>1, <1>2 DEF Bystands, teardownLocked
<1>3. CASE ~mux[c].closed
  <2> DEFINE m == [mux[c] EXCEPT !.closed = TRUE, !.cause = cause,
                                 !.blamed = BlamedOf(c, saw), !.wake = TRUE]
             t == [on |-> TRUE, lost |-> inflight[c], move |-> pending[c]]
  <2>1. mux' = [mux EXCEPT ![c] = m] /\ tear' = [tear EXCEPT ![c] = t]
    BY <1>3 DEF teardownLocked
  <2>2. m.closed
    BY DEF TypeOK, MuxFields
  <2>3. \A k \in Conns : tear'[k].on => tear[k].on \/ k = c
    BY <2>1 DEF TypeOK
  <2> HIDE DEF m, t
  <2> QED
    BY <1>1, <2>1, <2>2, <2>3, FieldBystands
<1> QED
  BY <1>2, <1>3

LEMMA MuxClosing ==
    ASSUME NEW m \in MuxFields, NEW x, NEW y
    PROVE  /\ [m EXCEPT !.rd = x].closed = m.closed
           /\ [m EXCEPT !.rd = x].closing = m.closing
           /\ [m EXCEPT !.wake = x].closed = m.closed
           /\ [m EXCEPT !.wake = x].closing = m.closing
           /\ [m EXCEPT !.dial = x].closed = m.closed
           /\ [m EXCEPT !.dial = x].closing = m.closing
           /\ [m EXCEPT !.served = TRUE, !.closed = x, !.rd = y].closed = x
           /\ [m EXCEPT !.served = TRUE, !.closed = x, !.rd = y].closing = m.closing
           /\ [m EXCEPT !.dial = "gone", !.closed = TRUE, !.wake = TRUE, !.cause = x].closed
           /\ [m EXCEPT !.closing = TRUE, !.wake = TRUE, !.closed = x].closed = x
           /\ [m EXCEPT !.closing = TRUE, !.wake = TRUE, !.closed = x].closing
BY DEF MuxFields

LEMMA ExpireBystands ==
    ASSUME TypeOK, NEW r \in Requests, Expire(r)
    PROVE  Bystands
<1> DEFINE c == rconn[r]
           m == [mux[c] EXCEPT !.rd = armReadDeadline(inflight[c], state)]
<1>1. UNCHANGED <<conns, drainq, pclosed, plist, prequeue>> /\ UNCHANGED poolVars
  BY DEF Expire, poolVars
<1>2. \/ teardownLocked(c, "deadline", TRUE)
      \/ mux' = [mux EXCEPT ![c] = m] /\ UNCHANGED tear
  BY DEF Expire
<1>3. CASE c \notin Conns
  <2>1. \A k \in Conns : mux'[k] = mux[k] /\ tear'[k] = tear[k]
    BY <1>2, <1>3 DEF TypeOK, teardownLocked
  <2> QED
    BY <1>1, <2>1 DEF Bystands
<1>4. CASE c \in Conns /\ teardownLocked(c, "deadline", TRUE)
  BY <1>1, <1>4, TeardownBystands
<1>5. CASE c \in Conns /\ mux' = [mux EXCEPT ![c] = m] /\ UNCHANGED tear
  <2>1. m.closed = mux[c].closed /\ m.closing = mux[c].closing
    BY <1>5, MuxClosing DEF TypeOK
  <2> HIDE DEF m
  <2> QED
    BY <1>1, <1>5, <2>1, FieldBystands
<1> QED
  BY <1>2, <1>3, <1>4, <1>5

LEMMA OrphanBystands ==
    ASSUME TypeOK, NEW r \in Requests, Orphan(r)
    PROVE  Bystands
<1> DEFINE c == rconn[r]
           m == [mux[c] EXCEPT !.rd = IF mux[c].closed THEN mux[c].rd
                                      ELSE armReadDeadline(inflight[c], state)]
<1>1. UNCHANGED <<conns, drainq, pclosed, plist, prequeue, tear>>
  BY DEF Orphan, poolVars
<1>2. mux' = [mux EXCEPT ![c] = m]
  BY DEF Orphan
<1>3. CASE c \notin Conns
  BY <1>1, <1>2, <1>3 DEF TypeOK, Bystands
<1>4. CASE c \in Conns
  <2>1. m.closed = mux[c].closed /\ m.closing = mux[c].closing
    BY <1>4, MuxClosing DEF TypeOK
  <2> HIDE DEF m
  <2> QED
    BY <1>1, <1>2, <1>4, <2>1, FieldBystands
<1> QED
  BY <1>3, <1>4

LEMMA DialOKBystands ==
    ASSUME TypeOK, NEW c \in Conns, DialOK(c)
    PROVE  Bystands
<1>1. UNCHANGED <<conns, drainq, pclosed, plist, prequeue, tear>>
  BY DEF DialOK, poolVars
<1>2. \E d \in {"gone", "up"} : mux' = [mux EXCEPT ![c] = [mux[c] EXCEPT !.dial = d]]
  BY DEF DialOK
<1>3. PICK d : mux' = [mux EXCEPT ![c] = [mux[c] EXCEPT !.dial = d]]
  BY <1>2
<1> DEFINE m == [mux[c] EXCEPT !.dial = d]
<1>4. m.closed = mux[c].closed /\ m.closing = mux[c].closing
  BY MuxClosing DEF TypeOK
<1>5. mux' = [mux EXCEPT ![c] = m]
  BY <1>3
<1> HIDE DEF m
<1> QED
  BY <1>1, <1>4, <1>5, FieldBystands

LEMMA DialFailBystands ==
    ASSUME TypeOK, NEW c \in Conns, DialFail(c)
    PROVE  Bystands
<1>1. UNCHANGED <<conns, drainq, pclosed, plist, prequeue>>
  BY DEF DialFail, poolVars
<1>2. CASE mux[c].closed
  <2> DEFINE m == [mux[c] EXCEPT !.dial = "gone"]
  <2>1. m.closed = mux[c].closed
    BY MuxClosing DEF TypeOK
  <2>2. mux' = [mux EXCEPT ![c] = m]
    BY <1>2 DEF DialFail
  <2>3. \A k \in Conns : tear'[k] = tear[k]
    BY <1>2 DEF DialFail, TypeOK
  <2> HIDE DEF m
  <2> QED
    BY <1>1, <1>2, <2>1, <2>2, <2>3, FieldBystands
<1>3. CASE ~mux[c].closed
  <2> DEFINE m == [mux[c] EXCEPT !.dial = "gone", !.closed = TRUE, !.wake = TRUE,
                     !.cause = IF root THEN "rootcanceled" ELSE "dial"]
  <2>1. m.closed
    BY MuxClosing DEF TypeOK
  <2>2. mux' = [mux EXCEPT ![c] = m]
    BY <1>3 DEF DialFail
  <2>3. \A k \in Conns : k # c => tear'[k] = tear[k]
    BY DEF DialFail, TypeOK
  <2> HIDE DEF m
  <2> QED
    BY <1>1, <2>1, <2>2, <2>3, FieldBystands
<1> QED
  BY <1>2, <1>3

LEMMA WriterBystands ==
    ASSUME TypeOK, NEW c \in Conns,
           \/ WriterExit(c) \/ Write(c) \/ FlushDone(c) \/ SettleBatch(c)
           \/ \E part \in BOOLEAN, err \in {"io", "iotimeout"} : FlushFail(c, part, err)
    PROVE  Bystands
<1>1. UNCHANGED <<poolVars, mux, tear>>
  BY DEF WriterExit, Write, FlushDone, SettleBatch, FlushFail
<1> QED
  BY <1>1 DEF Bystands, poolVars

LEMMA WakeBystands ==
    ASSUME TypeOK, NEW c \in Conns, WriterWake(c)
    PROVE  Bystands
<1> DEFINE m == [mux[c] EXCEPT !.wake = FALSE]
<1>1. UNCHANGED <<conns, drainq, pclosed, plist, prequeue, tear>>
  BY DEF WriterWake, poolVars
<1>2. mux' = [mux EXCEPT ![c] = m]
  BY DEF WriterWake
<1>3. m.closed = mux[c].closed /\ m.closing = mux[c].closing
  BY MuxClosing DEF TypeOK
<1> HIDE DEF m
<1> QED
  BY <1>1, <1>2, <1>3, FieldBystands

LEMMA ClaimBystands ==
    ASSUME TypeOK, NEW c \in Conns, Claim(c)
    PROVE  Bystands
<1>1. UNCHANGED <<conns, drainq, pclosed, plist, prequeue, tear>>
  BY DEF Claim, poolVars
<1>2. PICK x : mux' = [mux EXCEPT ![c] = [mux[c] EXCEPT !.rd = x]]
  BY DEF Claim
<1> DEFINE m == [mux[c] EXCEPT !.rd = x]
<1>3. m.closed = mux[c].closed /\ m.closing = mux[c].closing
  BY MuxClosing DEF TypeOK
<1>4. mux' = [mux EXCEPT ![c] = m]
  BY <1>2
<1> HIDE DEF m
<1> QED
  BY <1>1, <1>3, <1>4, FieldBystands

LEMMA RequeueBystands ==
    ASSUME TypeOK, NEW c \in Conns, WriterFail(c) \/ WriterRequeue(c)
    PROVE  Bystands
<1>1. CASE WriterFail(c)
  BY <1>1, TeardownBystands DEF WriterFail
<1>2. CASE WriterRequeue(c)
  BY <1>2 DEF WriterRequeue, detach, Bystands
<1> QED
  BY <1>1, <1>2

LEMMA ReadLastBystands ==
    ASSUME TypeOK, NEW c \in Conns, ReadLast(c)
    PROVE  Bystands
<1> DEFINE rest == Tail(inflight[c])
           m == [mux[c] EXCEPT !.served = TRUE, !.closed = Drained(c, rest),
                               !.rd = armReadDeadline(rest, state)]
<1>1. UNCHANGED <<conns, drainq, pclosed, plist, prequeue, tear>>
  BY DEF ReadLast, poolVars
<1>2. mux' = [mux EXCEPT ![c] = m] /\ ~mux[c].closed
  BY DEF ReadLast
<1>3. m.closing = mux[c].closing
  BY MuxClosing DEF TypeOK
<1> HIDE DEF m
<1> QED
  BY <1>1, <1>2, <1>3, FieldBystands

LEMMA DeliverBystands ==
    ASSUME TypeOK, NEW c \in Conns, Deliver(c)
    PROVE  Bystands
<1> DEFINE m == [mux[c] EXCEPT !.wake = mux[c].wake \/ reader[c].fin]
<1>1. UNCHANGED <<conns, drainq, pclosed, plist, prequeue, tear>>
  BY DEF Deliver, poolVars
<1>2. mux' = [mux EXCEPT ![c] = m]
  BY DEF Deliver
<1>3. m.closed = mux[c].closed /\ m.closing = mux[c].closing
  BY MuxClosing DEF TypeOK
<1> HIDE DEF m
<1> QED
  BY <1>1, <1>2, <1>3, FieldBystands

LEMMA ReaderBystands ==
    ASSUME TypeOK, NEW c \in Conns, ReaderStep(c)
    PROVE  Bystands
<1>1. CASE ReadPart(c) \/ ReaderExit(c)
  <2>1. UNCHANGED <<poolVars, mux, tear>>
    BY <1>1 DEF ReadPart, ReaderExit
  <2> QED
    BY <2>1 DEF Bystands, poolVars
<1>2. CASE ReadFail(c)
  BY <1>2, TeardownBystands DEF ReadFail
<1> QED
  BY <1>1, <1>2, ReadLastBystands, DeliverBystands DEF ReaderStep

LEMMA ServerBystands ==
    ASSUME TypeOK, NEW c \in Conns, Answer(c) \/ AnswerError(c) \/ Break(c)
    PROVE  Bystands
<1>1. UNCHANGED <<poolVars, mux, tear>>
  BY DEF Answer, AnswerError, Break
<1> QED
  BY <1>1 DEF Bystands, poolVars

LEMMA TearSettleBystands ==
    ASSUME TypeOK, NEW c \in Conns, TearSettle(c)
    PROVE  Bystands
<1>1. UNCHANGED <<poolVars, mux>>
  BY DEF TearSettle
<1>2. \A k \in Conns : tear'[k].on => tear[k].on
  BY DEF TearSettle, TypeOK
<1> QED
  BY <1>1, <1>2 DEF Bystands, poolVars

LEMMA PlacingBystands ==
    ASSUME TypeOK, PoolAdd \/ PoolSignal \/ DetachSkip \/ DetachFail
    PROVE  Bystands
<1>1. UNCHANGED <<conns, drainq, pclosed, prequeue, tear>> /\ plist # <<>>
  BY DEF PoolAdd, PoolSignal, DetachSkip, DetachFail, connVars
<1>2. CASE PoolSignal
  <2> DEFINE c == ptarget
             m == [mux[c] EXCEPT !.wake = TRUE]
  <2>1. mux' = [mux EXCEPT ![c] = m] /\ c \in Conns
    BY <1>2 DEF PoolSignal, signal, TypeOK
  <2>2. m.closed = mux[c].closed /\ m.closing = mux[c].closing
    BY <2>1, MuxClosing DEF TypeOK
  <2> HIDE DEF m
  <2> QED
    BY <1>1, <2>1, <2>2, FieldBystands
<1>3. CASE PoolAdd \/ DetachSkip \/ DetachFail
  <2>1. mux' = mux
    BY <1>3 DEF PoolAdd, DetachSkip, DetachFail, connVars
  <2> QED
    BY <1>1, <2>1 DEF Bystands
<1> QED
  BY <1>2, <1>3

LEMMA StutterBystands ==
    ASSUME CancelRoot \/ Finished \/ UNCHANGED vars
    PROVE  Bystands
<1>1. UNCHANGED <<conns, drainq, pclosed, plist, prequeue, mux, tear>>
  BY DEF CancelRoot, Finished, vars, poolVars, connVars
<1> QED
  BY <1>1 DEF Bystands

-----------------------------------------------------------------------------
(* The steps that change the pool *)

LEMMA PoolTearDetach ==
    ASSUME TypeOK, PoolInv, NEW c \in Conns, TearDetach(c)
    PROVE  PoolInv'
<1>1. /\ conns' = conns \ {c} /\ mux[c].closed
      /\ UNCHANGED <<mux, pclosed, drainq>>
  BY DEF TearDetach, PoolInv, TornClosed
<1>2. \A k \in Conns : tear'[k].on => tear[k].on
  BY DEF TearDetach, TypeOK, NoTear
<1>3. prequeue' => ~pclosed
  BY DEF TearDetach, detach
<1>4. Capped'
  BY <1>1, CappedShrinks DEF PoolInv
<1>5. LiveConnOwned' /\ TornClosed' /\ DrainLater' /\ RequeueOpen'
  BY <1>1, <1>2, <1>3
     DEF PoolInv, LiveConnOwned, LiveConns, TornClosed, DrainLater, RequeueOpen
<1> QED
  BY <1>4, <1>5 DEF PoolInv

LEMMA PoolPoolClose ==
    ASSUME PoolInv, PoolClose
    PROVE  PoolInv'
<1>1. /\ ~pclosed /\ pclosed' /\ drainq' = conns /\ conns' = {} /\ plist' = <<>>
      /\ UNCHANGED <<mux, tear>>
  BY DEF PoolClose, connVars
<1>2. Capped'
  BY <1>1, CappedShrinks DEF PoolInv
<1>3. LiveConnOwned' /\ TornClosed' /\ DrainLater' /\ RequeueOpen'
  BY <1>1 DEF PoolInv, LiveConnOwned, LiveConns, TornClosed, DrainLater, RequeueOpen
<1> QED
  BY <1>2, <1>3 DEF PoolInv

LEMMA PoolDrain ==
    ASSUME TypeOK, PoolInv, NEW c \in Conns, Drain(c)
    PROVE  PoolInv'
<1> DEFINE m == [mux[c] EXCEPT !.closing = TRUE, !.wake = TRUE,
                               !.closed = inflight[c] = <<>>]
<1>1. /\ drainq' = drainq \ {c} /\ c \in drainq
      /\ UNCHANGED <<conns, pclosed, plist, prequeue, tear>>
  BY DEF Drain
<1>2. pclosed
  BY <1>1 DEF PoolInv, DrainLater
<1>3. \A k \in Conns : /\ k # c => mux'[k] = mux[k]
                       /\ mux[k].closed => mux'[k] = mux[k]
                       /\ k = c => mux'[k].closed \/ mux'[k].closing
  <2>1. m.closing
    BY MuxClosing DEF TypeOK
  <2>2. \/ mux[c].closed /\ mux' = mux
        \/ ~mux[c].closed /\ mux' = [mux EXCEPT ![c] = m]
    BY DEF Drain
  <2> HIDE DEF m
  <2> QED
    BY <2>1, <2>2 DEF TypeOK
<1>4. Capped'
  BY <1>3, CappedShrinks DEF PoolInv
<1>5. LiveConnOwned' /\ TornClosed' /\ DrainLater' /\ RequeueOpen'
  BY <1>1, <1>2, <1>3
     DEF PoolInv, LiveConnOwned, LiveConns, TornClosed, DrainLater, RequeueOpen
<1> QED
  BY <1>4, <1>5 DEF PoolInv

(* pickLocked keeps live connections only, and opens one only below the cap. *)
LEMMA PickEffect ==
    ASSUME TypeOK, NEW c \in Conns, pickLocked(c)
    PROVE  \E kept \in SUBSET conns :
             /\ \A k \in kept : ~mux[k].closed
             /\ \A k \in conns \ kept : k # c => mux'[k].closed
             /\ \A k \in Conns : k \notin conns /\ k # c => mux'[k] = mux[k]
             /\ \A k \in kept : k # c => mux'[k] = mux[k]
             /\ \/ c \in kept /\ conns' = kept /\ mux'[c] = mux[c]
                \/ /\ NeedsConn(kept) /\ conns' = kept \cup {c}
                   /\ mux'[c] = NewMux /\ c \notin conns /\ ~tear[c].on
<1>1. PICK R \in SUBSET {k \in conns : "idle" \in Faults /\ ~mux[k].closed /\ Load(k) = 0} :
        LET kept == {k \in conns \ R : ~mux[k].closed}
            mux1 == [k \in Conns |-> IF k \in R
                        THEN [mux[k] EXCEPT !.closed = TRUE, !.wake = TRUE]
                        ELSE mux[k]]
        IN  \/ /\ NeedsConn(kept) /\ c \in Fresh
               /\ conns' = kept \cup {c}
               /\ mux' = [mux1 EXCEPT ![c] = NewMux]
            \/ c \in kept /\ conns' = kept /\ mux' = mux1
  <2>1. Fresh # {} => (CHOOSE k \in Fresh : TRUE) \in Fresh
    OBVIOUS
  <2> QED
    BY <2>1 DEF pickLocked
<1> DEFINE kept == {k \in conns \ R : ~mux[k].closed}
           mux1 == [k \in Conns |-> IF k \in R
                        THEN [mux[k] EXCEPT !.closed = TRUE, !.wake = TRUE]
                        ELSE mux[k]]
<1>2. kept \in SUBSET conns /\ \A k \in kept : ~mux[k].closed
  OBVIOUS
<1>3. \A k \in R : [mux[k] EXCEPT !.closed = TRUE, !.wake = TRUE].closed
  BY DEF TypeOK, MuxFields
<1>4. /\ \A k \in conns \ kept : mux1[k].closed
      /\ \A k \in Conns : k \notin conns => mux1[k] = mux[k]
      /\ \A k \in kept : mux1[k] = mux[k]
  BY <1>3 DEF TypeOK
<1>5. CASE /\ NeedsConn(kept) /\ c \in Fresh
           /\ conns' = kept \cup {c}
           /\ mux' = [mux1 EXCEPT ![c] = NewMux]
  <2>1. c \notin conns /\ ~tear[c].on
    BY <1>5 DEF Fresh
  <2>2. mux'[c] = NewMux /\ \A k \in Conns : k # c => mux'[k] = mux1[k]
    BY <1>5
  <2> HIDE DEF mux1, kept
  <2> QED
    BY <1>2, <1>4, <1>5, <2>1, <2>2 DEF TypeOK
<1>6. CASE c \in kept /\ conns' = kept /\ mux' = mux1
  <2> HIDE DEF mux1, kept
  <2> QED
    BY <1>2, <1>4, <1>6 DEF TypeOK
<1> QED
  BY <1>1, <1>5, <1>6

LEMMA PoolPick ==
    ASSUME TypeOK, PoolInv, NEW c \in Conns, pickLocked(c), ~pclosed,
           UNCHANGED <<pclosed, drainq, tear>>
    PROVE  PoolInv'
<1>1. PICK kept \in SUBSET conns :
             /\ \A k \in kept : ~mux[k].closed
             /\ \A k \in conns \ kept : k # c => mux'[k].closed
             /\ \A k \in Conns : k \notin conns /\ k # c => mux'[k] = mux[k]
             /\ \A k \in kept : k # c => mux'[k] = mux[k]
             /\ \/ c \in kept /\ conns' = kept /\ mux'[c] = mux[c]
                \/ /\ NeedsConn(kept) /\ conns' = kept \cup {c}
                   /\ mux'[c] = NewMux /\ c \notin conns /\ ~tear[c].on
  BY PickEffect
<1>2. ~NewMux.closed /\ ~NewMux.closing
  BY DEF NewMux, NoMux
<1>3. /\ \A k \in Conns \ conns : mux[k].closed
      /\ \A k \in Conns : mux[k].closed \/ ~mux[k].closing
      /\ \A k \in Conns : tear[k].on => mux[k].closed
  BY DEF PoolInv, LiveConnOwned, LiveConns, DrainLater, TornClosed
<1>4. kept \subseteq LiveConns /\ conns \subseteq Conns
  BY <1>1 DEF LiveConns, TypeOK
<1>5. \A k \in Conns : ~mux'[k].closed => k \in conns' /\ ~mux'[k].closing
  BY <1>1, <1>2, <1>3, <1>4 DEF LiveConns
<1>6. \A k \in Conns : tear'[k].on => mux'[k].closed
  BY <1>1, <1>3, <1>4 DEF LiveConns
<1>7. LiveConnOwned' /\ TornClosed' /\ DrainLater' /\ RequeueOpen'
  BY <1>5, <1>6 DEF PoolInv, LiveConnOwned, LiveConns, TornClosed, DrainLater, RequeueOpen
<1>8. IsFiniteSet(kept) /\ Cardinality(kept) \in Nat /\ Cardinality(kept) <= MaxConns
  <2>1. IsFiniteSet(kept) /\ Cardinality(kept) <= Cardinality(LiveConns)
    BY <1>4, FS_Subset DEF PoolInv, Capped
  <2>2. Cardinality(kept) \in Nat /\ Cardinality(LiveConns) \in Nat /\ MaxConns \in Nat
    BY <2>1, FS_CardinalityType, TransportAssumption DEF PoolInv, Capped
  <2> QED
    BY <2>1, <2>2 DEF PoolInv, Capped
<1>9. Capped'
  <2>1. CASE c \in kept /\ conns' = kept
    <3>1. LiveConns' = kept
      BY <1>1, <1>4, <1>5, <2>1 DEF LiveConns
    <3> QED
      BY <1>8, <3>1 DEF Capped
  <2>2. CASE NeedsConn(kept) /\ conns' = kept \cup {c} /\ mux'[c] = NewMux /\ c \notin conns
    <3>1. LiveConns' = kept \cup {c}
      BY <1>1, <1>2, <1>4, <1>5, <2>2 DEF LiveConns
    <3>2. /\ IsFiniteSet(kept \cup {c})
          /\ Cardinality(kept \cup {c}) = Cardinality(kept) + 1
      BY <1>8, <2>2, FS_AddElement
    <3>3. kept = {} => Cardinality(kept) = 0
      BY FS_EmptySet
    <3>4. Cardinality(kept) < MaxConns
      BY <1>8, <2>2, <3>3, TransportAssumption DEF NeedsConn
    <3> QED
      BY <1>8, <3>1, <3>2, <3>4, TransportAssumption DEF Capped
  <2> QED
    BY <1>1, <2>1, <2>2
<1> QED
  BY <1>7, <1>9 DEF PoolInv

LEMMA PoolPlaces ==
    ASSUME TypeOK, PoolInv, DetachPick \/ \E r \in Requests : Exchange(r)
    PROVE  PoolInv'
<1>1. CASE DetachPick
  BY <1>1, PoolPick DEF DetachPick, PoolInv, RequeueOpen
<1>2. ASSUME NEW r \in Requests, Exchange(r)
      PROVE  PoolInv'
  BY <1>2, PoolPick DEF Exchange
<1> QED
  BY <1>1, <1>2

LEMMA PoolInit == Init => PoolInv
<1> SUFFICES ASSUME Init
             PROVE  PoolInv
  OBVIOUS
<1>1. \A c \in Conns : mux[c].closed /\ ~tear[c].on
  BY DEF Init, NoMux, NoTear
<1>2. LiveConns = {}
  BY <1>1 DEF LiveConns
<1>3. Capped
  BY <1>2, FS_EmptySet, TransportAssumption DEF Capped
<1>4. LiveConnOwned /\ TornClosed /\ DrainLater /\ RequeueOpen
  BY <1>1, <1>2 DEF Init, LiveConnOwned, TornClosed, DrainLater, RequeueOpen
<1> QED
  BY <1>3, <1>4 DEF PoolInv

LEMMA PoolNext ==
    ASSUME TypeOK, PoolInv, [Next]_vars
    PROVE  PoolInv'
<1>1. ASSUME NEW r \in Requests,
             ExchangeRefused(r) \/ Cancel(r) \/ Deadline(r) \/ CallerStep(r)
      PROVE  PoolInv'
  BY <1>1, CallersBystand, ExpireBystands, OrphanBystands, PoolBystands DEF CallerStep
<1>2. ASSUME NEW c \in Conns, WriterStep(c)
      PROVE  PoolInv'
  BY <1>2, DialOKBystands, DialFailBystands, WakeBystands, ClaimBystands, WriterBystands,
     RequeueBystands, PoolBystands DEF WriterStep, WriterRuns
<1>3. ASSUME NEW c \in Conns, ReaderStep(c) \/ TearStep(c)
      PROVE  PoolInv'
  BY <1>3, ReaderBystands, TearSettleBystands, PoolTearDetach, PoolBystands DEF TearStep
<1>4. ASSUME NEW c \in Conns, Answer(c) \/ AnswerError(c) \/ Break(c)
      PROVE  PoolInv'
  BY <1>4, ServerBystands, PoolBystands
<1>5. CASE PoolStep
  BY <1>5, PlacingBystands, PoolPlaces, PoolBystands DEF PoolStep
<1>6. CASE CloseStep
  BY <1>6, PoolPoolClose, PoolDrain DEF CloseStep
<1>7. CASE CancelRoot \/ Finished \/ UNCHANGED vars
  BY <1>7, StutterBystands, PoolBystands
<1>8. ASSUME NEW r \in Requests, Exchange(r)
      PROVE  PoolInv'
  BY <1>8, PoolPlaces
<1> QED
  BY <1>1, <1>2, <1>3, <1>4, <1>5, <1>6, <1>7, <1>8 DEF Next

LEMMA PoolInvariant == Spec => []PoolInv
<1>1. Init => PoolInv
  BY PoolInit
<1>2. TypeOK /\ PoolInv /\ [Next]_vars => PoolInv'
  BY PoolNext
<1> QED
  BY <1>1, <1>2, TypeCorrect, PTL DEF Spec

(* However many commands run, sockets break, dials fail, connections idle  *)
(* out and Close interferes, serverPool never has more than maxConns       *)
(* connections open or being dialed, the draining ones included.           *)
THEOREM SocketsBounded == Spec => []SocketBound
<1>1. PoolInv => SocketBound
  BY DEF PoolInv, Capped, SocketBound
<1> QED
  BY <1>1, PoolInvariant, PTL

(* pickLocked, detach and close never drop a live connection: it is in the *)
(* pool, waits for close to drain it, or closes after its last response.   *)
THEOREM ConnsOwned == Spec => []LiveConnOwned
<1>1. PoolInv => LiveConnOwned
  BY DEF PoolInv
<1> QED
  BY <1>1, PoolInvariant, PTL

-----------------------------------------------------------------------------
(* No wake-up of a connection's writer is lost. *)

(* The strengthening of NoLostWakeup: a writer that has not started yet    *)
(* needs the signal as much as a sleeping one, and it starts only once.    *)
Sleeps(c) == writer[c].pc \in {"off", "idle"}

Wakeful(c) ==
    /\ ~mux[c].closed /\ pending[c] # <<>> /\ Sleeps(c)
            => mux[c].wake \/ (psignal /\ ptarget = c)
    /\ mux[c].dial = "dialing" => writer[c].pc = "off"

AllWakeful == \A k \in Conns : Wakeful(k)

(* Whoever owes a signal still holds serverPool.mu. *)
SignalHeld == psignal => plist # <<>> /\ ptarget # None

(* A step that does not pay an owed signal leaves it owed. *)
OwedKept == \A k \in Conns : psignal /\ ptarget = k => psignal' /\ ptarget' = k

LEMMA WakeFields ==
    ASSUME NEW m \in MuxFields, NEW x, NEW y
    PROVE  /\ [m EXCEPT !.rd = x].closed = m.closed
           /\ [m EXCEPT !.rd = x].wake = m.wake
           /\ [m EXCEPT !.rd = x].dial = m.dial
           /\ [m EXCEPT !.wake = x].closed = m.closed
           /\ [m EXCEPT !.wake = x].wake = x
           /\ [m EXCEPT !.wake = x].dial = m.dial
           /\ [m EXCEPT !.dial = x].closed = m.closed
           /\ [m EXCEPT !.dial = x].wake = m.wake
           /\ [m EXCEPT !.dial = x].dial = x
           /\ [m EXCEPT !.served = TRUE, !.closed = x, !.rd = y].wake = m.wake
           /\ [m EXCEPT !.served = TRUE, !.closed = x, !.rd = y].dial = m.dial
           /\ [m EXCEPT !.closed = TRUE, !.cause = x, !.blamed = y, !.wake = TRUE].closed
           /\ [m EXCEPT !.closed = TRUE, !.cause = x, !.blamed = y, !.wake = TRUE].dial
                = m.dial
           /\ [m EXCEPT !.dial = "gone", !.closed = TRUE, !.wake = TRUE, !.cause = x].dial
                = "gone"
           /\ [m EXCEPT !.dial = "gone", !.closed = TRUE, !.wake = TRUE, !.cause = x].closed
           /\ [m EXCEPT !.closing = TRUE, !.wake = TRUE, !.closed = x].dial = m.dial
           /\ [m EXCEPT !.closing = TRUE, !.wake = TRUE, !.closed = x].wake
BY DEF MuxFields

(* Steps that leave queues, signals and writers alone. *)
LEMMA WakeFrame ==
    ASSUME AllWakeful, OwedKept,
           \A k \in Conns : mux'[k] = mux[k] /\ pending'[k] = pending[k] /\ writer'[k] = writer[k]
    PROVE  AllWakeful'
BY DEF AllWakeful, Wakeful, Sleeps, OwedKept

(* Steps that keep a signal, when one is there. *)
LEMMA WakeSignal ==
    ASSUME TypeOK, AllWakeful, OwedKept, NEW c \in Conns, NEW m, mux' = [mux EXCEPT ![c] = m],
           mux[c].wake => m.wake, mux[c].closed => m.closed, m.dial = mux[c].dial,
           UNCHANGED <<pending, writer>>
    PROVE  AllWakeful'
<1>1. \A k \in Conns : mux'[k] = IF k = c THEN m ELSE mux[k]
  BY DEF TypeOK
<1> QED
  BY <1>1 DEF AllWakeful, Wakeful, Sleeps, OwedKept

(* Steps of a writer that is awake before and after. *)
LEMMA WakeWriter ==
    ASSUME TypeOK, AllWakeful, OwedKept, NEW c \in Conns, NEW w, writer' = [writer EXCEPT ![c] = w],
           writer[c].pc # "off", w.pc \notin {"off", "idle"}, UNCHANGED <<mux, pending>>
    PROVE  AllWakeful'
<1>1. \A k \in Conns : writer'[k] = IF k = c THEN w ELSE writer[k]
  BY DEF TypeOK
<1> QED
  BY <1>1 DEF AllWakeful, Wakeful, Sleeps, OwedKept

(* A connection torn down, with its writer where it was or awake. *)
LEMMA WakeTeardown ==
    ASSUME TypeOK, AllWakeful, OwedKept, NEW c \in Conns, NEW cause, NEW saw,
           teardownLocked(c, cause, saw),
           \A k \in Conns : writer'[k] = writer[k]
                            \/ (k = c /\ writer[k].pc # "off" /\ writer'[k].pc \notin {"off", "idle"})
    PROVE  AllWakeful'
<1>1. CASE mux[c].closed
  <2>1. UNCHANGED <<mux, pending>>
    BY <1>1 DEF teardownLocked
  <2> QED
    BY <2>1 DEF AllWakeful, Wakeful, Sleeps, OwedKept
<1>2. CASE ~mux[c].closed
  <2> DEFINE m == [mux[c] EXCEPT !.closed = TRUE, !.cause = cause,
                                 !.blamed = BlamedOf(c, saw), !.wake = TRUE]
  <2>1. m.closed /\ m.dial = mux[c].dial
    BY WakeFields DEF TypeOK
  <2>2. mux' = [mux EXCEPT ![c] = m] /\ pending' = [pending EXCEPT ![c] = <<>>]
    BY <1>2 DEF teardownLocked
  <2> HIDE DEF m
  <2>3. \A k \in Conns : /\ mux'[k] = IF k = c THEN m ELSE mux[k]
                         /\ pending'[k] = IF k = c THEN <<>> ELSE pending[k]
    BY <2>2 DEF TypeOK
  <2> QED
    BY <2>1, <2>3 DEF AllWakeful, Wakeful, Sleeps, OwedKept
<1> QED
  BY <1>1, <1>2

-----------------------------------------------------------------------------
(* One lemma per action, or per group of actions alike *)

LEMMA WakeIdleSteps ==
    ASSUME TypeOK, AllWakeful, OwedKept,
           \/ \E r \in Requests : ExchangeRefused(r) \/ Cancel(r) \/ Deadline(r)
                                  \/ GiveUpQueued(r) \/ GiveUpWriting(r)
                                  \/ MissQueued(r) \/ MissWriting(r)
           \/ \E c \in Conns : ReadPart(c) \/ ReaderExit(c) \/ TearSettle(c) \/ TearDetach(c)
                               \/ Answer(c) \/ AnswerError(c) \/ Break(c)
           \/ DetachSkip \/ DetachFail \/ CancelRoot \/ PoolClose \/ Finished \/ UNCHANGED vars
    PROVE  AllWakeful'
<1>1. UNCHANGED <<mux, pending, writer>>
  BY DEF ExchangeRefused, Cancel, Deadline, GiveUpQueued, GiveUpWriting, MissQueued,
         MissWriting, ReadPart, ReaderExit, TearSettle, TearDetach, Answer, AnswerError, Break, DetachSkip, DetachFail,
         CancelRoot, PoolClose, Finished, vars, connVars
<1> QED
  BY <1>1, WakeFrame

LEMMA WakeExpire ==
    ASSUME TypeOK, AllWakeful, OwedKept, NEW r \in Requests, Expire(r)
    PROVE  AllWakeful'
<1> DEFINE c == rconn[r]
           m == [mux[c] EXCEPT !.rd = armReadDeadline(inflight[c], state)]
<1>1. /\ writer' = writer
      /\ \/ teardownLocked(c, "deadline", TRUE)
         \/ mux' = [mux EXCEPT ![c] = m] /\ UNCHANGED pending
  BY DEF Expire
<1>2. CASE c \notin Conns
  <2>1. \A k \in Conns : mux'[k] = mux[k] /\ pending'[k] = pending[k]
    BY <1>1, <1>2 DEF TypeOK, teardownLocked
  <2> QED
    BY <1>1, <2>1, WakeFrame
<1>3. CASE c \in Conns /\ teardownLocked(c, "deadline", TRUE)
  BY <1>1, <1>3, WakeTeardown
<1>4. CASE c \in Conns /\ mux' = [mux EXCEPT ![c] = m] /\ UNCHANGED pending
  <2>1. m.closed = mux[c].closed /\ m.wake = mux[c].wake /\ m.dial = mux[c].dial
    BY <1>4, WakeFields DEF TypeOK
  <2> HIDE DEF m
  <2> QED
    BY <1>1, <1>4, <2>1, WakeSignal
<1> QED
  BY <1>1, <1>2, <1>3, <1>4

LEMMA WakeOrphan ==
    ASSUME TypeOK, AllWakeful, OwedKept, NEW r \in Requests, Orphan(r)
    PROVE  AllWakeful'
<1> DEFINE c == rconn[r]
           m == [mux[c] EXCEPT !.rd = IF mux[c].closed THEN mux[c].rd
                                      ELSE armReadDeadline(inflight[c], state)]
<1>1. mux' = [mux EXCEPT ![c] = m] /\ UNCHANGED <<pending, writer>>
  BY DEF Orphan
<1>2. CASE c \notin Conns
  BY <1>1, <1>2, WakeFrame DEF TypeOK
<1>3. CASE c \in Conns
  <2>1. m.closed = mux[c].closed /\ m.wake = mux[c].wake /\ m.dial = mux[c].dial
    BY <1>3, WakeFields DEF TypeOK
  <2> HIDE DEF m
  <2> QED
    BY <1>1, <1>3, <2>1, WakeSignal
<1> QED
  BY <1>2, <1>3

LEMMA WakeDialOK ==
    ASSUME TypeOK, AllWakeful, OwedKept, NEW c \in Conns, DialOK(c)
    PROVE  AllWakeful'
<1>1. UNCHANGED pending /\ writer[c].pc = "off"
  BY DEF DialOK, AllWakeful, Wakeful
<1>2. CASE mux[c].closed
  <2> DEFINE m == [mux[c] EXCEPT !.dial = "gone"]
  <2>1. m.closed = mux[c].closed /\ m.dial = "gone"
    BY WakeFields DEF TypeOK
  <2>2. mux' = [mux EXCEPT ![c] = m] /\ UNCHANGED writer
    BY <1>2 DEF DialOK
  <2> HIDE DEF m
  <2>3. \A k \in Conns : mux'[k] = IF k = c THEN m ELSE mux[k]
    BY <2>2 DEF TypeOK
  <2> QED
    BY <1>1, <1>2, <2>1, <2>2, <2>3 DEF AllWakeful, Wakeful, Sleeps, OwedKept
<1>3. CASE ~mux[c].closed
  <2> DEFINE m == [mux[c] EXCEPT !.dial = "up"]
             w == [NoWriter EXCEPT !.pc = "idle"]
  <2>1. m.closed = mux[c].closed /\ m.wake = mux[c].wake /\ m.dial = "up"
    BY WakeFields DEF TypeOK
  <2>2. mux' = [mux EXCEPT ![c] = m] /\ writer' = [writer EXCEPT ![c] = w]
    BY <1>3 DEF DialOK
  <2> HIDE DEF m, w
  <2>3. \A k \in Conns : /\ mux'[k] = IF k = c THEN m ELSE mux[k]
                         /\ writer'[k] = IF k = c THEN w ELSE writer[k]
    BY <2>2 DEF TypeOK
  <2> QED
    BY <1>1, <2>1, <2>3 DEF AllWakeful, Wakeful, Sleeps, OwedKept
<1> QED
  BY <1>2, <1>3

LEMMA WakeDialFail ==
    ASSUME TypeOK, AllWakeful, OwedKept, NEW c \in Conns, DialFail(c)
    PROVE  AllWakeful'
<1>1. UNCHANGED writer /\ \A k \in Conns : k # c => pending'[k] = pending[k]
  BY DEF DialFail, TypeOK
<1>2. PICK m : mux' = [mux EXCEPT ![c] = m] /\ m.closed /\ m.dial = "gone"
  <2>1. CASE mux[c].closed
    <3> DEFINE m == [mux[c] EXCEPT !.dial = "gone"]
    <3>1. m.closed /\ m.dial = "gone"
      BY <2>1, WakeFields DEF TypeOK
    <3>2. mux' = [mux EXCEPT ![c] = m]
      BY <2>1 DEF DialFail
    <3> QED
      BY <3>1, <3>2
  <2>2. CASE ~mux[c].closed
    <3> DEFINE m == [mux[c] EXCEPT !.dial = "gone", !.closed = TRUE, !.wake = TRUE,
                       !.cause = IF root THEN "rootcanceled" ELSE "dial"]
    <3>1. m.closed /\ m.dial = "gone"
      BY WakeFields DEF TypeOK
    <3>2. mux' = [mux EXCEPT ![c] = m]
      BY <2>2 DEF DialFail
    <3> QED
      BY <3>1, <3>2
  <2> QED
    BY <2>1, <2>2
<1>3. \A k \in Conns : mux'[k] = IF k = c THEN m ELSE mux[k]
  BY <1>2 DEF TypeOK
<1> QED
  BY <1>1, <1>2, <1>3 DEF AllWakeful, Wakeful, Sleeps, OwedKept

LEMMA WakeWriterWake ==
    ASSUME TypeOK, AllWakeful, OwedKept, NEW c \in Conns, WriterWake(c)
    PROVE  AllWakeful'
<1> DEFINE m == [mux[c] EXCEPT !.wake = FALSE]
           w == [writer[c] EXCEPT !.pc = "claim"]
<1>1. m.dial = mux[c].dial /\ w.pc = "claim" /\ writer[c].pc = "idle"
  BY WakeFields DEF TypeOK, WriterFields, WriterWake
<1>2. mux' = [mux EXCEPT ![c] = m] /\ writer' = [writer EXCEPT ![c] = w] /\ UNCHANGED pending
  BY DEF WriterWake
<1> HIDE DEF m, w
<1>3. \A k \in Conns : /\ mux'[k] = IF k = c THEN m ELSE mux[k]
                       /\ writer'[k] = IF k = c THEN w ELSE writer[k]
  BY <1>2 DEF TypeOK
<1> QED
  BY <1>1, <1>2, <1>3 DEF AllWakeful, Wakeful, Sleeps, OwedKept

LEMMA WakeClaim ==
    ASSUME TypeOK, AllWakeful, OwedKept, NEW c \in Conns, Claim(c)
    PROVE  AllWakeful'
<1>1. PICK x, w : /\ mux' = [mux EXCEPT ![c] = [mux[c] EXCEPT !.rd = x]]
                  /\ writer' = [writer EXCEPT ![c] = w]
  BY DEF Claim
<1> DEFINE m == [mux[c] EXCEPT !.rd = x]
<1>2. m.dial = mux[c].dial
  BY WakeFields DEF TypeOK
<1>3. writer[c].pc = "claim" /\ pending' = [pending EXCEPT ![c] = <<>>]
  BY DEF Claim
<1>4. mux' = [mux EXCEPT ![c] = m]
  BY <1>1
<1> HIDE DEF m
<1>5. \A k \in Conns : /\ mux'[k] = IF k = c THEN m ELSE mux[k]
                       /\ writer'[k] = IF k = c THEN w ELSE writer[k]
                       /\ pending'[k] = IF k = c THEN <<>> ELSE pending[k]
  BY <1>1, <1>3, <1>4 DEF TypeOK
<1> QED
  BY <1>2, <1>3, <1>5 DEF AllWakeful, Wakeful, Sleeps, OwedKept

LEMMA WakeFlush ==
    ASSUME TypeOK, AllWakeful, OwedKept, NEW c \in Conns,
           \/ WriterExit(c) \/ Write(c) \/ FlushDone(c) \/ SettleBatch(c) \/ WriterRequeue(c)
           \/ \E part \in BOOLEAN, err \in {"io", "iotimeout"} : FlushFail(c, part, err)
    PROVE  AllWakeful'
<1>1. UNCHANGED <<mux, pending>> /\ writer[c].pc # "off"
  BY DEF WriterExit, Write, FlushDone, SettleBatch, WriterRequeue, FlushFail
<1>2. writer[c] \in WriterFields
  BY DEF TypeOK
<1>3. PICK w : writer' = [writer EXCEPT ![c] = w] /\ w.pc \notin {"off", "idle"}
  <2>1. CASE WriterExit(c) \/ WriterRequeue(c)
    <3>1. PICK p \in {"exit", "claim"} :
            writer' = [writer EXCEPT ![c] = [NoWriter EXCEPT !.pc = p]]
      BY <2>1 DEF WriterExit, WriterRequeue
    <3>2. [NoWriter EXCEPT !.pc = p].pc = p
      BY DEF NoWriter
    <3> QED
      BY <3>1, <3>2
  <2>2. CASE Write(c)
    <3> DEFINE w == [writer[c] EXCEPT !.n = writer[c].n + 1]
    <3>1. w.pc = "flush"
      BY <1>2, <2>2 DEF Write, WriterFields
    <3>2. writer' = [writer EXCEPT ![c] = w]
      BY <2>2 DEF Write
    <3> QED
      BY <3>1, <3>2
  <2>3. CASE FlushDone(c) /\ mux[c].closed
    <3> DEFINE w == [writer[c] EXCEPT !.pc = "settle", !.closed = TRUE,
                                      !.served = mux[c].served]
    <3>1. w.pc = "settle"
      BY <1>2 DEF WriterFields
    <3>2. writer' = [writer EXCEPT ![c] = w]
      BY <2>3 DEF FlushDone
    <3> QED
      BY <3>1, <3>2
  <2>4. CASE FlushDone(c) /\ ~mux[c].closed
    <3>1. writer' = [writer EXCEPT ![c] = [NoWriter EXCEPT !.pc = "claim"]]
      BY <2>4 DEF FlushDone
    <3>2. [NoWriter EXCEPT !.pc = "claim"].pc = "claim"
      BY DEF NoWriter
    <3> QED
      BY <3>1, <3>2
  <2>5. CASE SettleBatch(c)
    <3>1. PICK b, p : /\ writer' = [writer EXCEPT ![c] =
                                      [writer[c] EXCEPT !.batch = b, !.pc = p]]
                      /\ p \in {"claim", "fail"}
      BY <2>5 DEF SettleBatch
    <3>2. [writer[c] EXCEPT !.batch = b, !.pc = p].pc = p
      BY <1>2 DEF WriterFields
    <3> QED
      BY <3>1, <3>2
  <2>6. ASSUME NEW part \in BOOLEAN, NEW err \in {"io", "iotimeout"}, FlushFail(c, part, err)
        PROVE  \E w : writer' = [writer EXCEPT ![c] = w] /\ w.pc \notin {"off", "idle"}
    <3> DEFINE w == [writer[c] EXCEPT !.pc = "settle", !.err = err, !.part = part,
                       !.closed = mux[c].closed, !.served = mux[c].served]
    <3>1. w.pc = "settle"
      BY <1>2 DEF WriterFields
    <3>2. writer' = [writer EXCEPT ![c] = w]
      BY <2>6 DEF FlushFail
    <3> QED
      BY <3>1, <3>2
  <2> QED
    BY <2>1, <2>2, <2>3, <2>4, <2>5, <2>6
<1> QED
  BY <1>1, <1>3, WakeWriter

LEMMA WakeWriterFail ==
    ASSUME TypeOK, AllWakeful, OwedKept, NEW c \in Conns, WriterFail(c)
    PROVE  AllWakeful'
<1> DEFINE p == IF mux[c].closed THEN "requeue" ELSE "tail"
           w == [writer[c] EXCEPT !.pc = p]
<1>1. w.pc = p /\ writer[c].pc = "fail"
  BY DEF WriterFail, TypeOK, WriterFields
<1>2. writer' = [writer EXCEPT ![c] = w] /\ teardownLocked(c, writer[c].err, FALSE)
  BY DEF WriterFail
<1>3. w.pc \notin {"off", "idle"}
  BY <1>1
<1> HIDE DEF w
<1>4. \A k \in Conns : writer'[k] = IF k = c THEN w ELSE writer[k]
  BY <1>2 DEF TypeOK
<1> QED
  BY <1>1, <1>2, <1>3, <1>4, WakeTeardown

LEMMA WakeReader ==
    ASSUME TypeOK, AllWakeful, OwedKept, NEW c \in Conns, ReadLast(c) \/ Deliver(c) \/ ReadFail(c)
    PROVE  AllWakeful'
<1>1. CASE ReadLast(c)
  <2> DEFINE rest == Tail(inflight[c])
             m == [mux[c] EXCEPT !.served = TRUE, !.closed = Drained(c, rest),
                                 !.rd = armReadDeadline(rest, state)]
  <2>1. m.wake = mux[c].wake /\ m.dial = mux[c].dial
    BY WakeFields DEF TypeOK
  <2>2. mux' = [mux EXCEPT ![c] = m] /\ UNCHANGED <<pending, writer>> /\ ~mux[c].closed
    BY <1>1 DEF ReadLast
  <2> HIDE DEF m
  <2> QED
    BY <2>1, <2>2, WakeSignal
<1>2. CASE Deliver(c)
  <2> DEFINE m == [mux[c] EXCEPT !.wake = mux[c].wake \/ reader[c].fin]
  <2>1. /\ m.wake = (mux[c].wake \/ reader[c].fin)
        /\ m.dial = mux[c].dial /\ m.closed = mux[c].closed
    BY WakeFields DEF TypeOK
  <2>2. mux' = [mux EXCEPT ![c] = m] /\ UNCHANGED <<pending, writer>>
    BY <1>2 DEF Deliver
  <2> HIDE DEF m
  <2> QED
    BY <2>1, <2>2, WakeSignal
<1>3. CASE ReadFail(c)
  BY <1>3, WakeTeardown DEF ReadFail
<1> QED
  BY <1>1, <1>2, <1>3

LEMMA WakePoolAdd ==
    ASSUME TypeOK, AllWakeful, OwedKept, PoolAdd
    PROVE  AllWakeful'
<1>1. UNCHANGED <<mux, writer, ptarget>> /\ psignal' /\ ptarget \in Conns
  BY DEF PoolAdd, TypeOK
<1>2. \A k \in Conns : k # ptarget => pending'[k] = pending[k]
  BY DEF PoolAdd, TypeOK
<1> QED
  BY <1>1, <1>2 DEF AllWakeful, Wakeful, Sleeps, OwedKept

(* The signal that is owed is paid, to the connection it is owed to. *)
LEMMA WakePoolSignal ==
    ASSUME TypeOK, AllWakeful, PoolSignal
    PROVE  AllWakeful'
<1> DEFINE c == ptarget
           m == [mux[c] EXCEPT !.wake = TRUE]
<1>1. c \in Conns /\ mux' = [mux EXCEPT ![c] = m] /\ UNCHANGED <<pending, writer>>
  BY DEF PoolSignal, signal, TypeOK
<1>2. m.wake /\ m.dial = mux[c].dial
  BY <1>1, WakeFields DEF TypeOK
<1> HIDE DEF m
<1>3. \A k \in Conns : mux'[k] = IF k = c THEN m ELSE mux[k]
  BY <1>1 DEF TypeOK
<1> QED
  BY <1>1, <1>2, <1>3 DEF AllWakeful, Wakeful, Sleeps

LEMMA WakeDrain ==
    ASSUME TypeOK, AllWakeful, OwedKept, NEW c \in Conns, Drain(c)
    PROVE  AllWakeful'
<1>1. CASE mux[c].closed
  <2>1. UNCHANGED <<mux, pending, writer>>
    BY <1>1 DEF Drain
  <2> QED
    BY <2>1, WakeFrame
<1>2. CASE ~mux[c].closed
  <2> DEFINE m == [mux[c] EXCEPT !.closing = TRUE, !.wake = TRUE,
                                 !.closed = inflight[c] = <<>>]
  <2>1. m.wake /\ m.dial = mux[c].dial
    BY WakeFields DEF TypeOK
  <2>2. mux' = [mux EXCEPT ![c] = m] /\ UNCHANGED writer
    BY <1>2 DEF Drain
  <2>3. \A k \in Conns : k # c => pending'[k] = pending[k]
    BY DEF Drain, TypeOK
  <2> HIDE DEF m
  <2>4. \A k \in Conns : mux'[k] = IF k = c THEN m ELSE mux[k]
    BY <2>2 DEF TypeOK
  <2> QED
    BY <2>1, <2>2, <2>3, <2>4 DEF AllWakeful, Wakeful, Sleeps, OwedKept
<1> QED
  BY <1>1, <1>2

LEMMA WakePick ==
    ASSUME TypeOK, AllWakeful, OwedKept, NEW c \in Conns, pickLocked(c), UNCHANGED pending
    PROVE  AllWakeful'
<1>1. PICK R \in SUBSET {k \in conns : "idle" \in Faults /\ ~mux[k].closed /\ Load(k) = 0} :
        LET mux1 == [k \in Conns |-> IF k \in R
                        THEN [mux[k] EXCEPT !.closed = TRUE, !.wake = TRUE]
                        ELSE mux[k]]
        IN  \/ /\ c \in Fresh /\ mux' = [mux1 EXCEPT ![c] = NewMux]
               /\ writer' = [writer EXCEPT ![c] = NoWriter]
            \/ mux' = mux1 /\ writer' = writer
  <2>1. Fresh # {} => (CHOOSE k \in Fresh : TRUE) \in Fresh
    OBVIOUS
  <2> QED
    BY <2>1 DEF pickLocked
<1> DEFINE mux1 == [k \in Conns |-> IF k \in R
                        THEN [mux[k] EXCEPT !.closed = TRUE, !.wake = TRUE]
                        ELSE mux[k]]
<1>2. \A k \in Conns : /\ mux1[k].dial = mux[k].dial
                       /\ mux1[k].closed \/ mux1[k] = mux[k]
  <2>1. \A k \in Conns : /\ [mux[k] EXCEPT !.closed = TRUE, !.wake = TRUE].closed
                         /\ [mux[k] EXCEPT !.closed = TRUE, !.wake = TRUE].dial = mux[k].dial
    BY DEF TypeOK, MuxFields
  <2> QED
    BY <2>1
<1>3. CASE /\ c \in Fresh /\ mux' = [mux1 EXCEPT ![c] = NewMux]
           /\ writer' = [writer EXCEPT ![c] = NoWriter]
  <2>1. pending[c] = <<>>
    BY <1>3 DEF Fresh
  <2>2. mux'[c] = NewMux /\ \A k \in Conns : k # c => mux'[k] = mux1[k]
    BY <1>3
  <2>3. writer'[c].pc = "off" /\ \A k \in Conns : k # c => writer'[k] = writer[k]
    BY <1>3 DEF TypeOK, NoWriter
  <2> HIDE DEF mux1
  <2> QED
    BY <1>2, <2>1, <2>2, <2>3 DEF AllWakeful, Wakeful, Sleeps, OwedKept
<1>4. CASE mux' = mux1 /\ writer' = writer
  <2> HIDE DEF mux1
  <2> QED
    BY <1>2, <1>4 DEF AllWakeful, Wakeful, Sleeps, OwedKept
<1> QED
  BY <1>1, <1>3, <1>4

(* Everybody else who needs serverPool.mu waits for the signal. *)
LEMMA OwedNext ==
    ASSUME TypeOK, SignalHeld, [Next]_vars, ~PoolSignal
    PROVE  OwedKept /\ SignalHeld'
<1>1. CASE UNCHANGED <<psignal, ptarget, plist>>
  BY <1>1 DEF OwedKept, SignalHeld
<1>2. CASE ~psignal /\ ~psignal'
  BY <1>2 DEF OwedKept, SignalHeld
<1>3. CASE PoolAdd
  BY <1>3 DEF PoolAdd, OwedKept, SignalHeld
<1>4. ASSUME NEW r \in Requests, Exchange(r)
      PROVE  ~psignal /\ ~psignal'
  BY <1>4 DEF Exchange, SignalHeld
<1>5. ASSUME NEW c \in Conns, WriterRequeue(c) \/ TearDetach(c)
      PROVE  ~psignal /\ ~psignal'
  BY <1>5 DEF WriterRequeue, TearDetach, detach, SignalHeld
<1>6. CASE DetachSkip \/ DetachPick \/ DetachFail
  BY <1>2, <1>6 DEF DetachSkip, DetachPick, DetachFail, SignalHeld
<1>7. ASSUME NEW r \in Requests,
             ExchangeRefused(r) \/ Cancel(r) \/ Deadline(r) \/ CallerStep(r)
      PROVE  UNCHANGED <<psignal, ptarget, plist>>
  BY <1>7 DEF ExchangeRefused, Cancel, Deadline, CallerStep, GiveUpQueued, GiveUpWriting,
              MissQueued, MissWriting, Expire, Orphan, poolVars
<1>8. ASSUME NEW c \in Conns, WriterStep(c), ~WriterRequeue(c)
      PROVE  UNCHANGED <<psignal, ptarget, plist>>
  BY <1>8 DEF WriterStep, WriterRuns, DialOK, DialFail, WriterWake, WriterExit, Claim, Write,
              FlushDone, FlushFail, SettleBatch, WriterFail, poolVars
<1>9. ASSUME NEW c \in Conns,
             \/ ReaderStep(c) \/ TearSettle(c) \/ Answer(c) \/ AnswerError(c) \/ Break(c)
      PROVE  UNCHANGED <<psignal, ptarget, plist>>
  BY <1>9 DEF ReaderStep, ReadPart, ReadLast, Deliver, ReadFail, ReaderExit, TearSettle,
              Answer, AnswerError, Break, poolVars
<1>10. CASE CancelRoot \/ CloseStep \/ Finished \/ UNCHANGED vars
  BY <1>1, <1>10 DEF CancelRoot, CloseStep, PoolClose, Drain, Finished, vars, poolVars
<1> QED
  BY <1>1, <1>2, <1>3, <1>4, <1>5, <1>6, <1>7, <1>8, <1>9, <1>10
     DEF Next, PoolStep, TearStep

LEMMA WakeInit == Init => AllWakeful /\ SignalHeld
BY DEF Init, AllWakeful, Wakeful, Sleeps, SignalHeld, NoMux, NoWriter

LEMMA WakeNext ==
    ASSUME TypeOK, AllWakeful, SignalHeld, [Next]_vars
    PROVE  AllWakeful' /\ SignalHeld'
<1> SUFFICES ASSUME ~PoolSignal
             PROVE  AllWakeful' /\ SignalHeld'
  BY WakePoolSignal DEF PoolSignal, SignalHeld
<1>0. OwedKept /\ SignalHeld'
  BY OwedNext
<1>1. ASSUME NEW r \in Requests,
             \/ Exchange(r) \/ ExchangeRefused(r) \/ Cancel(r) \/ Deadline(r)
             \/ CallerStep(r)
      PROVE  AllWakeful'
  <2>1. CASE Exchange(r)
    BY <1>0, <2>1, WakePick DEF Exchange
  <2> QED
    BY <1>0, <1>1, <2>1, WakeIdleSteps, WakeExpire, WakeOrphan DEF CallerStep
<1>2. ASSUME NEW c \in Conns, WriterStep(c)
      PROVE  AllWakeful'
  BY <1>0, <1>2, WakeDialOK, WakeDialFail, WakeWriterWake, WakeClaim, WakeFlush, WakeWriterFail
     DEF WriterStep, WriterRuns
<1>3. ASSUME NEW c \in Conns, ReaderStep(c) \/ TearStep(c)
      PROVE  AllWakeful'
  BY <1>0, <1>3, WakeReader, WakeIdleSteps DEF ReaderStep, TearStep
<1>4. ASSUME NEW c \in Conns, Answer(c) \/ AnswerError(c) \/ Break(c)
      PROVE  AllWakeful'
  BY <1>0, <1>4, WakeIdleSteps
<1>5. CASE PoolStep
  <2>1. CASE DetachPick
    BY <1>0, <2>1, WakePick DEF DetachPick
  <2> QED
    BY <1>0, <1>5, <2>1, WakePoolAdd, WakeIdleSteps DEF PoolStep
<1>6. CASE CancelRoot \/ CloseStep
  BY <1>0, <1>6, WakeIdleSteps, WakeDrain DEF CloseStep
<1>7. CASE Finished \/ UNCHANGED vars
  BY <1>0, <1>7, WakeIdleSteps
<1> QED
  BY <1>0, <1>1, <1>2, <1>3, <1>4, <1>5, <1>6, <1>7 DEF Next

(* The one-slot channel muxConn.wake never misses a request: one queued on *)
(* a live connection whose writer sleeps has left its signal or is about   *)
(* to, although add signals after the unlock of muxConn.mu.                *)
THEOREM WakeupsKept == Spec => []NoLostWakeup
<1>1. Init => AllWakeful /\ SignalHeld
  BY WakeInit
<1>2. TypeOK /\ AllWakeful /\ SignalHeld /\ [Next]_vars => AllWakeful' /\ SignalHeld'
  BY WakeNext
<1>3. AllWakeful => NoLostWakeup
  BY DEF AllWakeful, Wakeful, Sleeps, NoLostWakeup
<1> QED
  BY <1>1, <1>2, <1>3, TypeCorrect, PTL DEF Spec

=============================================================================
