--------------------------- MODULE TransportFrames ---------------------------
(***************************************************************************)
(* Responses carry no identity: this module proves that Transport matches  *)
(* them to requests by order alone, for any requests, connections and      *)
(* faults, and that only an unresponsive connection comes down for a       *)
(* deadline.                                                               *)
(***************************************************************************)
EXTENDS TransportProofs

-----------------------------------------------------------------------------
(* A connection's queue q, whose first h requests have been handed to the  *)
(* socket, and the two directions of the stream.                           *)

(* The frame completes the answer of its request. *)
Ends(f) == f.last \/ f.bad

(* The frames on their way back answer the first k requests of q, in       *)
(* order: m gives each frame its request's position.                       *)
Answering(q, k, m, back) ==
    /\ m \in [1..Len(back) -> Nat]
    /\ back = <<>> => k = 0
    /\ back # <<>> => m[1] = 1 /\ m[Len(back)] = k /\ Ends(back[Len(back)])
    /\ \A j \in 1..Len(back) : /\ m[j] \in 1..k /\ back[j].of = q[m[j]]
                               /\ Ends(back[j]) \/ back[j].of \in Batches
    /\ \A i, j \in 1..Len(back) :
         /\ j = i + 1 => m[j] = IF Ends(back[i]) THEN m[i] + 1 ELSE m[i]
         /\ i < j => m[i] <= m[j] /\ (Ends(back[i]) => m[i] < m[j])

(* On an open socket the server has yet to answer the rest of the h. *)
Unanswered(q, h, k, recv) ==
    Len(recv) = h - k /\ \A i \in 1..Len(recv) : recv[i] = q[k + i]

Aligned(q, h, s) ==
    \E k \in 0..h : /\ \E m : Answering(q, k, m, s.back)
                    /\ s.up => Unanswered(q, h, k, s.recv)

LEMMA AlignedNew == Aligned(<<>>, 0, OpenSock)
<1> DEFINE m == [i \in 1..0 |-> 0]
<1>1. OpenSock.back = <<>> /\ OpenSock.recv = <<>> /\ Len(OpenSock.back) = 0
  BY DEF OpenSock, DeadSock
<1>2. Answering(<<>>, 0, m, OpenSock.back)
  BY <1>1 DEF Answering
<1>3. Unanswered(<<>>, 0, 0, OpenSock.recv)
  BY <1>1 DEF Unanswered
<1> QED
  BY <1>2, <1>3 DEF Aligned

(* What has not been handed over does not matter. *)
LEMMA AlignedPrefix ==
    ASSUME NEW q, NEW p, NEW h \in Nat, NEW s, Aligned(q, h, s),
           \A i \in 1..h : p[i] = q[i], s.recv \in Seq(Requests)
    PROVE  Aligned(p, h, s)
<1>1. PICK k \in 0..h : /\ \E m : Answering(q, k, m, s.back)
                        /\ s.up => Unanswered(q, h, k, s.recv)
  BY DEF Aligned
<1>2. PICK m : Answering(q, k, m, s.back)
  BY <1>1
<1>3. Answering(p, k, m, s.back)
  BY <1>2 DEF Answering
<1>4. s.up => Unanswered(p, h, k, s.recv)
  BY <1>1 DEF Unanswered
<1> QED
  BY <1>3, <1>4 DEF Aligned

LEMMA AlignedWrite ==
    ASSUME NEW q, NEW h \in Nat, NEW s \in SockFields, Aligned(q, h, s),
           NEW x \in Requests, x = q[h + 1]
    PROVE  Aligned(q, h + 1,
                   IF s.up THEN [s EXCEPT !.recv = Append(s.recv, x)] ELSE s)
<1>1. PICK k \in 0..h : /\ \E m : Answering(q, k, m, s.back)
                        /\ s.up => Unanswered(q, h, k, s.recv)
  BY DEF Aligned
<1>2. PICK m : Answering(q, k, m, s.back)
  BY <1>1
<1>3. CASE ~s.up
  BY <1>1, <1>2, <1>3 DEF Aligned
<1>4. CASE s.up
  <2> DEFINE r == Append(s.recv, x)
             t == [s EXCEPT !.recv = r]
  <2>1. s.recv \in Seq(Requests) /\ t.back = s.back /\ t.recv = r
    BY DEF SockFields
  <2>2. Len(r) = Len(s.recv) + 1 /\ r[Len(s.recv) + 1] = x
        /\ \A i \in 1..Len(s.recv) : r[i] = s.recv[i]
    BY <2>1, AppendProperties
  <2>3. Len(s.recv) = h - k /\ \A i \in 1..Len(s.recv) : s.recv[i] = q[k + i]
    BY <1>1, <1>4 DEF Unanswered
  <2> HIDE DEF r, t
  <2>4. Unanswered(q, h + 1, k, r)
    <3>1. Len(r) = (h + 1) - k
      BY <2>2, <2>3
    <3>2. ASSUME NEW i \in 1..Len(r) PROVE r[i] = q[k + i]
      <4>1. CASE i = Len(s.recv) + 1
        BY <4>1, <2>2, <2>3
      <4>2. CASE i # Len(s.recv) + 1
        <5>1. i \in 1..Len(s.recv)
          BY <4>2, <2>2, <2>3
        <5> QED
          BY <5>1, <2>2, <2>3
      <4> QED
        BY <4>1, <4>2
    <3> QED
      BY <3>1, <3>2 DEF Unanswered
  <2>5. Aligned(q, h + 1, t)
    BY <1>2, <2>1, <2>4 DEF Aligned
  <2> QED
    BY <1>4, <2>5 DEF t, r
<1> QED
  BY <1>3, <1>4

(* The server answers the next request with the frames fs. *)
LEMMA AlignedAnswer ==
    ASSUME NEW q, NEW h \in Nat, NEW s \in SockFields, Aligned(q, h, s), s.up,
           s.recv # <<>>, NEW fs \in Seq(Frames), fs # <<>>, Ends(fs[Len(fs)]),
           \A j \in 1..Len(fs) :
              /\ fs[j].of = Head(s.recv)
              /\ j < Len(fs) => ~Ends(fs[j]) /\ fs[j].of \in Batches
    PROVE  Aligned(q, h, [s EXCEPT !.recv = Tail(s.recv), !.back = s.back \o fs])
<1> DEFINE b == s.back
           g == s.back \o fs
           v == Tail(s.recv)
           t == [s EXCEPT !.recv = v, !.back = g]
<1>0. b \in Seq(Frames) /\ s.recv \in Seq(Requests) /\ t.recv = v /\ t.back = g
  BY DEF SockFields
<1>1. PICK k \in 0..h : /\ \E m : Answering(q, k, m, s.back)
                        /\ s.up => Unanswered(q, h, k, s.recv)
  BY DEF Aligned
<1>2. PICK m : Answering(q, k, m, b)
  BY <1>1
<1>3. /\ Len(s.recv) \in Nat \ {0} /\ Len(v) = Len(s.recv) - 1
      /\ \A i \in 1..Len(v) : v[i] = s.recv[i + 1]
      /\ Head(s.recv) = s.recv[1]
  BY <1>0
<1>4. /\ Len(b) \in Nat /\ Len(fs) \in Nat \ {0} /\ Len(g) = Len(b) + Len(fs)
      /\ \A j \in 1..Len(b) : g[j] = b[j]
      /\ \A j \in 1..Len(fs) : g[Len(b) + j] = fs[j]
  BY <1>0
<1>5. /\ Len(s.recv) = h - k /\ \A i \in 1..Len(s.recv) : s.recv[i] = q[k + i]
      /\ k + 1 \in 0..h /\ Head(s.recv) = q[k + 1]
  BY <1>1, <1>3 DEF Unanswered
<1>6. b = <<>> <=> Len(b) = 0
  BY <1>0
<1>7. g # <<>>
  BY <1>4
<1> DEFINE n == [j \in 1..Len(g) |-> IF j <= Len(b) THEN m[j] ELSE k + 1]
<1> HIDE DEF b, g, v, t
<1>8. ASSUME NEW j \in 1..Len(g)
      PROVE  \/ j \in 1..Len(b) /\ g[j] = b[j] /\ n[j] = m[j]
             \/ /\ j - Len(b) \in 1..Len(fs) /\ g[j] = fs[j - Len(b)] /\ n[j] = k + 1
                /\ ~(j \in 1..Len(b))
  <2>1. CASE j <= Len(b)
    BY <2>1, <1>4
  <2>2. CASE ~(j <= Len(b))
    <3>1. j - Len(b) \in 1..Len(fs) /\ Len(b) + (j - Len(b)) = j
      BY <2>2, <1>4
    <3> QED
      BY <2>2, <3>1, <1>4
  <2> QED
    BY <2>1, <2>2
<1>9. Answering(q, k + 1, n, g)
  <2>1. n \in [1..Len(g) -> Nat]
    BY <1>2, <1>8 DEF Answering
  <2>2. n[1] = 1
    <3>1. 1 \in 1..Len(g)
      BY <1>4
    <3>2. CASE b = <<>>
      BY <3>1, <3>2, <1>2, <1>6, <1>8 DEF Answering
    <3>3. CASE b # <<>>
      BY <3>1, <3>3, <1>2, <1>4, <1>6, <1>8 DEF Answering
    <3> QED
      BY <3>2, <3>3
  <2>3. n[Len(g)] = k + 1 /\ Ends(g[Len(g)])
    <3>1. Len(g) \in 1..Len(g) /\ Len(g) - Len(b) = Len(fs) /\ ~(Len(g) \in 1..Len(b))
      BY <1>4
    <3> QED
      BY <3>1, <1>8
  <2>4. ASSUME NEW j \in 1..Len(g)
        PROVE  /\ n[j] \in 1..(k + 1) /\ g[j].of = q[n[j]]
               /\ Ends(g[j]) \/ g[j].of \in Batches
    <3>1. CASE j \in 1..Len(b)
      BY <3>1, <1>8, <1>2 DEF Answering
    <3>2. CASE j \notin 1..Len(b)
      <4>1. j - Len(b) \in 1..Len(fs) /\ g[j] = fs[j - Len(b)] /\ n[j] = k + 1
        BY <3>2, <1>8
      <4>2. PICK i \in 1..Len(fs) : i = j - Len(b)
        BY <4>1
      <4>3. fs[i].of = q[k + 1] /\ (Ends(fs[i]) \/ fs[i].of \in Batches)
        BY <1>4, <1>5
      <4> QED
        BY <4>1, <4>2, <4>3
    <3> QED
      BY <3>1, <3>2
  <2>5. ASSUME NEW i \in 1..Len(g), NEW j \in 1..Len(g), j = i + 1
        PROVE  n[j] = IF Ends(g[i]) THEN n[i] + 1 ELSE n[i]
    <3>1. CASE j \in 1..Len(b)
      <4>1. i \in 1..Len(b)
        BY <3>1, <2>5, <1>4
      <4> QED
        BY <3>1, <4>1, <2>5, <1>8, <1>2 DEF Answering
    <3>2. CASE j \notin 1..Len(b) /\ i \in 1..Len(b)
      <4>1. i = Len(b) /\ b # <<>>
        BY <3>2, <2>5, <1>4, <1>6
      <4>2. n[i] = k /\ Ends(g[i])
        BY <3>2, <4>1, <1>8, <1>2 DEF Answering
      <4> QED
        BY <3>2, <4>2, <1>8
    <3>3. CASE j \notin 1..Len(b) /\ i \notin 1..Len(b)
      <4>1. /\ j - Len(b) \in 1..Len(fs) /\ n[j] = k + 1
            /\ i - Len(b) \in 1..Len(fs) /\ g[i] = fs[i - Len(b)] /\ n[i] = k + 1
        BY <3>3, <1>8
      <4>2. PICK x \in 1..Len(fs) : x = i - Len(b)
        BY <4>1
      <4>3. x < Len(fs)
        BY <4>1, <4>2, <2>5, <1>4
      <4>4. ~Ends(fs[x])
        BY <4>3
      <4> QED
        BY <4>1, <4>2, <4>4
    <3> QED
      BY <3>1, <3>2, <3>3
  <2>6. ASSUME NEW i \in 1..Len(g), NEW j \in 1..Len(g), i < j
        PROVE  n[i] <= n[j] /\ (Ends(g[i]) => n[i] < n[j])
    <3>1. CASE j \in 1..Len(b)
      <4>1. i \in 1..Len(b)
        BY <3>1, <2>6, <1>4
      <4> QED
        BY <3>1, <4>1, <2>6, <1>8, <1>2 DEF Answering
    <3>2. CASE j \notin 1..Len(b) /\ i \in 1..Len(b)
      <4>1. n[j] = k + 1 /\ n[i] = m[i] /\ m[i] \in 1..k
        BY <3>2, <1>8, <1>2 DEF Answering
      <4> QED
        BY <4>1
    <3>3. CASE j \notin 1..Len(b) /\ i \notin 1..Len(b)
      <4>1. /\ j - Len(b) \in 1..Len(fs) /\ n[j] = k + 1
            /\ i - Len(b) \in 1..Len(fs) /\ g[i] = fs[i - Len(b)] /\ n[i] = k + 1
        BY <3>3, <1>8
      <4>2. PICK x \in 1..Len(fs) : x = i - Len(b)
        BY <4>1
      <4>3. x < Len(fs)
        BY <4>1, <4>2, <2>6, <1>4
      <4>4. ~Ends(fs[x])
        BY <4>3
      <4> QED
        BY <4>1, <4>2, <4>4
    <3> QED
      BY <3>1, <3>2, <3>3
  <2> QED
    BY <2>1, <2>2, <2>3, <2>4, <2>5, <2>6, <1>7 DEF Answering
<1>10. Unanswered(q, h, k + 1, v)
  <2>1. Len(v) = h - (k + 1)
    BY <1>3, <1>5
  <2>2. ASSUME NEW i \in 1..Len(v) PROVE v[i] = q[(k + 1) + i]
    <3>0. i \in 1..(Len(s.recv) - 1) /\ k \in Nat
      BY <1>3
    <3>1. i + 1 \in 1..Len(s.recv) /\ k + (i + 1) = (k + 1) + i
      BY <3>0, <1>3
    <3> QED
      BY <3>1, <1>3, <1>5
  <2> QED
    BY <2>1, <2>2 DEF Unanswered
<1>11. Aligned(q, h, t)
  BY <1>0, <1>5, <1>9, <1>10 DEF Aligned
<1> QED
  BY <1>11 DEF t, v, g

LEMMA AlignedBreak ==
    ASSUME NEW q, NEW h \in Nat, NEW s \in SockFields, Aligned(q, h, s)
    PROVE  Aligned(q, h, [s EXCEPT !.up = FALSE, !.recv = <<>>])
<1> DEFINE t == [s EXCEPT !.up = FALSE, !.recv = <<>>]
<1>1. t.back = s.back /\ ~t.up
  BY DEF SockFields
<1> HIDE DEF t
<1>2. Aligned(q, h, t)
  BY <1>1 DEF Aligned
<1> QED
  BY <1>2 DEF t

(* The first frame belongs to the first request. *)
LEMMA AlignedHead ==
    ASSUME NEW q \in Seq(Requests), NEW h \in 0..Len(q), NEW s \in SockFields,
           Aligned(q, h, s), s.back # <<>>
    PROVE  /\ q # <<>> /\ Head(s.back).of = Head(q) /\ h > 0
           /\ Ends(Head(s.back)) \/ Head(s.back).of \in Batches
<1>0. s.back \in Seq(Frames)
  BY DEF SockFields
<1>1. PICK k \in 0..h : \E m : Answering(q, k, m, s.back)
  BY DEF Aligned
<1>2. PICK m : Answering(q, k, m, s.back)
  BY <1>1
<1>3. Len(s.back) \in Nat \ {0} /\ 1 \in 1..Len(s.back) /\ Head(s.back) = s.back[1]
  BY <1>0
<1>4. /\ m[1] = 1 /\ 1 \in 1..k /\ s.back[1].of = q[1]
      /\ Ends(s.back[1]) \/ s.back[1].of \in Batches
  BY <1>2, <1>3 DEF Answering
<1>5. Len(q) \in Nat /\ Len(q) > 0
  BY <1>4
<1> QED
  BY <1>3, <1>4, <1>5

(* The first of several frames is read ... *)
LEMMA AlignedPart ==
    ASSUME NEW q \in Seq(Requests), NEW h \in 0..Len(q), NEW s \in SockFields,
           Aligned(q, h, s), s.back # <<>>, ~Ends(Head(s.back))
    PROVE  Aligned(q, h, [s EXCEPT !.back = Tail(s.back)])
<1> DEFINE b == s.back
           g == Tail(s.back)
           t == [s EXCEPT !.back = g]
<1>0. b \in Seq(Frames) /\ t.back = g /\ t.recv = s.recv /\ t.up = s.up
  BY DEF SockFields
<1>1. PICK k \in 0..h : /\ \E m : Answering(q, k, m, s.back)
                        /\ s.up => Unanswered(q, h, k, s.recv)
  BY DEF Aligned
<1>2. PICK m : Answering(q, k, m, b)
  BY <1>1
<1>3. /\ Len(b) \in Nat \ {0} /\ Len(g) = Len(b) - 1 /\ Head(b) = b[1]
      /\ \A j \in 1..Len(g) : g[j] = b[j + 1]
  BY <1>0
<1> DEFINE n == [j \in 1..Len(g) |-> m[j + 1]]
<1> HIDE DEF b, g, t
<1>4. Len(b) > 1
  BY <1>2, <1>3 DEF Answering, b
<1>5. Len(g) \in Nat /\ Len(g) > 0 /\ g # <<>>
  BY <1>3, <1>4
<1>6. ASSUME NEW j \in 1..Len(g)
      PROVE  j \in Nat /\ j + 1 \in 1..Len(b) /\ g[j] = b[j + 1] /\ n[j] = m[j + 1]
  BY <1>3, <1>5
<1>7. b # <<>>
  BY DEF b
<1>8. Answering(q, k, n, g)
  <2>1. n \in [1..Len(g) -> Nat]
    BY <1>2, <1>6 DEF Answering
  <2>2. n[1] = 1
    <3>1. 1 \in 1..Len(g) /\ 1 \in 1..Len(b) /\ 1 + 1 = 2 /\ 2 \in 1..Len(b)
      BY <1>3, <1>4, <1>5
    <3>2. ~Ends(b[1]) /\ m[1] = 1
      BY <1>2, <1>3, <1>7 DEF Answering, b
    <3> QED
      BY <3>1, <3>2, <1>2, <1>6 DEF Answering
  <2>3. n[Len(g)] = k /\ Ends(g[Len(g)])
    <3>1. Len(g) \in 1..Len(g) /\ Len(g) + 1 = Len(b)
      BY <1>3, <1>5
    <3> QED
      BY <3>1, <1>2, <1>6, <1>7 DEF Answering
  <2>4. ASSUME NEW j \in 1..Len(g)
        PROVE  /\ n[j] \in 1..k /\ g[j].of = q[n[j]]
               /\ Ends(g[j]) \/ g[j].of \in Batches
    BY <1>2, <1>6 DEF Answering
  <2>5. ASSUME NEW i \in 1..Len(g), NEW j \in 1..Len(g), j = i + 1
        PROVE  n[j] = IF Ends(g[i]) THEN n[i] + 1 ELSE n[i]
    BY <2>5, <1>2, <1>6 DEF Answering
  <2>6. ASSUME NEW i \in 1..Len(g), NEW j \in 1..Len(g), i < j
        PROVE  n[i] <= n[j] /\ (Ends(g[i]) => n[i] < n[j])
    <3>1. i + 1 < j + 1
      BY <2>6, <1>6
    <3> QED
      BY <3>1, <1>2, <1>6 DEF Answering
  <2> QED
    BY <2>1, <2>2, <2>3, <2>4, <2>5, <2>6, <1>5 DEF Answering
<1>9. Aligned(q, h, t)
  BY <1>0, <1>1, <1>8 DEF Aligned
<1> QED
  BY <1>9 DEF t, g

(* ... or the last one, and the request leaves the queue. *)
LEMMA AlignedLast ==
    ASSUME NEW q \in Seq(Requests), NEW h \in 0..Len(q), NEW s \in SockFields,
           Aligned(q, h, s), s.back # <<>>, Ends(Head(s.back))
    PROVE  Aligned(Tail(q), h - 1, [s EXCEPT !.back = Tail(s.back)])
<1> DEFINE b == s.back
           g == Tail(s.back)
           t == [s EXCEPT !.back = g]
           p == Tail(q)
<1>0. /\ b \in Seq(Frames) /\ t.back = g /\ t.recv = s.recv /\ t.up = s.up
      /\ s.recv \in Seq(Requests)
  BY DEF SockFields
<1>1. PICK k \in 0..h : /\ \E m : Answering(q, k, m, s.back)
                        /\ s.up => Unanswered(q, h, k, s.recv)
  BY DEF Aligned
<1>2. PICK m : Answering(q, k, m, b)
  BY <1>1
<1>3. /\ Len(b) \in Nat \ {0} /\ Len(g) = Len(b) - 1 /\ Head(b) = b[1]
      /\ \A j \in 1..Len(g) : g[j] = b[j + 1]
  BY <1>0
<1>4. q # <<>> /\ h > 0
  BY AlignedHead
<1>5. /\ Len(q) \in Nat \ {0} /\ Len(p) = Len(q) - 1
      /\ \A i \in 1..Len(p) : p[i] = q[i + 1]
  BY <1>4
<1> DEFINE n == [j \in 1..Len(g) |-> m[j + 1] - 1]
<1>7. b # <<>>
  OBVIOUS
<1>8. g = <<>> <=> Len(g) = 0
  <2>1. g \in Seq(Frames)
    BY <1>0, <1>7
  <2> HIDE DEF g
  <2> QED
    BY <2>1
<1> HIDE DEF b, g, t, p
<1>9. Ends(b[1]) /\ m[1] = 1 /\ m[Len(b)] = k /\ k \in Nat /\ k >= 1
  BY <1>2, <1>3, <1>7 DEF Answering, b
<1>10. ASSUME NEW j \in 1..Len(g)
       PROVE  /\ j \in Nat /\ j + 1 \in 1..Len(b) /\ g[j] = b[j + 1]
              /\ m[j + 1] \in Nat /\ n[j] = m[j + 1] - 1
  BY <1>2, <1>3 DEF Answering
(* Behind the first frame the positions are beyond the first. *)
<1>11. ASSUME NEW j \in 1..Len(g) PROVE m[j + 1] >= 2
  <2>1. 1 \in 1..Len(b) /\ 1 < j + 1
    BY <1>3, <1>10
  <2>2. m[1] < m[j + 1]
    BY <2>1, <1>2, <1>9, <1>10 DEF Answering
  <2> QED
    BY <2>2, <1>9, <1>10
<1>12. Answering(p, k - 1, n, g)
  <2>1. n \in [1..Len(g) -> Nat]
    BY <1>10, <1>11
  <2>2. g = <<>> => k - 1 = 0
    <3>1. ASSUME g = <<>> PROVE Len(b) = 1
      BY <3>1, <1>3, <1>8
    <3> QED
      BY <3>1, <1>9
  <2>3. g # <<>> => n[1] = 1
    <3> SUFFICES ASSUME g # <<>> PROVE n[1] = 1
      OBVIOUS
    <3>1. 1 \in 1..Len(g) /\ 1 \in 1..Len(b) /\ 2 \in 1..Len(b) /\ 2 = 1 + 1
      BY <1>3, <1>8
    <3>2. m[2] = 2
      BY <3>1, <1>2, <1>9 DEF Answering
    <3> QED
      BY <3>1, <3>2, <1>10
  <2>4. g # <<>> => n[Len(g)] = k - 1 /\ Ends(g[Len(g)])
    <3> SUFFICES ASSUME g # <<>> PROVE n[Len(g)] = k - 1 /\ Ends(g[Len(g)])
      OBVIOUS
    <3>1. Len(g) \in 1..Len(g) /\ Len(g) + 1 = Len(b)
      BY <1>3, <1>8
    <3> QED
      BY <3>1, <1>2, <1>7, <1>10 DEF Answering
  <2>5. ASSUME NEW j \in 1..Len(g)
        PROVE  /\ n[j] \in 1..(k - 1) /\ g[j].of = p[n[j]]
               /\ Ends(g[j]) \/ g[j].of \in Batches
    <3>1. /\ m[j + 1] \in 1..k /\ b[j + 1].of = q[m[j + 1]]
          /\ Ends(b[j + 1]) \/ b[j + 1].of \in Batches
      BY <1>2, <1>10 DEF Answering
    <3>2. n[j] \in 1..(k - 1) /\ n[j] + 1 = m[j + 1]
      <4>1. PICK x \in Nat : x = m[j + 1]
        BY <1>10
      <4>2. n[j] = x - 1 /\ x \in 1..k /\ x >= 2
        BY <4>1, <3>1, <1>10, <1>11
      <4> QED
        BY <4>1, <4>2, <1>9
    <3>3. n[j] \in 1..Len(p)
      BY <3>2, <1>5, <1>9
    <3>4. p[n[j]] = q[m[j + 1]]
      BY <3>2, <3>3, <1>5
    <3> QED
      BY <3>1, <3>2, <3>4, <1>10
  <2>6. ASSUME NEW i \in 1..Len(g), NEW j \in 1..Len(g), j = i + 1
        PROVE  n[j] = IF Ends(g[i]) THEN n[i] + 1 ELSE n[i]
    <3>1. m[j + 1] = IF Ends(b[i + 1]) THEN m[i + 1] + 1 ELSE m[i + 1]
      BY <2>6, <1>2, <1>10 DEF Answering
    <3> QED
      BY <3>1, <1>10
  <2>7. ASSUME NEW i \in 1..Len(g), NEW j \in 1..Len(g), i < j
        PROVE  n[i] <= n[j] /\ (Ends(g[i]) => n[i] < n[j])
    <3>1. i + 1 < j + 1
      BY <2>7, <1>10
    <3>2. m[i + 1] <= m[j + 1] /\ (Ends(b[i + 1]) => m[i + 1] < m[j + 1])
      BY <3>1, <1>2, <1>10 DEF Answering
    <3> QED
      BY <3>2, <1>10
  <2> QED
    BY <2>1, <2>2, <2>3, <2>4, <2>5, <2>6, <2>7 DEF Answering
<1>13. ASSUME s.up PROVE Unanswered(p, h - 1, k - 1, s.recv)
  <2>1. Len(s.recv) = h - k /\ \A i \in 1..Len(s.recv) : s.recv[i] = q[k + i]
    BY <1>1, <1>13 DEF Unanswered
  <2>2. Len(s.recv) = (h - 1) - (k - 1)
    BY <2>1
  <2>3. ASSUME NEW i \in 1..Len(s.recv) PROVE s.recv[i] = p[(k - 1) + i]
    <3>1. (k - 1) + i \in 1..Len(p) /\ ((k - 1) + i) + 1 = k + i
      BY <2>1, <1>5, <1>9
    <3> QED
      BY <3>1, <2>1, <1>5
  <2> QED
    BY <2>2, <2>3 DEF Unanswered
<1>14. k - 1 \in 0..(h - 1)
  BY <1>9
<1>15. Aligned(p, h - 1, t)
  BY <1>0, <1>12, <1>13, <1>14 DEF Aligned
<1> QED
  BY <1>15 DEF t, g, p

-----------------------------------------------------------------------------
(* The invariant of a connection: its fields m, in-flight list q, writer w *)
(* and socket s, and the request states st.                                *)

(* Requests of the batch that flush has not handed to the socket yet: they *)
(* are the end of the in-flight list.                                      *)
Unwritten(w) == Len(w.batch) - w.n

Handed(q, w) == IF w.pc = "flush" THEN Len(q) - Unwritten(w) ELSE Len(q)

Flushing(q, w) ==
    /\ Unwritten(w) \in 0..Len(q)
    /\ \A i \in 1..Unwritten(w) : q[Handed(q, w) + i] = w.batch[w.n + i]

Streaming(q, w, s) ==
    /\ w.pc = "flush" => Flushing(q, w)
    /\ Aligned(q, Handed(q, w), s)

(* A request behind settled ones only. *)
Behind(r, q, st) ==
    \E i \in 1..Len(q) : q[i] = r /\ \A j \in 1..(i - 1) : st[q[j]] = "done"

(* The read deadline is that of such a request, unless a failed flush is   *)
(* about to take the connection down.                                      *)
Armed(x, q, w, st) == x # None /\ w.err = "nil" => Behind(x, q, st)

Lives(m, q, w, s, st) ==
    /\ m.dial \in {"dialing", "up"} /\ m.cause = "nil"
    /\ m.dial = "dialing" => q = <<>>
    /\ m.dial = "up" => Streaming(q, w, s)
    /\ Armed(m.rd, q, w, st)

Sound(m, q, w, s, st) ==
    /\ m.closed => q = <<>>
    /\ m.closed \/ m.dial # "up" => s = DeadSock
    /\ ~m.closed => Lives(m, q, w, s, st)
    /\ m.dial = "dialing" => w.pc = "off"
    /\ w.pc \in {"off", "idle", "claim", "flush"} => w.err = "nil"
    /\ w.pc \in {"tail", "requeue"} => m.closed

SoundAt(c) == Sound(mux[c], inflight[c], writer[c], sock[c], state)

AllSound == \A c \in Conns : SoundAt(c)

(* A settled request stays settled. *)
DoneStays == \A r \in Requests : state[r] = "done" => state'[r] = "done"

(* Extract lists the elements at the positions I, in their order. *)
LEMMA ExtractElems ==
    ASSUME NEW q \in Seq(Requests), NEW I \in SUBSET (1..Len(q)), NEW f \in Enumerations(I)
    PROVE  /\ Extract(q, f) \in Seq(Requests) /\ Len(Extract(q, f)) = Cardinality(I)
           /\ Elems(Extract(q, f)) \subseteq {q[i] : i \in I}
<1> DEFINE n == Cardinality(I)
<1>1. Len(q) \in Nat /\ IsFiniteSet(1..Len(q))
  BY LenProperties, FS_Interval
<1>2. n \in Nat
  BY <1>1, FS_Subset, FS_CardinalityType
<1>3. f \in [1..n -> I]
  BY DEF Enumerations
<1> HIDE DEF n
<1>4. Extract(q, f) = [i \in 1..n |-> q[f[i]]]
  BY <1>3 DEF Extract
<1>5. Extract(q, f) \in Seq(Requests)
  BY ExtractType
<1>6. DOMAIN Extract(q, f) = 1..n
  BY <1>4
<1>7. Len(Extract(q, f)) = n
  BY <1>2, <1>5, <1>6
<1>8. \A i \in 1..n : Extract(q, f)[i] \in {q[k] : k \in I}
  BY <1>3, <1>4
<1> QED
  BY <1>5, <1>7, <1>8 DEF Elems, n

LEMMA SettledForGood == TypeOK /\ [Next]_vars => DoneStays
<1> SUFFICES ASSUME TypeOK, [Next]_vars, NEW q \in Requests, state[q] = "done"
             PROVE  state'[q] = "done"
  BY DEF DoneStays
<1>1. ASSUME NEW r \in Requests, Exchange(r) PROVE state'[q] = "done"
  BY <1>1 DEF Exchange, TypeOK
<1>2. ASSUME NEW r \in Requests, ExchangeRefused(r) PROVE state'[q] = "done"
  BY <1>2 DEF ExchangeRefused, TypeOK
<1>3. ASSUME NEW r \in Requests, GiveUpQueued(r) \/ GiveUpWriting(r) PROVE state'[q] = "done"
  BY <1>3 DEF GiveUpQueued, GiveUpWriting, TypeOK
<1>4. ASSUME NEW r \in Requests,
             \/ Cancel(r) \/ Deadline(r) \/ MissQueued(r) \/ MissWriting(r)
             \/ Expire(r) \/ Orphan(r)
      PROVE  state'[q] = "done"
  BY <1>4 DEF Cancel, Deadline, MissQueued, MissWriting, Expire, Orphan
<1>5. ASSUME NEW R, complete(R) PROVE state'[q] = "done"
  BY <1>5 DEF complete, Open
<1>6. ASSUME NEW c \in Conns, Claim(c) PROVE state'[q] = "done"
  <2> DEFINE p == pending[c]
             I == {i \in 1..Len(p) : Claimable(p[i])}
  <2>1. PICK f \in Enumerations(I) :
          state' = [r \in Requests |-> IF r \in Elems(Extract(p, f)) THEN "writing" ELSE state[r]]
    BY <1>6 DEF Claim
  <2>2. q \notin Elems(Extract(p, f))
    <3> SUFFICES ASSUME q \in Elems(Extract(p, f)) PROVE FALSE
      OBVIOUS
    <3>1. f \in [1..Cardinality(I) -> I]
      BY DEF Enumerations
    <3>2. p \in Seq(Requests)
      BY DEF TypeOK
    <3>3. q \in {p[i] : i \in I}
      <4>1. I \in SUBSET (1..Len(p))
        OBVIOUS
      <4> HIDE DEF I, p
      <4> QED
        BY <3>2, <4>1, ExtractElems
    <3> QED
      BY <3>3 DEF Claimable
  <2> QED
    BY <2>1, <2>2
<1>7. ASSUME NEW c \in Conns, SettleBatch(c) PROVE state'[q] = "done"
  BY <1>7 DEF SettleBatch, Requeued
<1>8. ASSUME NEW c \in Conns, WriterStep(c) PROVE state'[q] = "done"
  BY <1>6, <1>7, <1>8 DEF WriterStep, WriterRuns, DialOK, DialFail, WriterWake, WriterExit,
     Write, FlushDone, FlushFail, WriterFail, WriterRequeue, reqVars
<1>9. ASSUME NEW c \in Conns, ReaderStep(c) PROVE state'[q] = "done"
  BY <1>5, <1>9 DEF ReaderStep, ReadPart, ReadLast, Deliver, ReadFail, ReaderExit, reqVars
<1>10. ASSUME NEW c \in Conns,
              TearStep(c) \/ Answer(c) \/ AnswerError(c) \/ Break(c) \/ Drain(c)
       PROVE  state'[q] = "done"
  BY <1>5, <1>10 DEF TearStep, TearSettle, TearDetach, Answer, AnswerError, Break, Drain, reqVars
<1>11. CASE PoolStep \/ CancelRoot \/ PoolClose \/ Finished \/ UNCHANGED vars
  BY <1>5, <1>11 DEF PoolStep, PoolAdd, PoolSignal, DetachSkip, DetachPick, DetachFail,
     CancelRoot, PoolClose, Finished, vars, reqVars
<1> QED
  BY <1>1, <1>2, <1>3, <1>4, <1>8, <1>9, <1>10, <1>11 DEF Next, CallerStep, CloseStep

-----------------------------------------------------------------------------
(* What keeps a connection sound *)

LEMMA ArmBehind ==
    ASSUME NEW q \in Seq(Requests), NEW st, armReadDeadline(q, st) # None
    PROVE  Behind(armReadDeadline(q, st), q, st)
<1> DEFINE x == armReadDeadline(q, st)
<1>1. x \in OldestLive(q, st)
  BY DEF armReadDeadline
<1>2. PICK k \in 1..Len(q) : x = q[k] /\ \A j \in 1..(k - 1) : st[q[j]] = "done"
  BY <1>1 DEF OldestLive
<1> QED
  BY <1>2 DEF Behind

LEMMA BehindLater ==
    ASSUME NEW q \in Seq(Requests), NEW st, NEW st2,
           \A r \in Requests : st[r] = "done" => st2[r] = "done",
           NEW x, Behind(x, q, st)
    PROVE  Behind(x, q, st2)
<1>1. PICK i \in 1..Len(q) : q[i] = x /\ \A j \in 1..(i - 1) : st[q[j]] = "done"
  BY DEF Behind
<1>2. ASSUME NEW j \in 1..(i - 1) PROVE st2[q[j]] = "done"
  <2>1. j \in 1..Len(q)
    OBVIOUS
  <2>2. q[j] \in Requests /\ st[q[j]] = "done"
    BY <1>1, <2>1
  <2> QED
    BY <2>2
<1> QED
  BY <1>1, <1>2 DEF Behind

LEMMA SoundLater ==
    ASSUME NEW m, NEW q \in Seq(Requests), NEW w, NEW s, NEW st, NEW st2,
           \A r \in Requests : st[r] = "done" => st2[r] = "done",
           Sound(m, q, w, s, st)
    PROVE  Sound(m, q, w, s, st2)
<1>1. Armed(m.rd, q, w, st) => Armed(m.rd, q, w, st2)
  BY BehindLater DEF Armed
<1> QED
  BY <1>1 DEF Sound, Lives

(* Fields of the connection that do not matter here: wake, served, ... *)
LEMMA SoundFields ==
    ASSUME NEW m, NEW m2, NEW q, NEW w, NEW s, NEW st, Sound(m, q, w, s, st),
           m2.closed = m.closed, m2.dial = m.dial, m2.cause = m.cause, m2.rd = m.rd
    PROVE  Sound(m2, q, w, s, st)
BY DEF Sound, Lives

LEMMA SoundArm ==
    ASSUME NEW m, NEW m2, NEW q \in Seq(Requests), NEW w, NEW s, NEW st, Sound(m, q, w, s, st),
           m2.closed = m.closed, m2.dial = m.dial, m2.cause = m.cause,
           m.closed \/ m2.rd = armReadDeadline(q, st)
    PROVE  Sound(m2, q, w, s, st)
<1>1. ~m.closed => Armed(m2.rd, q, w, st)
  BY ArmBehind DEF Armed
<1> QED
  BY <1>1 DEF Sound, Lives

LEMMA SoundClosed ==
    ASSUME NEW m, NEW w, NEW st, m.closed, m.dial = "dialing" => w.pc = "off",
           w.pc \in {"off", "idle", "claim", "flush"} => w.err = "nil"
    PROVE  Sound(m, <<>>, w, DeadSock, st)
BY DEF Sound

(* The writer moves and leaves queue and socket alone. *)
LEMMA SoundWriter ==
    ASSUME NEW m, NEW q, NEW w, NEW w2, NEW s, NEW st, Sound(m, q, w, s, st),
           m.dial # "dialing",
           w2.pc \in {"off", "idle", "claim", "flush"} => w2.err = "nil",
           w2.pc \in {"tail", "requeue"} => m.closed,
           \/ m.closed
           \/ /\ Handed(q, w2) = Handed(q, w) /\ w2.pc # "flush"
              /\ w2.err = "nil" => w.err = "nil"
    PROVE  Sound(m, q, w2, s, st)
BY DEF Sound, Lives, Streaming, Armed

(* writeLoop claims the batch b. *)
LEMMA SoundClaim ==
    ASSUME NEW m, NEW m2, NEW q \in Seq(Requests), NEW w, NEW w2, NEW s \in SockFields,
           NEW st, NEW st2, \A r \in Requests : st[r] = "done" => st2[r] = "done",
           Sound(m, q, w, s, st), ~m.closed, w.pc = "claim",
           NEW b \in Seq(Requests), b # <<>>,
           w2.pc = "flush", w2.batch = b, w2.n = 0, w2.err = "nil",
           m2.closed = m.closed, m2.dial = m.dial, m2.cause = m.cause,
           m2.rd = IF q = <<>> THEN armReadDeadline(b, st2) ELSE m.rd
    PROVE  Sound(m2, q \o b, w2, s, st2)
<1> DEFINE p == q \o b
<1>1. m.dial = "up" /\ w.err = "nil" /\ Aligned(q, Len(q), s) /\ Armed(m.rd, q, w, st)
  BY DEF Sound, Lives, Streaming, Handed
<1>2. /\ p \in Seq(Requests) /\ Len(q) \in Nat /\ Len(b) \in Nat /\ Len(p) = Len(q) + Len(b)
      /\ \A i \in 1..Len(q) : p[i] = q[i]
      /\ \A i \in 1..Len(b) : p[Len(q) + i] = b[i]
  OBVIOUS
<1> HIDE DEF p
<1>3. Unwritten(w2) = Len(b) /\ Handed(p, w2) = Len(q)
  BY <1>2 DEF Unwritten, Handed
<1>4. Flushing(p, w2)
  <2>1. ASSUME NEW i \in 1..Len(b) PROVE p[Len(q) + i] = w2.batch[w2.n + i]
    <3>1. w2.n + i = i
      BY <1>2
    <3> QED
      BY <1>2, <3>1
  <2> QED
    BY <1>2, <1>3, <2>1 DEF Flushing
<1>5. Aligned(p, Len(q), s)
  BY <1>1, <1>2, AlignedPrefix, SockParts
<1>6. Armed(m2.rd, p, w2, st2)
  <2>1. CASE q = <<>>
    <3>1. p = b
      BY <2>1 DEF p
    <3> QED
      BY <2>1, <3>1, ArmBehind DEF Armed
  <2>2. CASE q # <<>> /\ m.rd # None
    <3>1. Behind(m.rd, q, st2)
      BY <1>1, <2>2, BehindLater DEF Armed
    <3>2. PICK i \in 1..Len(q) : q[i] = m.rd /\ \A j \in 1..(i - 1) : st2[q[j]] = "done"
      BY <3>1 DEF Behind
    <3>3. i \in 1..Len(p) /\ p[i] = m.rd
      BY <1>2, <3>2
    <3>4. ASSUME NEW j \in 1..(i - 1) PROVE st2[p[j]] = "done"
      <4>1. j \in 1..Len(q)
        BY <1>2
      <4> QED
        BY <1>2, <3>2, <4>1
    <3> QED
      BY <2>2, <3>3, <3>4 DEF Armed, Behind
  <2> QED
    BY <2>1, <2>2 DEF Armed
<1>7. Sound(m2, p, w2, s, st2)
  BY <1>1, <1>3, <1>4, <1>5, <1>6 DEF Sound, Lives, Streaming
<1> QED
  BY <1>7 DEF p

(* flush hands the next payload over. *)
LEMMA SoundWrite ==
    ASSUME NEW m, NEW q \in Seq(Requests), NEW w \in WriterFields, NEW w2, NEW s \in SockFields,
           NEW st, Sound(m, q, w, s, st), ~m.closed, w.pc = "flush", w.n < Len(w.batch),
           w2.pc = w.pc, w2.batch = w.batch, w2.n = w.n + 1, w2.err = w.err
    PROVE  Sound(m, q, w2, IF s.up THEN [s EXCEPT !.recv = Append(s.recv, w.batch[w.n + 1])]
                           ELSE s, st)
<1> DEFINE x == w.batch[w.n + 1]
           h == Handed(q, w)
           s2 == IF s.up THEN [s EXCEPT !.recv = Append(s.recv, x)] ELSE s
<1>1. m.dial = "up" /\ Flushing(q, w) /\ Aligned(q, h, s) /\ Armed(m.rd, q, w, st)
  BY DEF Sound, Lives, Streaming
<1>2. w.n \in Nat /\ w.batch \in Seq(Requests) /\ Len(w.batch) \in Nat /\ Len(q) \in Nat
  BY WriterParts
<1>3. h = Len(q) - Unwritten(w) /\ Unwritten(w) = Len(w.batch) - w.n
  BY DEF Handed, Unwritten
<1>4. /\ Unwritten(w2) = Unwritten(w) - 1 /\ Handed(q, w2) = h + 1
      /\ Unwritten(w) \in 1..Len(q) /\ h \in Nat /\ x \in Requests
  BY <1>1, <1>2, <1>3 DEF Flushing, Unwritten, Handed
<1>5. \A i \in 1..Unwritten(w) : q[h + i] = w.batch[w.n + i]
  BY <1>1 DEF Flushing
<1>6. x = q[h + 1]
  BY <1>4, <1>5
<1>7. Aligned(q, h + 1, s2)
  BY <1>1, <1>4, <1>6, AlignedWrite
<1>8. Flushing(q, w2)
  <2>1. Unwritten(w2) \in 0..Len(q)
    BY <1>2, <1>4
  <2>2. ASSUME NEW i \in 1..Unwritten(w2) PROVE q[(h + 1) + i] = w2.batch[w2.n + i]
    <3>0. PICK u \in Nat : u = Unwritten(w)
      BY <1>4
    <3> HIDE DEF h
    <3>1. i + 1 \in 1..Unwritten(w) /\ (h + 1) + i = h + (i + 1) /\ w2.n + i = w.n + (i + 1)
      <4>1. i \in 1..(u - 1)
        BY <1>4, <3>0
      <4>2. i \in Nat /\ i + 1 \in 1..u
        BY <4>1, <3>0
      <4>3. (h + 1) + i = h + (i + 1)
        BY <1>4, <4>2
      <4>4. w2.n + i = w.n + (i + 1)
        <5>1. (w.n + 1) + i = w.n + (i + 1)
          BY <1>2, <4>2
        <5> QED
          BY <5>1
      <4> QED
        BY <3>0, <4>2, <4>3, <4>4
    <3> QED
      BY <1>5, <3>1
  <2> QED
    BY <1>4, <2>1, <2>2 DEF Flushing
<1> HIDE DEF s2, h, x
<1>9. Sound(m, q, w2, s2, st)
  BY <1>1, <1>4, <1>7, <1>8 DEF Sound, Lives, Streaming, Armed
<1> QED
  BY <1>9 DEF s2, x

(* A failed flush cuts what it has not handed over. *)
LEMMA SoundCut ==
    ASSUME NEW m, NEW q \in Seq(Requests), NEW w \in WriterFields, NEW w2, NEW s \in SockFields,
           NEW st, Sound(m, q, w, s, st), ~m.closed, w.pc = "flush",
           w2.pc = "settle", w2.err # "nil"
    PROVE  Sound(m, CutTail(q, Len(w.batch) - w.n), w2, s, st)
<1> DEFINE h == Handed(q, w)
           p == SubSeq(q, 1, h)
<1>1. m.dial = "up" /\ Flushing(q, w) /\ Aligned(q, h, s)
  BY DEF Sound, Lives, Streaming
<1>2. Len(q) \in Nat /\ h \in 0..Len(q) /\ CutTail(q, Len(w.batch) - w.n) = p
  BY <1>1 DEF Flushing, Handed, Unwritten, CutTail
<1> HIDE DEF h
<1>3. Len(p) = h /\ \A i \in 1..h : p[i] = q[i]
  BY <1>2
<1> HIDE DEF p
<1>4. Aligned(p, h, s)
  BY <1>1, <1>2, <1>3, AlignedPrefix, SockParts
<1>5. Handed(p, w2) = h
  BY <1>3 DEF Handed
<1> QED
  BY <1>1, <1>2, <1>4, <1>5 DEF Sound, Lives, Streaming, Armed

(* readLoop takes one frame of several, ... *)
LEMMA HandedWithin ==
    ASSUME NEW q \in Seq(Requests), NEW w, NEW s, Streaming(q, w, s)
    PROVE  Handed(q, w) \in 0..Len(q)
BY DEF Streaming, Flushing, Handed

LEMMA SoundPart ==
    ASSUME NEW m, NEW q \in Seq(Requests), NEW w \in WriterFields, NEW s \in SockFields,
           NEW st, Sound(m, q, w, s, st), ~m.closed, s.back # <<>>, ~Ends(Head(s.back))
    PROVE  Sound(m, q, w, [s EXCEPT !.back = Tail(s.back)], st)
<1> DEFINE s2 == [s EXCEPT !.back = Tail(s.back)]
<1>1. m.dial = "up" /\ Streaming(q, w, s)
  BY DEF Sound, Lives, DeadSock
<1>2. Aligned(q, Handed(q, w), s2)
  BY <1>1, HandedWithin, AlignedPart DEF Streaming
<1> HIDE DEF s2
<1>3. Sound(m, q, w, s2, st)
  BY <1>1, <1>2 DEF Sound, Lives, Streaming
<1> QED
  BY <1>3 DEF s2

(* ... or the last one, and re-arms the deadline. *)
LEMMA SoundLast ==
    ASSUME NEW m, NEW m2, NEW q \in Seq(Requests), NEW w \in WriterFields, NEW s \in SockFields,
           NEW st, Sound(m, q, w, s, st), ~m.closed, s.back # <<>>, Ends(Head(s.back)),
           ~m2.closed, m2.dial = m.dial, m2.cause = m.cause,
           m2.rd = armReadDeadline(Tail(q), st)
    PROVE  Sound(m2, Tail(q), w, [s EXCEPT !.back = Tail(s.back)], st)
<1> DEFINE s2 == [s EXCEPT !.back = Tail(s.back)]
           p == Tail(q)
           h == Handed(q, w)
<1>1. m.dial = "up" /\ Streaming(q, w, s)
  BY DEF Sound, Lives, DeadSock
<1>2. h \in 0..Len(q)
  BY <1>1, HandedWithin
<1>3. q # <<>> /\ h > 0
  BY <1>1, <1>2, AlignedHead DEF Streaming
<1>4. Aligned(p, h - 1, s2)
  BY <1>1, <1>2, AlignedLast DEF Streaming
<1>5. /\ p \in Seq(Requests) /\ Len(q) \in Nat \ {0} /\ Len(p) = Len(q) - 1
      /\ \A i \in 1..Len(p) : p[i] = q[i + 1]
  BY <1>3
<1> HIDE DEF s2, p
<1>6. Armed(m2.rd, p, w, st)
  BY <1>5, ArmBehind DEF Armed, p
<1>7. w.pc = "flush" => Unwritten(w) \in 0..Len(q) /\ h = Len(q) - Unwritten(w)
  BY <1>1 DEF Streaming, Flushing, Handed
<1>8. Handed(p, w) = h - 1
  <2>1. CASE w.pc = "flush"
    BY <1>5, <1>7, <2>1 DEF Handed
  <2>2. CASE w.pc # "flush"
    BY <1>5, <2>2 DEF Handed
  <2> QED
    BY <2>1, <2>2
<1>9. ASSUME w.pc = "flush" PROVE Flushing(p, w)
  <2>1. Unwritten(w) \in 0..Len(p)
    BY <1>2, <1>3, <1>5, <1>7, <1>9
  <2>2. \A i \in 1..Unwritten(w) : q[h + i] = w.batch[w.n + i]
    BY <1>1, <1>9 DEF Streaming, Flushing
  <2> HIDE DEF h
  <2>3. ASSUME NEW i \in 1..Unwritten(w) PROVE p[(h - 1) + i] = w.batch[w.n + i]
    <3>1. (h - 1) + i \in 1..Len(p) /\ ((h - 1) + i) + 1 = h + i
      BY <1>2, <1>3, <1>5, <1>7, <1>9, <2>1
    <3> QED
      BY <1>5, <2>2, <3>1
  <2> QED
    BY <1>8, <2>1, <2>3 DEF Flushing
<1> HIDE DEF h
<1>10. Sound(m2, p, w, s2, st)
  BY <1>1, <1>4, <1>6, <1>8, <1>9 DEF Sound, Lives, Streaming
<1> QED
  BY <1>10 DEF s2, p

(* The server answers, or the socket breaks. *)
LEMMA SoundStream ==
    ASSUME NEW m, NEW q, NEW w, NEW s, NEW s2, NEW st, Sound(m, q, w, s, st), s.up,
           Streaming(q, w, s) => Aligned(q, Handed(q, w), s2)
    PROVE  Sound(m, q, w, s2, st)
<1>1. s # DeadSock
  BY DEF DeadSock
<1> QED
  BY <1>1 DEF Sound, Lives, Streaming

-----------------------------------------------------------------------------
(* One lemma per action, or per group of actions alike *)

LEMMA FrameFields ==
    ASSUME NEW m \in MuxFields, NEW x, NEW y
    PROVE  /\ [m EXCEPT !.rd = x].closed = m.closed
           /\ [m EXCEPT !.rd = x].dial = m.dial
           /\ [m EXCEPT !.rd = x].cause = m.cause
           /\ [m EXCEPT !.rd = x].rd = x
           /\ [m EXCEPT !.wake = x].closed = m.closed
           /\ [m EXCEPT !.wake = x].dial = m.dial
           /\ [m EXCEPT !.wake = x].cause = m.cause
           /\ [m EXCEPT !.wake = x].rd = m.rd
           /\ [m EXCEPT !.dial = x].closed = m.closed
           /\ [m EXCEPT !.dial = x].dial = x
           /\ [m EXCEPT !.dial = x].cause = m.cause
           /\ [m EXCEPT !.dial = x].rd = m.rd
           /\ [m EXCEPT !.served = TRUE, !.closed = x, !.rd = y].closed = x
           /\ [m EXCEPT !.served = TRUE, !.closed = x, !.rd = y].dial = m.dial
           /\ [m EXCEPT !.served = TRUE, !.closed = x, !.rd = y].cause = m.cause
           /\ [m EXCEPT !.served = TRUE, !.closed = x, !.rd = y].rd = y
           /\ [m EXCEPT !.closed = TRUE, !.cause = x, !.blamed = y, !.wake = TRUE].closed
           /\ [m EXCEPT !.closed = TRUE, !.cause = x, !.blamed = y, !.wake = TRUE].dial
                = m.dial
           /\ [m EXCEPT !.closed = TRUE, !.cause = x, !.blamed = y, !.wake = TRUE].cause = x
           /\ [m EXCEPT !.closed = TRUE, !.wake = TRUE].closed
           /\ [m EXCEPT !.closed = TRUE, !.wake = TRUE].dial = m.dial
           /\ [m EXCEPT !.closed = TRUE, !.wake = TRUE].cause = m.cause
           /\ [m EXCEPT !.dial = "gone", !.closed = TRUE, !.wake = TRUE, !.cause = x].dial
                = "gone"
           /\ [m EXCEPT !.dial = "gone", !.closed = TRUE, !.wake = TRUE, !.cause = x].closed
           /\ [m EXCEPT !.dial = "gone", !.closed = TRUE, !.wake = TRUE, !.cause = x].cause = x
           /\ [m EXCEPT !.closing = TRUE, !.wake = TRUE, !.closed = x].closed = x
           /\ [m EXCEPT !.closing = TRUE, !.wake = TRUE, !.closed = x].dial = m.dial
           /\ [m EXCEPT !.closing = TRUE, !.wake = TRUE, !.closed = x].cause = m.cause
           /\ [m EXCEPT !.closing = TRUE, !.wake = TRUE, !.closed = x].rd = m.rd
BY DEF MuxFields

(* The step leaves the other connections alone. *)
Alone(c) ==
    \A k \in Conns \ {c} : /\ mux'[k] = mux[k] /\ inflight'[k] = inflight[k]
                           /\ writer'[k] = writer[k] /\ sock'[k] = sock[k]

LEMMA SoundElsewhere ==
    ASSUME TypeOK, AllSound, DoneStays, NEW c, Alone(c), c \in Conns => SoundAt(c)'
    PROVE  AllSound'
<1>1. ASSUME NEW k \in Conns \ {c} PROVE SoundAt(k)'
  <2>1. Sound(mux[k], inflight[k], writer[k], sock[k], state)
    BY DEF AllSound, SoundAt
  <2>2. inflight[k] \in Seq(Requests)
    BY DEF TypeOK
  <2>3. Sound(mux[k], inflight[k], writer[k], sock[k], state')
    BY <2>1, <2>2, SoundLater DEF DoneStays
  <2> QED
    BY <2>3 DEF Alone, SoundAt
<1> QED
  BY <1>1 DEF AllSound

LEMMA SoundIdle ==
    ASSUME TypeOK, AllSound, DoneStays,
           \A k \in Conns : /\ mux'[k] = mux[k] /\ inflight'[k] = inflight[k]
                            /\ writer'[k] = writer[k] /\ sock'[k] = sock[k]
    PROVE  AllSound'
<1>1. ASSUME NEW k \in Conns PROVE SoundAt(k)'
  <2>1. Sound(mux[k], inflight[k], writer[k], sock[k], state)
    BY DEF AllSound, SoundAt
  <2>2. inflight[k] \in Seq(Requests)
    BY DEF TypeOK
  <2>3. Sound(mux[k], inflight[k], writer[k], sock[k], state')
    BY <2>1, <2>2, SoundLater DEF DoneStays
  <2> QED
    BY <2>3 DEF SoundAt
<1> QED
  BY <1>1 DEF AllSound

LEMMA SoundIdleSteps ==
    ASSUME TypeOK, AllSound, DoneStays,
           \/ \E r \in Requests : ExchangeRefused(r) \/ Cancel(r) \/ Deadline(r)
                                  \/ GiveUpQueued(r) \/ GiveUpWriting(r)
                                  \/ MissQueued(r) \/ MissWriting(r)
           \/ \E c \in Conns : ReaderExit(c) \/ TearSettle(c) \/ TearDetach(c)
           \/ PoolAdd \/ DetachSkip \/ DetachFail \/ CancelRoot \/ PoolClose \/ Finished
           \/ UNCHANGED vars
    PROVE  AllSound'
<1>1. UNCHANGED <<mux, inflight, writer, sock>>
  BY DEF ExchangeRefused, Cancel, Deadline, GiveUpQueued, GiveUpWriting, MissQueued,
         MissWriting, ReaderExit, TearSettle, TearDetach, PoolAdd, DetachSkip, DetachFail,
         CancelRoot, PoolClose, Finished, vars, connVars
<1> QED
  BY <1>1, SoundIdle

(* A connection torn down: its writer may fail at the same time. *)
LEMMA SoundTeardown ==
    ASSUME TypeOK, AllSound, NEW c \in Conns, NEW cause, NEW saw,
           teardownLocked(c, cause, saw), ~mux[c].closed, NEW w,
           mux[c].dial = "dialing" => w.pc = "off",
           w.pc \in {"off", "idle", "claim", "flush"} => w.err = "nil"
    PROVE  Sound(mux'[c], inflight'[c], w, sock'[c], state')
<1> DEFINE m == [mux[c] EXCEPT !.closed = TRUE, !.cause = cause,
                               !.blamed = BlamedOf(c, saw), !.wake = TRUE]
<1>1. m.closed /\ m.dial = mux[c].dial
  BY FrameFields DEF TypeOK
<1>2. mux'[c] = m /\ inflight'[c] = <<>> /\ sock'[c] = DeadSock
  BY DEF teardownLocked, TypeOK
<1> HIDE DEF m
<1> QED
  BY <1>1, <1>2, SoundClosed

LEMMA TeardownAlone ==
    ASSUME TypeOK, NEW c, NEW cause, NEW saw, teardownLocked(c, cause, saw),
           \A k \in Conns \ {c} : writer'[k] = writer[k]
    PROVE  Alone(c)
BY DEF teardownLocked, TypeOK, Alone

LEMMA SoundExpire ==
    ASSUME TypeOK, AllSound, DoneStays, NEW r \in Requests, Expire(r)
    PROVE  AllSound'
<1> DEFINE c == rconn[r]
           m == [mux[c] EXCEPT !.rd = armReadDeadline(inflight[c], state)]
<1>1. /\ writer' = writer /\ state' = state
      /\ \/ teardownLocked(c, "deadline", TRUE) /\ ~mux[c].closed
         \/ mux' = [mux EXCEPT ![c] = m] /\ UNCHANGED <<inflight, sock>>
  BY DEF Expire
<1>2. Alone(c)
  <2>1. CASE teardownLocked(c, "deadline", TRUE)
    BY <1>1, <2>1, TeardownAlone
  <2>2. CASE mux' = [mux EXCEPT ![c] = m] /\ UNCHANGED <<inflight, sock>>
    BY <1>1, <2>2 DEF TypeOK, Alone
  <2> QED
    BY <1>1, <2>1, <2>2
<1>3. ASSUME c \in Conns PROVE SoundAt(c)'
  <2>1. Sound(mux[c], inflight[c], writer[c], sock[c], state)
    BY <1>3 DEF AllSound, SoundAt
  <2>2. CASE teardownLocked(c, "deadline", TRUE) /\ ~mux[c].closed
    <3>1. Sound(mux'[c], inflight'[c], writer[c], sock'[c], state')
      BY <1>3, <2>1, <2>2, SoundTeardown DEF Sound
    <3> QED
      BY <1>1, <3>1 DEF SoundAt, Expire
  <2>3. CASE mux' = [mux EXCEPT ![c] = m] /\ UNCHANGED <<inflight, sock>>
    <3>1. /\ m.closed = mux[c].closed /\ m.dial = mux[c].dial /\ m.cause = mux[c].cause
          /\ m.rd = armReadDeadline(inflight[c], state)
      BY <1>3, FrameFields DEF TypeOK
    <3>2. mux'[c] = m /\ inflight[c] \in Seq(Requests)
      BY <1>3, <2>3 DEF TypeOK
    <3> HIDE DEF m
    <3>3. Sound(m, inflight[c], writer[c], sock[c], state)
      BY <2>1, <3>1, <3>2, SoundArm
    <3> QED
      BY <1>1, <2>3, <3>2, <3>3 DEF SoundAt, Expire
  <2> QED
    BY <1>1, <2>2, <2>3
<1>4. rconn' = rconn
  BY DEF Expire
<1> QED
  BY <1>2, <1>3, <1>4, SoundElsewhere

LEMMA SoundOrphan ==
    ASSUME TypeOK, AllSound, DoneStays, NEW r \in Requests, Orphan(r)
    PROVE  AllSound'
<1> DEFINE c == rconn[r]
           x == IF mux[c].closed THEN mux[c].rd ELSE armReadDeadline(inflight[c], state)
           m == [mux[c] EXCEPT !.rd = x]
<1>1. mux' = [mux EXCEPT ![c] = m] /\ UNCHANGED <<inflight, writer, sock, state, rconn>>
  BY DEF Orphan
<1>2. Alone(c)
  BY <1>1 DEF TypeOK, Alone
<1>3. ASSUME c \in Conns PROVE SoundAt(c)'
  <2>1. Sound(mux[c], inflight[c], writer[c], sock[c], state)
    BY <1>3 DEF AllSound, SoundAt
  <2>2. m.closed = mux[c].closed /\ m.dial = mux[c].dial /\ m.cause = mux[c].cause /\ m.rd = x
    BY <1>3, FrameFields DEF TypeOK
  <2>3. mux'[c] = m /\ inflight[c] \in Seq(Requests)
    BY <1>1, <1>3 DEF TypeOK
  <2> HIDE DEF m
  <2>4. Sound(m, inflight[c], writer[c], sock[c], state)
    BY <2>1, <2>2, <2>3, SoundArm
  <2> QED
    BY <1>1, <2>3, <2>4 DEF SoundAt
<1> QED
  BY <1>1, <1>2, <1>3, SoundElsewhere

LEMMA SoundDialOK ==
    ASSUME TypeOK, AllSound, DoneStays, NEW c \in Conns, DialOK(c)
    PROVE  AllSound'
<1>0. Sound(mux[c], inflight[c], writer[c], sock[c], state)
  BY DEF AllSound, SoundAt
<1>1. mux[c].dial = "dialing" /\ UNCHANGED <<inflight, state>>
  BY DEF DialOK, reqVars
<1>2. CASE mux[c].closed
  <2> DEFINE m == [mux[c] EXCEPT !.dial = "gone"]
  <2>1. m.closed /\ m.dial = "gone"
    BY <1>2, FrameFields DEF TypeOK
  <2>2. mux' = [mux EXCEPT ![c] = m] /\ UNCHANGED <<writer, sock>>
    BY <1>2 DEF DialOK
  <2>3. mux'[c] = m /\ Alone(c)
    BY <1>1, <2>2 DEF TypeOK, Alone
  <2> HIDE DEF m
  <2>4. SoundAt(c)'
    BY <1>0, <1>1, <1>2, <2>1, <2>2, <2>3 DEF SoundAt, Sound
  <2> QED
    BY <2>3, <2>4, SoundElsewhere
<1>3. CASE ~mux[c].closed
  <2> DEFINE m == [mux[c] EXCEPT !.dial = "up"]
             w == [NoWriter EXCEPT !.pc = "idle"]
  <2>1. ~m.closed /\ m.dial = "up" /\ m.cause = mux[c].cause /\ m.rd = mux[c].rd
    BY <1>3, FrameFields DEF TypeOK
  <2>2. w.pc = "idle" /\ w.err = "nil"
    BY DEF NoWriter
  <2>3. /\ mux' = [mux EXCEPT ![c] = m] /\ writer' = [writer EXCEPT ![c] = w]
        /\ sock' = [sock EXCEPT ![c] = OpenSock]
    BY <1>3 DEF DialOK
  <2> HIDE DEF m, w
  <2>4. mux'[c] = m /\ writer'[c] = w /\ sock'[c] = OpenSock /\ Alone(c)
    BY <1>1, <2>3 DEF TypeOK, Alone
  <2>5. inflight[c] = <<>> /\ mux[c].cause = "nil" /\ writer[c].err = "nil"
        /\ Armed(mux[c].rd, <<>>, writer[c], state)
    BY <1>0, <1>1, <1>3 DEF Sound, Lives
  <2>6. Streaming(<<>>, w, OpenSock)
    BY <2>2, AlignedNew DEF Streaming, Handed
  <2>7. SoundAt(c)'
    BY <1>1, <2>1, <2>2, <2>4, <2>5, <2>6 DEF SoundAt, Sound, Lives, Armed
  <2> QED
    BY <2>4, <2>7, SoundElsewhere
<1> QED
  BY <1>2, <1>3

LEMMA SoundDialFail ==
    ASSUME TypeOK, AllSound, DoneStays, NEW c \in Conns, DialFail(c)
    PROVE  AllSound'
<1>0. Sound(mux[c], inflight[c], writer[c], sock[c], state)
  BY DEF AllSound, SoundAt
<1>1. mux[c].dial = "dialing" /\ UNCHANGED <<inflight, writer, sock, state>>
  BY DEF DialFail, reqVars
<1>2. PICK m : mux' = [mux EXCEPT ![c] = m] /\ m.closed /\ m.dial = "gone"
  <2>1. CASE mux[c].closed
    <3> DEFINE m == [mux[c] EXCEPT !.dial = "gone"]
    <3>1. m.closed /\ m.dial = "gone"
      BY <2>1, FrameFields DEF TypeOK
    <3>2. mux' = [mux EXCEPT ![c] = m]
      BY <2>1 DEF DialFail
    <3> QED
      BY <3>1, <3>2
  <2>2. CASE ~mux[c].closed
    <3> DEFINE m == [mux[c] EXCEPT !.dial = "gone", !.closed = TRUE, !.wake = TRUE,
                       !.cause = IF root THEN "rootcanceled" ELSE "dial"]
    <3>1. m.closed /\ m.dial = "gone"
      BY FrameFields DEF TypeOK
    <3>2. mux' = [mux EXCEPT ![c] = m]
      BY <2>2 DEF DialFail
    <3> QED
      BY <3>1, <3>2
  <2> QED
    BY <2>1, <2>2
<1>3. mux'[c] = m /\ Alone(c)
  BY <1>1, <1>2 DEF TypeOK, Alone
<1>4. inflight[c] = <<>> /\ sock[c] = DeadSock
  BY <1>0, <1>1 DEF Sound, Lives
<1>5. Sound(m, <<>>, writer[c], DeadSock, state)
  BY <1>0, <1>2, SoundClosed DEF Sound
<1>6. SoundAt(c)'
  BY <1>1, <1>3, <1>4, <1>5 DEF SoundAt
<1> QED
  BY <1>3, <1>6, SoundElsewhere

LEMMA SoundWake ==
    ASSUME TypeOK, AllSound, DoneStays, NEW c \in Conns, NEW x,
           mux' = [mux EXCEPT ![c] = [mux[c] EXCEPT !.wake = x]],
           UNCHANGED <<inflight, writer, sock>>
    PROVE  AllSound'
<1> DEFINE m == [mux[c] EXCEPT !.wake = x]
<1>0. Sound(mux[c], inflight[c], writer[c], sock[c], state)
  BY DEF AllSound, SoundAt
<1>1. m.closed = mux[c].closed /\ m.dial = mux[c].dial /\ m.cause = mux[c].cause
      /\ m.rd = mux[c].rd
  BY FrameFields DEF TypeOK
<1>2. mux'[c] = m /\ Alone(c)
  BY DEF TypeOK, Alone
<1> HIDE DEF m
<1>3. Sound(m, inflight[c], writer[c], sock[c], state)
  BY <1>0, <1>1, SoundFields
<1>4. Sound(m, inflight[c], writer[c], sock[c], state')
  BY <1>3, SoundLater DEF DoneStays, TypeOK
<1>5. SoundAt(c)'
  BY <1>2, <1>4 DEF SoundAt
<1> QED
  BY <1>2, <1>5, SoundElsewhere

LEMMA SoundWriterWake ==
    ASSUME TypeOK, AllSound, DoneStays, NEW c \in Conns, WriterWake(c)
    PROVE  AllSound'
<1> DEFINE m == [mux[c] EXCEPT !.wake = FALSE]
           w == [writer[c] EXCEPT !.pc = "claim"]
<1>0. Sound(mux[c], inflight[c], writer[c], sock[c], state)
  BY DEF AllSound, SoundAt
<1>1. m.closed = mux[c].closed /\ m.dial = mux[c].dial /\ m.cause = mux[c].cause
      /\ m.rd = mux[c].rd
  BY FrameFields DEF TypeOK
<1>2. writer[c].pc = "idle" /\ w.pc = "claim" /\ w.err = writer[c].err
  BY DEF TypeOK, WriterFields, WriterWake
<1>3. /\ mux' = [mux EXCEPT ![c] = m] /\ writer' = [writer EXCEPT ![c] = w]
      /\ UNCHANGED <<inflight, sock, state>>
  BY DEF WriterWake, reqVars
<1>4. mux'[c] = m /\ writer'[c] = w /\ Alone(c)
  BY <1>3 DEF TypeOK, Alone
<1> HIDE DEF m, w
<1>5. Sound(m, inflight[c], writer[c], sock[c], state)
  BY <1>0, <1>1, SoundFields
<1>6. m.dial # "dialing" /\ w.err = "nil" /\ Handed(inflight[c], w) = Handed(inflight[c], writer[c])
  BY <1>2, <1>5 DEF Sound, Handed
<1>7. Sound(m, inflight[c], w, sock[c], state)
  BY <1>2, <1>5, <1>6, SoundWriter
<1>8. SoundAt(c)'
  BY <1>3, <1>4, <1>7 DEF SoundAt
<1> QED
  BY <1>4, <1>8, SoundElsewhere

(* Steps of the writer alone. *)
LEMMA SoundWriterSteps ==
    ASSUME TypeOK, AllSound, DoneStays, NEW c \in Conns, NEW w,
           writer' = [writer EXCEPT ![c] = w], UNCHANGED <<mux, inflight, sock>>,
           writer[c].pc # "off",
           w.pc \in {"off", "idle", "claim", "flush"} => w.err = "nil",
           w.pc \in {"tail", "requeue"} => mux[c].closed,
           \/ mux[c].closed
           \/ /\ Handed(inflight[c], w) = Handed(inflight[c], writer[c]) /\ w.pc # "flush"
              /\ w.err = "nil" => writer[c].err = "nil"
    PROVE  AllSound'
<1>0. Sound(mux[c], inflight[c], writer[c], sock[c], state)
  BY DEF AllSound, SoundAt
<1>1. writer'[c] = w /\ Alone(c)
  BY DEF TypeOK, Alone
<1>2. mux[c].dial # "dialing"
  BY <1>0 DEF Sound
<1>3. Sound(mux[c], inflight[c], w, sock[c], state)
  BY <1>0, <1>2, SoundWriter
<1>4. Sound(mux[c], inflight[c], w, sock[c], state')
  BY <1>3, SoundLater DEF DoneStays, TypeOK
<1>5. SoundAt(c)'
  BY <1>1, <1>4 DEF SoundAt
<1> QED
  BY <1>1, <1>5, SoundElsewhere

LEMMA WriterPc ==
    ASSUME NEW p
    PROVE  [NoWriter EXCEPT !.pc = p].pc = p /\ [NoWriter EXCEPT !.pc = p].err = "nil"
BY DEF NoWriter

LEMMA SoundFlushEnds ==
    ASSUME TypeOK, AllSound, DoneStays, NEW c \in Conns,
           \/ WriterExit(c) \/ FlushDone(c) \/ SettleBatch(c) \/ WriterRequeue(c)
    PROVE  AllSound'
<1>0. Sound(mux[c], inflight[c], writer[c], sock[c], state)
  BY DEF AllSound, SoundAt
<1>1. UNCHANGED <<mux, inflight, sock>> /\ writer[c].pc # "off" /\ writer[c] \in WriterFields
  BY DEF WriterExit, FlushDone, SettleBatch, WriterRequeue, TypeOK
<1>2. CASE WriterExit(c) \/ WriterRequeue(c)
  <2>1. PICK p \in {"exit", "claim"} :
          writer' = [writer EXCEPT ![c] = [NoWriter EXCEPT !.pc = p]]
    BY <1>2 DEF WriterExit, WriterRequeue
  <2>2. mux[c].closed
    BY <1>0, <1>2 DEF WriterExit, WriterRequeue, Sound
  <2> DEFINE w == [NoWriter EXCEPT !.pc = p]
  <2>3. w.pc = p /\ w.err = "nil"
    BY WriterPc
  <2> HIDE DEF w
  <2>4. writer' = [writer EXCEPT ![c] = w]
    BY <2>1 DEF w
  <2> QED
    BY <1>1, <2>2, <2>3, <2>4, SoundWriterSteps
<1>3. CASE FlushDone(c) /\ mux[c].closed
  <2> DEFINE w == [writer[c] EXCEPT !.pc = "settle", !.closed = TRUE,
                                    !.served = mux[c].served]
  <2>1. w.pc = "settle"
    BY <1>1 DEF WriterFields
  <2>2. writer' = [writer EXCEPT ![c] = w]
    BY <1>3 DEF FlushDone
  <2> HIDE DEF w
  <2> QED
    BY <1>1, <1>3, <2>1, <2>2, SoundWriterSteps
<1>4. CASE FlushDone(c) /\ ~mux[c].closed
  <2> DEFINE w == [NoWriter EXCEPT !.pc = "claim"]
  <2>1. w.pc = "claim" /\ w.err = "nil"
    BY WriterPc
  <2>2. writer' = [writer EXCEPT ![c] = w] /\ writer[c].pc = "flush"
        /\ writer[c].n = Len(writer[c].batch)
    BY <1>4 DEF FlushDone
  <2>3. writer[c].err = "nil"
    BY <1>0, <2>2 DEF Sound
  <2> HIDE DEF w
  <2>4. Handed(inflight[c], w) = Handed(inflight[c], writer[c])
    <3>1. writer[c].n \in Nat /\ Len(inflight[c]) \in Nat
      BY <1>1, WriterParts DEF TypeOK
    <3>2. Unwritten(writer[c]) = 0
      BY <2>2, <3>1 DEF Unwritten
    <3> QED
      BY <2>1, <2>2, <3>1, <3>2 DEF Handed
  <2> QED
    BY <1>1, <2>1, <2>2, <2>3, <2>4, SoundWriterSteps
<1>5. CASE SettleBatch(c)
  <2>0. PICK b : writer' = [writer EXCEPT ![c] = [writer[c] EXCEPT !.batch = b,
                            !.pc = IF writer[c].err = "nil" THEN "claim" ELSE "fail"]]
    BY <1>5 DEF SettleBatch
  <2> DEFINE w == [writer[c] EXCEPT !.batch = b,
                            !.pc = IF writer[c].err = "nil" THEN "claim" ELSE "fail"]
  <2>1. w.pc = (IF writer[c].err = "nil" THEN "claim" ELSE "fail") /\ w.err = writer[c].err
    BY <1>1 DEF WriterFields
  <2>2. writer' = [writer EXCEPT ![c] = w] /\ writer[c].pc = "settle"
    BY <1>5, <2>0 DEF SettleBatch
  <2> HIDE DEF w
  <2>3. Handed(inflight[c], w) = Handed(inflight[c], writer[c])
    BY <2>1, <2>2 DEF Handed
  <2> QED
    BY <1>1, <2>1, <2>2, <2>3, SoundWriterSteps
<1> QED
  BY <1>2, <1>3, <1>4, <1>5

LEMMA SoundClaims ==
    ASSUME TypeOK, AllSound, DoneStays, NEW c \in Conns, Claim(c)
    PROVE  AllSound'
<1> DEFINE p == pending[c]
           I == {i \in 1..Len(p) : Claimable(p[i])}
           q == inflight[c]
<1>0. Sound(mux[c], q, writer[c], sock[c], state)
  BY DEF AllSound, SoundAt
<1>1. PICK f \in Enumerations(I) :
        /\ inflight' = [inflight EXCEPT ![c] = q \o Extract(p, f)]
        /\ writer' = [writer EXCEPT ![c] =
              IF Extract(p, f) = <<>> THEN [NoWriter EXCEPT !.pc = "idle"]
                          ELSE [NoWriter EXCEPT !.pc = "flush", !.batch = Extract(p, f)]]
        /\ mux' = [mux EXCEPT ![c] = [mux[c] EXCEPT !.rd =
              IF Extract(p, f) # <<>> /\ q = <<>> THEN armReadDeadline(Extract(p, f), state')
              ELSE mux[c].rd]]
  BY DEF Claim, Enlist
<1>2. PICK b \in Seq(Requests) : b = Extract(p, f)
  <2>1. p \in Seq(Requests) /\ I \in SUBSET (1..Len(p))
    BY DEF TypeOK
  <2> HIDE DEF p, I
  <2> QED
    BY <2>1, ExtractType
<1> DEFINE x == IF b # <<>> /\ q = <<>> THEN armReadDeadline(b, state') ELSE mux[c].rd
           m == [mux[c] EXCEPT !.rd = x]
           w == IF b = <<>> THEN [NoWriter EXCEPT !.pc = "idle"]
                ELSE [NoWriter EXCEPT !.pc = "flush", !.batch = b]
<1>3. /\ inflight' = [inflight EXCEPT ![c] = q \o b]
      /\ writer' = [writer EXCEPT ![c] = w]
      /\ mux' = [mux EXCEPT ![c] = m]
  BY <1>1, <1>2
<1>4. writer[c].pc = "claim" /\ ~mux[c].closed /\ UNCHANGED sock
  BY DEF Claim
<1>5. m.closed = mux[c].closed /\ m.dial = mux[c].dial /\ m.cause = mux[c].cause /\ m.rd = x
  BY FrameFields DEF TypeOK
<1>6. q \in Seq(Requests) /\ sock[c] \in SockFields
  BY DEF TypeOK
<1>7. CASE b = <<>>
  <2>1. w.pc = "idle" /\ w.err = "nil" /\ x = mux[c].rd /\ q \o b = q
    BY <1>6, <1>7, WriterPc
  <2> HIDE DEF m, w, x
  <2>2. mux'[c] = m /\ inflight'[c] = q /\ writer'[c] = w /\ Alone(c)
    BY <1>3, <1>4, <2>1 DEF TypeOK, Alone
  <2>3. Sound(m, q, writer[c], sock[c], state)
    BY <1>0, <1>5, <2>1, SoundFields
  <2>4. m.dial # "dialing" /\ writer[c].err = "nil" /\ Handed(q, w) = Handed(q, writer[c])
    BY <1>4, <2>1, <2>3 DEF Sound, Handed
  <2>5. Sound(m, q, w, sock[c], state)
    BY <1>4, <2>1, <2>3, <2>4, SoundWriter
  <2>6. Sound(m, q, w, sock[c], state')
    BY <1>6, <2>5, SoundLater DEF DoneStays
  <2>7. SoundAt(c)'
    BY <1>4, <2>2, <2>6 DEF SoundAt
  <2> QED
    BY <2>2, <2>7, SoundElsewhere
<1>8. CASE b # <<>>
  <2>1. w.pc = "flush" /\ w.err = "nil" /\ w.batch = b /\ w.n = 0
    BY <1>8 DEF NoWriter
  <2>2. x = IF q = <<>> THEN armReadDeadline(b, state') ELSE mux[c].rd
    BY <1>8
  <2> HIDE DEF m, w, x
  <2>3. mux'[c] = m /\ inflight'[c] = q \o b /\ writer'[c] = w /\ Alone(c)
    BY <1>3, <1>4 DEF TypeOK, Alone
  <2> HIDE DEF q
  <2>4. Sound(m, q \o b, w, sock[c], state')
    BY <1>0, <1>4, <1>5, <1>6, <1>8, <2>1, <2>2, SoundClaim DEF DoneStays
  <2>5. SoundAt(c)'
    BY <1>4, <2>3, <2>4 DEF SoundAt
  <2> QED
    BY <2>3, <2>5, SoundElsewhere
<1> QED
  BY <1>7, <1>8

LEMMA SoundWrites ==
    ASSUME TypeOK, AllSound, DoneStays, NEW c \in Conns, Write(c)
    PROVE  AllSound'
<1> DEFINE w == [writer[c] EXCEPT !.n = writer[c].n + 1]
           x == writer[c].batch[writer[c].n + 1]
           s == IF sock[c].up THEN [sock[c] EXCEPT !.recv = Append(sock[c].recv, x)]
                ELSE sock[c]
<1>0. Sound(mux[c], inflight[c], writer[c], sock[c], state)
  BY DEF AllSound, SoundAt
<1>1. /\ writer' = [writer EXCEPT ![c] = w] /\ sock' = [sock EXCEPT ![c] = s]
      /\ UNCHANGED <<mux, inflight, state>>
      /\ writer[c].pc = "flush" /\ writer[c].n < Len(writer[c].batch) /\ ~mux[c].closed
  BY DEF Write
<1>2. /\ writer[c] \in WriterFields /\ sock[c] \in SockFields /\ inflight[c] \in Seq(Requests)
      /\ writer'[c] = w /\ sock'[c] = s /\ Alone(c)
  BY <1>1 DEF TypeOK, Alone
<1>3. /\ w.pc = writer[c].pc /\ w.batch = writer[c].batch /\ w.n = writer[c].n + 1
      /\ w.err = writer[c].err
  BY <1>2 DEF WriterFields
<1> HIDE DEF w
<1>4. Sound(mux[c], inflight[c], w, s, state)
  BY <1>0, <1>1, <1>2, <1>3, SoundWrite
<1>5. SoundAt(c)'
  BY <1>1, <1>2, <1>4 DEF SoundAt
<1> QED
  BY <1>2, <1>5, SoundElsewhere

LEMMA SoundFlushFail ==
    ASSUME TypeOK, AllSound, DoneStays, NEW c \in Conns, NEW part \in BOOLEAN,
           NEW err \in {"io", "iotimeout"}, FlushFail(c, part, err)
    PROVE  AllSound'
<1> DEFINE w == [writer[c] EXCEPT !.pc = "settle", !.err = err, !.part = part,
                    !.closed = mux[c].closed, !.served = mux[c].served]
           q == CutTail(inflight[c], Len(writer[c].batch) - writer[c].n)
<1>0. Sound(mux[c], inflight[c], writer[c], sock[c], state)
  BY DEF AllSound, SoundAt
<1>1. /\ writer' = [writer EXCEPT ![c] = w] /\ UNCHANGED <<mux, sock, state>>
      /\ writer[c].pc = "flush" /\ writer[c] \in WriterFields
  BY DEF FlushFail, TypeOK
<1>2. w.pc = "settle" /\ w.err = err
  BY <1>1 DEF WriterFields
<1> HIDE DEF w
<1>3. CASE mux[c].closed
  <2>1. UNCHANGED inflight
    BY <1>3 DEF FlushFail
  <2> QED
    BY <1>1, <1>2, <1>3, <2>1, SoundWriterSteps
<1>4. CASE ~mux[c].closed
  <2>1. inflight' = [inflight EXCEPT ![c] = q]
    BY <1>4 DEF FlushFail
  <2>2. /\ inflight'[c] = q /\ writer'[c] = w /\ Alone(c) /\ inflight[c] \in Seq(Requests)
        /\ sock[c] \in SockFields
    BY <1>1, <2>1 DEF TypeOK, Alone
  <2>3. Sound(mux[c], q, w, sock[c], state)
    BY <1>0, <1>1, <1>2, <1>4, <2>2, SoundCut
  <2>4. SoundAt(c)'
    BY <1>1, <2>2, <2>3 DEF SoundAt
  <2> QED
    BY <2>2, <2>4, SoundElsewhere
<1> QED
  BY <1>3, <1>4

LEMMA SoundWriterFail ==
    ASSUME TypeOK, AllSound, DoneStays, NEW c \in Conns, WriterFail(c)
    PROVE  AllSound'
<1> DEFINE w == [writer[c] EXCEPT !.pc = IF mux[c].closed THEN "requeue" ELSE "tail"]
<1>0. Sound(mux[c], inflight[c], writer[c], sock[c], state)
  BY DEF AllSound, SoundAt
<1>1. /\ writer' = [writer EXCEPT ![c] = w] /\ teardownLocked(c, writer[c].err, FALSE)
      /\ writer[c].pc = "fail" /\ writer[c] \in WriterFields /\ state' = state
  BY DEF WriterFail, TypeOK, reqVars
<1>2. w.pc = IF mux[c].closed THEN "requeue" ELSE "tail"
  BY <1>1 DEF WriterFields
<1> HIDE DEF w
<1>3. CASE mux[c].closed
  <2>1. UNCHANGED <<mux, inflight, sock>>
    BY <1>1, <1>3 DEF teardownLocked
  <2> QED
    BY <1>1, <1>2, <1>3, <2>1, SoundWriterSteps
<1>4. CASE ~mux[c].closed
  <2>1. mux[c].dial # "dialing"
    BY <1>0, <1>1 DEF Sound
  <2>2. Sound(mux'[c], inflight'[c], w, sock'[c], state')
    BY <1>1, <1>2, <1>4, <2>1, SoundTeardown
  <2>3. writer'[c] = w /\ \A k \in Conns \ {c} : writer'[k] = writer[k]
    BY <1>1 DEF TypeOK
  <2>4. Alone(c)
    BY <1>1, <2>3, TeardownAlone
  <2>5. SoundAt(c)'
    BY <2>2, <2>3 DEF SoundAt
  <2> QED
    BY <2>4, <2>5, SoundElsewhere
<1> QED
  BY <1>3, <1>4

(* The next frame of a live connection is for the head of its queue. *)
LEMMA HeadFrame ==
    ASSUME NEW m, NEW q \in Seq(Requests), NEW w, NEW s \in SockFields, NEW st,
           Sound(m, q, w, s, st), ~m.closed, s.back # <<>>
    PROVE  /\ q # <<>> /\ Head(s.back).of = Head(q)
           /\ Ends(Head(s.back)) \/ Head(s.back).of \in Batches
<1>1. m.dial = "up" /\ Streaming(q, w, s)
  BY DEF Sound, Lives, DeadSock
<1> QED
  BY <1>1, HandedWithin, AlignedHead DEF Streaming

LEMMA SoundReadPart ==
    ASSUME TypeOK, AllSound, DoneStays, NEW c \in Conns, ReadPart(c)
    PROVE  AllSound'
<1> DEFINE s == [sock[c] EXCEPT !.back = Tail(sock[c].back)]
<1>0. Sound(mux[c], inflight[c], writer[c], sock[c], state)
  BY DEF AllSound, SoundAt
<1>1. /\ sock' = [sock EXCEPT ![c] = s] /\ UNCHANGED <<mux, inflight, writer, state>>
      /\ ~mux[c].closed /\ sock[c].back # <<>>
      /\ ~Head(sock[c].back).bad /\ ~Head(sock[c].back).last
  BY DEF ReadPart, Stops
<1>2. /\ writer[c] \in WriterFields /\ sock[c] \in SockFields /\ inflight[c] \in Seq(Requests)
      /\ sock'[c] = s /\ Alone(c)
  BY <1>1 DEF TypeOK, Alone
<1>3. Sound(mux[c], inflight[c], writer[c], s, state)
  BY <1>0, <1>1, <1>2, SoundPart DEF Ends
<1>4. SoundAt(c)'
  BY <1>1, <1>2, <1>3 DEF SoundAt
<1> QED
  BY <1>2, <1>4, SoundElsewhere

LEMMA SoundReadLast ==
    ASSUME TypeOK, AllSound, DoneStays, NEW c \in Conns, ReadLast(c)
    PROVE  AllSound'
<1> DEFINE q == Tail(inflight[c])
           fin == Drained(c, q)
           m == [mux[c] EXCEPT !.served = TRUE, !.closed = fin, !.rd = armReadDeadline(q, state)]
           s2 == [sock[c] EXCEPT !.back = Tail(sock[c].back)]
           s == IF fin THEN DeadSock ELSE s2
<1>0. Sound(mux[c], inflight[c], writer[c], sock[c], state)
  BY DEF AllSound, SoundAt
<1>1. /\ mux' = [mux EXCEPT ![c] = m] /\ inflight' = [inflight EXCEPT ![c] = q]
      /\ sock' = [sock EXCEPT ![c] = s] /\ UNCHANGED <<writer, state>>
      /\ ~mux[c].closed /\ sock[c].back # <<>>
      /\ Stops(Head(inflight[c]), Head(sock[c].back))
  BY DEF ReadLast
<1>2. /\ writer[c] \in WriterFields /\ sock[c] \in SockFields /\ inflight[c] \in Seq(Requests)
      /\ mux'[c] = m /\ inflight'[c] = q /\ sock'[c] = s /\ Alone(c)
  BY <1>1 DEF TypeOK, Alone
<1>3. Ends(Head(sock[c].back))
  BY <1>0, <1>1, <1>2, HeadFrame DEF Stops, Ends
<1>4. /\ m.closed = fin /\ m.dial = mux[c].dial /\ m.cause = mux[c].cause
      /\ m.rd = armReadDeadline(q, state)
  BY FrameFields DEF TypeOK
<1> HIDE DEF m
<1>5. CASE fin
  <2>1. q = <<>> /\ s = DeadSock
    BY <1>5 DEF Drained
  <2>2. Sound(m, <<>>, writer[c], DeadSock, state)
    BY <1>0, <1>4, <1>5, SoundClosed DEF Sound
  <2>3. SoundAt(c)'
    BY <1>1, <1>2, <2>1, <2>2 DEF SoundAt
  <2> QED
    BY <1>2, <2>3, SoundElsewhere
<1>6. CASE ~fin
  <2>1. Sound(m, q, writer[c], s2, state)
    BY <1>0, <1>1, <1>2, <1>3, <1>4, <1>6, SoundLast
  <2>2. SoundAt(c)'
    BY <1>1, <1>2, <1>6, <2>1 DEF SoundAt
  <2> QED
    BY <1>2, <2>2, SoundElsewhere
<1> QED
  BY <1>5, <1>6

LEMMA SoundReadFail ==
    ASSUME TypeOK, AllSound, DoneStays, NEW c \in Conns, ReadFail(c)
    PROVE  AllSound'
<1>0. Sound(mux[c], inflight[c], writer[c], sock[c], state)
  BY DEF AllSound, SoundAt
<1>1. PICK cause : teardownLocked(c, cause, TRUE)
  BY DEF ReadFail
<1>2. ~mux[c].closed /\ UNCHANGED writer
  BY DEF ReadFail
<1>3. Sound(mux'[c], inflight'[c], writer[c], sock'[c], state')
  BY <1>0, <1>1, <1>2, SoundTeardown DEF Sound
<1>4. Alone(c)
  BY <1>1, <1>2, TeardownAlone
<1>5. SoundAt(c)'
  BY <1>2, <1>3 DEF SoundAt
<1> QED
  BY <1>4, <1>5, SoundElsewhere

LEMMA SoundDrain ==
    ASSUME TypeOK, AllSound, DoneStays, NEW c \in Conns, Drain(c)
    PROVE  AllSound'
<1>0. Sound(mux[c], inflight[c], writer[c], sock[c], state)
  BY DEF AllSound, SoundAt
<1>1. CASE mux[c].closed
  BY <1>1, SoundIdle DEF Drain
<1>2. CASE ~mux[c].closed
  <2> DEFINE e == (inflight[c] = <<>>)
             m == [mux[c] EXCEPT !.closing = TRUE, !.wake = TRUE, !.closed = e]
             s == IF inflight[c] = <<>> THEN DeadSock ELSE sock[c]
  <2>1. m.closed = e /\ m.dial = mux[c].dial /\ m.cause = mux[c].cause /\ m.rd = mux[c].rd
    BY FrameFields DEF TypeOK
  <2>2. mux' = [mux EXCEPT ![c] = m] /\ sock' = [sock EXCEPT ![c] = s]
        /\ UNCHANGED <<inflight, writer>>
    BY <1>2 DEF Drain
  <2> HIDE DEF m
  <2>3. mux'[c] = m /\ sock'[c] = s /\ Alone(c) /\ inflight[c] \in Seq(Requests)
    BY <2>2 DEF TypeOK, Alone
  <2>4. CASE inflight[c] = <<>>
    <3>1. Sound(m, <<>>, writer[c], DeadSock, state')
      BY <1>0, <2>1, <2>4, SoundClosed DEF Sound
    <3>2. SoundAt(c)'
      BY <2>2, <2>3, <2>4, <3>1 DEF SoundAt
    <3> QED
      BY <2>3, <3>2, SoundElsewhere
  <2>5. CASE inflight[c] # <<>>
    <3>1. ~m.closed
      BY <2>1, <2>5
    <3>2. Sound(m, inflight[c], writer[c], sock[c], state)
      BY <1>0, <1>2, <2>1, <3>1 DEF Sound, Lives
    <3>3. Sound(m, inflight[c], writer[c], sock[c], state')
      BY <2>3, <3>2, SoundLater DEF DoneStays
    <3>4. SoundAt(c)'
      BY <2>2, <2>3, <2>5, <3>3 DEF SoundAt
    <3> QED
      BY <2>3, <3>4, SoundElsewhere
  <2> QED
    BY <2>4, <2>5
<1> QED
  BY <1>1, <1>2

LEMMA SoundPick ==
    ASSUME TypeOK, AllSound, DoneStays, NEW c \in Conns, pickLocked(c)
    PROVE  AllSound'
<1>1. PICK R \in SUBSET {k \in conns : "idle" \in Faults /\ ~mux[k].closed /\ Load(k) = 0} :
        LET mux1 == [k \in Conns |-> IF k \in R
                        THEN [mux[k] EXCEPT !.closed = TRUE, !.wake = TRUE]
                        ELSE mux[k]]
            sock1 == [k \in Conns |-> IF k \in R THEN DeadSock ELSE sock[k]]
        IN  \/ /\ c \in Fresh /\ mux' = [mux1 EXCEPT ![c] = NewMux]
               /\ sock' = sock1 /\ inflight' = [inflight EXCEPT ![c] = <<>>]
               /\ writer' = [writer EXCEPT ![c] = NoWriter]
            \/ mux' = mux1 /\ sock' = sock1 /\ UNCHANGED <<inflight, writer>>
  <2>1. Fresh # {} => (CHOOSE k \in Fresh : TRUE) \in Fresh
    OBVIOUS
  <2> QED
    BY <2>1 DEF pickLocked
<1> DEFINE mux1 == [k \in Conns |-> IF k \in R
                        THEN [mux[k] EXCEPT !.closed = TRUE, !.wake = TRUE]
                        ELSE mux[k]]
           sock1 == [k \in Conns |-> IF k \in R THEN DeadSock ELSE sock[k]]
<1>2. ASSUME NEW k \in Conns
      PROVE  Sound(mux1[k], inflight[k], writer[k], sock1[k], state')
  <2>0. Sound(mux[k], inflight[k], writer[k], sock[k], state)
    BY DEF AllSound, SoundAt
  <2>1. CASE k \in R
    <3> DEFINE m == [mux[k] EXCEPT !.closed = TRUE, !.wake = TRUE]
    <3>1. m.closed /\ m.dial = mux[k].dial
      BY FrameFields DEF TypeOK
    <3>2. mux1[k] = m /\ sock1[k] = DeadSock
      BY <2>1
    <3>3. inflight[k] = <<>>
      <4>1. Len(pending[k]) + Len(inflight[k]) = 0
        BY <2>1 DEF Load
      <4>2. Len(pending[k]) \in Nat /\ Len(inflight[k]) \in Nat /\ inflight[k] \in Seq(Requests)
        BY DEF TypeOK
      <4>3. Len(inflight[k]) = 0
        <5>1. PICK a \in Nat, b \in Nat : a = Len(pending[k]) /\ b = Len(inflight[k])
          BY <4>2
        <5>2. a + b = 0
          BY <4>1, <5>1
        <5>3. b = 0
          BY <5>2
        <5> QED
          BY <5>1, <5>3
      <4> QED
        BY <4>2, <4>3, EmptySeq
    <3> HIDE DEF m, mux1, sock1
    <3>4. Sound(m, <<>>, writer[k], DeadSock, state')
      BY <2>0, <3>1, SoundClosed DEF Sound
    <3> QED
      BY <3>2, <3>3, <3>4
  <2>2. CASE k \notin R
    <3>1. mux1[k] = mux[k] /\ sock1[k] = sock[k]
      BY <2>2
    <3> HIDE DEF mux1, sock1
    <3> QED
      BY <2>0, <3>1, SoundLater DEF DoneStays, TypeOK
  <2> QED
    BY <2>1, <2>2
<1>3. CASE /\ c \in Fresh /\ mux' = [mux1 EXCEPT ![c] = NewMux]
           /\ sock' = sock1 /\ inflight' = [inflight EXCEPT ![c] = <<>>]
           /\ writer' = [writer EXCEPT ![c] = NoWriter]
  <2>1. mux[c].closed /\ c \notin R
    BY <1>3 DEF Fresh
  <2>2. sock1[c] = DeadSock
    BY <2>1 DEF AllSound, SoundAt, Sound
  <2>3. /\ mux'[c] = NewMux /\ inflight'[c] = <<>> /\ writer'[c] = NoWriter
        /\ sock'[c] = DeadSock
    BY <1>3, <2>2 DEF TypeOK
  <2>4. \A k \in Conns \ {c} : /\ mux'[k] = mux1[k] /\ inflight'[k] = inflight[k]
                               /\ writer'[k] = writer[k] /\ sock'[k] = sock1[k]
    BY <1>3 DEF TypeOK
  <2> HIDE DEF mux1, sock1
  <2>5. /\ NewMux.dial = "dialing" /\ ~NewMux.closed /\ NewMux.cause = "nil" /\ NewMux.rd = None
        /\ NoWriter.pc = "off" /\ NoWriter.err = "nil"
    BY DEF NewMux, NoMux, NoWriter
  <2>6. Sound(NewMux, <<>>, NoWriter, DeadSock, state')
    BY <2>5 DEF Sound, Lives, Armed
  <2>7. ASSUME NEW k \in Conns PROVE SoundAt(k)'
    <3>1. CASE k = c
      BY <2>3, <2>6, <3>1 DEF SoundAt
    <3>2. CASE k # c
      BY <1>2, <2>4, <3>2 DEF SoundAt
    <3> QED
      BY <3>1, <3>2
  <2> QED
    BY <2>7 DEF AllSound
<1>4. CASE mux' = mux1 /\ sock' = sock1 /\ UNCHANGED <<inflight, writer>>
  <2> HIDE DEF mux1, sock1
  <2>1. ASSUME NEW k \in Conns PROVE SoundAt(k)'
    BY <1>2, <1>4 DEF SoundAt
  <2> QED
    BY <2>1 DEF AllSound
<1> QED
  BY <1>1, <1>3, <1>4

(* The server or the network touches only the socket. *)
LEMMA SoundSocket ==
    ASSUME TypeOK, AllSound, DoneStays, NEW c \in Conns, NEW s,
           sock' = [sock EXCEPT ![c] = s], UNCHANGED <<mux, inflight, writer>>, sock[c].up,
           \A h \in Nat : Aligned(inflight[c], h, sock[c]) => Aligned(inflight[c], h, s)
    PROVE  AllSound'
<1>0. Sound(mux[c], inflight[c], writer[c], sock[c], state)
  BY DEF AllSound, SoundAt
<1>1. sock'[c] = s /\ Alone(c) /\ inflight[c] \in Seq(Requests)
  BY DEF TypeOK, Alone
<1>2. Streaming(inflight[c], writer[c], sock[c])
        => Aligned(inflight[c], Handed(inflight[c], writer[c]), s)
  <2> SUFFICES ASSUME Streaming(inflight[c], writer[c], sock[c])
               PROVE  Aligned(inflight[c], Handed(inflight[c], writer[c]), s)
    OBVIOUS
  <2>1. Handed(inflight[c], writer[c]) \in Nat
    BY <1>1, HandedWithin
  <2> QED
    BY <2>1 DEF Streaming
<1>3. Sound(mux[c], inflight[c], writer[c], s, state)
  BY <1>0, <1>2, SoundStream
<1>4. Sound(mux[c], inflight[c], writer[c], s, state')
  BY <1>1, <1>3, SoundLater DEF DoneStays
<1>5. SoundAt(c)'
  BY <1>1, <1>4 DEF SoundAt
<1> QED
  BY <1>1, <1>5, SoundElsewhere

LEMMA SoundServer ==
    ASSUME TypeOK, AllSound, DoneStays, NEW c \in Conns, Answer(c) \/ AnswerError(c) \/ Break(c)
    PROVE  AllSound'
<1> DEFINE r == Head(sock[c].recv)
           good(last) == [of |-> r, last |-> last, bad |-> FALSE]
           bad == [of |-> r, last |-> FALSE, bad |-> TRUE]
<1>0. /\ UNCHANGED <<mux, inflight, writer>> /\ sock[c].up
      /\ sock[c] \in SockFields
  BY DEF Answer, AnswerError, Break, TypeOK
<1>1. ASSUME sock[c].recv # <<>> PROVE r \in Requests
  BY <1>0, <1>1, SockParts
<1>2. ASSUME NEW fs \in Seq(Frames), fs # <<>>, Ends(fs[Len(fs)]), sock[c].recv # <<>>,
             \A j \in 1..Len(fs) : /\ fs[j].of = r
                                   /\ j < Len(fs) => ~Ends(fs[j]) /\ fs[j].of \in Batches,
             sock' = [sock EXCEPT ![c] = [sock[c] EXCEPT !.recv = Tail(sock[c].recv),
                                                         !.back = sock[c].back \o fs]]
      PROVE  AllSound'
  <2> DEFINE s == [sock[c] EXCEPT !.recv = Tail(sock[c].recv), !.back = sock[c].back \o fs]
  <2>1. \A h \in Nat : Aligned(inflight[c], h, sock[c]) => Aligned(inflight[c], h, s)
    BY <1>0, <1>2, AlignedAnswer
  <2> HIDE DEF s
  <2>2. sock' = [sock EXCEPT ![c] = s]
    BY <1>2 DEF s
  <2> QED
    BY <1>0, <2>1, <2>2, SoundSocket
<1>3. CASE Answer(c) /\ r \in Batches
  <2> DEFINE fs == <<good(FALSE), good(TRUE)>>
  <2>1. /\ sock[c].recv # <<>>
        /\ sock' = [sock EXCEPT ![c] = [sock[c] EXCEPT !.recv = Tail(sock[c].recv),
                                                       !.back = sock[c].back \o fs]]
    BY <1>3 DEF Answer
  <2>2. good(FALSE) \in Frames /\ good(TRUE) \in Frames
    BY <1>1, <2>1 DEF Frames
  <2>3. /\ fs \in Seq(Frames) /\ fs # <<>> /\ Len(fs) = 2 /\ fs[1] = good(FALSE)
        /\ fs[2] = good(TRUE)
    BY <2>2
  <2>4. Ends(fs[2]) /\ ~Ends(fs[1]) /\ fs[1].of = r /\ fs[2].of = r
    BY <2>3 DEF Ends
  <2> HIDE DEF fs
  <2>5. \A j \in 1..Len(fs) : /\ fs[j].of = r
                              /\ j < Len(fs) => ~Ends(fs[j]) /\ fs[j].of \in Batches
    <3> SUFFICES ASSUME NEW j \in 1..Len(fs)
                 PROVE  fs[j].of = r /\ (j < Len(fs) => ~Ends(fs[j]) /\ fs[j].of \in Batches)
      OBVIOUS
    <3>1. j = 1 \/ j = 2
      BY <2>3
    <3>2. CASE j = 1
      BY <1>3, <2>4, <3>2
    <3>3. CASE j = 2
      BY <2>3, <2>4, <3>3
    <3> QED
      BY <3>1, <3>2, <3>3
  <2> QED
    BY <1>2, <2>1, <2>3, <2>4, <2>5
<1>4. CASE Answer(c) /\ r \notin Batches
  <2> DEFINE fs == <<good(TRUE)>>
  <2>1. /\ sock[c].recv # <<>>
        /\ sock' = [sock EXCEPT ![c] = [sock[c] EXCEPT !.recv = Tail(sock[c].recv),
                                                       !.back = sock[c].back \o fs]]
    BY <1>4 DEF Answer
  <2>2. good(TRUE) \in Frames
    BY <1>1, <2>1 DEF Frames
  <2>3. fs \in Seq(Frames) /\ fs # <<>> /\ Len(fs) = 1 /\ fs[1] = good(TRUE)
    BY <2>2
  <2>4. Ends(fs[1]) /\ fs[1].of = r
    BY <2>3 DEF Ends
  <2> HIDE DEF fs
  <2>5. \A j \in 1..Len(fs) : /\ fs[j].of = r
                              /\ j < Len(fs) => ~Ends(fs[j]) /\ fs[j].of \in Batches
    BY <2>3, <2>4
  <2> QED
    BY <1>2, <2>1, <2>3, <2>4, <2>5
<1>5. CASE AnswerError(c)
  <2> DEFINE fs == <<bad>>
  <2>1. /\ sock[c].recv # <<>>
        /\ sock' = [sock EXCEPT ![c] = [sock[c] EXCEPT !.recv = Tail(sock[c].recv),
                                                       !.back = Append(sock[c].back, bad)]]
    BY <1>5 DEF AnswerError
  <2>2. bad \in Frames
    BY <1>1, <2>1 DEF Frames
  <2>3. fs \in Seq(Frames) /\ fs # <<>> /\ Len(fs) = 1 /\ fs[1] = bad
    BY <2>2
  <2>4. Ends(fs[1]) /\ fs[1].of = r
    BY <2>3 DEF Ends
  <2>5. Append(sock[c].back, bad) = sock[c].back \o fs
    <3>1. sock[c].back \in Seq(Frames)
      BY <1>0, SockParts
    <3> HIDE DEF bad
    <3> QED
      BY <2>2, <3>1, AppendIsConcat
  <2> HIDE DEF fs
  <2>6. \A j \in 1..Len(fs) : /\ fs[j].of = r
                              /\ j < Len(fs) => ~Ends(fs[j]) /\ fs[j].of \in Batches
    BY <2>3, <2>4
  <2>7. sock' = [sock EXCEPT ![c] = [sock[c] EXCEPT !.recv = Tail(sock[c].recv),
                                                    !.back = sock[c].back \o fs]]
    BY <2>1, <2>5
  <2> QED
    BY <1>2, <2>1, <2>3, <2>4, <2>6, <2>7
<1>6. CASE Break(c)
  <2> DEFINE s == [sock[c] EXCEPT !.up = FALSE, !.recv = <<>>]
  <2>1. sock' = [sock EXCEPT ![c] = s]
    BY <1>6 DEF Break
  <2>2. \A h \in Nat : Aligned(inflight[c], h, sock[c]) => Aligned(inflight[c], h, s)
    BY <1>0, AlignedBreak
  <2> HIDE DEF s
  <2> QED
    BY <1>0, <2>1, <2>2, SoundSocket
<1> QED
  BY <1>3, <1>4, <1>5, <1>6

-----------------------------------------------------------------------------
(* The results *)

LEMMA SoundInit == Init => AllSound
<1>1. NoMux.closed /\ NoMux.dial = "unborn" /\ NoWriter.pc = "off" /\ NoWriter.err = "nil"
  BY DEF NoMux, NoWriter
<1>2. \A st : Sound(NoMux, <<>>, NoWriter, DeadSock, st)
  BY <1>1, SoundClosed
<1> QED
  BY <1>2 DEF Init, AllSound, SoundAt

LEMMA SoundNext ==
    ASSUME TypeOK, AllSound, [Next]_vars
    PROVE  AllSound'
<1>0. DoneStays
  BY SettledForGood
<1>1. ASSUME NEW r \in Requests,
             \/ Exchange(r) \/ ExchangeRefused(r) \/ Cancel(r) \/ Deadline(r)
             \/ CallerStep(r)
      PROVE  AllSound'
  <2>1. CASE Exchange(r)
    BY <1>0, <2>1, SoundPick DEF Exchange
  <2> QED
    BY <1>0, <1>1, <2>1, SoundIdleSteps, SoundExpire, SoundOrphan DEF CallerStep
<1>2. ASSUME NEW c \in Conns, WriterStep(c)
      PROVE  AllSound'
  BY <1>0, <1>2, SoundDialOK, SoundDialFail, SoundWriterWake, SoundFlushEnds, SoundClaims,
     SoundWrites, SoundFlushFail, SoundWriterFail
     DEF WriterStep, WriterRuns
<1>3. ASSUME NEW c \in Conns, ReaderStep(c) \/ TearStep(c)
      PROVE  AllSound'
  <2>1. CASE Deliver(c)
    BY <1>0, <2>1, SoundWake DEF Deliver
  <2> QED
    BY <1>0, <1>3, <2>1, SoundReadPart, SoundReadLast, SoundReadFail, SoundIdleSteps
       DEF ReaderStep, TearStep
<1>4. ASSUME NEW c \in Conns, Answer(c) \/ AnswerError(c) \/ Break(c)
      PROVE  AllSound'
  BY <1>0, <1>4, SoundServer
<1>5. CASE PoolStep
  <2>1. CASE DetachPick
    BY <1>0, <2>1, SoundPick DEF DetachPick
  <2>2. CASE PoolSignal
    <3>1. ptarget \in Conns
      BY <2>2 DEF PoolSignal, TypeOK
    <3> QED
      BY <1>0, <2>2, <3>1, SoundWake DEF PoolSignal, signal
  <2> QED
    BY <1>0, <1>5, <2>1, <2>2, SoundIdleSteps DEF PoolStep
<1>6. CASE CancelRoot \/ CloseStep
  BY <1>0, <1>6, SoundIdleSteps, SoundDrain DEF CloseStep
<1>7. CASE Finished \/ UNCHANGED vars
  BY <1>0, <1>7, SoundIdleSteps
<1> QED
  BY <1>1, <1>2, <1>3, <1>4, <1>5, <1>6, <1>7 DEF Next

LEMMA SoundAlways == Spec => []AllSound
<1>1. Init => AllSound
  BY SoundInit
<1>2. TypeOK /\ AllSound /\ [Next]_vars => AllSound'
  BY SoundNext
<1> QED
  BY <1>1, <1>2, TypeCorrect, PTL DEF Spec

(* readLoop hands every response to the request it answers: on a live      *)
(* connection the next frame is for the head of the in-flight list, after  *)
(* any abandoned commands, failed flushes, cut batches and requeues.       *)
THEOREM FramesMatch == Spec => []FrameForHead
<1>1. TypeOK /\ AllSound => FrameForHead
  <2> SUFFICES ASSUME TypeOK, AllSound, NEW c \in Conns, ~mux[c].closed, sock[c].back # <<>>
               PROVE  inflight[c] # <<>> /\ Head(sock[c].back).of = Head(inflight[c])
    BY DEF FrameForHead
  <2>1. Sound(mux[c], inflight[c], writer[c], sock[c], state)
    BY DEF AllSound, SoundAt
  <2>2. inflight[c] \in Seq(Requests) /\ sock[c] \in SockFields
    BY DEF TypeOK
  <2> QED
    BY <2>1, <2>2, HeadFrame
<1> QED
  BY <1>1, SoundAlways, TypeCorrect, PTL

(* Only a context with a deadline expires. *)
LateTimed == \A r \in Requests : ctx[r] = "expired" => r \in Timed

LEMMA LateTimedNext ==
    ASSUME TypeOK, LateTimed, [Next]_vars
    PROVE  LateTimed'
<1>1. CASE UNCHANGED ctx
  BY <1>1 DEF LateTimed
<1>2. ASSUME NEW r \in Requests, Cancel(r) \/ Deadline(r)
      PROVE  LateTimed'
  BY <1>2 DEF LateTimed, Cancel, Deadline, TypeOK
<1>3. ASSUME NEW r \in Requests, Exchange(r) \/ ExchangeRefused(r) \/ CallerStep(r)
      PROVE  UNCHANGED ctx
  BY <1>3 DEF Exchange, ExchangeRefused, CallerStep, GiveUpQueued, GiveUpWriting,
              MissQueued, MissWriting, Expire, Orphan
<1>4. ASSUME NEW c \in Conns, WriterStep(c)
      PROVE  UNCHANGED ctx
  BY <1>4 DEF WriterStep, WriterRuns, DialOK, DialFail, WriterWake, WriterExit, Claim, Write,
              FlushDone, FlushFail, SettleBatch, WriterFail, WriterRequeue, reqVars
<1>5. ASSUME NEW c \in Conns,
             \/ ReaderStep(c) \/ TearStep(c) \/ Answer(c) \/ AnswerError(c) \/ Break(c)
      PROVE  UNCHANGED ctx
  BY <1>5 DEF ReaderStep, ReadPart, ReadLast, Deliver, ReadFail, ReaderExit, TearStep,
              TearSettle, TearDetach, Answer, AnswerError, Break, reqVars
<1>6. CASE PoolStep \/ CancelRoot \/ CloseStep \/ Finished \/ UNCHANGED vars
  BY <1>1, <1>6 DEF PoolStep, PoolAdd, PoolSignal, DetachSkip, DetachPick, DetachFail,
              CancelRoot, CloseStep, PoolClose, Drain, Finished, vars, reqVars
<1> QED
  BY <1>1, <1>2, <1>3, <1>4, <1>5, <1>6 DEF Next

(* The step does not close a live connection for a deadline, unless the    *)
(* connection deserves it.                                                 *)
Fair(c) ==
    ~mux[c].closed /\ mux'[c].closed /\ mux'[c].cause = "deadline"
        => LateOldest(c) \/ writer[c].err # "nil"

LEMMA LiveCause ==
    ASSUME AllSound, NEW c \in Conns, ~mux[c].closed
    PROVE  mux[c].cause = "nil"
BY DEF AllSound, SoundAt, Sound, Lives

LEMMA FairTeardown ==
    ASSUME TypeOK, NEW c, NEW cause, NEW saw, teardownLocked(c, cause, saw),
           cause = "deadline" /\ ~mux[c].closed => LateOldest(c) \/ writer[c].err # "nil"
    PROVE  \A k \in Conns : Fair(k)
<1>1. CASE mux[c].closed
  BY <1>1 DEF teardownLocked, Fair
<1>2. CASE ~mux[c].closed
  <2> DEFINE m == [mux[c] EXCEPT !.closed = TRUE, !.cause = cause,
                                 !.blamed = BlamedOf(c, saw), !.wake = TRUE]
  <2>1. mux' = [mux EXCEPT ![c] = m]
    BY <1>2 DEF teardownLocked
  <2>2. c \in Conns => m.cause = cause
    BY FrameFields DEF TypeOK
  <2> HIDE DEF m
  <2>3. \A k \in Conns : mux'[k] = IF k = c THEN m ELSE mux[k]
    BY <2>1 DEF TypeOK
  <2> QED
    BY <1>2, <2>2, <2>3 DEF Fair
<1> QED
  BY <1>1, <1>2

(* Steps that close a connection for no cause, or for another one. *)
LEMMA FairOther ==
    ASSUME TypeOK, AllSound, NEW c, NEW m, mux' = [mux EXCEPT ![c] = m],
           c \in Conns /\ ~mux[c].closed => ~m.closed \/ m.cause # "deadline"
    PROVE  \A k \in Conns : Fair(k)
<1>1. \A k \in Conns : mux'[k] = IF k = c THEN m ELSE mux[k]
  BY DEF TypeOK
<1> QED
  BY <1>1 DEF Fair

LEMMA FairExpire ==
    ASSUME TypeOK, AllSound, LateTimed, NEW r \in Requests, Expire(r)
    PROVE  \A k \in Conns : Fair(k)
<1> DEFINE c == rconn[r]
           m == [mux[c] EXCEPT !.rd = armReadDeadline(inflight[c], state)]
<1>1. CASE ~mux[c].closed /\ oldestLiveLocked(c, r)
  <2>1. DeadlinePassed(r)
    BY DEF LateTimed, Expire, DeadlinePassed
  <2>2. LateOldest(c)
    BY <1>1, <2>1 DEF oldestLiveLocked, LateOldest
  <2>3. teardownLocked(c, "deadline", TRUE)
    BY <1>1 DEF Expire
  <2> QED
    BY <2>2, <2>3, FairTeardown
<1>2. CASE ~(~mux[c].closed /\ oldestLiveLocked(c, r))
  <2>1. mux' = [mux EXCEPT ![c] = m]
    BY <1>2 DEF Expire
  <2>2. c \in Conns => m.closed = mux[c].closed
    BY FrameFields DEF TypeOK
  <2> HIDE DEF m
  <2> QED
    BY <2>1, <2>2, FairOther
<1> QED
  BY <1>1, <1>2

LEMMA FairReadFail ==
    ASSUME TypeOK, AllSound, NEW c \in Conns, ReadFail(c)
    PROVE  \A k \in Conns : Fair(k)
<1>1. PICK cause \in ReadCause(c) : teardownLocked(c, cause, TRUE)
  BY DEF ReadFail
<1>2. ASSUME cause = "deadline" PROVE LateOldest(c) \/ writer[c].err # "nil"
  <2>1. mux[c].rd # None /\ DeadlinePassed(mux[c].rd)
    BY <1>1, <1>2 DEF ReadCause
  <2>2. Armed(mux[c].rd, inflight[c], writer[c], state)
    BY DEF AllSound, SoundAt, Sound, Lives, ReadFail
  <2> QED
    BY <2>1, <2>2 DEF Armed, Behind, LateOldest
<1> QED
  BY <1>1, <1>2, FairTeardown

LEMMA FairDial ==
    ASSUME TypeOK, AllSound, NEW c \in Conns, DialOK(c) \/ DialFail(c)
    PROVE  \A k \in Conns : Fair(k)
<1>1. CASE \E x : mux' = [mux EXCEPT ![c] = [mux[c] EXCEPT !.dial = x]]
  <2>1. PICK x : mux' = [mux EXCEPT ![c] = [mux[c] EXCEPT !.dial = x]]
    BY <1>1
  <2> DEFINE m == [mux[c] EXCEPT !.dial = x]
  <2>2. m.closed = mux[c].closed
    BY FrameFields DEF TypeOK
  <2>3. mux' = [mux EXCEPT ![c] = m]
    BY <2>1
  <2> HIDE DEF m
  <2> QED
    BY <2>2, <2>3, FairOther
<1>2. CASE DialFail(c) /\ ~mux[c].closed
  <2> DEFINE y == IF root THEN "rootcanceled" ELSE "dial"
             m == [mux[c] EXCEPT !.dial = "gone", !.closed = TRUE, !.wake = TRUE, !.cause = y]
  <2>1. m.cause = y
    BY FrameFields DEF TypeOK
  <2>2. mux' = [mux EXCEPT ![c] = m]
    BY <1>2 DEF DialFail
  <2> HIDE DEF m
  <2> QED
    BY <2>1, <2>2, FairOther
<1> QED
  BY <1>1, <1>2 DEF DialOK, DialFail

LEMMA FairWake ==
    ASSUME TypeOK, AllSound, NEW c \in Conns, NEW x,
           \/ mux' = [mux EXCEPT ![c] = [mux[c] EXCEPT !.wake = x]]
           \/ mux' = [mux EXCEPT ![c] = [mux[c] EXCEPT !.rd = x]]
    PROVE  \A k \in Conns : Fair(k)
<1>1. CASE mux' = [mux EXCEPT ![c] = [mux[c] EXCEPT !.wake = x]]
  <2> DEFINE m == [mux[c] EXCEPT !.wake = x]
  <2>1. m.closed = mux[c].closed /\ mux' = [mux EXCEPT ![c] = m]
    BY <1>1, FrameFields DEF TypeOK
  <2> HIDE DEF m
  <2> QED
    BY <2>1, FairOther
<1>2. CASE mux' = [mux EXCEPT ![c] = [mux[c] EXCEPT !.rd = x]]
  <2> DEFINE m == [mux[c] EXCEPT !.rd = x]
  <2>1. m.closed = mux[c].closed /\ mux' = [mux EXCEPT ![c] = m]
    BY <1>2, FrameFields DEF TypeOK
  <2> HIDE DEF m
  <2> QED
    BY <2>1, FairOther
<1> QED
  BY <1>1, <1>2

LEMMA FairOrphan ==
    ASSUME TypeOK, AllSound, NEW r \in Requests, Orphan(r)
    PROVE  \A k \in Conns : Fair(k)
<1>1. CASE rconn[r] \in Conns
  BY <1>1, FairWake DEF Orphan
<1>2. CASE rconn[r] \notin Conns
  <2>1. \A k \in Conns : mux'[k] = mux[k]
    BY <1>2 DEF Orphan, TypeOK
  <2> QED
    BY <2>1 DEF Fair
<1> QED
  BY <1>1, <1>2

LEMMA FairReadLast ==
    ASSUME TypeOK, AllSound, NEW c \in Conns, ReadLast(c)
    PROVE  \A k \in Conns : Fair(k)
<1> DEFINE q == Tail(inflight[c])
           m == [mux[c] EXCEPT !.served = TRUE, !.closed = Drained(c, q),
                               !.rd = armReadDeadline(q, state)]
<1>1. mux' = [mux EXCEPT ![c] = m] /\ ~mux[c].closed
  BY DEF ReadLast
<1>2. m.cause = mux[c].cause
  BY FrameFields DEF TypeOK
<1> HIDE DEF m
<1> QED
  BY <1>1, <1>2, LiveCause, FairOther

LEMMA FairDrain ==
    ASSUME TypeOK, AllSound, NEW c \in Conns, Drain(c)
    PROVE  \A k \in Conns : Fair(k)
<1>1. CASE mux[c].closed
  BY <1>1 DEF Drain, Fair
<1>2. CASE ~mux[c].closed
  <2> DEFINE m == [mux[c] EXCEPT !.closing = TRUE, !.wake = TRUE,
                                 !.closed = inflight[c] = <<>>]
  <2>1. mux' = [mux EXCEPT ![c] = m]
    BY <1>2 DEF Drain
  <2>2. m.cause = mux[c].cause
    BY FrameFields DEF TypeOK
  <2> HIDE DEF m
  <2> QED
    BY <2>1, <2>2, LiveCause, FairOther
<1> QED
  BY <1>1, <1>2

LEMMA FairPick ==
    ASSUME TypeOK, AllSound, NEW c \in Conns, pickLocked(c)
    PROVE  \A k \in Conns : Fair(k)
<1>1. PICK R : LET mux1 == [k \in Conns |-> IF k \in R
                             THEN [mux[k] EXCEPT !.closed = TRUE, !.wake = TRUE]
                             ELSE mux[k]]
               IN mux' = [mux1 EXCEPT ![c] = NewMux] \/ mux' = mux1
  BY DEF pickLocked
<1>2. NewMux.cause = "nil"
  BY DEF NewMux, NoMux
<1>3. ASSUME NEW k \in Conns, ~mux[k].closed PROVE mux'[k].cause = "nil"
  <2>1. [mux[k] EXCEPT !.closed = TRUE, !.wake = TRUE].cause = "nil" /\ mux[k].cause = "nil"
    BY <1>3, FrameFields, LiveCause DEF TypeOK
  <2> QED
    BY <1>1, <1>2, <2>1
<1> QED
  BY <1>3 DEF Fair

LEMMA FairNext ==
    ASSUME TypeOK, AllSound, LateTimed, [Next]_vars
    PROVE  \A k \in Conns : Fair(k)
<1>0. CASE UNCHANGED mux
  BY <1>0 DEF Fair
<1>1. ASSUME NEW r \in Requests,
             \/ Exchange(r) \/ ExchangeRefused(r) \/ Cancel(r) \/ Deadline(r)
             \/ CallerStep(r)
      PROVE  \A k \in Conns : Fair(k)
  <2>1. CASE Exchange(r)
    BY <2>1, FairPick DEF Exchange
  <2>2. CASE \/ ExchangeRefused(r) \/ Cancel(r) \/ Deadline(r) \/ GiveUpQueued(r)
             \/ GiveUpWriting(r) \/ MissQueued(r) \/ MissWriting(r)
    BY <1>0, <2>2 DEF ExchangeRefused, Cancel, Deadline, GiveUpQueued, GiveUpWriting, MissQueued,
       MissWriting, connVars
  <2> QED
    BY <1>1, <2>1, <2>2, FairExpire, FairOrphan DEF CallerStep
<1>2. ASSUME NEW c \in Conns, WriterStep(c)
      PROVE  \A k \in Conns : Fair(k)
  <2>1. CASE WriterWake(c)
    BY <2>1, FairWake DEF WriterWake
  <2>2. CASE Claim(c)
    BY <2>2, FairWake DEF Claim
  <2>3. CASE WriterFail(c)
    <3>1. teardownLocked(c, writer[c].err, FALSE) /\ writer[c].err # "deadline"
      BY <2>3 DEF WriterFail, TypeOK, WriterFields
    <3> QED
      BY <3>1, FairTeardown
  <2>4. CASE \/ WriterExit(c) \/ Write(c) \/ FlushDone(c) \/ SettleBatch(c) \/ WriterRequeue(c)
             \/ \E part \in BOOLEAN, err \in {"io", "iotimeout"} : FlushFail(c, part, err)
    BY <1>0, <2>4 DEF WriterExit, Write, FlushDone, SettleBatch, WriterRequeue, FlushFail
  <2> QED
    BY <1>2, <2>1, <2>2, <2>3, <2>4, FairDial DEF WriterStep, WriterRuns
<1>3. ASSUME NEW c \in Conns, ReaderStep(c)
      PROVE  \A k \in Conns : Fair(k)
  <2>1. CASE Deliver(c)
    BY <2>1, FairWake DEF Deliver
  <2>2. CASE ReadPart(c) \/ ReaderExit(c)
    BY <1>0, <2>2 DEF ReadPart, ReaderExit
  <2> QED
    BY <1>3, <2>1, <2>2, FairReadLast, FairReadFail DEF ReaderStep
<1>4. ASSUME NEW c \in Conns, TearStep(c) \/ Answer(c) \/ AnswerError(c) \/ Break(c)
      PROVE  \A k \in Conns : Fair(k)
  BY <1>0, <1>4 DEF TearStep, TearSettle, TearDetach, Answer, AnswerError, Break
<1>5. CASE PoolStep
  <2>1. CASE DetachPick
    BY <2>1, FairPick DEF DetachPick
  <2>2. CASE PoolSignal
    <3>1. ptarget \in Conns
      BY <2>2 DEF PoolSignal, TypeOK
    <3> QED
      BY <2>2, <3>1, FairWake DEF PoolSignal, signal
  <2>3. CASE PoolAdd \/ DetachSkip \/ DetachFail
    BY <1>0, <2>3 DEF PoolAdd, DetachSkip, DetachFail, connVars
  <2> QED
    BY <1>5, <2>1, <2>2, <2>3 DEF PoolStep
<1>6. CASE CancelRoot \/ CloseStep
  <2>1. CASE CancelRoot \/ PoolClose
    BY <1>0, <2>1 DEF CancelRoot, PoolClose, connVars
  <2> QED
    BY <1>6, <2>1, FairDrain DEF CloseStep
<1>7. CASE Finished \/ UNCHANGED vars
  BY <1>0, <1>7 DEF Finished, vars, connVars
<1> QED
  BY <1>1, <1>2, <1>3, <1>4, <1>5, <1>6, <1>7 DEF Next

(* A connection that can still write comes down for a missed deadline only *)
(* when every request older than the late one is settled, whether the      *)
(* caller's expire or readLoop's deadline takes it down.                   *)
THEOREM DeadlinesFair == Spec => DeadlineTeardown
<1>1. Init => LateTimed
  BY DEF Init, LateTimed
<1>2. TypeOK /\ LateTimed /\ [Next]_vars => LateTimed'
  BY LateTimedNext
<1>3. TypeOK /\ AllSound /\ LateTimed /\ [Next]_vars
        => [\A c \in Conns :
              ~mux[c].closed /\ mux'[c].closed /\ mux'[c].cause = "deadline"
                 => LateOldest(c) \/ writer[c].err # "nil"]_vars
  BY FairNext DEF Fair
<1> QED
  BY <1>1, <1>2, <1>3, SoundAlways, TypeCorrect, PTL DEF Spec, DeadlineTeardown

=============================================================================
