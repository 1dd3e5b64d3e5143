----------------------------- MODULE WireProofs -----------------------------
(***************************************************************************)
(* Proofs about Wire, for any commands, keys, values, lengths and faults.  *)
(***************************************************************************)
EXTENDS Wire, FiniteSetTheorems, SequenceTheorems, WellFoundedInduction, TLAPS

-----------------------------------------------------------------------------
(* Induction on sets of numbers *)

LEMMA AllNaturals ==
    ASSUME NEW T \in SUBSET Nat, 0 \in T, \A n \in T : n + 1 \in T
    PROVE  T = Nat
<1> DEFINE R == OpToRel(<, Nat)
<1>1. IsWellFoundedOn(R, Nat)
  BY NatLessThanWellFounded
<1>2. \A x, y \in Nat : x < y => <<x, y>> \in R
  BY DEF OpToRel
<1> HIDE DEF R
<1>3. ASSUME Nat \ T # {} PROVE FALSE
  <2>1. PICK x \in Nat \ T : \A y \in Nat \ T : ~(<<y, x>> \in R)
    BY <1>1, <1>3, WFMin
  <2>2. x # 0 /\ x - 1 \in Nat /\ x - 1 < x /\ (x - 1) + 1 = x
    OBVIOUS
  <2>3. x - 1 \in T
    BY <1>2, <2>1, <2>2
  <2> QED
    BY <2>2, <2>3
<1> QED
  BY <1>3

LEMMA UpTo ==
    ASSUME NEW n \in Nat, NEW T, 0 \in T, \A k \in 0..(n - 1) : k \in T => k + 1 \in T
    PROVE  \A k \in 0..n : k \in T
<1> DEFINE U == {k \in Nat : k <= n => k \in T}
<1>1. 0 \in U
  OBVIOUS
<1>2. ASSUME NEW k \in U PROVE k + 1 \in U
  <2>1. CASE k + 1 <= n
    <3>1. k \in 0..(n - 1) /\ k <= n
      BY <2>1
    <3> QED
      BY <3>1
  <2> QED
    BY <2>1
<1>3. U = Nat
  <2> HIDE DEF U
  <2>1. U \in SUBSET Nat
    BY DEF U
  <2> QED
    BY <1>1, <1>2, <2>1, AllNaturals
<1> QED
  BY <1>3

(* p climbs: what lies higher comes later. *)
LEMMA Climbs ==
    ASSUME NEW n \in Nat, NEW p, \A i \in 1..n : p[i] \in Nat,
           \A i \in 1..(n - 1) : p[i] < p[i + 1]
    PROVE  \A i, j \in 1..n : i < j => p[i] < p[j]
<1> DEFINE T == {k \in Nat : \A i \in 1..n : k + 1 <= n /\ i < k + 1 => p[i] < p[k + 1]}
<1>1. 0 \in T
  OBVIOUS
<1>2. ASSUME NEW k \in T PROVE k + 1 \in T
  <2>1. ASSUME NEW i \in 1..n, k + 2 <= n, i < k + 2 PROVE p[i] < p[k + 2]
    <3>1. k + 1 \in 1..(n - 1) /\ k + 1 \in 1..n /\ k + 2 \in 1..n /\ (k + 1) + 1 = k + 2
      BY <2>1
    <3>2. p[k + 1] < p[k + 2] /\ p[k + 1] \in Nat /\ p[k + 2] \in Nat /\ p[i] \in Nat
      BY <3>1
    <3>3. CASE i = k + 1
      BY <3>2, <3>3
    <3>4. CASE i < k + 1
      <4>1. p[i] < p[k + 1]
        BY <3>1, <3>4
      <4> QED
        BY <3>2, <4>1
    <3> QED
      BY <2>1, <3>3, <3>4
  <2>2. k + 1 \in Nat /\ (k + 1) + 1 = k + 2
    OBVIOUS
  <2> QED
    BY <2>1, <2>2
<1>3. T = Nat
  <2> HIDE DEF T
  <2>1. T \in SUBSET Nat
    BY DEF T
  <2> QED
    BY <1>1, <1>2, <2>1, AllNaturals
<1>4. ASSUME NEW i \in 1..n, NEW j \in 1..n, i < j PROVE p[i] < p[j]
  <2>1. j - 1 \in Nat /\ (j - 1) + 1 = j
    OBVIOUS
  <2>2. j - 1 \in T
    <3> HIDE DEF T
    <3> QED
      BY <1>3, <2>1
  <2> QED
    BY <1>4, <2>1, <2>2
<1> QED
  BY <1>4

(* Whatever lies behind the first step lies on some step. *)
LEMMA Covers ==
    ASSUME NEW n \in Nat, n # 0, NEW p, \A i \in 1..n : p[i] \in Nat,
           NEW x \in Nat, p[1] <= x
    PROVE  \E i \in 1..n : p[i] <= x /\ (i = n \/ x < p[i + 1])
<1>1. SUFFICES ASSUME \A i \in 1..n : p[i] <= x => i # n /\ ~(x < p[i + 1])
               PROVE  FALSE
  OBVIOUS
<1> DEFINE T == {k \in Nat : k + 1 \in 1..n => p[k + 1] <= x}
<1>2. 0 \in T
  OBVIOUS
<1>3. ASSUME NEW k \in T PROVE k + 1 \in T
  <2>1. CASE (k + 1) + 1 \in 1..n
    <3>1. k + 1 \in 1..n
      BY <2>1
    <3>2. ~(x < p[(k + 1) + 1])
      BY <1>1, <3>1
    <3> QED
      BY <2>1, <3>2
  <2> QED
    BY <2>1
<1>4. T = Nat
  <2> HIDE DEF T
  <2>1. T \in SUBSET Nat
    BY DEF T
  <2> QED
    BY <1>2, <1>3, <2>1, AllNaturals
<1>5. n - 1 \in Nat /\ (n - 1) + 1 = n /\ n \in 1..n
  OBVIOUS
<1>6. p[n] <= x
  BY <1>4, <1>5
<1> QED
  BY <1>1, <1>5, <1>6

-----------------------------------------------------------------------------
(* Joined: where its words are *)

(* The strings; those that the protocol spells out are named again, as no  *)
(* prover knows that a literal is a string.                                *)
Atoms == STRING \cup {Sp, Cr, Lf, "a", "b", "c", "k", "none"} \cup Ops
         \cup {"VA", "HD", "EN", "NS", "NF", "ME", "MN", "ERROR", "SERVER_ERROR"}

Texts == Seq(Atoms)

LEMMA StringTexts == Seq(STRING) \subseteq Texts
<1>1. \A s \in Seq(STRING) : s \in Seq(Atoms)
  <2>1. \A x \in STRING : x \in Atoms
    BY DEF Atoms
  <2> HIDE DEF Atoms
  <2>2. ASSUME NEW s \in Seq(STRING) PROVE s \in Seq(Atoms)
    <3>1. Len(s) \in Nat /\ s = [i \in 1..Len(s) |-> s[i]] /\ \A i \in 1..Len(s) : s[i] \in STRING
      OBVIOUS
    <3>2. \A i \in 1..Len(s) : s[i] \in Atoms
      BY <2>1, <3>1
    <3>3. s \in [1..Len(s) -> Atoms]
      BY <3>1, <3>2
    <3> QED
      BY <3>1, <3>3
  <2> QED
    BY <2>2
<1> QED
  BY <1>1 DEF Texts

LEMMA JoinTexts ==
    ASSUME NEW s \in Texts, NEW t \in Texts
    PROVE  /\ s \o t \in Texts /\ Len(s \o t) = Len(s) + Len(t)
           /\ \A i \in 1..Len(s) : (s \o t)[i] = s[i]
           /\ \A i \in 1..Len(t) : (s \o t)[Len(s) + i] = t[i]
<1>1. s \in Seq(Atoms) /\ t \in Seq(Atoms)
  BY DEF Texts
<1>2. /\ s \o t \in Seq(Atoms) /\ Len(s \o t) = Len(s) + Len(t)
      /\ \A i \in 1..(Len(s) + Len(t)) : (s \o t)[i] = IF i <= Len(s) THEN s[i] ELSE t[i - Len(s)]
  BY <1>1, ConcatProperties
<1>3. Len(s) \in Nat /\ Len(t) \in Nat
  BY <1>1
<1>4. ASSUME NEW i \in 1..Len(t) PROVE (s \o t)[Len(s) + i] = t[i]
  <2>1. Len(s) + i \in 1..(Len(s) + Len(t)) /\ ~(Len(s) + i <= Len(s)) /\ Len(s) + i - Len(s) = i
    BY <1>3
  <2> QED
    BY <1>2, <2>1
<1>5. ASSUME NEW i \in 1..Len(s) PROVE (s \o t)[i] = s[i]
  BY <1>2, <1>3
<1> QED
  BY <1>2, <1>4, <1>5 DEF Texts

(* The function that FlattenSeq is made of. *)
Flattens(f, s, n) == f = [i \in 1..n |-> IF i = 1 THEN s[i] ELSE f[i - 1] \o s[i]]

LEMMA FlattensExists ==
    ASSUME NEW s, NEW n \in Nat
    PROVE  \E f : Flattens(f, s, n)
<1> DEFINE T == {k \in Nat : \E f : Flattens(f, s, k)}
<1>1. 0 \in T
  <2>1. Flattens(<<>>, s, 0)
    BY DEF Flattens
  <2> QED
    BY <2>1
<1>2. ASSUME NEW k \in T PROVE k + 1 \in T
  <2>1. PICK f : Flattens(f, s, k)
    OBVIOUS
  <2> DEFINE e(i) == IF i = 1 THEN s[i] ELSE f[i - 1] \o s[i]
  <2>2. \A i \in 1..k : f[i] = e(i)
    BY <2>1 DEF Flattens
  <2> DEFINE g == [i \in 1..(k + 1) |-> e(i)]
  <2>3. \A i \in 1..k : g[i] = f[i]
    BY <2>2
  <2>4. ASSUME NEW i \in 1..(k + 1) PROVE g[i] = IF i = 1 THEN s[i] ELSE g[i - 1] \o s[i]
    <3>1. g[i] = e(i)
      OBVIOUS
    <3>2. CASE i # 1
      <4>1. i - 1 \in 1..k
        BY <3>2
      <4>2. g[i - 1] = f[i - 1]
        BY <2>3, <4>1
      <4> HIDE DEF g
      <4> QED
        BY <3>1, <3>2, <4>2
    <3> QED
      BY <3>1, <3>2
  <2>5. Flattens(g, s, k + 1)
    <3>1. g = [i \in 1..(k + 1) |-> g[i]]
      OBVIOUS
    <3> HIDE DEF g
    <3>2. g = [i \in 1..(k + 1) |-> IF i = 1 THEN s[i] ELSE g[i - 1] \o s[i]]
      BY <2>4, <3>1
    <3> QED
      BY <3>2 DEF Flattens
  <2> QED
    BY <2>5
<1>3. T = Nat
  <2> HIDE DEF T
  <2>1. T \in SUBSET Nat
    BY DEF T
  <2> QED
    BY <1>1, <1>2, <2>1, AllNaturals
<1> QED
  BY <1>3

LEMMA FlattenSeqIs ==
    ASSUME NEW s, Len(s) \in Nat, Len(s) # 0
    PROVE  \E f : Flattens(f, s, Len(s)) /\ FlattenSeq(s) = f[Len(s)]
<1> DEFINE f == CHOOSE f : Flattens(f, s, Len(s))
<1>1. Flattens(f, s, Len(s))
  <2>1. \E g : Flattens(g, s, Len(s))
    BY FlattensExists
  <2> QED
    BY <2>1
<1>2. FlattenSeq(s) = f[Len(s)]
  BY DEF FlattenSeq, Flattens
<1> QED
  BY <1>1, <1>2

(* p[i] is where the space before the i-th of ws stands in t. *)
Layout(ws, p, t) ==
    /\ \A i \in 1..(Len(ws) + 1) : p[i] \in Nat
    /\ p[1] = 1 /\ p[Len(ws) + 1] = Len(t) + 1
    /\ \A i \in 1..Len(ws) :
        /\ p[i + 1] = p[i] + Len(ws[i]) + 1
        /\ t[p[i]] = Sp
        /\ \A j \in 1..Len(ws[i]) : t[p[i] + j] = ws[i][j]

LEMMA SpacedWord ==
    ASSUME NEW w \in Texts
    PROVE  /\ <<Sp>> \o w \in Texts /\ Len(<<Sp>> \o w) = Len(w) + 1 /\ (<<Sp>> \o w)[1] = Sp
           /\ \A j \in 1..Len(w) : (<<Sp>> \o w)[1 + j] = w[j]
<1>1. PICK s \in Texts : s = <<Sp>> /\ Len(s) = 1 /\ s[1] = Sp
  <2>1. Sp \in Atoms
    BY DEF Atoms
  <2>2. <<Sp>> \in Texts /\ Len(<<Sp>>) = 1 /\ <<Sp>>[1] = Sp
    BY <2>1 DEF Texts
  <2> QED
    BY <2>2
<1>2. Len(w) \in Nat
  BY DEF Texts
<1>3. /\ s \o w \in Texts /\ Len(s \o w) = Len(s) + Len(w)
      /\ \A i \in 1..Len(s) : (s \o w)[i] = s[i]
      /\ \A i \in 1..Len(w) : (s \o w)[Len(s) + i] = w[i]
  BY JoinTexts
<1> QED
  BY <1>1, <1>2, <1>3

(* The first k words, spaced, are the beginning of all of them. *)
LEMMA FlattenGrows ==
    ASSUME NEW s, NEW n \in Nat, \A i \in 1..n : s[i] \in Texts, NEW f, Flattens(f, s, n)
    PROVE  /\ \A k \in 1..n : f[k] \in Texts
           /\ n > 0 => f[1] = s[1]
           /\ \A k \in 2..n : f[k] = f[k - 1] \o s[k]
<1>1. \A i \in 1..n : f[i] = IF i = 1 THEN s[i] ELSE f[i - 1] \o s[i]
  BY DEF Flattens
<1>2. /\ n > 0 => f[1] = s[1]
      /\ \A k \in 2..n : f[k] = f[k - 1] \o s[k]
  <2>1. ASSUME NEW k \in 2..n PROVE f[k] = f[k - 1] \o s[k]
    <3>1. k \in 1..n /\ k # 1
      OBVIOUS
    <3> QED
      BY <1>1, <3>1
  <2>2. ASSUME n > 0 PROVE f[1] = s[1]
    <3>1. 1 \in 1..n
      BY <2>2
    <3> QED
      BY <1>1, <3>1
  <2> QED
    BY <2>1, <2>2
<1>3. \A k \in 1..n : f[k] \in Texts
  <2> DEFINE T == {k \in Nat : k + 1 \in 1..n => f[k + 1] \in Texts}
  <2>1. 0 \in T
    BY <1>2
  <2>2. ASSUME NEW k \in T PROVE k + 1 \in T
    <3>1. CASE k + 2 \in 1..n
      <4>1. k + 1 \in 1..n /\ k + 2 \in 2..n /\ (k + 2) - 1 = k + 1
        BY <3>1
      <4>2. f[k + 1] \in Texts /\ s[k + 2] \in Texts
        BY <3>1, <4>1
      <4>3. f[k + 2] = f[k + 1] \o s[k + 2]
        BY <1>2, <4>1
      <4>4. f[k + 2] \in Texts
        BY <4>2, <4>3, JoinTexts
      <4> QED
        BY <4>4
    <3> QED
      BY <3>1
  <2>3. T = Nat
    <3> HIDE DEF T
    <3>1. T \in SUBSET Nat
      BY DEF T
    <3> QED
      BY <2>1, <2>2, <3>1, AllNaturals
  <2>4. ASSUME NEW k \in 1..n PROVE f[k] \in Texts
    <3>1. k - 1 \in Nat /\ (k - 1) + 1 = k
      OBVIOUS
    <3>2. k - 1 \in T
      <4> HIDE DEF T
      <4> QED
        BY <2>3, <3>1
    <3> QED
      BY <3>1, <3>2
  <2> QED
    BY <2>4
<1> QED
  BY <1>2, <1>3

Begins(u, v) == Len(u) <= Len(v) /\ \A j \in 1..Len(u) : v[j] = u[j]

LEMMA FlattenBegins ==
    ASSUME NEW s, NEW n \in Nat, \A i \in 1..n : s[i] \in Texts, NEW f, Flattens(f, s, n),
           NEW k \in 1..n
    PROVE  Begins(f[k], f[n])
<1>2. \A m \in 2..n : f[m] = f[m - 1] \o s[m]
  BY FlattenGrows
<1>3. \A m \in 1..n : f[m] \in Texts
  BY FlattenGrows
<1>4. Len(f[k]) <= Len(f[n]) /\ \A j \in 1..Len(f[k]) : f[n][j] = f[k][j]
  <2> DEFINE Bgn(m) == Len(f[k]) <= Len(f[m]) /\ \A j \in 1..Len(f[k]) : f[m][j] = f[k][j]
             T == {d \in Nat : k + d \in 1..n => Bgn(k + d)}
  <2>0. Len(f[k]) \in Nat
    BY <1>3 DEF Texts
  <2>1. 0 \in T
    BY <2>0
  <2>2. ASSUME NEW d \in T PROVE d + 1 \in T
    <3>1. CASE k + (d + 1) \in 1..n
      <4>1. PICK m : m = k + d
        OBVIOUS
      <4>2. m \in 1..n /\ m + 1 \in 2..n /\ m + 1 = k + (d + 1) /\ (m + 1) - 1 = m
        BY <3>1, <4>1
      <4>3. Bgn(m)
        BY <4>1, <4>2
      <4>4. PICK u \in Texts, v \in Texts : u = f[m] /\ v = s[m + 1] /\ f[m + 1] = u \o v
        <5>1. f[m] \in Texts /\ s[m + 1] \in Texts
          BY <1>3, <4>2
        <5>2. f[m + 1] = f[(m + 1) - 1] \o s[m + 1]
          BY <1>2, <4>2
        <5> QED
          BY <4>2, <5>1, <5>2
      <4>5. /\ Len(f[m + 1]) = Len(u) + Len(v)
            /\ \A j \in 1..Len(u) : f[m + 1][j] = u[j]
        <5>1. Len(u \o v) = Len(u) + Len(v) /\ \A j \in 1..Len(u) : (u \o v)[j] = u[j]
          BY JoinTexts
        <5> QED
          BY <4>4, <5>1
      <4>6. Len(u) \in Nat /\ Len(v) \in Nat
        BY DEF Texts
      <4>7. Bgn(m + 1)
        <5>1. Len(f[k]) <= Len(u) /\ \A j \in 1..Len(f[k]) : u[j] = f[k][j]
          BY <4>3, <4>4
        <5>2. Len(f[k]) <= Len(f[m + 1])
          BY <2>0, <4>5, <4>6, <5>1
        <5>3. ASSUME NEW j \in 1..Len(f[k]) PROVE f[m + 1][j] = f[k][j]
          <6>1. j \in 1..Len(u)
            BY <2>0, <4>6, <5>1
          <6> QED
            BY <4>5, <5>1, <6>1
        <5> QED
          BY <5>2, <5>3
      <4>8. Bgn(k + (d + 1))
        <5> HIDE DEF Bgn
        <5> QED
          BY <4>2, <4>7
      <4> QED
        BY <4>8
    <3> QED
      BY <3>1
  <2>3. T = Nat
    <3> HIDE DEF T
    <3>1. T \in SUBSET Nat
      BY DEF T
    <3> QED
      BY <2>1, <2>2, <3>1, AllNaturals
  <2>4. n - k \in Nat /\ k + (n - k) = n
    OBVIOUS
  <2>5. n - k \in T
    <3> HIDE DEF T
    <3> QED
      BY <2>3, <2>4
  <2>6. n \in 1..n
    OBVIOUS
  <2> QED
    BY <2>4, <2>5, <2>6
<1> QED
  BY <1>4 DEF Begins

LEMMA SpacedLaid ==
    ASSUME NEW ws \in Seq(Texts), ws # <<>>,
           NEW t, t = FlattenSeq([i \in DOMAIN ws |-> <<Sp>> \o ws[i]])
    PROVE  t \in Texts /\ \E p : Layout(ws, p, t)
<1> DEFINE s == [i \in DOMAIN ws |-> <<Sp>> \o ws[i]]
<1>1. PICK n \in Nat : n = Len(ws) /\ n # 0 /\ DOMAIN ws = 1..n
  OBVIOUS
<1>2. \A i \in 1..n : ws[i] \in Texts /\ Len(ws[i]) \in Nat
  BY <1>1 DEF Texts
<1>3. \A i \in 1..n : s[i] = <<Sp>> \o ws[i]
  BY <1>1
<1>4. \A i \in 1..n : /\ s[i] \in Texts /\ Len(s[i]) = Len(ws[i]) + 1 /\ s[i][1] = Sp
                      /\ \A j \in 1..Len(ws[i]) : s[i][1 + j] = ws[i][j]
  <2> HIDE DEF s
  <2>1. ASSUME NEW i \in 1..n
        PROVE  /\ s[i] \in Texts /\ Len(s[i]) = Len(ws[i]) + 1 /\ s[i][1] = Sp
               /\ \A j \in 1..Len(ws[i]) : s[i][1 + j] = ws[i][j]
    <3>1. PICK w \in Texts : w = ws[i]
      BY <1>2
    <3>2. s[i] = <<Sp>> \o w
      BY <1>3, <3>1
    <3>3. /\ <<Sp>> \o w \in Texts /\ Len(<<Sp>> \o w) = Len(w) + 1 /\ (<<Sp>> \o w)[1] = Sp
          /\ \A j \in 1..Len(w) : (<<Sp>> \o w)[1 + j] = w[j]
      BY SpacedWord
    <3> QED
      BY <3>1, <3>2, <3>3
  <2> QED
    BY <2>1
<1>5. Len(s) = n
  <2>1. DOMAIN s = 1..n /\ s = [i \in 1..n |-> s[i]]
    BY <1>1
  <2> HIDE DEF s
  <2>2. \A i \in 1..n : s[i] \in Texts
    BY <1>4
  <2>3. s \in [1..n -> Texts]
    BY <2>1, <2>2
  <2>4. s \in Seq(Texts)
    BY <2>3
  <2> QED
    BY <2>1, <2>4
<1> HIDE DEF s
<1>6. PICK f : Flattens(f, s, n) /\ FlattenSeq(s) = f[n]
  BY <1>1, <1>5, FlattenSeqIs
<1>7. t = f[n]
  BY <1>6 DEF s
<1>8. /\ \A k \in 1..n : f[k] \in Texts /\ Len(f[k]) \in Nat
      /\ f[1] = s[1]
      /\ \A k \in 2..n : f[k] = f[k - 1] \o s[k]
      /\ \A k \in 1..n : /\ Len(f[k]) <= Len(f[n])
                         /\ \A j \in 1..Len(f[k]) : f[n][j] = f[k][j]
  <2>0. \A i \in 1..n : s[i] \in Texts
    BY <1>4
  <2>a. Flattens(f, s, n)
    BY <1>6
  <2>1. \A k \in 1..n : f[k] \in Texts
    BY <2>a, <2>0, FlattenGrows
  <2>4. n > 0 => f[1] = s[1]
    <3>1. n > 0 => 1 \in 1..n
      OBVIOUS
    <3>2. \A k \in 1..n : f[k] = IF k = 1 THEN s[k] ELSE f[k - 1] \o s[k]
      BY <2>a DEF Flattens
    <3> QED
      BY <3>1, <3>2
  <2>5. \A k \in 2..n : f[k] = f[k - 1] \o s[k]
    BY <2>a, <2>0, FlattenGrows
  <2>6. \A k \in 1..n : /\ Len(f[k]) <= Len(f[n])
                        /\ \A j \in 1..Len(f[k]) : f[n][j] = f[k][j]
    <3>1. ASSUME NEW k \in 1..n PROVE Begins(f[k], f[n])
      BY <2>a, <2>0, FlattenBegins
    <3> QED
      BY <3>1 DEF Begins
  <2>2. \A k \in 1..n : Len(f[k]) \in Nat
    BY <2>1 DEF Texts
  <2>3. n > 0
    BY <1>1
  <2> QED
    BY <2>1, <2>2, <2>3, <2>4, <2>5, <2>6
<1>9. PICK p : p = [i \in 1..(n + 1) |-> IF i = 1 THEN 1 ELSE Len(f[i - 1]) + 1]
  OBVIOUS
<1>10. p[1] = 1 /\ \A i \in 1..n : p[i + 1] = Len(f[i]) + 1
  <2>1. 1 \in 1..(n + 1)
    OBVIOUS
  <2>2. ASSUME NEW i \in 1..n PROVE p[i + 1] = Len(f[i]) + 1
    <3>1. i + 1 \in 1..(n + 1) /\ i + 1 # 1 /\ (i + 1) - 1 = i
      OBVIOUS
    <3> QED
      BY <1>9, <3>1
  <2> QED
    BY <1>9, <2>1, <2>2
<1>11. \A i \in 1..(n + 1) : p[i] \in Nat
  <2>1. ASSUME NEW i \in 1..(n + 1) PROVE p[i] \in Nat
    <3>1. CASE i # 1
      <4>1. PICK k \in 1..n : k = i - 1 /\ k + 1 = i
        BY <3>1
      <4>2. p[k + 1] = Len(f[k]) + 1 /\ Len(f[k]) \in Nat
        BY <1>8, <1>10
      <4> QED
        BY <4>1, <4>2
    <3> QED
      BY <1>10, <3>1
  <2> QED
    BY <2>1
<1>12. ASSUME NEW i \in 1..n
       PROVE  /\ p[i + 1] = p[i] + Len(ws[i]) + 1
              /\ \A j \in 1..Len(s[i]) : t[(p[i] - 1) + j] = s[i][j]
  <2>1. Len(s[i]) = Len(ws[i]) + 1 /\ Len(ws[i]) \in Nat /\ s[i] \in Texts
    BY <1>2, <1>4
  <2>2. CASE i = 1
    <3>1. p[2] = Len(s[1]) + 1 /\ f[1] = s[1]
      BY <1>8, <1>10, <2>2
    <3>2. \A j \in 1..Len(s[1]) : t[j] = s[1][j]
      BY <1>7, <1>8, <2>2
    <3>3. p[i] = 1 /\ p[i + 1] = Len(s[1]) + 1
      BY <1>10, <2>2, <3>1
    <3>4. ASSUME NEW j \in 1..Len(s[i]) PROVE t[(p[i] - 1) + j] = s[i][j]
      <4>1. (p[i] - 1) + j = j
        BY <3>3
      <4> QED
        BY <2>2, <3>2, <4>1
    <3>5. p[i + 1] = p[i] + Len(ws[i]) + 1
      <4>1. Len(s[1]) = Len(ws[i]) + 1
        BY <2>1, <2>2
      <4> QED
        BY <2>1, <3>3, <4>1
    <3> QED
      BY <3>4, <3>5
  <2>3. CASE i # 1
    <3>1. PICK k \in 1..n : k = i - 1 /\ k + 1 = i /\ i \in 2..n
      BY <2>3
    <3>2. PICK u \in Texts, v \in Texts : u = f[k] /\ v = s[i] /\ f[i] = u \o v
      BY <1>8, <2>1, <3>1
    <3>3. /\ Len(f[i]) = Len(u) + Len(v)
          /\ \A j \in 1..Len(v) : f[i][Len(u) + j] = v[j]
      <4>1. Len(u \o v) = Len(u) + Len(v) /\ \A j \in 1..Len(v) : (u \o v)[Len(u) + j] = v[j]
        BY JoinTexts
      <4> QED
        BY <3>2, <4>1
    <3>4. p[k + 1] = Len(u) + 1 /\ p[i + 1] = Len(f[i]) + 1
      BY <1>10, <3>1, <3>2
    <3>5. PICK a \in Nat, b \in Nat, c \in Nat : a = Len(u) /\ b = Len(v) /\ c = Len(ws[i]) /\ b = c + 1
      BY <2>1, <3>2 DEF Texts
    <3>6. p[i] = a + 1 /\ p[i + 1] = a + b + 1 /\ Len(f[i]) = a + b
      BY <3>1, <3>3, <3>4, <3>5
    <3>7. ASSUME NEW j \in 1..b PROVE t[(p[i] - 1) + j] = v[j]
      <4>1. (p[i] - 1) + j = a + j /\ a + j \in 1..Len(f[i])
        BY <3>6
      <4>2. t[a + j] = f[i][a + j]
        BY <1>7, <1>8, <4>1
      <4> QED
        BY <3>3, <3>5, <4>1, <4>2
    <3>8. \A j \in 1..Len(s[i]) : t[(p[i] - 1) + j] = s[i][j]
      BY <3>2, <3>5, <3>7
    <3>9. p[i + 1] = p[i] + Len(ws[i]) + 1
      <4>1. ASSUME NEW x \in Nat, NEW y \in Nat, NEW z \in Nat, y = z + 1
            PROVE  x + y + 1 = (x + 1) + z + 1
        BY <4>1
      <4>2. b = c + 1
        BY <3>5
      <4>3. a + b + 1 = (a + 1) + c + 1
        BY <4>1, <4>2
      <4> QED
        BY <3>5, <3>6, <4>3
    <3> QED
      BY <3>8, <3>9
  <2> QED
    BY <2>2, <2>3
<1>13. ASSUME NEW i \in 1..n
       PROVE  t[p[i]] = Sp /\ \A j \in 1..Len(ws[i]) : t[p[i] + j] = ws[i][j]
  <2>1. i \in 1..(n + 1)
    OBVIOUS
  <2>2. p[i] \in Nat /\ Len(ws[i]) \in Nat /\ Len(s[i]) = Len(ws[i]) + 1
    BY <1>2, <1>4, <1>11, <2>1
  <2>3. 1 \in 1..Len(s[i]) /\ (p[i] - 1) + 1 = p[i]
    BY <2>2
  <2>4. t[p[i]] = Sp
    BY <1>4, <1>12, <2>3
  <2>5. ASSUME NEW j \in 1..Len(ws[i]) PROVE t[p[i] + j] = ws[i][j]
    <3>1. 1 + j \in 1..Len(s[i]) /\ (p[i] - 1) + (1 + j) = p[i] + j
      BY <2>2
    <3>2. t[(p[i] - 1) + (1 + j)] = s[i][1 + j]
      BY <1>12, <3>1
    <3> QED
      BY <1>4, <3>1, <3>2
  <2> QED
    BY <2>4, <2>5
<1>14. n \in 1..n
  BY <1>1
<1>15. Layout(ws, p, t)
  <2>1. p[n + 1] = Len(t) + 1
    BY <1>7, <1>10, <1>14
  <2> QED
    BY <1>1, <1>10, <1>11, <1>12, <1>13, <2>1 DEF Layout
<1> QED
  BY <1>7, <1>8, <1>14, <1>15

-----------------------------------------------------------------------------
(* asciiFields: the words of a joined line *)

(* q[i] is where the i-th of ws begins in line. *)
Placed(ws, q, line) ==
    /\ \A i \in 1..(Len(ws) + 1) : q[i] \in Nat
    /\ q[1] = 1 /\ q[Len(ws) + 1] = Len(line) + 2
    /\ \A i \in 1..Len(ws) : q[i + 1] = q[i] + Len(ws[i]) + 1
    /\ \A i \in 1..(Len(ws) - 1) : line[q[i + 1] - 1] = Sp
    /\ \A i \in 1..Len(ws) : \A j \in 1..Len(ws[i]) : line[q[i] - 1 + j] = ws[i][j]

LEMMA JoinedPlaced ==
    ASSUME NEW ws \in Seq(Texts), ws # <<>>
    PROVE  Joined(ws) \in Texts /\ \E q : Placed(ws, q, Joined(ws))
<1>1. PICK t : t = FlattenSeq([i \in DOMAIN ws |-> <<Sp>> \o ws[i]])
  OBVIOUS
<1>2. PICK p : t \in Texts /\ Layout(ws, p, t)
  BY <1>1, SpacedLaid
<1>3. PICK line : line = Tail(t) /\ line = Joined(ws)
  BY <1>1 DEF Joined
<1>4. PICK n \in Nat : n = Len(ws) /\ n # 0
  OBVIOUS
<1>5. \A i \in 1..n : ws[i] \in Texts /\ Len(ws[i]) \in Nat
  BY <1>4 DEF Texts
<1>6. /\ \A i \in 1..(n + 1) : p[i] \in Nat
      /\ p[1] = 1 /\ p[n + 1] = Len(t) + 1
      /\ \A i \in 1..n : /\ p[i + 1] = p[i] + Len(ws[i]) + 1
                         /\ t[p[i]] = Sp
                         /\ \A j \in 1..Len(ws[i]) : t[p[i] + j] = ws[i][j]
  BY <1>2, <1>4 DEF Layout
<1>7. ASSUME NEW i \in 1..n PROVE p[i] < p[i + 1] /\ p[i] \in Nat /\ p[i + 1] \in Nat
  <2>1. PICK x \in Nat, y \in Nat, l \in Nat : x = p[i] /\ y = p[i + 1] /\ l = Len(ws[i])
    <3>1. i \in 1..(n + 1) /\ i + 1 \in 1..(n + 1)
      OBVIOUS
    <3> QED
      BY <1>5, <1>6, <3>1
  <2>2. y = x + l + 1
    BY <1>6, <2>1
  <2> QED
    BY <2>1, <2>2
<1>8. \A i, j \in 1..(n + 1) : i < j => p[i] < p[j]
  <2>1. n + 1 \in Nat /\ (n + 1) - 1 = n
    OBVIOUS
  <2>2. \A i \in 1..((n + 1) - 1) : p[i] < p[i + 1]
    BY <1>7, <2>1
  <2> QED
    BY <1>6, <2>1, <2>2, Climbs
<1>9. Len(t) \in Nat /\ Len(t) > 0
  <2>1. 1 \in 1..(n + 1) /\ n + 1 \in 1..(n + 1) /\ 1 < n + 1
    BY <1>4
  <2>2. p[1] < p[n + 1]
    BY <1>8, <2>1
  <2>3. Len(t) \in Nat
    BY <1>2 DEF Texts
  <2> QED
    BY <1>6, <2>2, <2>3
<1>10. line \in Texts /\ Len(line) = Len(t) - 1 /\ \A j \in 1..Len(line) : line[j] = t[j + 1]
  <2>1. t \in Seq(Atoms) /\ t # <<>>
    BY <1>2, <1>9 DEF Texts
  <2>2. Tail(t) \in Seq(Atoms) /\ Len(Tail(t)) = Len(t) - 1
        /\ \A j \in 1..Len(Tail(t)) : Tail(t)[j] = t[j + 1]
    BY <2>1
  <2> QED
    BY <1>3, <2>2 DEF Texts
<1>11. \A i \in 1..(n + 1) : p[i] >= 1 /\ p[i] <= p[n + 1]
  <2>1. ASSUME NEW i \in 1..(n + 1) PROVE p[i] >= 1 /\ p[i] <= p[n + 1]
    <3>1. 1 \in 1..(n + 1) /\ n + 1 \in 1..(n + 1)
      BY <1>4
    <3>2. i = 1 \/ p[1] < p[i]
      BY <1>8, <3>1
    <3>3. i = n + 1 \/ p[i] < p[n + 1]
      BY <1>8, <3>1
    <3> QED
      BY <1>6, <3>1, <3>2, <3>3
  <2> QED
    BY <2>1
<1>12. \A i \in 1..(n - 1) : line[p[i + 1] - 1] = Sp
  <2>1. ASSUME NEW i \in 1..(n - 1) PROVE line[p[i + 1] - 1] = Sp
    <3>1. i \in 1..n /\ i + 1 \in 1..n /\ i + 1 \in 1..(n + 1) /\ 1 \in 1..(n + 1) /\ n + 1 \in 1..(n + 1)
      BY <1>4
    <3>2. p[1] < p[i + 1] /\ p[i + 1] < p[n + 1]
      BY <1>8, <3>1
    <3>3. PICK x \in Nat : x = p[i + 1]
      BY <1>6, <3>1
    <3>4. 1 < x /\ x < Len(t) + 1
      BY <1>6, <3>2, <3>3
    <3>5. x - 1 \in 1..Len(line) /\ (x - 1) + 1 = x
      BY <1>9, <1>10, <3>4
    <3>6. line[x - 1] = t[x]
      BY <1>10, <3>5
    <3> QED
      BY <1>6, <3>1, <3>3, <3>6
  <2> QED
    BY <2>1
<1>13. \A i \in 1..n : \A j \in 1..Len(ws[i]) : line[p[i] - 1 + j] = ws[i][j]
  <2>1. ASSUME NEW i \in 1..n, NEW j \in 1..Len(ws[i]) PROVE line[p[i] - 1 + j] = ws[i][j]
    <3>1. i \in 1..(n + 1) /\ i + 1 \in 1..(n + 1)
      OBVIOUS
    <3>2. PICK x \in Nat, l \in Nat : x = p[i] /\ l = Len(ws[i])
      BY <1>5, <1>6, <3>1
    <3>3. x >= 1 /\ p[i + 1] <= Len(t) + 1 /\ p[i + 1] = x + l + 1
      BY <1>6, <1>11, <3>1, <3>2
    <3>4. x - 1 + j \in 1..Len(line) /\ (x - 1 + j) + 1 = x + j
      <4>1. PICK y \in Nat, m \in Nat : y = Len(t) /\ m = Len(line) /\ m = y - 1
        BY <1>9, <1>10
      <4>2. x + l + 1 <= y + 1 /\ j \in 1..l
        BY <3>2, <3>3, <4>1
      <4>3. x - 1 + j \in 1..m
        BY <3>3, <4>1, <4>2
      <4> QED
        BY <4>1, <4>3
    <3>5. line[x - 1 + j] = t[x + j]
      BY <1>10, <3>4
    <3> QED
      BY <1>6, <3>2, <3>5
  <2> QED
    BY <2>1
<1>14. Placed(ws, p, line)
  <2>1. p[n + 1] = Len(line) + 2
    BY <1>6, <1>9, <1>10
  <2> QED
    BY <1>4, <1>6, <1>12, <1>13, <2>1 DEF Placed
<1> QED
  BY <1>3, <1>10, <1>14

(* A word of a line: not empty, and without spaces. *)
Word(w) == Len(w) # 0 /\ \A j \in 1..Len(w) : w[j] # Sp

Starts(line) == {i \in DOMAIN line : line[i] # Sp /\ (i = 1 \/ line[i - 1] = Sp)}

Nth(line, n) ==
    CHOOSE i \in Starts(line) : Cardinality({j \in Starts(line) : j <= i}) = n

IsEnd(line, i, j) ==
    /\ j = Len(line) \/ line[j + 1] = Sp
    /\ \A n \in i..j : line[n] # Sp

End(line, i) == CHOOSE j \in i..Len(line) : IsEnd(line, i, j)

LEMMA FieldsAre ==
    ASSUME NEW line
    PROVE  asciiFields(line) = [n \in 1..Cardinality(Starts(line)) |->
                                  SubSeq(line, Nth(line, n), End(line, Nth(line, n)))]
BY DEF asciiFields, Starts, Nth, IsEnd, End

(* The bounds of the i-th word. *)
LEMMA PlacedBounds ==
    ASSUME NEW ws \in Seq(Texts), NEW line \in Texts, NEW q, Placed(ws, q, line),
           NEW i \in 1..Len(ws)
    PROVE  /\ q[i] \in Nat /\ 1 <= q[i] /\ q[i + 1] \in Nat /\ Len(ws[i]) \in Nat
           /\ q[i + 1] = q[i] + Len(ws[i]) + 1
           /\ q[i + 1] <= Len(line) + 2 /\ (i = Len(ws) => q[i + 1] = Len(line) + 2)
           /\ \A j \in 1..Len(ws) : i < j => q[i] < q[j]
<1>1. PICK n \in Nat : n = Len(ws) /\ i \in 1..n /\ i \in 1..(n + 1) /\ i + 1 \in 1..(n + 1)
                       /\ 1 \in 1..(n + 1) /\ n + 1 \in 1..(n + 1)
  OBVIOUS
<1>2. \A k \in 1..n : ws[k] \in Texts /\ Len(ws[k]) \in Nat
  BY <1>1 DEF Texts
<1>3. /\ \A k \in 1..(n + 1) : q[k] \in Nat
      /\ q[1] = 1 /\ q[n + 1] = Len(line) + 2
      /\ \A k \in 1..n : q[k + 1] = q[k] + Len(ws[k]) + 1
  BY <1>1 DEF Placed
<1>4. ASSUME NEW k \in 1..n PROVE q[k] < q[k + 1]
  <2>1. PICK x \in Nat, y \in Nat, l \in Nat : x = q[k] /\ y = q[k + 1] /\ l = Len(ws[k])
    <3>1. k \in 1..(n + 1) /\ k + 1 \in 1..(n + 1)
      OBVIOUS
    <3> QED
      BY <1>2, <1>3, <3>1
  <2>2. y = x + l + 1
    BY <1>3, <2>1
  <2> QED
    BY <2>1, <2>2
<1>5. \A k, j \in 1..(n + 1) : k < j => q[k] < q[j]
  <2>1. n + 1 \in Nat /\ (n + 1) - 1 = n
    OBVIOUS
  <2>2. \A k \in 1..((n + 1) - 1) : q[k] < q[k + 1]
    BY <1>4, <2>1
  <2> QED
    BY <1>3, <2>1, <2>2, Climbs
<1>6. 1 <= q[i]
  <2>1. i = 1 \/ q[1] < q[i]
    BY <1>1, <1>5
  <2> QED
    BY <1>1, <1>3, <2>1
<1>7. q[i + 1] <= Len(line) + 2
  <2>1. i + 1 = n + 1 \/ q[i + 1] < q[n + 1]
    BY <1>1, <1>5
  <2>2. Len(line) \in Nat
    BY DEF Texts
  <2> QED
    BY <1>1, <1>3, <2>1, <2>2
<1>8. \A j \in 1..n : i < j => q[i] < q[j]
  <2>1. \A j \in 1..n : j \in 1..(n + 1)
    OBVIOUS
  <2> QED
    BY <1>1, <1>5, <2>1
<1>9. i = n => q[i + 1] = Len(line) + 2
  BY <1>3
<1> QED
  BY <1>1, <1>2, <1>3, <1>6, <1>7, <1>8, <1>9

LEMMA PlacedStarts ==
    ASSUME NEW ws \in Seq(Texts), NEW line \in Texts, NEW q, Placed(ws, q, line), ws # <<>>,
           \A i \in 1..Len(ws) : Word(ws[i])
    PROVE  Starts(line) = {q[i] : i \in 1..Len(ws)}
<1>1. PICK n \in Nat : n = Len(ws) /\ n # 0
  OBVIOUS
<1>2. PICK L \in Nat : L = Len(line) /\ DOMAIN line = 1..L
  BY DEF Texts
<1>3. \A i \in 1..n : \A j \in 1..Len(ws[i]) : line[q[i] - 1 + j] = ws[i][j] /\ ws[i][j] # Sp
  BY <1>1 DEF Placed, Word
<1>4. \A i \in 1..(n - 1) : line[q[i + 1] - 1] = Sp
  BY <1>1 DEF Placed
<1>5. ASSUME NEW i \in 1..n
      PROVE  /\ q[i] \in Nat /\ 1 <= q[i] /\ q[i + 1] \in Nat /\ Len(ws[i]) \in Nat
             /\ q[i + 1] = q[i] + Len(ws[i]) + 1
             /\ q[i + 1] <= L + 2 /\ (i = n => q[i + 1] = L + 2)
  BY <1>1, <1>2, PlacedBounds
<1>6. ASSUME NEW i \in 1..n PROVE q[i] \in Starts(line)
  <2>1. PICK x \in Nat, l \in Nat : x = q[i] /\ l = Len(ws[i])
    BY <1>5
  <2>2. 1 <= x /\ x + l + 1 <= L + 2 /\ l # 0
    BY <1>1, <1>5, <2>1 DEF Word
  <2>3. x \in 1..L /\ 1 \in 1..l /\ x - 1 + 1 = x
    BY <2>2
  <2>4. line[x] # Sp
    <3>1. line[x - 1 + 1] # Sp
      BY <1>3, <2>1, <2>3
    <3> QED
      BY <2>3, <3>1
  <2>5. x = 1 \/ line[x - 1] = Sp
    <3>1. CASE i = 1
      BY <2>1, <3>1 DEF Placed
    <3>2. CASE i # 1
      <4>1. PICK k \in 1..(n - 1) : k + 1 = i
        <5>1. i - 1 \in 1..(n - 1) /\ (i - 1) + 1 = i
          BY <3>2
        <5> QED
          BY <5>1
      <4> QED
        BY <1>4, <2>1, <4>1
    <3> QED
      BY <3>1, <3>2
  <2> QED
    BY <1>2, <2>1, <2>3, <2>4, <2>5 DEF Starts
<1>7. ASSUME NEW x \in Starts(line) PROVE \E i \in 1..n : x = q[i]
  <2>1. x \in Nat /\ 1 <= x /\ x <= L /\ line[x] # Sp /\ (x = 1 \/ line[x - 1] = Sp)
    BY <1>2 DEF Starts
  <2>2. PICK i \in 1..n : q[i] <= x /\ (i = n \/ x < q[i + 1])
    <3>1. q[1] <= x
      BY <2>1 DEF Placed
    <3>2. \A i \in 1..n : q[i] \in Nat
      BY <1>5
    <3> QED
      BY <1>1, <2>1, <3>1, <3>2, Covers
  <2>3. PICK y \in Nat, l \in Nat : y = q[i] /\ l = Len(ws[i]) /\ q[i + 1] = y + l + 1
    BY <1>5
  <2>4. 1 <= y /\ y <= x /\ (i = n => y + l + 1 = L + 2) /\ (i = n \/ x < y + l + 1)
    BY <1>5, <2>2, <2>3
  <2>5. x # y + l
    <3>1. CASE i = n
      BY <2>1, <2>4, <3>1
    <3>2. CASE i # n
      <4>1. i \in 1..(n - 1)
        BY <3>2
      <4>2. line[(y + l + 1) - 1] = Sp
        BY <1>4, <2>3, <4>1
      <4>3. (y + l + 1) - 1 = y + l
        OBVIOUS
      <4> QED
        BY <2>1, <4>2, <4>3
    <3> QED
      BY <3>1, <3>2
  <2>6. x < y + l
    BY <2>1, <2>4, <2>5
  <2>7. CASE x # y
    <3>1. x - y \in 1..l /\ y - 1 + (x - y) = x - 1 /\ x # 1
      BY <2>1, <2>4, <2>6, <2>7
    <3>2. line[x - 1] # Sp
      BY <1>3, <2>3, <3>1
    <3> QED
      BY <2>1, <3>1, <3>2
  <2> QED
    BY <2>3, <2>7
<1>8. Starts(line) = {q[i] : i \in 1..n}
  BY <1>6, <1>7
<1> QED
  BY <1>1, <1>8

LEMMA NthStart ==
    ASSUME NEW ws \in Seq(Texts), NEW line \in Texts, NEW q, Placed(ws, q, line), ws # <<>>,
           \A i \in 1..Len(ws) : Word(ws[i])
    PROVE  /\ Cardinality(Starts(line)) = Len(ws)
           /\ \A i \in 1..Len(ws) : Nth(line, i) = q[i]
<1>1. PICK n \in Nat : n = Len(ws) /\ n # 0
  OBVIOUS
<1>2. PICK S : S = Starts(line) /\ S = {q[i] : i \in 1..n}
  BY <1>1, PlacedStarts
<1>3. \A i \in 1..n : q[i] \in Nat /\ \A j \in 1..n : i < j => q[i] < q[j]
  BY <1>1, PlacedBounds
<1>4. ASSUME NEW m \in 1..n PROVE Cardinality({x \in S : x <= q[m]}) = m
  <2> DEFINE T == {x \in S : x <= q[m]}
             f == [i \in 1..m |-> q[i]]
  <2>1. \A i \in 1..m : i \in 1..n /\ f[i] = q[i] /\ q[i] \in Nat /\ q[m] \in Nat
    BY <1>3
  <2>2. \A i \in 1..m : f[i] \in T
    <3>1. ASSUME NEW i \in 1..m PROVE f[i] \in S /\ f[i] <= q[m]
      <4>1. i = m \/ q[i] < q[m]
        BY <1>3, <2>1
      <4> QED
        BY <1>2, <2>1, <4>1
    <3> QED
      BY <3>1
  <2>3. \A i, j \in 1..m : f[i] = f[j] => i = j
    <3>1. ASSUME NEW i \in 1..m, NEW j \in 1..m, i < j PROVE q[i] < q[j] /\ q[i] \in Nat
      BY <1>3, <2>1, <3>1
    <3> QED
      BY <2>1, <3>1
  <2>4. \A x \in T : \E i \in 1..m : f[i] = x
    <3>1. ASSUME NEW x \in T PROVE \E i \in 1..m : f[i] = x
      <4>1. PICK i \in 1..n : x = q[i] /\ q[i] <= q[m]
        BY <1>2
      <4>2. ~(m < i)
        <5>1. m < i => q[m] < q[i]
          BY <1>3
        <5>2. q[m] \in Nat /\ q[i] \in Nat
          BY <1>3
        <5> QED
          BY <4>1, <5>1, <5>2
      <4> QED
        BY <2>1, <4>1, <4>2
    <3> QED
      BY <3>1
  <2>5. f \in [1..m -> T]
    BY <2>2
  <2>6. ExistsBijection(1..m, T)
    <3> HIDE DEF f, T
    <3>1. f \in Bijection(1..m, T)
      BY <2>3, <2>4, <2>5 DEF Bijection, Injection, IsInjective, Surjection
    <3> QED
      BY <3>1 DEF ExistsBijection
  <2> HIDE DEF T
  <2>7. m \in Nat /\ Cardinality(T) = m
    BY <2>6, FS_CountingElements
  <2> QED
    BY <2>7 DEF T
<1>5. Cardinality(S) = n
  <2>1. n \in 1..n
    BY <1>1
  <2>2. \A x \in S : x <= q[n]
    <3>1. ASSUME NEW i \in 1..n PROVE q[i] <= q[n]
      <4>1. i = n \/ q[i] < q[n]
        BY <1>3, <2>1
      <4> QED
        BY <1>3, <4>1
    <3> QED
      BY <1>2, <3>1
  <2>3. S = {x \in S : x <= q[n]}
    BY <2>2
  <2>4. Cardinality({x \in S : x <= q[n]}) = n
    BY <1>4, <2>1
  <2> QED
    BY <2>3, <2>4
<1>6. ASSUME NEW m \in 1..n PROVE Nth(line, m) = q[m]
  <2>1. Nth(line, m) = CHOOSE i \in S : Cardinality({j \in S : j <= i}) = m
    BY <1>2 DEF Nth
  <2>2. q[m] \in S /\ Cardinality({j \in S : j <= q[m]}) = m
    BY <1>2, <1>4
  <2>3. ASSUME NEW i \in S, Cardinality({j \in S : j <= i}) = m PROVE i = q[m]
    <3>1. PICK k \in 1..n : i = q[k]
      BY <1>2
    <3>2. k = m
      BY <1>4, <2>3, <3>1
    <3> QED
      BY <3>1, <3>2
  <2> QED
    BY <2>1, <2>2, <2>3
<1> QED
  BY <1>1, <1>2, <1>5, <1>6

LEMMA EndOfWord ==
    ASSUME NEW ws \in Seq(Texts), NEW line \in Texts, NEW q, Placed(ws, q, line), ws # <<>>,
           \A i \in 1..Len(ws) : Word(ws[i]), NEW i \in 1..Len(ws)
    PROVE  End(line, q[i]) = q[i] + Len(ws[i]) - 1
<1>1. PICK n \in Nat, L \in Nat : n = Len(ws) /\ i \in 1..n /\ L = Len(line)
  BY DEF Texts
<1>2. PICK x \in Nat, l \in Nat :
        /\ x = q[i] /\ l = Len(ws[i]) /\ l # 0 /\ 1 <= x /\ q[i + 1] = x + l + 1
        /\ x + l + 1 <= L + 2 /\ (i = n => x + l + 1 = L + 2)
  <2>1. /\ q[i] \in Nat /\ 1 <= q[i] /\ Len(ws[i]) \in Nat
        /\ q[i + 1] = q[i] + Len(ws[i]) + 1
        /\ q[i + 1] <= L + 2 /\ (i = n => q[i + 1] = L + 2)
    BY <1>1, PlacedBounds
  <2>2. Len(ws[i]) # 0
    BY DEF Word
  <2>3. PICK x \in Nat, l \in Nat : x = q[i] /\ l = Len(ws[i])
    BY <2>1
  <2> QED
    BY <2>1, <2>2, <2>3
<1>3. \A j \in x..(x + l - 1) : line[j] # Sp
  <2>1. ASSUME NEW j \in x..(x + l - 1) PROVE line[j] # Sp
    <3>1. PICK k \in 1..l : x - 1 + k = j
      <4>1. j \in Int /\ x <= j /\ j <= x + l - 1
        OBVIOUS
      <4>2. j - x + 1 \in 1..l
        BY <4>1
      <4>3. x - 1 + (j - x + 1) = j
        BY <4>1
      <4> QED
        BY <4>2, <4>3
    <3>2. line[x - 1 + k] = ws[i][k] /\ ws[i][k] # Sp
      BY <1>2 DEF Placed, Word
    <3> QED
      BY <3>1, <3>2
  <2> QED
    BY <2>1
<1>4. i # n => line[x + l] = Sp
  <2>1. ASSUME i # n PROVE line[x + l] = Sp
    <3>1. i \in 1..(n - 1)
      BY <1>1, <2>1
    <3>2. line[q[i + 1] - 1] = Sp
      BY <1>1, <3>1 DEF Placed
    <3>3. (x + l + 1) - 1 = x + l
      OBVIOUS
    <3> QED
      BY <1>2, <3>2, <3>3
  <2> QED
    BY <2>1
<1>5. PICK e \in Nat : e = x + l - 1 /\ e \in x..L /\ e + 1 = x + l /\ (i = n => e = L)
  <2>1. x + l - 1 \in Nat
    BY <1>2
  <2>2. PICK e \in Nat : e = x + l - 1
    BY <2>1
  <2>3. e \in x..L /\ e + 1 = x + l
    <3>1. l # 0 /\ x + l + 1 <= L + 2
      BY <1>2
    <3>2. x <= x + l - 1 /\ x + l - 1 <= L
      BY <3>1
    <3>3. x + l - 1 + 1 = x + l
      OBVIOUS
    <3>4. x <= e /\ e <= L /\ e + 1 = x + l
      BY <2>2, <3>2, <3>3
    <3> QED
      BY <3>4
  <2>4. ASSUME i = n PROVE e = L
    <3>1. x + l + 1 = L + 2
      BY <1>2, <2>4
    <3> QED
      BY <2>2, <3>1
  <2> QED
    BY <2>2, <2>3, <2>4
<1>6. IsEnd(line, x, e)
  BY <1>1, <1>3, <1>4, <1>5 DEF IsEnd
<1>7. ASSUME NEW j \in x..L, IsEnd(line, x, j) PROVE j = e
  <2>1. (j = L \/ line[j + 1] = Sp) /\ \A m \in x..j : line[m] # Sp
    BY <1>1, <1>7 DEF IsEnd
  <2>2. ~(j < e)
    <3>1. ASSUME j < e PROVE FALSE
      <4>1. j + 1 \in x..(x + l - 1) /\ j # L
        BY <1>5, <3>1
      <4> QED
        BY <1>3, <2>1, <4>1
    <3> QED
      BY <3>1
  <2>3. ~(e < j)
    <3>1. ASSUME e < j PROVE FALSE
      <4>1. i # n /\ x + l \in x..j
        BY <1>5, <3>1
      <4> QED
        BY <1>4, <2>1, <4>1
    <3> QED
      BY <3>1
  <2> QED
    BY <1>5, <2>2, <2>3
<1>8. End(line, x) = e
  BY <1>1, <1>5, <1>6, <1>7 DEF End
<1> QED
  BY <1>2, <1>5, <1>8

LEMMA FieldsPlaced ==
    ASSUME NEW ws \in Seq(Texts), NEW line \in Texts, NEW q, Placed(ws, q, line), ws # <<>>,
           \A i \in 1..Len(ws) : Word(ws[i])
    PROVE  asciiFields(line) = ws
<1>1. PICK n \in Nat, L \in Nat : n = Len(ws) /\ L = Len(line) /\ line \in Seq(Atoms)
  BY DEF Texts
<1>2. Cardinality(Starts(line)) = n /\ \A i \in 1..n : Nth(line, i) = q[i]
  BY <1>1, NthStart
<1>3. ASSUME NEW i \in 1..n
      PROVE  SubSeq(line, Nth(line, i), End(line, Nth(line, i))) = ws[i]
  <2>1. PICK x \in Nat, l \in Nat :
          x = q[i] /\ l = Len(ws[i]) /\ 1 <= x /\ x + l + 1 <= L + 2
    <3>1. /\ q[i] \in Nat /\ 1 <= q[i] /\ Len(ws[i]) \in Nat
          /\ q[i + 1] = q[i] + Len(ws[i]) + 1
          /\ q[i + 1] <= L + 2
      BY <1>1, PlacedBounds
    <3>2. PICK x \in Nat, l \in Nat : x = q[i] /\ l = Len(ws[i])
      BY <3>1
    <3> QED
      BY <3>1, <3>2
  <2>2. End(line, x) = x + l - 1
    BY <1>1, <2>1, EndOfWord
  <2>3. PICK w : w = SubSeq(line, x, x + l - 1)
    OBVIOUS
  <2>4. w \in Seq(Atoms) /\ Len(w) = l /\ \A j \in 1..l : w[j] = line[x + j - 1]
    <3>1. \A j \in x..(x + l - 1) : line[j] \in Atoms
      <4>1. \A j \in 1..L : line[j] \in Atoms
        BY <1>1
      <4> QED
        BY <2>1, <4>1
    <3>2. x \in Int /\ x + l - 1 \in Int /\ (IF x <= x + l - 1 THEN (x + l - 1) - x + 1 ELSE 0) = l
      OBVIOUS
    <3> QED
      BY <1>1, <2>3, <3>1, <3>2, SubSeqProperties
  <2>5. \A j \in 1..l : line[x - 1 + j] = ws[i][j]
    BY <1>1, <2>1 DEF Placed
  <2>6. \A j \in 1..l : w[j] = ws[i][j]
    <3>1. \A j \in 1..l : x + j - 1 = x - 1 + j
      OBVIOUS
    <3> QED
      BY <2>4, <2>5, <3>1
  <2>7. ws[i] \in Seq(Atoms)
    BY <1>1 DEF Texts
  <2>8. w = ws[i]
    BY <2>1, <2>4, <2>6, <2>7, SeqEqual
  <2> QED
    BY <1>2, <2>1, <2>2, <2>3, <2>8
<1>4. asciiFields(line) = [i \in 1..n |-> SubSeq(line, Nth(line, i), End(line, Nth(line, i)))]
  BY <1>2, FieldsAre
<1>5. ws = [i \in 1..n |-> ws[i]]
  BY <1>1
<1> QED
  BY <1>3, <1>4, <1>5

(* The words of a joined line are the words it was joined from, and what  *)
(* no word has, the line has not.                                         *)
LEMMA JoinedFields ==
    ASSUME NEW ws \in Seq(Texts), ws # <<>>, \A i \in 1..Len(ws) : Word(ws[i])
    PROVE  /\ Joined(ws) \in Texts /\ asciiFields(Joined(ws)) = ws
           /\ Joined(ws) # <<>>
           /\ \A j \in 1..Len(ws[1]) : Joined(ws)[j] = ws[1][j]
           /\ \A x : x # Sp /\ (\A i \in 1..Len(ws) : \A j \in 1..Len(ws[i]) : ws[i][j] # x)
                => \A j \in 1..Len(Joined(ws)) : Joined(ws)[j] # x
<1>1. PICK line : line = Joined(ws)
  OBVIOUS
<1>2. PICK q : line \in Texts /\ Placed(ws, q, line)
  BY <1>1, JoinedPlaced
<1>3. asciiFields(line) = ws
  BY <1>2, FieldsPlaced
<1>4. PICK n \in Nat, L \in Nat : n = Len(ws) /\ n # 0 /\ L = Len(line) /\ 1 \in 1..n
  BY <1>2 DEF Texts
<1>5. ASSUME NEW i \in 1..n
      PROVE  /\ q[i] \in Nat /\ 1 <= q[i] /\ q[i + 1] \in Nat /\ Len(ws[i]) \in Nat
             /\ q[i + 1] = q[i] + Len(ws[i]) + 1
             /\ q[i + 1] <= L + 2 /\ (i = n => q[i + 1] = L + 2)
  BY <1>2, <1>4, PlacedBounds
<1>6. L # 0
  <2>1. PICK x \in Nat, l \in Nat : x = q[1] /\ l = Len(ws[1])
    BY <1>4, <1>5
  <2>2. 1 <= x /\ x + l + 1 <= L + 2 /\ l # 0
    BY <1>4, <1>5, <2>1 DEF Word
  <2> QED
    BY <2>2
<1>7. \A j \in 1..Len(ws[1]) : line[j] = ws[1][j]
  <2>1. q[1] = 1 /\ \A j \in 1..Len(ws[1]) : line[q[1] - 1 + j] = ws[1][j]
    BY <1>2, <1>4 DEF Placed
  <2>2. \A j \in 1..Len(ws[1]) : 1 - 1 + j = j
    BY <1>4, <1>5
  <2> QED
    BY <2>1, <2>2
<1>8. ASSUME NEW x, x # Sp, \A i \in 1..n : \A j \in 1..Len(ws[i]) : ws[i][j] # x,
             NEW j \in 1..L
      PROVE  line[j] # x
  <2>1. PICK i \in 1..n : q[i] <= j /\ (i = n \/ j < q[i + 1])
    <3>1. q[1] <= j
      BY <1>2 DEF Placed
    <3>2. \A i \in 1..n : q[i] \in Nat
      BY <1>5
    <3>3. j \in Nat
      BY <1>4
    <3> QED
      BY <1>4, <3>1, <3>2, <3>3, Covers
  <2>2. PICK y \in Nat, l \in Nat : y = q[i] /\ l = Len(ws[i]) /\ q[i + 1] = y + l + 1
    BY <1>5
  <2>3. 1 <= y /\ y <= j /\ (i = n => y + l + 1 = L + 2) /\ (i = n \/ j < y + l + 1)
    BY <1>5, <2>1, <2>2
  <2>4. CASE j < y + l
    <3>1. j - y + 1 \in 1..l /\ y - 1 + (j - y + 1) = j
      BY <2>3, <2>4
    <3>2. line[y - 1 + (j - y + 1)] = ws[i][j - y + 1]
      BY <1>2, <1>4, <2>2, <3>1 DEF Placed
    <3> QED
      BY <1>8, <2>2, <3>1, <3>2
  <2>5. CASE ~(j < y + l)
    <3>1. i # n /\ j = y + l
      BY <2>3, <2>5
    <3>2. i \in 1..(n - 1)
      BY <3>1
    <3>3. line[q[i + 1] - 1] = Sp
      BY <1>2, <1>4, <3>2 DEF Placed
    <3>4. (y + l + 1) - 1 = y + l
      OBVIOUS
    <3> QED
      BY <1>8, <2>2, <3>1, <3>3, <3>4
  <2> QED
    BY <2>4, <2>5
<1>9. line # <<>>
  BY <1>4, <1>6
<1> QED
  BY <1>1, <1>2, <1>3, <1>4, <1>7, <1>8, <1>9

LEMMA NoFields == asciiFields(<<>>) = <<>>
<1>1. Starts(<<>>) = {}
  BY DEF Starts
<1>2. Cardinality(Starts(<<>>)) = 0
  BY <1>1, FS_EmptySet
<1> QED
  BY <1>2, FieldsAre

-----------------------------------------------------------------------------
(* Lines in a stream *)

LEMMA FirstLf ==
    ASSUME NEW b \in Texts, NEW n \in 1..Len(b), b[n] = Lf, \A i \in 1..(n - 1) : b[i] # Lf
    PROVE  LfAt(b) = n
<1> DEFINE I == {i \in 1..Len(b) : b[i] = Lf}
<1>1. LfAt(b) = IF I # {} THEN Min(I) ELSE 0
  BY DEF LfAt, SelectInSeq
<1>0. Len(b) \in Nat
  BY DEF Texts
<1>2. n \in I /\ \A i \in I : n <= i
  BY <1>0
<1>3. Min(I) = CHOOSE x \in I : \A y \in I : x <= y
  BY DEF Min
<1>4. \A x \in I : (\A y \in I : x <= y) => x = n
  BY <1>0, <1>2
<1> HIDE DEF I
<1>5. Min(I) = n
  BY <1>2, <1>3, <1>4
<1> QED
  BY <1>1, <1>2, <1>5

LEMMA NoLf ==
    ASSUME NEW b \in Texts, \A i \in 1..Len(b) : b[i] # Lf
    PROVE  LfAt(b) = 0
BY DEF LfAt, SelectInSeq

LEMMA EqualTexts ==
    ASSUME NEW s \in Texts, NEW t \in Texts, Len(s) = Len(t), \A i \in 1..Len(s) : s[i] = t[i]
    PROVE  s = t
<1>1. s \in Seq(Atoms) /\ t \in Seq(Atoms)
  BY DEF Texts
<1> QED
  BY <1>1, SeqEqual

LEMMA Associates ==
    ASSUME NEW a \in Texts, NEW b \in Texts, NEW c \in Texts
    PROVE  (a \o b) \o c = a \o (b \o c)
<1>1. a \in Seq(Atoms) /\ b \in Seq(Atoms) /\ c \in Seq(Atoms)
  BY DEF Texts
<1> QED
  BY <1>1, ConcatAssociative

(* A part of a text. *)
LEMMA PartOf ==
    ASSUME NEW s \in Texts, NEW m \in Nat, NEW n \in Nat, n <= Len(s), m # 0, m <= n + 1
    PROVE  /\ SubSeq(s, m, n) \in Texts /\ Len(SubSeq(s, m, n)) = n - m + 1
           /\ \A i \in 1..(n - m + 1) : SubSeq(s, m, n)[i] = s[m + i - 1]
<1>1. s \in Seq(Atoms) /\ Len(s) \in Nat
  BY DEF Texts
<1>2. \A i \in m..n : s[i] \in Atoms
  <2>1. \A i \in m..n : i \in 1..Len(s)
    BY <1>1
  <2> QED
    BY <1>1, <2>1
<1>3. m \in Int /\ n \in Int
  OBVIOUS
<1>4. /\ SubSeq(s, m, n) \in Seq(Atoms)
      /\ Len(SubSeq(s, m, n)) = IF m <= n THEN n - m + 1 ELSE 0
      /\ \A i \in 1..(n - m + 1) : SubSeq(s, m, n)[i] = s[m + i - 1]
  BY <1>2, <1>3, SubSeqProperties
<1>5. (IF m <= n THEN n - m + 1 ELSE 0) = n - m + 1
  OBVIOUS
<1> QED
  BY <1>4, <1>5 DEF Texts

LEMMA Halves ==
    ASSUME NEW a \in Texts, NEW c \in Texts
    PROVE  SubSeq(a \o c, 1, Len(a)) = a /\ After(a \o c, Len(a)) = c
<1>1. PICK b \in Texts, k \in Nat, l \in Nat :
        /\ b = a \o c /\ k = Len(a) /\ l = Len(c) /\ Len(b) = k + l
        /\ \A i \in 1..k : b[i] = a[i]
        /\ \A i \in 1..l : b[k + i] = c[i]
  <2>1. Len(a) \in Nat /\ Len(c) \in Nat
    BY DEF Texts
  <2>2. /\ a \o c \in Texts /\ Len(a \o c) = Len(a) + Len(c)
        /\ \A i \in 1..Len(a) : (a \o c)[i] = a[i]
        /\ \A i \in 1..Len(c) : (a \o c)[Len(a) + i] = c[i]
    BY JoinTexts
  <2> QED
    BY <2>1, <2>2
<1>2. SubSeq(b, 1, k) = a
  <2>1. PICK s : s = SubSeq(b, 1, k)
    OBVIOUS
  <2>2. k <= Len(b) /\ 1 <= k + 1
    BY <1>1
  <2>3. /\ s \in Texts /\ Len(s) = k - 1 + 1
        /\ \A i \in 1..(k - 1 + 1) : s[i] = b[1 + i - 1]
    BY <2>1, <2>2, PartOf
  <2>4. Len(s) = k /\ \A i \in 1..k : s[i] = a[i]
    <3>1. k - 1 + 1 = k
      OBVIOUS
    <3>2. ASSUME NEW i \in 1..k PROVE s[i] = a[i]
      <4>1. 1 + i - 1 = i /\ i \in 1..(k - 1 + 1)
        OBVIOUS
      <4> QED
        BY <1>1, <2>3, <4>1
    <3> QED
      BY <2>3, <3>1, <3>2
  <2> QED
    BY <1>1, <2>1, <2>3, <2>4, EqualTexts
<1>3. SubSeq(b, k + 1, Len(b)) = c
  <2>1. PICK s : s = SubSeq(b, k + 1, k + l)
    OBVIOUS
  <2>2. k + l \in Nat /\ k + l <= Len(b) /\ k + 1 \in Nat /\ k + 1 # 0 /\ k + 1 <= k + l + 1
        /\ (k + l) - (k + 1) + 1 = l
    BY <1>1
  <2>3. /\ s \in Texts /\ Len(s) = (k + l) - (k + 1) + 1
        /\ \A i \in 1..((k + l) - (k + 1) + 1) : s[i] = b[k + 1 + i - 1]
    BY <2>1, <2>2, PartOf
  <2>4. ASSUME NEW i \in 1..l PROVE s[i] = c[i]
    <3>1. k + 1 + i - 1 = k + i
      OBVIOUS
    <3>2. s[i] = b[k + 1 + i - 1]
      BY <2>2, <2>3
    <3> QED
      BY <1>1, <3>1, <3>2
  <2>5. Len(s) = l
    BY <2>2, <2>3
  <2> QED
    BY <1>1, <2>1, <2>3, <2>4, <2>5, EqualTexts
<1> QED
  BY <1>1, <1>2, <1>3 DEF After

LEMMA Middle ==
    ASSUME NEW a \in Texts, NEW v \in Texts, NEW c \in Texts
    PROVE  SubSeq((a \o v) \o c, Len(a) + 1, Len(a) + Len(v)) = v
<1>1. PICK k \in Nat, l \in Nat, r \in Nat : k = Len(a) /\ l = Len(v) /\ r = Len(c)
  BY DEF Texts
<1>2. PICK d \in Texts : /\ d = a \o v /\ Len(d) = k + l
                         /\ \A i \in 1..l : d[k + i] = v[i]
  <2>1. /\ a \o v \in Texts /\ Len(a \o v) = Len(a) + Len(v)
        /\ \A i \in 1..Len(v) : (a \o v)[Len(a) + i] = v[i]
    BY JoinTexts
  <2> QED
    BY <1>1, <2>1
<1>3. PICK b \in Texts : b = d \o c /\ Len(b) = k + l + r /\ \A i \in 1..(k + l) : b[i] = d[i]
  <2>1. /\ d \o c \in Texts /\ Len(d \o c) = Len(d) + Len(c)
        /\ \A i \in 1..Len(d) : (d \o c)[i] = d[i]
    BY JoinTexts
  <2> QED
    BY <1>1, <1>2, <2>1
<1>4. PICK s : s = SubSeq(b, k + 1, k + l)
  OBVIOUS
<1>5. k + l \in Nat /\ k + l <= Len(b) /\ k + 1 \in Nat /\ k + 1 # 0 /\ k + 1 <= k + l + 1
      /\ (k + l) - (k + 1) + 1 = l
  BY <1>3
<1>6. /\ s \in Texts /\ Len(s) = (k + l) - (k + 1) + 1
      /\ \A i \in 1..((k + l) - (k + 1) + 1) : s[i] = b[k + 1 + i - 1]
  BY <1>4, <1>5, PartOf
<1>7. ASSUME NEW i \in 1..l PROVE s[i] = v[i]
  <2>1. k + 1 + i - 1 = k + i /\ k + i \in 1..(k + l)
    OBVIOUS
  <2>2. s[i] = b[k + 1 + i - 1]
    BY <1>5, <1>6
  <2> QED
    BY <1>2, <1>3, <2>1, <2>2
<1>8. Len(s) = l
  BY <1>5, <1>6
<1>9. s = v
  BY <1>1, <1>6, <1>7, <1>8, EqualTexts
<1> QED
  BY <1>1, <1>2, <1>3, <1>4, <1>9

(* Two cuts of one stream: the first part of one contains that of the other. *)
LEMMA TwoCuts ==
    ASSUME NEW a \in Texts, NEW c \in Texts, NEW x \in Texts, NEW y \in Texts,
           a \o c = x \o y
    PROVE  \/ \E u \in Texts : a = x \o u /\ y = u \o c
           \/ Len(a) < Len(x) /\ c # <<>> /\ \A i \in 1..Len(a) : a[i] = x[i]
<1>1. PICK k \in Nat, l \in Nat, m \in Nat, n \in Nat :
        k = Len(a) /\ l = Len(c) /\ m = Len(x) /\ n = Len(y)
  BY DEF Texts
<1>2. PICK b \in Texts : /\ b = a \o c /\ Len(b) = k + l
                         /\ \A i \in 1..k : b[i] = a[i]
                         /\ \A i \in 1..l : b[k + i] = c[i]
  <2>1. /\ a \o c \in Texts /\ Len(a \o c) = Len(a) + Len(c)
        /\ \A i \in 1..Len(a) : (a \o c)[i] = a[i]
        /\ \A i \in 1..Len(c) : (a \o c)[Len(a) + i] = c[i]
    BY JoinTexts
  <2> QED
    BY <1>1, <2>1
<1>3. /\ b = x \o y /\ k + l = m + n
      /\ \A i \in 1..m : b[i] = x[i]
      /\ \A i \in 1..n : b[m + i] = y[i]
  <2>1. /\ x \o y \in Texts /\ Len(x \o y) = Len(x) + Len(y)
        /\ \A i \in 1..Len(x) : (x \o y)[i] = x[i]
        /\ \A i \in 1..Len(y) : (x \o y)[Len(x) + i] = y[i]
    BY JoinTexts
  <2> QED
    BY <1>1, <1>2, <2>1
<1>4. CASE k < m
  <2>1. \A i \in 1..k : a[i] = x[i]
    <3>1. \A i \in 1..k : i \in 1..m
      BY <1>4
    <3> QED
      BY <1>2, <1>3, <3>1
  <2>2. c # <<>>
    <3>1. l # 0
      BY <1>3, <1>4
    <3> QED
      BY <1>1, <3>1
  <2> QED
    BY <1>1, <1>4, <2>1, <2>2
<1>5. CASE ~(k < m)
  <2>1. PICK u : u = SubSeq(a, m + 1, k)
    OBVIOUS
  <2>2. m + 1 \in Nat /\ m + 1 # 0 /\ m + 1 <= k + 1 /\ k - (m + 1) + 1 = k - m /\ k - m \in Nat
        /\ k <= Len(a)
    BY <1>1, <1>5
  <2>3. /\ u \in Texts /\ Len(u) = k - (m + 1) + 1
        /\ \A i \in 1..(k - (m + 1) + 1) : u[i] = a[m + 1 + i - 1]
    BY <2>1, <2>2, PartOf
  <2>4. PICK d \in Nat : d = k - m /\ m + d = k /\ Len(u) = d /\ n = d + l
    BY <1>3, <2>2, <2>3
  <2>5. ASSUME NEW i \in 1..d PROVE u[i] = a[m + i]
    <3>1. m + 1 + i - 1 = m + i
      OBVIOUS
    <3>2. u[i] = a[m + 1 + i - 1]
      BY <2>2, <2>3, <2>4
    <3> QED
      BY <3>1, <3>2
  <2>6. a = x \o u
    <3>1. /\ x \o u \in Texts /\ Len(x \o u) = Len(x) + Len(u)
          /\ \A i \in 1..Len(x) : (x \o u)[i] = x[i]
          /\ \A i \in 1..Len(u) : (x \o u)[Len(x) + i] = u[i]
      BY <2>3, JoinTexts
    <3>2. Len(x \o u) = k
      BY <1>1, <2>4, <3>1
    <3>3. ASSUME NEW i \in 1..k PROVE a[i] = (x \o u)[i]
      <4>1. CASE i <= m
        <5>1. i \in 1..m
          BY <4>1
        <5> QED
          BY <1>1, <1>2, <1>3, <3>1, <5>1
      <4>2. CASE ~(i <= m)
        <5>1. i - m \in 1..d /\ m + (i - m) = i
          BY <2>4, <4>2
        <5>2. (x \o u)[m + (i - m)] = u[i - m] /\ u[i - m] = a[m + (i - m)]
          BY <1>1, <2>4, <2>5, <3>1, <5>1
        <5> QED
          BY <5>1, <5>2
      <4> QED
        BY <4>1, <4>2
    <3> QED
      BY <1>1, <3>1, <3>2, <3>3, EqualTexts
  <2>7. y = u \o c
    <3>1. /\ u \o c \in Texts /\ Len(u \o c) = Len(u) + Len(c)
          /\ \A i \in 1..Len(u) : (u \o c)[i] = u[i]
          /\ \A i \in 1..Len(c) : (u \o c)[Len(u) + i] = c[i]
      BY <2>3, JoinTexts
    <3>2. Len(u \o c) = n
      BY <1>1, <2>4, <3>1
    <3>3. ASSUME NEW i \in 1..n PROVE y[i] = (u \o c)[i]
      <4>0. y[i] = b[m + i]
        BY <1>3
      <4>1. CASE i <= d
        <5>1. i \in 1..d /\ m + i \in 1..k
          BY <2>4, <4>1
        <5> QED
          BY <1>2, <2>4, <2>5, <3>1, <4>0, <5>1
      <4>2. CASE ~(i <= d)
        <5>1. i - d \in 1..l /\ d + (i - d) = i /\ k + (i - d) = m + i
          BY <2>4, <4>2
        <5>2. (u \o c)[d + (i - d)] = c[i - d] /\ b[k + (i - d)] = c[i - d]
          BY <1>1, <1>2, <2>4, <3>1, <5>1
        <5> QED
          BY <4>0, <5>1, <5>2
      <4> QED
        BY <4>1, <4>2
    <3> QED
      BY <1>1, <3>1, <3>2, <3>3, EqualTexts
  <2> QED
    BY <2>3, <2>6, <2>7
<1> QED
  BY <1>4, <1>5

LEMMA Marks == Cr # Lf /\ Cr # Sp /\ Sp # Lf
BY DEF Cr, Lf, Sp

LEMMA LineEnds ==
    /\ Crlf \in Texts /\ Len(Crlf) = 2 /\ Crlf[1] = Cr /\ Crlf[2] = Lf
    /\ <<Lf>> \in Texts /\ Len(<<Lf>>) = 1 /\ <<Lf>>[1] = Lf
<1>1. Cr \in Atoms /\ Lf \in Atoms
  BY DEF Atoms
<1> QED
  BY <1>1 DEF Crlf, Texts

(* A line and its end, at the beginning of a stream. *)
Lined(b, H, c) ==
    /\ b \in Texts /\ Len(H) \in Nat /\ Len(c) \in Nat /\ Len(b) = Len(H) + 2 + Len(c)
    /\ LfAt(b) = Len(H) + 2 /\ b[Len(H) + 1] = Cr
    /\ SubSeq(b, 1, Len(H)) = H /\ After(b, Len(H) + 2) = c
    /\ \A i \in 1..Len(H) : b[i] = H[i]

LEMMA FirstLine ==
    ASSUME NEW H \in Texts, NEW c \in Texts, \A i \in 1..Len(H) : H[i] # Lf
    PROVE  Lined((H \o Crlf) \o c, H, c)
<1>0. PICK b : b = (H \o Crlf) \o c
  OBVIOUS
<1>1. PICK h \in Nat, l \in Nat : h = Len(H) /\ l = Len(c)
  BY DEF Texts
<1>2. PICK d \in Texts : /\ d = H \o Crlf /\ Len(d) = h + 2 /\ \A i \in 1..h : d[i] = H[i]
                         /\ d[h + 1] = Cr /\ d[h + 2] = Lf
  <2>1. PICK e \in Texts : e = Crlf /\ Len(e) = 2 /\ e[1] = Cr /\ e[2] = Lf
    BY LineEnds
  <2>2. /\ H \o e \in Texts /\ Len(H \o e) = Len(H) + Len(e)
        /\ \A i \in 1..Len(H) : (H \o e)[i] = H[i]
        /\ \A i \in 1..Len(e) : (H \o e)[Len(H) + i] = e[i]
    BY JoinTexts
  <2>3. 1 \in 1..Len(e) /\ 2 \in 1..Len(e)
    BY <2>1
  <2> QED
    BY <1>1, <2>1, <2>2, <2>3
<1>3. /\ b = d \o c /\ b \in Texts /\ Len(b) = h + 2 + l
      /\ \A i \in 1..(h + 2) : b[i] = d[i]
  <2>1. /\ d \o c \in Texts /\ Len(d \o c) = Len(d) + Len(c)
        /\ \A i \in 1..Len(d) : (d \o c)[i] = d[i]
    BY JoinTexts
  <2> QED
    BY <1>0, <1>1, <1>2, <2>1
<1>4. b[h + 1] = Cr /\ b[h + 2] = Lf
  <2>1. h + 1 \in 1..(h + 2) /\ h + 2 \in 1..(h + 2)
    OBVIOUS
  <2> QED
    BY <1>2, <1>3, <2>1
<1>5. \A i \in 1..h : b[i] = H[i]
  <2>1. \A i \in 1..h : i \in 1..(h + 2)
    OBVIOUS
  <2> QED
    BY <1>2, <1>3, <2>1
<1>6. LfAt(b) = h + 2
  <2>1. h + 2 \in 1..Len(b)
    BY <1>3
  <2>2. ASSUME NEW i \in 1..((h + 2) - 1) PROVE b[i] # Lf
    <3>1. CASE i = h + 1
      BY <1>4, <3>1, Marks
    <3>2. CASE i # h + 1
      <4>1. i \in 1..h
        BY <3>2
      <4> QED
        BY <1>1, <1>5, <4>1
    <3> QED
      BY <3>1, <3>2
  <2> QED
    BY <1>3, <1>4, <2>1, <2>2, FirstLf
<1>7. SubSeq(b, 1, h) = H
  <2>1. PICK e \in Texts : e = Crlf \o c
    BY LineEnds, JoinTexts
  <2>2. b = H \o e
    <3>1. Crlf \in Texts
      BY LineEnds
    <3>2. (H \o Crlf) \o c = H \o (Crlf \o c)
      BY <3>1, Associates
    <3> QED
      BY <1>2, <1>3, <2>1, <3>2
  <2> QED
    BY <1>1, <2>1, <2>2, Halves
<1>8. After(b, h + 2) = c
  <2>1. After(d \o c, Len(d)) = c
    BY Halves
  <2> QED
    BY <1>2, <1>3, <2>1
<1> QED
  BY <1>0, <1>1, <1>3, <1>4, <1>5, <1>6, <1>7, <1>8 DEF Lined

BareLined(b, H) ==
    b \in Texts /\ LfAt(b) = Len(H) + 1 /\ Len(H) \in Nat /\ Len(H) # 0 /\ b[Len(H)] # Cr

LEMMA FirstBareLine ==
    ASSUME NEW H \in Texts, NEW c \in Texts, H # <<>>,
           \A i \in 1..Len(H) : H[i] # Lf /\ H[i] # Cr
    PROVE  BareLined((H \o <<Lf>>) \o c, H)
<1>0. PICK b : b = (H \o <<Lf>>) \o c
  OBVIOUS
<1>1. PICK h \in Nat, l \in Nat : h = Len(H) /\ l = Len(c) /\ h # 0
  <2>1. Len(H) # 0
    BY DEF Texts
  <2> QED
    BY <2>1 DEF Texts
<1>2. PICK d \in Texts : d = H \o <<Lf>> /\ Len(d) = h + 1 /\ d[h + 1] = Lf
                         /\ \A i \in 1..h : d[i] = H[i]
  <2>1. PICK e \in Texts : e = <<Lf>> /\ Len(e) = 1 /\ e[1] = Lf
    BY LineEnds
  <2>2. /\ H \o e \in Texts /\ Len(H \o e) = Len(H) + Len(e)
        /\ \A i \in 1..Len(H) : (H \o e)[i] = H[i]
        /\ \A i \in 1..Len(e) : (H \o e)[Len(H) + i] = e[i]
    BY JoinTexts
  <2>3. 1 \in 1..Len(e)
    BY <2>1
  <2> QED
    BY <1>1, <2>1, <2>2, <2>3
<1>3. /\ b = d \o c /\ b \in Texts /\ Len(b) = h + 1 + l
      /\ \A i \in 1..(h + 1) : b[i] = d[i]
  <2>1. /\ d \o c \in Texts /\ Len(d \o c) = Len(d) + Len(c)
        /\ \A i \in 1..Len(d) : (d \o c)[i] = d[i]
    BY JoinTexts
  <2> QED
    BY <1>0, <1>1, <1>2, <2>1
<1>4. b[h + 1] = Lf /\ \A i \in 1..h : b[i] = H[i]
  <2>1. h + 1 \in 1..(h + 1) /\ \A i \in 1..h : i \in 1..(h + 1)
    OBVIOUS
  <2> QED
    BY <1>2, <1>3, <2>1
<1>5. LfAt(b) = h + 1
  <2>1. h + 1 \in 1..Len(b) /\ (h + 1) - 1 = h
    BY <1>3
  <2>2. \A i \in 1..((h + 1) - 1) : b[i] # Lf
    BY <1>1, <1>4, <2>1
  <2> QED
    BY <1>3, <1>4, <2>1, <2>2, FirstLf
<1>6. h \in 1..h
  BY <1>1
<1>7. b[h] # Cr
  BY <1>1, <1>4, <1>6
<1> QED
  BY <1>0, <1>1, <1>3, <1>5, <1>7 DEF BareLined

-----------------------------------------------------------------------------
(* Numbers, base64, words *)

LEMMA Assumed ==
    /\ RequestAssumption /\ TextAssumption /\ LimitAssumption
    /\ Values \subseteq Seq(STRING)
    /\ \A v \in Values : Len(v) < Len(Numerals)
    /\ NoKey \notin Seq(STRING)
BY WireAssumption

LEMMA Numbers ==
    ASSUME NEW n \in Nat, n < Len(Numerals)
    PROVE  /\ Itoa(n) \in Atoms /\ Itoa(n) \notin {Sp, Cr, Lf}
           /\ Numeric(<<Itoa(n)>>) /\ ParseUint(<<Itoa(n)>>) = n
<1>1. n + 1 \in DOMAIN Numerals /\ Numerals[n + 1] \in STRING \ {Sp, Cr, Lf, "a"}
  BY Assumed DEF TextAssumption
<1>2. PICK x : x = Itoa(n) /\ x = Numerals[n + 1]
  BY DEF Itoa
<1>3. PICK w : w = <<x>> /\ Len(w) = 1 /\ w[1] = x
  <2>1. Len(<<x>>) = 1 /\ <<x>>[1] = x
    OBVIOUS
  <2> QED
    BY <2>1
<1>4. Numeric(w)
  BY <1>1, <1>2, <1>3 DEF Numeric
<1>5. ASSUME NEW i \in DOMAIN Numerals, Numerals[i] = w[1] PROVE i = n + 1
  BY <1>1, <1>2, <1>3, <1>5, Assumed DEF TextAssumption
<1>6. ParseUint(w) = n
  <2>1. PICK c : c = (CHOOSE i \in DOMAIN Numerals : Numerals[i] = w[1])
    OBVIOUS
  <2>2. Numerals[n + 1] = w[1]
    BY <1>2, <1>3
  <2>3. c \in DOMAIN Numerals /\ Numerals[c] = w[1]
    BY <1>1, <2>1, <2>2
  <2>4. c = n + 1
    BY <1>5, <2>3
  <2>5. ParseUint(w) = c - 1
    BY <2>1 DEF ParseUint
  <2>6. (n + 1) - 1 = n
    OBVIOUS
  <2> QED
    BY <2>4, <2>5, <2>6
<1>7. x \in Atoms
  BY <1>1, <1>2 DEF Atoms
<1> QED
  BY <1>1, <1>2, <1>3, <1>4, <1>6, <1>7

LEMMA NoNumber == ~Numeric(<<"a">>)
<1>1. \A i \in DOMAIN Numerals : Numerals[i] # "a"
  BY Assumed DEF TextAssumption
<1> QED
  BY <1>1 DEF Numeric

LEMMA Decodes ==
    ASSUME NEW k \in DOMAIN Base64
    PROVE  Decoded(Base64[k]) = k /\ k \in Seq(STRING) /\ k # NoKey
<1>1. \E l \in DOMAIN Base64 : Base64[l] = Base64[k]
  OBVIOUS
<1>2. \A l \in DOMAIN Base64 : Base64[l] = Base64[k] => l = k
  BY Assumed DEF TextAssumption
<1>3. (CHOOSE l \in DOMAIN Base64 : Base64[l] = Base64[k]) = k
  BY <1>2
<1>4. k \in Seq(STRING)
  BY Assumed DEF TextAssumption
<1> QED
  BY <1>1, <1>3, <1>4, Assumed DEF Decoded

LEMMA DecodedIs ==
    ASSUME NEW t
    PROVE  Decoded(t) = NoKey \/ (Decoded(t) \in DOMAIN Base64 /\ Base64[Decoded(t)] = t)
BY DEF Decoded

(* What can stand between two spaces of a line. *)
Printed(w) == w \in Texts /\ w # <<>> /\ ~Binary(w)

LEMMA PrintedWord ==
    ASSUME NEW w, Printed(w)
    PROVE  /\ w \in Texts /\ Word(w)
           /\ \A j \in 1..Len(w) : w[j] # Lf /\ w[j] # Cr
<1>1. w \in Seq(Atoms) /\ DOMAIN w = 1..Len(w) /\ Len(w) \in Nat
  BY DEF Printed, Texts
<1>2. \A j \in 1..Len(w) : w[j] \notin {Sp, Cr, Lf}
  BY <1>1 DEF Printed, Binary
<1>3. Len(w) # 0
  BY <1>1 DEF Printed
<1> QED
  BY <1>2, <1>3 DEF Printed, Word

(* Lines of printed words. *)
LEMMA PrintedLine ==
    ASSUME NEW ws \in Seq(Texts), ws # <<>>, \A i \in 1..Len(ws) : Printed(ws[i])
    PROVE  /\ Joined(ws) \in Texts /\ Joined(ws) # <<>> /\ asciiFields(Joined(ws)) = ws
           /\ \A j \in 1..Len(Joined(ws)) : Joined(ws)[j] # Lf /\ Joined(ws)[j] # Cr
           /\ Joined(ws)[1] = ws[1][1]
<1>1. \A i \in 1..Len(ws) : /\ Word(ws[i])
                            /\ \A j \in 1..Len(ws[i]) : ws[i][j] # Lf /\ ws[i][j] # Cr
  BY PrintedWord
<1>2. PICK line \in Texts :
        /\ line = Joined(ws) /\ asciiFields(line) = ws /\ line # <<>>
        /\ \A j \in 1..Len(ws[1]) : line[j] = ws[1][j]
        /\ \A x : x # Sp /\ (\A i \in 1..Len(ws) : \A j \in 1..Len(ws[i]) : ws[i][j] # x)
             => \A j \in 1..Len(line) : line[j] # x
  BY <1>1, JoinedFields
<1>3. \A j \in 1..Len(line) : line[j] # Lf
  BY <1>1, <1>2, Marks
<1>4. \A j \in 1..Len(line) : line[j] # Cr
  BY <1>1, <1>2, Marks
<1>5. line[1] = ws[1][1]
  <2>1. 1 \in 1..Len(ws)
    OBVIOUS
  <2>2. PICK w \in Texts : w = ws[1] /\ Len(w) # 0
    BY <1>1, <2>1 DEF Word
  <2>3. 1 \in 1..Len(w)
    BY <2>2 DEF Texts
  <2> QED
    BY <1>2, <2>2, <2>3
<1> QED
  BY <1>2, <1>3, <1>4, <1>5

-----------------------------------------------------------------------------
(* The words of a command *)

LEMMA JoinWords ==
    ASSUME NEW s \in Seq(Texts), NEW t \in Seq(Texts)
    PROVE  /\ s \o t \in Seq(Texts) /\ Len(s \o t) = Len(s) + Len(t)
           /\ \A i \in 1..Len(s) : (s \o t)[i] = s[i]
           /\ \A i \in 1..Len(t) : (s \o t)[Len(s) + i] = t[i]
           /\ After(s \o t, Len(s)) = t
<1>1. PICK k \in Nat, l \in Nat : k = Len(s) /\ l = Len(t)
  OBVIOUS
<1>2. /\ s \o t \in Seq(Texts) /\ Len(s \o t) = k + l
      /\ \A i \in 1..(k + l) : (s \o t)[i] = IF i <= k THEN s[i] ELSE t[i - k]
  BY <1>1, ConcatProperties
<1>3. ASSUME NEW i \in 1..l PROVE (s \o t)[k + i] = t[i]
  <2>1. k + i \in 1..(k + l) /\ ~(k + i <= k) /\ k + i - k = i
    OBVIOUS
  <2> QED
    BY <1>2, <2>1
<1>4. \A i \in 1..k : (s \o t)[i] = s[i]
  BY <1>2
<1>5. SubSeq(s \o t, k + 1, k + l) = t
  <2>0. PICK b \in Seq(Texts) : b = s \o t
    BY <1>2
  <2>1. PICK w : b = s \o t /\ w = SubSeq(b, k + 1, k + l)
    BY <2>0
  <2>2. \A i \in (k + 1)..(k + l) : b[i] \in Texts
    <3>1. \A i \in (k + 1)..(k + l) : i \in 1..Len(b)
      BY <1>2, <2>1
    <3> QED
      BY <3>1
  <2>3. k + 1 \in Int /\ k + l \in Int /\ (k + l) - (k + 1) + 1 = l
        /\ (IF k + 1 <= k + l THEN (k + l) - (k + 1) + 1 ELSE 0) = l
    OBVIOUS
  <2>4. /\ w \in Seq(Texts)
        /\ Len(w) = IF k + 1 <= k + l THEN (k + l) - (k + 1) + 1 ELSE 0
        /\ \A i \in 1..((k + l) - (k + 1) + 1) : w[i] = b[k + 1 + i - 1]
    <3>1. PICK x \in Int, y \in Int : x = k + 1 /\ y = k + l
      BY <2>3
    <3>2. \A i \in x..y : b[i] \in Texts
      BY <2>2, <3>1
    <3>3. /\ SubSeq(b, x, y) \in Seq(Texts)
          /\ Len(SubSeq(b, x, y)) = IF x <= y THEN y - x + 1 ELSE 0
          /\ \A i \in 1..(y - x + 1) : SubSeq(b, x, y)[i] = b[x + i - 1]
      BY <3>2, SubSeqProperties
    <3> QED
      BY <2>1, <3>1, <3>3
  <2>5. ASSUME NEW i \in 1..l PROVE w[i] = t[i]
    <3>1. k + 1 + i - 1 = k + i
      OBVIOUS
    <3>2. w[i] = b[k + 1 + i - 1]
      BY <2>3, <2>4
    <3> QED
      BY <1>3, <2>1, <3>1, <3>2
  <2>6. Len(w) = l
    BY <2>3, <2>4
  <2>7. w = t
    BY <1>1, <2>4, <2>5, <2>6, SeqEqual
  <2> QED
    BY <2>1, <2>7
<1>6. After(s \o t, k) = t
  BY <1>2, <1>5 DEF After
<1> QED
  BY <1>1, <1>2, <1>3, <1>4, <1>6

LEMMA OneWord ==
    ASSUME NEW w \in Texts
    PROVE  <<w>> \in Seq(Texts) /\ Len(<<w>>) = 1 /\ <<w>>[1] = w
OBVIOUS

(* One atom that is no mark is a printed word. *)
LEMMA OneAtom ==
    ASSUME NEW x \in Atoms, x \notin {Sp, Cr, Lf}
    PROVE  Printed(<<x>>) /\ <<x>> \in Texts /\ Len(<<x>>) = 1 /\ <<x>>[1] = x
<1>1. <<x>> \in Seq(Atoms) /\ Len(<<x>>) = 1 /\ <<x>>[1] = x /\ DOMAIN <<x>> = 1..1
  OBVIOUS
<1>2. PICK w : w = <<x>> /\ w \in Seq(Atoms) /\ Len(w) = 1 /\ w[1] = x /\ DOMAIN w = 1..1
  BY <1>1
<1>3. ~Binary(w)
  BY <1>2 DEF Binary
<1>4. w # <<>>
  BY <1>2
<1> QED
  BY <1>2, <1>3, <1>4 DEF Printed, Texts

(* What a request is. *)
LEMMA RequestIs ==
    ASSUME NEW m \in Requests, ~Refused(m)
    PROVE  /\ m.op \in Ops /\ m.key \in Seq(STRING) /\ m.value \in Seq(STRING)
           /\ m.flags \in Seq(Seq(STRING)) /\ m.hasValue \in BOOLEAN
           /\ Len(m.value) < Len(Numerals) /\ Len(m.value) \in Nat
           /\ Binary(m.key) => m.key \in DOMAIN Base64
           /\ m.op = "mn" => m.key = <<>> /\ m.flags = <<>> /\ ~m.hasValue
           /\ m.op # "mn" => /\ m.hasValue <=> m.op = "ms"
                             /\ m.key # <<>> /\ Len(encodeKey(m.key)) <= MaxWireKey
                             /\ m.op = "me" => ~Binary(m.key)
                             /\ \A i \in DOMAIN m.flags : Printed(m.flags[i])
<1>1. /\ m.op \in Ops /\ m.key \in Seq(STRING) /\ m.value \in Seq(STRING)
      /\ m.flags \in Seq(Seq(STRING)) /\ m.hasValue \in BOOLEAN
  BY Assumed DEF RequestAssumption
<1>2. /\ Len(m.value) < Len(Numerals)
      /\ Binary(m.key) => m.key \in DOMAIN Base64
      /\ m.op = "mn" => m.key = <<>> /\ m.flags = <<>> /\ ~m.hasValue
  BY Assumed DEF RequestAssumption
<1>3. ASSUME m.op # "mn"
      PROVE  /\ m.hasValue <=> m.op = "ms"
             /\ m.key # <<>> /\ Len(encodeKey(m.key)) <= MaxWireKey
             /\ m.op = "me" => ~Binary(m.key)
             /\ \A i \in DOMAIN m.flags : Printed(m.flags[i])
  <2>1. m.hasValue <=> m.op = "ms"
    BY <1>1, <1>3 DEF Refused
  <2>2. m.key # <<>>
    BY <1>3 DEF Refused
  <2>3. ~(Len(encodeKey(m.key)) > MaxWireKey)
    BY <1>3 DEF Refused
  <2>4. m.op = "me" => ~Binary(m.key)
    BY <1>3 DEF Refused, Encoded
  <2>5. \A i \in DOMAIN m.flags : ~badFlag(m.flags[i])
    BY <1>3 DEF Refused, Range
  <2>6. \A i \in DOMAIN m.flags : m.flags[i] \in Seq(STRING)
    BY <1>1
  <2>7. \A i \in DOMAIN m.flags : Printed(m.flags[i])
    BY <2>5, <2>6, StringTexts DEF badFlag, Printed
  <2>8. Len(encodeKey(m.key)) \in Nat
    <3>1. CASE Binary(m.key)
      BY <1>2, <3>1, Assumed DEF encodeKey, Encoded, TextAssumption
    <3>2. CASE ~Binary(m.key)
      BY <1>1, <3>2 DEF encodeKey, Encoded
    <3> QED
      BY <3>1, <3>2
  <2>9. Len(encodeKey(m.key)) <= MaxWireKey
    BY <2>3, <2>8, Assumed DEF LimitAssumption
  <2> QED
    BY <2>1, <2>2, <2>4, <2>7, <2>9
<1>4. Len(m.value) \in Nat
  BY <1>1
<1> QED
  BY <1>1, <1>2, <1>3, <1>4

(* A key as it is sent. *)
LEMMA SentKey ==
    ASSUME NEW k \in Seq(STRING), k # <<>>, Binary(k) => k \in DOMAIN Base64
    PROVE  Printed(encodeKey(k)) /\ encodeKey(k) \in Seq(STRING)
<1>1. CASE Binary(k)
  <2>1. PICK t : t = Base64[k] /\ t = encodeKey(k)
    BY <1>1 DEF encodeKey, Encoded
  <2>2. t \in Seq(STRING) /\ ~Binary(t) /\ Len(t) = 4 * ((Len(k) + 2) \div 3)
    BY <1>1, <2>1, Assumed DEF TextAssumption
  <2>3. PICK n \in Nat : n = Len(k) /\ n # 0
    OBVIOUS
  <2>4. 4 * ((n + 2) \div 3) # 0
    BY <2>3
  <2>5. t # <<>>
    BY <2>2, <2>3, <2>4
  <2> QED
    BY <2>1, <2>2, <2>5, StringTexts DEF Printed
<1>2. CASE ~Binary(k)
  BY <1>2, StringTexts DEF Printed, encodeKey, Encoded
<1> QED
  BY <1>1, <1>2

LEMMA SentFlags ==
    ASSUME NEW m \in Requests, ~Refused(m)
    PROVE  /\ flags(m) \in Seq(Texts)
           /\ \A i \in 1..Len(flags(m)) : Printed(flags(m)[i])
           /\ <<"b">> \in Range(flags(m)) <=> Binary(m.key) \/ <<"b">> \in Range(m.flags)
<1>1. m.flags \in Seq(Texts) /\ \A i \in 1..Len(m.flags) : Printed(m.flags[i])
  <2>1. m.flags \in Seq(Seq(STRING))
    BY RequestIs
  <2>2. \A i \in 1..Len(m.flags) : Printed(m.flags[i])
    <3>1. CASE m.op = "mn"
      <4>1. m.flags = <<>>
        BY <3>1, RequestIs
      <4> QED
        BY <4>1
    <3>2. CASE m.op # "mn"
      <4>1. \A i \in DOMAIN m.flags : Printed(m.flags[i])
        BY <3>2, RequestIs
      <4> QED
        BY <2>1, <4>1
    <3> QED
      BY <3>1, <3>2
  <2>3. m.flags = [i \in 1..Len(m.flags) |-> m.flags[i]] /\ Len(m.flags) \in Nat
    BY <2>1
  <2>4. m.flags \in [1..Len(m.flags) -> Texts]
    BY <2>2, <2>3 DEF Printed
  <2> QED
    BY <2>2, <2>3, <2>4
<1>2. Printed(<<"b">>) /\ <<"b">> \in Texts
  <2>1. "b" \in Atoms /\ "b" \notin {Sp, Cr, Lf}
    BY DEF Atoms, Sp, Cr, Lf
  <2> QED
    BY <2>1, OneAtom
<1>3. CASE Binary(m.key) /\ <<"b">> \notin Range(m.flags)
  <2>0. PICK b \in Texts : b = <<"b">>
    BY <1>2
  <2>1. PICK f : f = flags(m) /\ b = <<"b">> /\ f = Append(m.flags, b)
    BY <1>3, <2>0 DEF flags, Encoded
  <2>2. PICK n \in Nat : n = Len(m.flags)
    BY <1>1
  <2>3. /\ f \in Seq(Texts) /\ Len(f) = n + 1 /\ \A i \in 1..n : f[i] = m.flags[i]
        /\ f[n + 1] = b
    BY <1>1, <2>1, <2>2, AppendProperties
  <2>4. \A i \in 1..Len(f) : Printed(f[i])
    BY <1>1, <1>2, <2>1, <2>2, <2>3
  <2>5. <<"b">> \in Range(f)
    <3>1. n + 1 \in DOMAIN f
      BY <2>3
    <3> QED
      BY <2>1, <2>3, <3>1 DEF Range
  <2> QED
    BY <1>3, <2>1, <2>3, <2>4, <2>5
<1>4. CASE ~(Binary(m.key) /\ <<"b">> \notin Range(m.flags))
  <2>1. flags(m) = m.flags
    BY <1>4 DEF flags, Encoded
  <2> QED
    BY <1>1, <1>4, <2>1
<1> QED
  BY <1>3, <1>4

WordHead(m) ==
    << <<m.op>> >> \o (IF m.op = "mn" THEN <<>> ELSE <<encodeKey(m.key)>>)
    \o (IF m.hasValue THEN << <<Itoa(Len(m.value))>> >> ELSE <<>>)

Words(m) == WordHead(m) \o flags(m)

LEMMA HeadShape ==
    ASSUME NEW m \in Requests, ~Refused(m)
    PROVE  /\ WordHead(m) \in Seq(Texts)
           /\ Len(WordHead(m)) = IF m.op = "mn" THEN 1 ELSE IF m.op = "ms" THEN 3 ELSE 2
           /\ \A i \in 1..Len(WordHead(m)) : Printed(WordHead(m)[i])
           /\ WordHead(m)[1] = <<m.op>>
           /\ m.op # "mn" => WordHead(m)[2] = encodeKey(m.key)
           /\ m.op = "ms" => WordHead(m)[3] = <<Itoa(Len(m.value))>>
<1>1. PICK u \in Texts : u = <<m.op>> /\ Printed(u)
  <2>1. m.op \in Ops
    BY RequestIs
  <2>2. m.op \in Atoms /\ m.op \notin {Sp, Cr, Lf}
    BY <2>1 DEF Atoms, Ops, Sp, Cr, Lf
  <2> QED
    BY <2>2, OneAtom
<1>2. CASE m.op = "mn"
  <2>1. ~m.hasValue
    BY <1>2, RequestIs
  <2>2. WordHead(m) = <<u>> \o <<>> \o <<>>
    BY <1>1, <1>2, <2>1 DEF WordHead
  <2>3. <<u>> \o <<>> \o <<>> = <<u>>
    OBVIOUS
  <2>4. PICK h : h = WordHead(m) /\ h \in Seq(Texts) /\ Len(h) = 1 /\ h[1] = u
    BY <2>2, <2>3, OneWord
  <2>5. \A i \in 1..Len(h) : Printed(h[i])
    BY <1>1, <2>4
  <2> QED
    BY <1>1, <1>2, <2>4, <2>5
<1>3. CASE m.op # "mn"
  <2>1. /\ m.key \in Seq(STRING) /\ m.key # <<>> /\ (Binary(m.key) => m.key \in DOMAIN Base64)
        /\ m.hasValue <=> m.op = "ms"
    BY <1>3, RequestIs
  <2>2. PICK k \in Texts : k = encodeKey(m.key) /\ Printed(k)
    <3>1. Printed(encodeKey(m.key))
      BY <2>1, SentKey
    <3> QED
      BY <3>1 DEF Printed
  <2>9. PICK d \in Seq(Texts) : d = <<u>> \o <<k>> /\ Len(d) = 2 /\ d[1] = u /\ d[2] = k
    <3>1. PICK a \in Seq(Texts) : a = <<u>> /\ Len(a) = 1 /\ a[1] = u
      BY OneWord
    <3>2. PICK b \in Seq(Texts) : b = <<k>> /\ Len(b) = 1 /\ b[1] = k
      BY OneWord
    <3>3. /\ a \o b \in Seq(Texts) /\ Len(a \o b) = Len(a) + Len(b)
          /\ \A i \in 1..Len(a) : (a \o b)[i] = a[i]
          /\ \A i \in 1..Len(b) : (a \o b)[Len(a) + i] = b[i]
      BY JoinWords
    <3>4. 1 \in 1..1 /\ 1 + 1 = 2
      OBVIOUS
    <3>5. (a \o b)[1] = u /\ (a \o b)[1 + 1] = k
      BY <3>1, <3>2, <3>3, <3>4
    <3> QED
      BY <3>1, <3>2, <3>3, <3>4, <3>5
  <2>3. CASE m.op = "ms"
    <3>1. PICK z \in Texts : z = <<Itoa(Len(m.value))>> /\ Printed(z)
      <4>1. Len(m.value) \in Nat /\ Len(m.value) < Len(Numerals)
        BY RequestIs
      <4>2. Itoa(Len(m.value)) \in Atoms /\ Itoa(Len(m.value)) \notin {Sp, Cr, Lf}
        BY <4>1, Numbers
      <4> QED
        BY <4>2, OneAtom
    <3>2. WordHead(m) = <<u>> \o <<k>> \o <<z>>
      BY <1>1, <1>3, <2>1, <2>2, <2>3, <3>1 DEF WordHead
    <3>3. PICK c \in Seq(Texts) : c = <<z>> /\ Len(c) = 1 /\ c[1] = z
      BY OneWord
    <3>4. /\ d \o c \in Seq(Texts) /\ Len(d \o c) = Len(d) + Len(c)
          /\ \A i \in 1..Len(d) : (d \o c)[i] = d[i]
          /\ \A i \in 1..Len(c) : (d \o c)[Len(d) + i] = c[i]
      BY JoinWords
    <3>5. PICK h : h = WordHead(m) /\ h \in Seq(Texts) /\ Len(h) = 3 /\ h[1] = u /\ h[2] = k
                   /\ h[3] = z
      <4>1. PICK h \in Seq(Texts) : h = d \o c
        BY <3>4
      <4>2. h = WordHead(m)
        BY <2>9, <3>2, <3>3, <4>1
      <4>3. 1 \in 1..2 /\ 2 \in 1..2 /\ 1 \in 1..1 /\ 2 + 1 = 3
        OBVIOUS
      <4>4. h[2 + 1] = z
        BY <2>9, <3>3, <3>4, <4>1, <4>3
      <4>5. h[1] = u /\ h[2] = k
        BY <2>9, <3>4, <4>1, <4>3
      <4>6. Len(h) = 3
        BY <2>9, <3>3, <3>4, <4>1, <4>3
      <4>7. h[3] = z
        BY <4>3, <4>4
      <4> QED
        BY <4>2, <4>5, <4>6, <4>7
    <3>6. \A i \in 1..Len(h) : Printed(h[i])
      <4>1. \A i \in 1..3 : i = 1 \/ i = 2 \/ i = 3
        OBVIOUS
      <4> QED
        BY <1>1, <2>2, <3>1, <3>5, <4>1
    <3> QED
      BY <1>1, <1>3, <2>2, <2>3, <3>1, <3>5, <3>6
  <2>4. CASE m.op # "ms"
    <3>2. WordHead(m) = <<u>> \o <<k>> \o <<>>
      BY <1>1, <1>3, <2>1, <2>2, <2>4 DEF WordHead
    <3>3. d \o <<>> = d
      OBVIOUS
    <3>5. PICK h : h = WordHead(m) /\ h \in Seq(Texts) /\ Len(h) = 2 /\ h[1] = u /\ h[2] = k
      BY <2>9, <3>2, <3>3
    <3>6. \A i \in 1..Len(h) : Printed(h[i])
      <4>1. \A i \in 1..2 : i = 1 \/ i = 2
        OBVIOUS
      <4> QED
        BY <1>1, <2>2, <3>5, <4>1
    <3> QED
      BY <1>1, <1>3, <2>2, <2>4, <3>5, <3>6
  <2> QED
    BY <2>3, <2>4
<1> QED
  BY <1>2, <1>3

LEMMA WordsShape ==
    ASSUME NEW m \in Requests, ~Refused(m)
    PROVE  /\ Words(m) \in Seq(Texts) /\ Words(m) # <<>>
           /\ \A i \in 1..Len(Words(m)) : Printed(Words(m)[i])
           /\ Words(m)[1] = <<m.op>>
           /\ m.op # "mn" => Len(Words(m)) >= 2 /\ Words(m)[2] = encodeKey(m.key)
           /\ m.op = "ms" => Len(Words(m)) >= 3 /\ Words(m)[3] = <<Itoa(Len(m.value))>>
           /\ SubSeq(Words(m), IF m.op = "ms" THEN 4 ELSE 3, Len(Words(m))) = flags(m)
<1>1. PICK h \in Seq(Texts), f \in Seq(Texts) : h = WordHead(m) /\ f = flags(m)
  BY HeadShape, SentFlags
<1>2. /\ \A i \in 1..Len(h) : Printed(h[i])
      /\ \A i \in 1..Len(f) : Printed(f[i])
      /\ Len(h) = IF m.op = "mn" THEN 1 ELSE IF m.op = "ms" THEN 3 ELSE 2
      /\ h[1] = <<m.op>>
      /\ m.op # "mn" => h[2] = encodeKey(m.key)
      /\ m.op = "ms" => h[3] = <<Itoa(Len(m.value))>>
  BY <1>1, HeadShape, SentFlags
<1>3. PICK w \in Seq(Texts) : /\ w = Words(m) /\ w = h \o f /\ Len(w) = Len(h) + Len(f)
                              /\ \A i \in 1..Len(h) : w[i] = h[i]
                              /\ \A i \in 1..Len(f) : w[Len(h) + i] = f[i]
                              /\ After(w, Len(h)) = f
  <2>1. /\ h \o f \in Seq(Texts) /\ Len(h \o f) = Len(h) + Len(f)
        /\ \A i \in 1..Len(h) : (h \o f)[i] = h[i]
        /\ \A i \in 1..Len(f) : (h \o f)[Len(h) + i] = f[i]
        /\ After(h \o f, Len(h)) = f
    BY JoinWords
  <2> QED
    BY <1>1, <2>1 DEF Words
<1>4. PICK k \in Nat, l \in Nat : k = Len(h) /\ l = Len(f) /\ k >= 1
  <2>1. PICK k \in Nat, l \in Nat : k = Len(h) /\ l = Len(f)
    OBVIOUS
  <2>2. k = 1 \/ k = 2 \/ k = 3
    BY <1>2, <2>1
  <2>3. k >= 1
    BY <2>2
  <2> QED
    BY <2>1, <2>3
<1>5. w # <<>> /\ Len(w) >= k
  BY <1>3, <1>4
<1>6. \A i \in 1..Len(w) : Printed(w[i])
  <2>1. ASSUME NEW i \in 1..(k + l) PROVE Printed(w[i])
    <3>1. CASE i <= k
      BY <1>2, <1>3, <1>4, <3>1
    <3>2. CASE ~(i <= k)
      <4>1. i - k \in 1..l /\ k + (i - k) = i
        BY <3>2
      <4>2. w[k + (i - k)] = f[i - k]
        BY <1>3, <1>4, <4>1
      <4> QED
        BY <1>2, <1>4, <4>1, <4>2
    <3> QED
      BY <3>1, <3>2
  <2> QED
    BY <1>3, <1>4, <2>1
<1>7. \A i \in 1..k : w[i] = h[i]
  BY <1>3, <1>4
<1>8. w[1] = <<m.op>>
  BY <1>2, <1>4, <1>7
<1>9. m.op # "mn" => Len(w) >= 2 /\ w[2] = encodeKey(m.key)
  <2>1. ASSUME m.op # "mn" PROVE Len(w) >= 2 /\ w[2] = encodeKey(m.key)
    <3>1. k >= 2
      BY <1>2, <1>4, <2>1
    <3> QED
      BY <1>2, <1>5, <1>7, <2>1, <3>1
  <2> QED
    BY <2>1
<1>10. m.op = "ms" => Len(w) >= 3 /\ w[3] = <<Itoa(Len(m.value))>>
  <2>1. ASSUME m.op = "ms" PROVE Len(w) >= 3 /\ w[3] = <<Itoa(Len(m.value))>>
    <3>1. k = 3
      BY <1>2, <1>4, <2>1
    <3> QED
      BY <1>2, <1>5, <1>7, <2>1, <3>1
  <2> QED
    BY <2>1
<1>11. SubSeq(w, IF m.op = "ms" THEN 4 ELSE 3, Len(w)) = f
  <2>1. CASE m.op = "mn"
    <3>1. m.flags = <<>> /\ m.key = <<>>
      BY <2>1, RequestIs
    <3>2. ~Binary(m.key)
      BY <3>1 DEF Binary
    <3>3. f = <<>>
      BY <1>1, <3>1, <3>2 DEF flags, Encoded
    <3>4. Len(w) = 1
      BY <1>2, <1>3, <2>1, <3>3
    <3> QED
      BY <2>1, <3>3, <3>4
  <2>2. CASE m.op = "ms"
    <3>1. k + 1 = 4
      BY <1>2, <1>4, <2>2
    <3>2. SubSeq(w, k + 1, Len(w)) = f
      BY <1>3, <1>4 DEF After
    <3> QED
      BY <2>2, <3>1, <3>2
  <2>3. CASE m.op # "mn" /\ m.op # "ms"
    <3>1. k + 1 = 3
      BY <1>2, <1>4, <2>3
    <3>2. SubSeq(w, k + 1, Len(w)) = f
      BY <1>3, <1>4 DEF After
    <3> QED
      BY <2>3, <3>1, <3>2
  <2> QED
    BY <2>1, <2>2, <2>3
<1> QED
  BY <1>1, <1>3, <1>5, <1>6, <1>8, <1>9, <1>10, <1>11

(* A command at the beginning of a stream, and what is behind it. *)
Used(m, n) == IF m.hasValue THEN n + Len(m.value) + 2 ELSE n

Begun(b, m, rest, n) ==
    /\ marshal(m) \in Texts /\ b \in Texts /\ n \in Nat /\ n > 0
    /\ asciiFields(SubSeq(b, 1, n - 2)) = Words(m)
    /\ After(b, Used(m, n)) = rest
    /\ m.hasValue => SubSeq(b, n + 1, n + Len(m.value)) = m.value
    /\ SubSeq(b, n + 1, n + 0) = <<>>

LEMMA Command ==
    ASSUME NEW m \in Requests, ~Refused(m), NEW rest \in Texts
    PROVE  Begun(marshal(m) \o rest, m, rest, LfAt(marshal(m) \o rest))
<1>a. PICK b : b = marshal(m) \o rest
  OBVIOUS
<1>b. PICK n : n = LfAt(b)
  OBVIOUS
<1>c. PICK used : used = Used(m, n)
  OBVIOUS
<1>1. PICK J \in Texts :
        /\ J = Joined(Words(m)) /\ asciiFields(J) = Words(m)
        /\ \A j \in 1..Len(J) : J[j] # Lf /\ J[j] # Cr
  <2>1. PICK w \in Seq(Texts) : w = Words(m) /\ w # <<>> /\ \A i \in 1..Len(w) : Printed(w[i])
    BY WordsShape
  <2>2. /\ Joined(w) \in Texts /\ asciiFields(Joined(w)) = w
        /\ \A j \in 1..Len(Joined(w)) : Joined(w)[j] # Lf /\ Joined(w)[j] # Cr
    BY <2>1, PrintedLine
  <2> QED
    BY <2>1, <2>2
<1>2. PICK val \in Texts : val = m.value
  <2>1. m.value \in Seq(STRING)
    BY RequestIs
  <2> QED
    BY <2>1, StringTexts
<1>3. PICK crlf \in Texts : crlf = Crlf /\ Len(crlf) = 2
  BY LineEnds
<1>4. PICK B \in Texts : B = IF m.hasValue THEN val \o crlf ELSE <<>>
  <2>1. val \o crlf \in Texts
    BY JoinTexts
  <2>2. <<>> \in Texts
    BY DEF Texts
  <2> QED
    BY <2>1, <2>2
<1>5. PICK L \in Texts : L = J \o crlf /\ Len(L) = Len(J) + 2
  <2>1. J \o crlf \in Texts /\ Len(J \o crlf) = Len(J) + Len(crlf)
    BY JoinTexts
  <2> QED
    BY <1>3, <2>1
<1>6. marshal(m) = L \o B
  BY <1>1, <1>2, <1>3, <1>4, <1>5 DEF marshal, Words, WordHead
<1>7. L \o B \in Texts
  BY JoinTexts
<1>8. PICK c \in Texts : c = B \o rest
  BY JoinTexts
<1>9. b = L \o c
  <2>1. (L \o B) \o rest = L \o (B \o rest)
    BY Associates
  <2> QED
    BY <1>a, <1>6, <1>8, <2>1
<1>10. PICK h \in Nat : h = Len(J) /\ Len(L) = h + 2
  BY <1>5 DEF Texts
<1>11. /\ b \in Texts /\ n = h + 2 /\ SubSeq(b, 1, h) = J /\ After(b, h + 2) = c
  <2>1. b = (J \o Crlf) \o c
    BY <1>3, <1>5, <1>9
  <2>2. \A i \in 1..Len(J) : J[i] # Lf
    BY <1>1
  <2>3. Lined(b, J, c)
    BY <2>1, <2>2, FirstLine
  <2> QED
    BY <1>b, <1>10, <2>3 DEF Lined
<1>12. asciiFields(SubSeq(b, 1, n - 2)) = Words(m)
  <2>1. (h + 2) - 2 = h
    OBVIOUS
  <2> QED
    BY <1>1, <1>11, <2>1
<1>13. CASE m.hasValue
  <2>1. PICK l \in Nat : l = Len(val) /\ Len(L) = n
    BY <1>10, <1>11 DEF Texts
  <2>2. B = val \o crlf
    BY <1>4, <1>13
  <2>3. PICK d \in Texts : d = crlf \o rest
    BY JoinTexts
  <2>4. c = val \o d
    <3>1. (val \o crlf) \o rest = val \o (crlf \o rest)
      BY Associates, SMTT(40)
    <3> QED
      BY <1>8, <2>2, <2>3, <3>1
  <2>5. b = (L \o val) \o d
    <3>1. (L \o val) \o d = L \o (val \o d)
      BY Associates, SMTT(40)
    <3> QED
      BY <1>9, <2>4, <3>1
  <2>6. SubSeq(b, n + 1, n + Len(val)) = val
    <3>1. SubSeq((L \o val) \o d, Len(L) + 1, Len(L) + Len(val)) = val
      BY Middle
    <3> QED
      BY <2>1, <2>5, <3>1
  <2>7. After(b, n + l + 2) = rest
    <3>1. PICK X \in Texts : X = L \o B /\ Len(X) = n + (l + 2)
      <4>1. L \o B \in Texts /\ Len(L \o B) = Len(L) + Len(B)
        BY JoinTexts
      <4>2. Len(val \o crlf) = Len(val) + Len(crlf)
        BY JoinTexts
      <4> QED
        BY <1>3, <2>1, <2>2, <4>1, <4>2
    <3>2. After(X \o rest, Len(X)) = rest
      BY Halves
    <3>3. n + (l + 2) = n + l + 2
      BY <1>11
    <3> QED
      BY <1>a, <1>6, <3>1, <3>2, <3>3
  <2>8. used = n + l + 2
    BY <1>2, <1>13, <1>c, <2>1 DEF Used
  <2>9. SubSeq(b, n + 1, n + 0) = <<>>
    BY <1>11
  <2>10. marshal(m) \in Texts /\ b \in Texts /\ n \in Nat /\ n > 0
    BY <1>6, <1>7, <1>11
  <2>11. After(b, used) = rest
    BY <2>7, <2>8
  <2>12. SubSeq(b, n + 1, n + Len(m.value)) = m.value
    BY <1>2, <2>6
  <2> QED
    BY <1>a, <1>b, <1>c, <1>12, <2>9, <2>10, <2>11, <2>12 DEF Begun
<1>14. CASE ~m.hasValue
  <2>1. B = <<>>
    BY <1>4, <1>14
  <2>2. c = rest
    <3>1. <<>> \o rest = rest
      BY DEF Texts
    <3> QED
      BY <1>8, <2>1, <3>1
  <2>3. used = n
    BY <1>14, <1>c DEF Used
  <2>4. SubSeq(b, n + 1, n + 0) = <<>>
    BY <1>11
  <2> QED
    BY <1>a, <1>b, <1>c, <1>6, <1>7, <1>11, <1>12, <1>14, <2>2, <2>3, <2>4 DEF Begun
<1>15. m.hasValue \in BOOLEAN
  BY RequestIs
<1> QED
  BY <1>13, <1>14, <1>15

(* The key the server makes of the words is the one that was meant. *)
LEMMA ServedKey ==
    ASSUME NEW m \in Requests, ~Refused(m)
    PROVE  Meant(m).key = IF m.op = "mn" THEN <<>>
                          ELSE IF <<"b">> \in Range(flags(m)) THEN Decoded(encodeKey(m.key))
                          ELSE encodeKey(m.key)
<1>1. Meant(m).key = IF <<"b">> \in Range(m.flags) /\ ~Binary(m.key) THEN Decoded(m.key)
                     ELSE m.key
  BY DEF Meant
<1>2. <<"b">> \in Range(flags(m)) <=> Binary(m.key) \/ <<"b">> \in Range(m.flags)
  BY SentFlags
<1>3. CASE m.op = "mn"
  <2>1. m.key = <<>> /\ m.flags = <<>>
    BY <1>3, RequestIs
  <2>2. <<"b">> \notin Range(m.flags)
    BY <2>1 DEF Range
  <2> QED
    BY <1>1, <1>3, <2>1, <2>2
<1>4. CASE m.op # "mn" /\ Binary(m.key)
  <2>1. m.key \in DOMAIN Base64
    BY <1>4, RequestIs
  <2>2. encodeKey(m.key) = Base64[m.key]
    BY <1>4 DEF encodeKey, Encoded
  <2> QED
    BY <1>1, <1>2, <1>4, <2>1, <2>2, Decodes
<1>5. CASE m.op # "mn" /\ ~Binary(m.key)
  <2>1. encodeKey(m.key) = m.key
    BY <1>5 DEF encodeKey, Encoded
  <2> QED
    BY <1>1, <1>2, <1>5, <2>1
<1> QED
  BY <1>3, <1>4, <1>5

(* The server takes the next command from the stream, and only that. *)
LEMMA ServeNext ==
    ASSUME NEW m \in Requests, ~Refused(m), NEW rest \in Texts,
           toServer = marshal(m) \o rest, Serve
    PROVE  /\ toServer' = rest /\ served' = Append(served, Meant(m))
           /\ \/ Answer(NoAnswer, "error")
              \/ \E a \in Answers(m.op, Range(flags(m)), Meant(m).key), f \in Faults :
                   Meant(m).key # NoKey /\ Fits(f, a.code) /\ Answer(a, f)
<1>1. PICK n : n = LfAt(toServer)
  OBVIOUS
<1>2. PICK used : used = IF m.hasValue THEN n + Len(m.value) + 2 ELSE n
  OBVIOUS
<1>3. /\ n \in Nat /\ asciiFields(SubSeq(toServer, 1, n - 2)) = Words(m)
      /\ After(toServer, used) = rest
      /\ m.hasValue => SubSeq(toServer, n + 1, n + Len(m.value)) = m.value
      /\ SubSeq(toServer, n + 1, n + 0) = <<>>
  <2>1. Begun(marshal(m) \o rest, m, rest, LfAt(marshal(m) \o rest))
    BY Command
  <2>2. Begun(toServer, m, rest, n)
    BY <1>1, <2>1
  <2> QED
    BY <1>2, <2>2 DEF Begun, Used
<1>4. PICK w : /\ w = Words(m) /\ w[1] = <<m.op>>
               /\ m.op # "mn" => Len(w) >= 2 /\ w[2] = encodeKey(m.key)
               /\ m.op = "ms" => Len(w) >= 3 /\ w[3] = <<Itoa(Len(m.value))>>
               /\ SubSeq(w, IF m.op = "ms" THEN 4 ELSE 3, Len(w)) = flags(m)
               /\ w \in Seq(Texts)
  BY WordsShape
<1>5. w[1][1] = m.op
  <2>1. <<m.op>>[1] = m.op
    OBVIOUS
  <2> QED
    BY <1>4, <2>1
<1>6. /\ m.op \in Ops /\ Len(m.value) \in Nat /\ Len(m.value) < Len(Numerals)
      /\ m.hasValue \in BOOLEAN /\ (m.hasValue <=> m.op = "ms")
  <2>1. m.op = "mn" => ~m.hasValue
    BY RequestIs
  <2>2. m.op # "mn" => (m.hasValue <=> m.op = "ms")
    BY RequestIs
  <2> QED
    BY <2>1, <2>2, RequestIs
<1>7. Numeric(<<Itoa(Len(m.value))>>) /\ ParseUint(<<Itoa(Len(m.value))>>) = Len(m.value)
  BY <1>6, Numbers
<1> DEFINE fl == Range(SubSeq(w, IF m.op = "ms" THEN 4 ELSE 3, Len(w)))
           key == IF m.op = "mn" THEN <<>> ELSE IF <<"b">> \in fl THEN Decoded(w[2]) ELSE w[2]
           sized == m.op = "ms" /\ Len(w) > 2 /\ Numeric(w[3])
           size == IF sized THEN ParseUint(w[3]) ELSE 0
           end == IF sized THEN n + size + 2 ELSE n
<1>8. /\ toServer' = After(toServer, end)
      /\ served' = Append(served, [op |-> m.op, key |-> key,
                                   value |-> SubSeq(toServer, n + 1, n + size)])
      /\ IF m.op \notin Ops \/ key = NoKey \/ (m.op # "mn" /\ Len(w) < 2) \/ (m.op = "ms" /\ ~sized)
         THEN Answer(NoAnswer, "error")
         ELSE \E a \in Answers(m.op, fl, key), f \in Faults : Fits(f, a.code) /\ Answer(a, f)
  BY <1>1, <1>3, <1>4, <1>5 DEF Serve
<1>9. fl = Range(flags(m))
  BY <1>4
<1>10. key = Meant(m).key
  <2>1. m.op # "mn" => w[2] = encodeKey(m.key)
    BY <1>4
  <2> HIDE DEF fl
  <2> QED
    BY <1>9, <2>1, ServedKey
<1>11. sized <=> m.op = "ms"
  <2>1. m.op = "ms" => Len(w) > 2
    <3>1. Len(w) \in Nat
      BY <1>4
    <3> QED
      BY <1>4, <3>1
  <2> QED
    BY <1>4, <1>7, <2>1
<1>12. end = used
  <2>1. CASE m.op = "ms"
    <3>1. size = Len(m.value)
      BY <1>4, <1>7, <1>11, <2>1
    <3> HIDE DEF size, sized
    <3> QED
      BY <1>2, <1>6, <1>11, <2>1, <3>1
  <2>2. CASE m.op # "ms"
    <3> HIDE DEF size, sized
    <3> QED
      BY <1>2, <1>6, <1>11, <2>2
  <2> QED
    BY <2>1, <2>2
<1>13. SubSeq(toServer, n + 1, n + size) = Meant(m).value
  <2>0. Meant(m).value = IF m.hasValue THEN m.value ELSE <<>>
    BY DEF Meant
  <2>1. CASE m.op = "ms"
    <3>1. size = Len(m.value)
      BY <1>4, <1>7, <1>11, <2>1
    <3> HIDE DEF size, sized
    <3> QED
      BY <1>3, <1>6, <2>0, <2>1, <3>1
  <2>2. CASE m.op # "ms"
    <3>1. size = 0
      <4> HIDE DEF sized
      <4> QED
        BY <1>11, <2>2
    <3> HIDE DEF size
    <3> QED
      BY <1>3, <1>6, <2>0, <2>2, <3>1
  <2> QED
    BY <2>1, <2>2
<1> HIDE DEF fl, key, sized, size, end
<1>14. [op |-> m.op, key |-> key, value |-> SubSeq(toServer, n + 1, n + size)] = Meant(m)
  <2>1. Meant(m) = [op |-> m.op, key |-> Meant(m).key, value |-> Meant(m).value]
    BY DEF Meant
  <2> QED
    BY <1>10, <1>13, <2>1
<1>15. ~(m.op \notin Ops) /\ ~(m.op = "ms" /\ ~sized) /\ ~(m.op # "mn" /\ Len(w) < 2)
  <2>1. m.op # "mn" => ~(Len(w) < 2)
    <3>1. Len(w) \in Nat
      BY <1>4
    <3> QED
      BY <1>4, <3>1
  <2> QED
    BY <1>6, <1>11, <2>1
<1>16. CASE key = NoKey
  BY <1>3, <1>8, <1>12, <1>14, <1>15, <1>16
<1>17. CASE key # NoKey
  <2>1. \E a \in Answers(m.op, fl, key), f \in Faults : Fits(f, a.code) /\ Answer(a, f)
    BY <1>8, <1>15, <1>17
  <2> QED
    BY <1>3, <1>8, <1>9, <1>10, <1>12, <1>14, <1>17, <2>1
<1> QED
  BY <1>16, <1>17

-----------------------------------------------------------------------------
(* The stream of commands *)

Meanings == {Meant(m) : m \in Requests}

(* The server has understood the first of the commands that were written. *)
Understood ==
    /\ wrote \in Seq(Meanings) /\ served \in Seq(Meanings)
    /\ Len(served) <= Len(wrote)
    /\ \A i \in 1..Len(served) : served[i] = wrote[i]

(* rests[i] is the stream from behind the i-th command: it begins with the *)
(* text of the next.                                                       *)
Holds(rests, s, w) ==
    /\ \A i \in s..Len(w) : rests[i] \in Texts
    /\ rests[Len(w)] = <<>>
    /\ \A i \in (s + 1)..Len(w) :
         \E m \in Requests : /\ ~Refused(m) /\ Meant(m) = w[i]
                             /\ rests[i - 1] = marshal(m) \o rests[i]

(* Until it is cut, the stream is the texts of the commands not yet served. *)
ServerStream ==
    ~eof => \E rests : rests[Len(served)] = toServer /\ Holds(rests, Len(served), wrote)

ServerInv == eof \in BOOLEAN /\ Understood /\ ServerStream

LEMMA ServerInit == Init => ServerInv
<1>1. SUFFICES ASSUME Init PROVE ServerInv
  OBVIOUS
<1>2. eof \in BOOLEAN /\ wrote = <<>> /\ served = <<>> /\ toServer = <<>>
  BY <1>1 DEF Init
<1>3. PICK rests : rests = [i \in 0..0 |-> <<>>]
  OBVIOUS
<1>4. rests[0] = <<>> /\ \A i \in 0..0 : rests[i] = <<>>
  BY <1>3
<1>5. Holds(rests, 0, <<>>)
  <2>1. Len(<<>>) = 0 /\ <<>> \in Texts /\ \A i \in (0 + 1)..0 : FALSE
    BY DEF Texts
  <2>2. \A i \in 0..0 : rests[i] \in Texts
    BY <1>4, <2>1
  <2> QED
    BY <1>4, <2>1, <2>2 DEF Holds
<1>6. ServerStream
  BY <1>2, <1>4, <1>5 DEF ServerStream
<1>7. Understood
  BY <1>2 DEF Understood
<1> QED
  BY <1>2, <1>6, <1>7 DEF ServerInv

LEMMA ServerWrite ==
    ASSUME ServerInv, NEW m \in Requests, Write(m)
    PROVE  ServerInv'
<1>1. /\ ~Refused(m) /\ wrote' = Append(wrote, Meant(m))
      /\ toServer' = IF eof THEN toServer ELSE toServer \o marshal(m)
      /\ served' = served /\ eof' = eof
  BY DEF Write
<1>2. /\ wrote \in Seq(Meanings) /\ served \in Seq(Meanings) /\ Len(served) <= Len(wrote)
      /\ \A i \in 1..Len(served) : served[i] = wrote[i]
  BY DEF ServerInv, Understood
<1>3. PICK n \in Nat, s \in Nat : n = Len(wrote) /\ s = Len(served) /\ s <= n
  BY <1>2
<1>4. /\ wrote' \in Seq(Meanings) /\ Len(wrote') = n + 1 /\ wrote'[n + 1] = Meant(m)
      /\ \A i \in 1..n : wrote'[i] = wrote[i]
  <2>1. Meant(m) \in Meanings
    BY DEF Meanings
  <2> QED
    BY <1>1, <1>2, <1>3, <2>1, AppendProperties
<1>5. Understood'
  <2>1. \A i \in 1..s : served[i] = wrote'[i]
    <3>1. \A i \in 1..s : i \in 1..n
      BY <1>3
    <3> QED
      BY <1>2, <1>3, <1>4, <3>1
  <2> QED
    BY <1>1, <1>2, <1>3, <1>4, <2>1 DEF Understood
<1>6. ASSUME ~eof
      PROVE  \E rests : rests[s] = toServer' /\ Holds(rests, s, wrote')
  <2>1. PICK old : old[s] = toServer /\ Holds(old, s, wrote)
    BY <1>3, <1>6 DEF ServerInv, ServerStream
  <2>2. /\ \A i \in s..n : old[i] \in Texts
        /\ old[n] = <<>>
        /\ \A i \in (s + 1)..n : \E k \in Requests : /\ ~Refused(k) /\ Meant(k) = wrote[i]
                                                     /\ old[i - 1] = marshal(k) \o old[i]
    BY <1>3, <2>1 DEF Holds
  <2>3. PICK t \in Texts : t = marshal(m)
    <3>1. <<>> \in Texts
      BY DEF Texts
    <3>2. Begun(marshal(m) \o <<>>, m, <<>>, LfAt(marshal(m) \o <<>>))
      BY <1>1, <3>1, Command
    <3> QED
      BY <3>2 DEF Begun
  <2>4. <<>> \o t = t /\ t \o <<>> = t /\ <<>> \in Texts
    BY DEF Texts
  <2>5. PICK rests : rests = [i \in s..(n + 1) |-> IF i = n + 1 THEN <<>> ELSE old[i] \o t]
    OBVIOUS
  <2>6. rests[n + 1] = <<>>
    <3>1. n + 1 \in s..(n + 1)
      BY <1>3
    <3> QED
      BY <2>5, <3>1
  <2>7. ASSUME NEW i \in s..n PROVE rests[i] = old[i] \o t /\ rests[i] \in Texts
    <3>1. i \in s..(n + 1) /\ i # n + 1
      OBVIOUS
    <3>2. rests[i] = old[i] \o t
      BY <2>5, <3>1
    <3>3. old[i] \o t \in Texts
      BY <2>2, JoinTexts
    <3> QED
      BY <3>2, <3>3
  <2>8. \A i \in s..(n + 1) : rests[i] \in Texts
    <3>1. \A i \in s..(n + 1) : i \in s..n \/ i = n + 1
      OBVIOUS
    <3> QED
      BY <2>4, <2>6, <2>7, <3>1
  <2>9. ASSUME NEW i \in (s + 1)..(n + 1)
        PROVE  \E k \in Requests : /\ ~Refused(k) /\ Meant(k) = wrote'[i]
                                   /\ rests[i - 1] = marshal(k) \o rests[i]
    <3>1. CASE i = n + 1
      <4>1. i - 1 = n /\ n \in s..n
        BY <1>3, <3>1
      <4>2. rests[i - 1] = <<>> \o t
        BY <2>2, <2>7, <4>1
      <4>3. rests[i - 1] = marshal(m) \o rests[i]
        BY <2>3, <2>4, <2>6, <3>1, <4>2
      <4> QED
        BY <1>1, <1>4, <3>1, <4>3
    <3>2. CASE i # n + 1
      <4>1. i \in (s + 1)..n /\ i \in s..n /\ i - 1 \in s..n /\ i \in 1..n
        BY <3>2
      <4>2. PICK k \in Requests : /\ ~Refused(k) /\ Meant(k) = wrote[i]
                                  /\ old[i - 1] = marshal(k) \o old[i]
        BY <2>2, <4>1
      <4>3. PICK u \in Texts, v \in Texts : u = marshal(k) /\ v = old[i]
        <5>1. Begun(marshal(k) \o old[i], k, old[i], LfAt(marshal(k) \o old[i]))
          BY <2>2, <4>1, <4>2, Command
        <5> QED
          BY <2>2, <4>1, <5>1 DEF Begun
      <4>4. (u \o v) \o t = u \o (v \o t)
        BY Associates
      <4>5. rests[i - 1] = marshal(k) \o rests[i]
        BY <2>7, <4>1, <4>2, <4>3, <4>4
      <4> QED
        BY <1>4, <4>1, <4>2, <4>5
    <3> QED
      BY <3>1, <3>2
  <2>10. rests[s] = toServer'
    <3>1. s \in s..n
      BY <1>3
    <3> QED
      BY <1>1, <1>6, <2>1, <2>3, <2>7, <3>1
  <2> QED
    BY <1>4, <2>6, <2>8, <2>9, <2>10 DEF Holds
<1>7. ServerStream'
  BY <1>1, <1>3, <1>6 DEF ServerStream
<1> QED
  BY <1>1, <1>5, <1>7 DEF ServerInv

(* What the server takes next. *)
Ahead(m, rest) ==
    /\ ~Refused(m) /\ Meant(m) = wrote[Len(served) + 1]
    /\ Len(served) + 1 <= Len(wrote)
    /\ toServer = marshal(m) \o rest
    /\ \E rests : rests[Len(served) + 1] = rest /\ Holds(rests, Len(served) + 1, wrote)

LEMMA NextCommand ==
    ASSUME ServerInv, Serve
    PROVE  \E m \in Requests, rest \in Texts : Ahead(m, rest)
<1>1. ~eof /\ LfAt(toServer) > 0
  BY DEF Serve
<1>2. PICK n \in Nat, s \in Nat : n = Len(wrote) /\ s = Len(served) /\ s <= n
  BY DEF ServerInv, Understood
<1>3. PICK rests : rests[s] = toServer /\ Holds(rests, s, wrote)
  BY <1>1, <1>2 DEF ServerInv, ServerStream
<1>4. /\ \A i \in s..n : rests[i] \in Texts
      /\ rests[n] = <<>>
      /\ \A i \in (s + 1)..n : \E k \in Requests : /\ ~Refused(k) /\ Meant(k) = wrote[i]
                                                   /\ rests[i - 1] = marshal(k) \o rests[i]
  BY <1>2, <1>3 DEF Holds
<1>5. s # n
  <2>1. ASSUME s = n PROVE FALSE
    <3>1. toServer = <<>> /\ <<>> \in Texts
      BY <1>3, <1>4, <2>1 DEF Texts
    <3>2. LfAt(<<>>) = 0
      BY <3>1, NoLf
    <3> QED
      BY <1>1, <3>1, <3>2
  <2> QED
    BY <2>1
<1>6. s + 1 \in (s + 1)..n /\ s + 1 \in s..n /\ (s + 1) - 1 = s
  BY <1>2, <1>5
<1>7. PICK m \in Requests : /\ ~Refused(m) /\ Meant(m) = wrote[s + 1]
                            /\ rests[(s + 1) - 1] = marshal(m) \o rests[s + 1]
  BY <1>4, <1>6
<1>8. Holds(rests, s + 1, wrote)
  <2>1. \A i \in (s + 1)..n : i \in s..n
    OBVIOUS
  <2>2. \A i \in ((s + 1) + 1)..n : i \in (s + 1)..n
    OBVIOUS
  <2> QED
    BY <1>2, <1>4, <2>1, <2>2 DEF Holds
<1>9. toServer = marshal(m) \o rests[s + 1] /\ rests[s + 1] \in Texts
  BY <1>3, <1>4, <1>6, <1>7
<1>10. s + 1 <= n
  BY <1>2, <1>5
<1>11. Ahead(m, rests[s + 1])
  BY <1>2, <1>7, <1>8, <1>9, <1>10 DEF Ahead
<1> QED
  BY <1>9, <1>11

LEMMA ServerServe ==
    ASSUME ServerInv, Serve
    PROVE  ServerInv'
<1>0. PICK m \in Requests, rest \in Texts : Ahead(m, rest)
  BY NextCommand
<1>1. PICK rests :
        /\ ~Refused(m) /\ Meant(m) = wrote[Len(served) + 1]
        /\ Len(served) + 1 <= Len(wrote)
        /\ toServer = marshal(m) \o rest
        /\ rests[Len(served) + 1] = rest /\ Holds(rests, Len(served) + 1, wrote)
  BY <1>0 DEF Ahead
<1>2. toServer' = rest /\ served' = Append(served, Meant(m))
  BY <1>1, ServeNext
<1>3. wrote' = wrote /\ eof' = eof
  BY DEF Serve
<1>4. /\ wrote \in Seq(Meanings) /\ served \in Seq(Meanings)
      /\ \A i \in 1..Len(served) : served[i] = wrote[i]
  BY DEF ServerInv, Understood
<1>5. PICK n \in Nat, s \in Nat : n = Len(wrote) /\ s = Len(served) /\ s + 1 <= n
  BY <1>1, <1>4
<1>6. /\ served' \in Seq(Meanings) /\ Len(served') = s + 1 /\ served'[s + 1] = Meant(m)
      /\ \A i \in 1..s : served'[i] = served[i]
  <2>1. Meant(m) \in Meanings
    BY DEF Meanings
  <2> QED
    BY <1>2, <1>4, <1>5, <2>1, AppendProperties
<1>7. Understood'
  <2>1. \A i \in 1..(s + 1) : served'[i] = wrote[i]
    <3>1. \A i \in 1..(s + 1) : i \in 1..s \/ i = s + 1
      OBVIOUS
    <3> QED
      BY <1>1, <1>4, <1>5, <1>6, <3>1
  <2> QED
    BY <1>3, <1>4, <1>5, <1>6, <2>1 DEF Understood
<1>8. ServerStream'
  BY <1>1, <1>2, <1>3, <1>5, <1>6 DEF ServerStream
<1>9. eof' \in BOOLEAN
  BY <1>3 DEF ServerInv
<1> QED
  BY <1>7, <1>8, <1>9 DEF ServerInv

LEMMA ServerStep == ServerInv /\ [Next]_vars => ServerInv'
<1>1. SUFFICES ASSUME ServerInv, [Next]_vars PROVE ServerInv'
  OBVIOUS
<1>2. CASE \E m \in Requests : Write(m)
  BY <1>1, <1>2, ServerWrite
<1>3. CASE Serve
  BY <1>1, <1>3, ServerServe
<1>4. CASE Cut
  <2>1. eof' = TRUE /\ wrote' = wrote /\ served' = served
    BY <1>4 DEF Cut
  <2> QED
    BY <1>1, <2>1 DEF ServerInv, Understood, ServerStream
<1>5. CASE Read
  <2>1. UNCHANGED <<wrote, served, toServer, eof>>
    BY <1>5 DEF Read
  <2> QED
    BY <1>1, <2>1 DEF ServerInv, Understood, ServerStream
<1>6. CASE UNCHANGED vars
  <2>1. UNCHANGED <<wrote, served, toServer, eof>>
    BY <1>6 DEF vars
  <2> QED
    BY <1>1, <2>1 DEF ServerInv, Understood, ServerStream
<1> QED
  BY <1>1, <1>2, <1>3, <1>4, <1>5, <1>6 DEF Next, Ended

LEMMA ServerPrefix == ServerInv => CommandsIntact
<1>1. SUFFICES ASSUME ServerInv PROVE IsPrefix(served, wrote)
  BY DEF CommandsIntact
<1>2. /\ wrote \in Seq(Meanings) /\ served \in Seq(Meanings) /\ Len(served) <= Len(wrote)
      /\ \A i \in 1..Len(served) : served[i] = wrote[i]
  BY <1>1 DEF ServerInv, Understood
<1>3. PICK s \in Nat : s = Len(served)
  BY <1>2
<1>4. \A i \in 1..s : wrote[i] \in Meanings
  <2>1. \A i \in 1..s : i \in 1..Len(wrote)
    BY <1>2, <1>3
  <2> QED
    BY <1>2, <2>1
<1>5. SubSeq(wrote, 1, s) = SubSeq(served, 1, s)
  BY <1>2, <1>3
<1> QED
  BY <1>2, <1>3, <1>5 DEF IsPrefix

(* The server executes the commands that were meant, in their order, and   *)
(* no others, whatever keys, values and flags hold: marshal lets no byte of *)
(* a key or of a value be read as the end of the command.                  *)
THEOREM CommandsAlwaysIntact == Spec => []CommandsIntact
<1>1. Init => ServerInv
  BY ServerInit
<1>2. ServerInv /\ [Next]_vars => ServerInv'
  BY ServerStep
<1>3. ServerInv => CommandsIntact
  BY ServerPrefix
<1> QED
  BY <1>1, <1>2, <1>3, PTL DEF Spec

-----------------------------------------------------------------------------
(* The text of an answer *)

LEMMA JoinedLonger ==
    ASSUME NEW u \in Seq(Texts), u # <<>>, NEW w \in Texts
    PROVE  Len(Joined(Append(u, w))) = Len(Joined(u)) + Len(w) + 1
<1>1. PICK n \in Nat, l \in Nat : n = Len(u) /\ n # 0 /\ l = Len(w)
  <2>1. Len(u) # 0 /\ Len(u) \in Nat /\ Len(w) \in Nat
    BY DEF Texts
  <2> QED
    BY <2>1
<1>2. PICK v \in Seq(Texts) : /\ v = Append(u, w) /\ v # <<>> /\ Len(v) = n + 1 /\ v[n + 1] = w
                              /\ \A i \in 1..n : v[i] = u[i]
  <2>1. /\ Append(u, w) \in Seq(Texts) /\ Append(u, w) # <<>> /\ Len(Append(u, w)) = Len(u) + 1
        /\ \A i \in 1..Len(u) : Append(u, w)[i] = u[i]
        /\ Append(u, w)[Len(u) + 1] = w
    BY AppendProperties
  <2> QED
    BY <1>1, <2>1
<1>3. PICK p : Joined(u) \in Texts /\ Placed(u, p, Joined(u))
  BY JoinedPlaced
<1>4. PICK q : Joined(v) \in Texts /\ Placed(v, q, Joined(v))
  BY <1>2, JoinedPlaced
<1>5. /\ \A i \in 1..(n + 1) : p[i] \in Nat
      /\ p[1] = 1 /\ p[n + 1] = Len(Joined(u)) + 2
      /\ \A i \in 1..n : p[i + 1] = p[i] + Len(u[i]) + 1
  BY <1>1, <1>3 DEF Placed
<1>6. /\ q[1] = 1 /\ q[(n + 1) + 1] = Len(Joined(v)) + 2
      /\ \A i \in 1..(n + 1) : q[i + 1] = q[i] + Len(v[i]) + 1
  BY <1>2, <1>4 DEF Placed
<1> DEFINE T == {k \in Nat : p[k + 1] = q[k + 1]}
<1>7. 0 \in T
  BY <1>5, <1>6
<1>8. \A k \in 0..(n - 1) : k \in T => k + 1 \in T
  <2>1. ASSUME NEW k \in 0..(n - 1), k \in T PROVE k + 1 \in T
    <3>1. k + 1 \in 1..n /\ k + 1 \in 1..(n + 1) /\ k + 1 \in Nat
      OBVIOUS
    <3>2. p[(k + 1) + 1] = p[k + 1] + Len(u[k + 1]) + 1
      BY <1>5, <3>1
    <3>3. q[(k + 1) + 1] = q[k + 1] + Len(v[k + 1]) + 1
      BY <1>6, <3>1
    <3>4. v[k + 1] = u[k + 1]
      BY <1>2, <3>1
    <3> QED
      BY <2>1, <3>1, <3>2, <3>3, <3>4
  <2> QED
    BY <2>1
<1>9. n \in T
  <2> HIDE DEF T
  <2>1. \A k \in 0..n : k \in T
    BY <1>7, <1>8, UpTo
  <2> QED
    BY <2>1
<1>10. q[n + 1] = p[n + 1]
  BY <1>9
<1>11. n + 1 \in 1..(n + 1)
  OBVIOUS
<1>12. PICK x \in Nat, y \in Nat : x = Len(Joined(u)) /\ y = Len(Joined(v))
  BY <1>3, <1>4 DEF Texts
<1>13. y + 2 = (x + 2) + l + 1
  BY <1>1, <1>2, <1>5, <1>6, <1>10, <1>11, <1>12
<1>14. y = x + l + 1
  BY <1>13
<1> QED
  BY <1>1, <1>2, <1>12, <1>14

LEMMA JoinedOne ==
    ASSUME NEW w \in Texts
    PROVE  Len(Joined(<<w>>)) = Len(w)
<1>1. PICK u \in Seq(Texts) : u = <<w>> /\ Len(u) = 1 /\ u[1] = w /\ u # <<>>
  <2>1. <<w>> # <<>>
    OBVIOUS
  <2> QED
    BY <2>1, OneWord
<1>2. PICK p : Joined(u) \in Texts /\ Placed(u, p, Joined(u))
  BY <1>1, JoinedPlaced
<1>3. p[1] = 1 /\ p[1 + 1] = Len(Joined(u)) + 2 /\ p[1 + 1] = p[1] + Len(u[1]) + 1
  <2>1. 1 \in 1..1
    OBVIOUS
  <2> QED
    BY <1>1, <1>2, <2>1 DEF Placed
<1>4. PICK x \in Nat, y \in Nat : x = Len(Joined(u)) /\ y = Len(w)
  BY <1>2 DEF Texts
<1>5. x + 2 = 1 + y + 1
  BY <1>1, <1>3, <1>4
<1> QED
  BY <1>1, <1>4, <1>5

(* Printed words, and a bound on the length of their line. *)
Row(ws, l) ==
    /\ ws \in Seq(Texts) /\ ws # <<>>
    /\ \A i \in 1..Len(ws) : Printed(ws[i])
    /\ Len(Joined(ws)) <= l

LEMMA RowOfOne ==
    ASSUME NEW w, Printed(w)
    PROVE  Row(<<w>>, Len(w))
<1>1. PICK z \in Texts : z = w
  BY DEF Printed
<1>2. <<z>> \in Seq(Texts) /\ Len(<<z>>) = 1 /\ <<z>>[1] = z /\ <<z>> # <<>>
  BY OneWord
<1>3. PICK u : u = <<z>> /\ u \in Seq(Texts) /\ Len(u) = 1 /\ u[1] = z /\ u # <<>>
  BY <1>2
<1>4. Len(Joined(u)) = Len(w) /\ Len(w) \in Nat
  <2>1. Len(Joined(<<z>>)) = Len(z)
    BY JoinedOne
  <2> QED
    BY <1>1, <1>3, <2>1 DEF Texts
<1>5. \A i \in 1..Len(u) : Printed(u[i])
  BY <1>1, <1>3
<1> QED
  BY <1>1, <1>3, <1>4, <1>5 DEF Row

LEMMA RowGrows ==
    ASSUME NEW ws, NEW l \in Nat, Row(ws, l), NEW w, Printed(w), NEW k \in Nat, Len(w) <= k
    PROVE  Row(ws \o <<w>>, l + k + 1)
<1>1. PICK z \in Texts : z = w
  BY DEF Printed
<1>2. ws \in Seq(Texts) /\ ws # <<>> /\ (\A i \in 1..Len(ws) : Printed(ws[i])) /\ Len(Joined(ws)) <= l
  BY DEF Row
<1>3. PICK n \in Nat : n = Len(ws)
  BY <1>2
<1>4. PICK u \in Seq(Texts) : /\ u = Append(ws, z) /\ u # <<>> /\ Len(u) = n + 1 /\ u[n + 1] = z
                              /\ \A i \in 1..n : u[i] = ws[i]
  <2>1. /\ Append(ws, z) \in Seq(Texts) /\ Append(ws, z) # <<>>
        /\ Len(Append(ws, z)) = Len(ws) + 1
        /\ \A i \in 1..Len(ws) : Append(ws, z)[i] = ws[i]
        /\ Append(ws, z)[Len(ws) + 1] = z
    BY <1>2, AppendProperties
  <2> QED
    BY <1>3, <2>1
<1>5. u = ws \o <<z>>
  BY <1>2, <1>4, AppendIsConcat
<1>6. \A i \in 1..Len(u) : Printed(u[i])
  <2>1. \A i \in 1..(n + 1) : i \in 1..n \/ i = n + 1
    OBVIOUS
  <2> QED
    BY <1>1, <1>2, <1>3, <1>4, <2>1
<1>7. Len(Joined(u)) <= l + k + 1
  <2>1. Len(Joined(Append(ws, z))) = Len(Joined(ws)) + Len(z) + 1
    BY <1>2, JoinedLonger
  <2>2. Joined(ws) \in Texts
    BY <1>2, JoinedPlaced
  <2>3. PICK x \in Nat, y \in Nat : x = Len(Joined(ws)) /\ y = Len(z)
    BY <2>2 DEF Texts
  <2>4. Len(Joined(u)) = x + y + 1 /\ x <= l /\ y <= k
    BY <1>1, <1>2, <1>4, <2>1, <2>3
  <2>5. x + y + 1 <= l + k + 1
    BY <2>4
  <2> QED
    BY <2>4, <2>5
<1> QED
  BY <1>1, <1>4, <1>5, <1>6, <1>7 DEF Row

LEMMA RowWider ==
    ASSUME NEW ws, NEW l \in Nat, Row(ws, l), NEW k \in Nat, l <= k
    PROVE  Row(ws, k)
<1>1. ws \in Seq(Texts) /\ ws # <<>> /\ Len(Joined(ws)) <= l
  BY DEF Row
<1>2. Joined(ws) \in Texts
  BY <1>1, JoinedPlaced
<1>3. PICK x \in Nat : x = Len(Joined(ws))
  BY <1>2 DEF Texts
<1>4. Len(Joined(ws)) <= k
  BY <1>1, <1>3
<1> QED
  BY <1>4 DEF Row

Sendable(k) ==
    /\ k \in Seq(STRING) /\ k # <<>> /\ (Binary(k) => k \in DOMAIN Base64)
    /\ Len(encodeKey(k)) <= MaxWireKey

Codes == {"VA", "HD", "EN", "NS", "NF", "ME", "MN"}

(* What a server that knows its commands answers. *)
IsAnswer(a) ==
    /\ a.code \in Codes
    /\ a.value \in Seq(STRING) /\ Len(a.value) < Len(Numerals)
    /\ a.code # "VA" => a.value = <<>>
    /\ a.key = NoKey \/ Sendable(a.key)
    /\ a.code = "ME" => a.key # NoKey

FieldHead(a, f) ==
    << <<IF f = "code" THEN "a" ELSE a.code>> >>
    \o (IF a.code # "VA" THEN <<>>
        ELSE << <<IF f = "size" THEN "a" ELSE Itoa(Len(a.value))>> >>)

BadFlag(f) == IF f = "flag" THEN << <<"c", "a">> >> ELSE <<>>

FlagWords(a, f) == BadFlag(f) \o KeyFlags(a)

LEMMA PrintedNames ==
    /\ \A c \in Codes : Printed(<<c>>) /\ <<c>> \in Texts /\ Len(<<c>>) = 1 /\ <<c>>[1] = c
    /\ Printed(<<"a">>) /\ <<"a">> \in Texts /\ Len(<<"a">>) = 1 /\ <<"a">>[1] = "a"
    /\ Printed(<<"b">>) /\ <<"b">> \in Texts /\ Len(<<"b">>) = 1 /\ <<"b">>[1] = "b"
    /\ Printed(<<"c", "a">>) /\ <<"c", "a">> \in Texts /\ Len(<<"c", "a">>) = 2
    /\ <<"c", "a">>[1] = "c" /\ Tail(<<"c", "a">>) = <<"a">>
<1>1. \A c \in Codes : c \in Atoms /\ c \notin {Sp, Cr, Lf}
  BY DEF Codes, Atoms, Sp, Cr, Lf
<1>2. "a" \in Atoms /\ "b" \in Atoms /\ "c" \in Atoms /\ "a" \notin {Sp, Cr, Lf}
      /\ "b" \notin {Sp, Cr, Lf} /\ "c" \notin {Sp, Cr, Lf}
  BY DEF Atoms, Sp, Cr, Lf
<1>3. <<"c", "a">> \in Seq(Atoms) /\ Len(<<"c", "a">>) = 2 /\ <<"c", "a">>[1] = "c"
      /\ <<"c", "a">>[2] = "a" /\ DOMAIN <<"c", "a">> = 1..2 /\ Tail(<<"c", "a">>) = <<"a">>
  BY <1>2
<1>4. Printed(<<"c", "a">>)
  <2>1. PICK w : w = <<"c", "a">> /\ w \in Seq(Atoms) /\ Len(w) = 2 /\ w[1] = "c" /\ w[2] = "a"
                 /\ DOMAIN w = 1..2
    BY <1>3
  <2>2. \A i \in 1..2 : i = 1 \/ i = 2
    OBVIOUS
  <2>3. ~Binary(w)
    BY <1>2, <2>1, <2>2 DEF Binary
  <2>4. w # <<>>
    BY <2>1
  <2> QED
    BY <2>1, <2>3, <2>4 DEF Printed, Texts
<1> QED
  BY <1>1, <1>2, <1>3, <1>4, OneAtom DEF Texts

LEMMA KeyWord ==
    ASSUME NEW t, Printed(t)
    PROVE  /\ Printed(<<"k">> \o t) /\ Len(<<"k">> \o t) = Len(t) + 1
           /\ (<<"k">> \o t)[1] = "k" /\ Tail(<<"k">> \o t) = t
<1>1. "k" \in Atoms /\ "k" \notin {Sp, Cr, Lf}
  BY DEF Atoms, Sp, Cr, Lf
<1>2. PICK k \in Texts : k = <<"k">> /\ Len(k) = 1 /\ k[1] = "k"
  BY <1>1, OneAtom
<1>3. PICK n \in Nat : n = Len(t) /\ t \in Texts /\ t \in Seq(Atoms) /\ DOMAIN t = 1..n
  BY DEF Printed, Texts
<1>4. \A i \in 1..n : t[i] \notin {Sp, Cr, Lf}
  BY <1>3 DEF Printed, Binary
<1>5. PICK w \in Texts : /\ w = k \o t /\ Len(w) = 1 + n /\ w[1] = "k"
                         /\ \A i \in 1..n : w[1 + i] = t[i]
  <2>1. /\ k \o t \in Texts /\ Len(k \o t) = Len(k) + Len(t)
        /\ \A i \in 1..Len(k) : (k \o t)[i] = k[i]
        /\ \A i \in 1..Len(t) : (k \o t)[Len(k) + i] = t[i]
    BY <1>3, JoinTexts
  <2>2. 1 \in 1..1
    OBVIOUS
  <2> QED
    BY <1>2, <1>3, <2>1, <2>2
<1>6. w \in Seq(Atoms) /\ w # <<>> /\ DOMAIN w = 1..(1 + n)
  BY <1>5 DEF Texts
<1>7. ~Binary(w)
  <2>1. ASSUME NEW i \in 1..(1 + n) PROVE w[i] \notin {Sp, Cr, Lf}
    <3>1. CASE i = 1
      BY <1>1, <1>5, <3>1
    <3>2. CASE i # 1
      <4>1. i - 1 \in 1..n /\ 1 + (i - 1) = i
        BY <3>2
      <4>2. w[1 + (i - 1)] = t[i - 1]
        BY <1>5, <4>1
      <4> QED
        BY <1>4, <4>1, <4>2
    <3> QED
      BY <3>1, <3>2
  <2> QED
    BY <1>6, <2>1 DEF Binary
<1>8. Tail(w) = t
  <2>1. Tail(w) \in Seq(Atoms) /\ Len(Tail(w)) = n /\ \A i \in 1..n : Tail(w)[i] = w[i + 1]
    BY <1>5, <1>6
  <2>2. \A i \in 1..n : Tail(w)[i] = t[i]
    <3>1. \A i \in 1..n : i + 1 = 1 + i
      OBVIOUS
    <3> QED
      BY <1>5, <2>1, <3>1
  <2> QED
    BY <1>3, <2>1, <2>2, SeqEqual
<1>9. Len(w) = n + 1
  BY <1>5
<1> QED
  BY <1>2, <1>3, <1>5, <1>6, <1>7, <1>8, <1>9 DEF Printed

(* The three forms of KeyFlags. *)
LEMMA KeyFlagsAre ==
    ASSUME NEW a, IsAnswer(a)
    PROVE  /\ a.key = NoKey => KeyFlags(a) = <<>>
           /\ a.key # NoKey /\ a.code = "ME" => KeyFlags(a) = <<encodeKey(a.key)>>
           /\ a.key # NoKey /\ a.code # "ME" /\ Binary(a.key)
                => KeyFlags(a) = << <<"k">> \o encodeKey(a.key)>> \o << <<"b">> >>
           /\ a.key # NoKey /\ a.code # "ME" /\ ~Binary(a.key)
                => KeyFlags(a) = << <<"k">> \o encodeKey(a.key)>>
           /\ a.key # NoKey => Printed(encodeKey(a.key))
<1>1. encodeKey(a.key) = IF Binary(a.key) THEN Base64[a.key] ELSE a.key
  BY DEF encodeKey, Encoded
<1>2. a.key # NoKey => Printed(encodeKey(a.key))
  BY SentKey DEF IsAnswer, Sendable
<1>3. KeyFlags(a) = IF a.key = NoKey THEN <<>>
                    ELSE IF a.code = "ME" THEN <<encodeKey(a.key)>>
                    ELSE << <<"k">> \o encodeKey(a.key)>>
                         \o (IF Binary(a.key) THEN << <<"b">> >> ELSE <<>>)
  BY <1>1 DEF KeyFlags
<1>4. << <<"k">> \o encodeKey(a.key)>> \o <<>> = << <<"k">> \o encodeKey(a.key)>>
  OBVIOUS
<1> QED
  BY <1>2, <1>3, <1>4

Off(f) == IF f = "flag" THEN 1 ELSE 0

LEMMA BadFlagShape ==
    ASSUME NEW f
    PROVE  /\ BadFlag(f) \in Seq(Texts) /\ Len(BadFlag(f)) = Off(f)
           /\ f = "flag" => BadFlag(f)[1] = <<"c", "a">>
<1>1. CASE f = "flag"
  <2>1. PICK w \in Texts : w = <<"c", "a">>
    BY PrintedNames
  <2>2. <<w>> \in Seq(Texts) /\ Len(<<w>>) = 1 /\ <<w>>[1] = w
    BY OneWord
  <2> QED
    BY <1>1, <2>1, <2>2 DEF BadFlag, Off
<1>2. CASE f # "flag"
  BY <1>2 DEF BadFlag, Off
<1> QED
  BY <1>1, <1>2

LEMMA KeyFlagsShape ==
    ASSUME NEW a, IsAnswer(a)
    PROVE  /\ KeyFlags(a) \in Seq(Texts)
           /\ a.key = NoKey => Len(KeyFlags(a)) = 0
           /\ a.key # NoKey /\ a.code = "ME"
                => Len(KeyFlags(a)) = 1 /\ KeyFlags(a)[1] = encodeKey(a.key)
           /\ a.key # NoKey /\ a.code # "ME"
                => /\ Len(KeyFlags(a)) = IF Binary(a.key) THEN 2 ELSE 1
                   /\ KeyFlags(a)[1] = <<"k">> \o encodeKey(a.key)
                   /\ Binary(a.key) => KeyFlags(a)[2] = <<"b">>
<1>1. CASE a.key = NoKey
  <2>1. KeyFlags(a) = <<>>
    BY <1>1, KeyFlagsAre
  <2> QED
    BY <1>1, <2>1
<1>2. CASE a.key # NoKey /\ a.code = "ME"
  <2>1. PICK t \in Texts : t = encodeKey(a.key)
    BY <1>2, KeyFlagsAre DEF Printed
  <2>2. <<t>> \in Seq(Texts) /\ Len(<<t>>) = 1 /\ <<t>>[1] = t
    BY OneWord
  <2>3. KeyFlags(a) = <<t>>
    BY <1>2, <2>1, KeyFlagsAre
  <2> QED
    BY <1>2, <2>1, <2>2, <2>3
<1>3. CASE a.key # NoKey /\ a.code # "ME"
  <2>1. PICK t \in Texts : t = <<"k">> \o encodeKey(a.key)
    <3>1. Printed(encodeKey(a.key))
      BY <1>3, KeyFlagsAre
    <3>2. Printed(<<"k">> \o encodeKey(a.key))
      BY <3>1, KeyWord
    <3> QED
      BY <3>2 DEF Printed
  <2>2. PICK c \in Seq(Texts) : c = <<t>> /\ Len(c) = 1 /\ c[1] = t
    BY OneWord
  <2>3. CASE ~Binary(a.key)
    <3>1. KeyFlags(a) = c
      BY <1>3, <2>1, <2>2, <2>3, KeyFlagsAre
    <3> QED
      BY <1>3, <2>1, <2>2, <2>3, <3>1
  <2>4. CASE Binary(a.key)
    <3>1. PICK z \in Texts : z = <<"b">>
      BY PrintedNames
    <3>2. PICK d \in Seq(Texts) : d = <<z>> /\ Len(d) = 1 /\ d[1] = z
      BY OneWord
    <3>3. /\ c \o d \in Seq(Texts) /\ Len(c \o d) = Len(c) + Len(d)
          /\ \A i \in 1..Len(c) : (c \o d)[i] = c[i]
          /\ \A i \in 1..Len(d) : (c \o d)[Len(c) + i] = d[i]
      BY JoinWords
    <3>4. 1 \in 1..1 /\ 1 + 1 = 2
      OBVIOUS
    <3>5. (c \o d)[1] = t /\ (c \o d)[1 + 1] = z /\ Len(c \o d) = 2
      BY <2>2, <3>2, <3>3, <3>4
    <3>6. KeyFlags(a) = c \o d
      BY <1>3, <2>1, <2>2, <2>4, <3>1, <3>2, KeyFlagsAre
    <3> QED
      BY <1>3, <2>1, <2>4, <3>1, <3>3, <3>4, <3>5, <3>6
  <2> QED
    BY <2>3, <2>4
<1> QED
  BY <1>1, <1>2, <1>3

LEMMA FlagWordsShape ==
    ASSUME NEW a, IsAnswer(a), NEW f
    PROVE  /\ FlagWords(a, f) \in Seq(Texts)
           /\ Len(FlagWords(a, f)) = Off(f) + Len(KeyFlags(a))
           /\ f = "flag" => FlagWords(a, f)[1] = <<"c", "a">>
           /\ \A i \in 1..Len(KeyFlags(a)) : FlagWords(a, f)[Off(f) + i] = KeyFlags(a)[i]
<1>1. PICK b \in Seq(Texts), k \in Seq(Texts) :
        /\ b = BadFlag(f) /\ k = KeyFlags(a) /\ Len(b) = Off(f)
        /\ f = "flag" => b[1] = <<"c", "a">>
  BY BadFlagShape, KeyFlagsShape
<1>2. /\ b \o k \in Seq(Texts) /\ Len(b \o k) = Len(b) + Len(k)
      /\ \A i \in 1..Len(b) : (b \o k)[i] = b[i]
      /\ \A i \in 1..Len(k) : (b \o k)[Len(b) + i] = k[i]
  BY JoinWords
<1>3. f = "flag" => (b \o k)[1] = <<"c", "a">>
  <2>1. f = "flag" => Len(b) = 1
    BY <1>1 DEF Off
  <2>2. 1 \in 1..1
    OBVIOUS
  <2> QED
    BY <1>1, <1>2, <2>1, <2>2
<1>4. FlagWords(a, f) = b \o k
  BY <1>1 DEF FlagWords
<1> QED
  BY <1>1, <1>2, <1>3, <1>4

CodeWord(a, f) == <<IF f = "code" THEN "a" ELSE a.code>>

SizeWord(a, f) == <<IF f = "size" THEN "a" ELSE Itoa(Len(a.value))>>

LEMMA HeadWords ==
    ASSUME NEW a, IsAnswer(a), NEW f
    PROVE  /\ Printed(CodeWord(a, f)) /\ Len(CodeWord(a, f)) = 1 /\ CodeWord(a, f) \in Texts
           /\ CodeWord(a, f)[1] = IF f = "code" THEN "a" ELSE a.code
           /\ Printed(SizeWord(a, f)) /\ Len(SizeWord(a, f)) = 1 /\ SizeWord(a, f) \in Texts
<1>1. a.code \in Codes /\ Len(a.value) \in Nat /\ Len(a.value) < Len(Numerals)
  BY DEF IsAnswer
<1>2. Printed(CodeWord(a, f)) /\ Len(CodeWord(a, f)) = 1 /\ CodeWord(a, f) \in Texts
      /\ CodeWord(a, f)[1] = IF f = "code" THEN "a" ELSE a.code
  <2>1. CASE f = "code"
    BY <2>1, PrintedNames DEF CodeWord
  <2>2. CASE f # "code"
    BY <1>1, <2>2, PrintedNames DEF CodeWord
  <2> QED
    BY <2>1, <2>2
<1>3. Printed(SizeWord(a, f)) /\ Len(SizeWord(a, f)) = 1 /\ SizeWord(a, f) \in Texts
  <2>1. CASE f = "size"
    BY <2>1, PrintedNames DEF SizeWord
  <2>2. CASE f # "size"
    <3>1. Itoa(Len(a.value)) \in Atoms /\ Itoa(Len(a.value)) \notin {Sp, Cr, Lf}
      BY <1>1, Numbers
    <3> QED
      BY <2>2, <3>1, OneAtom DEF SizeWord
  <2> QED
    BY <2>1, <2>2
<1> QED
  BY <1>2, <1>3

LEMMA FieldHeadShape ==
    ASSUME NEW a, IsAnswer(a), NEW f
    PROVE  /\ FieldHead(a, f) \in Seq(Texts)
           /\ Len(FieldHead(a, f)) = IF a.code = "VA" THEN 2 ELSE 1
           /\ FieldHead(a, f)[1] = CodeWord(a, f)
           /\ a.code = "VA" => FieldHead(a, f)[2] = SizeWord(a, f)
           /\ Row(FieldHead(a, f), 3)
<1>1. PICK u \in Texts, z \in Texts : /\ u = CodeWord(a, f) /\ z = SizeWord(a, f)
                                      /\ Printed(u) /\ Len(u) = 1 /\ Printed(z) /\ Len(z) = 1
  BY HeadWords
<1>2. PICK c \in Seq(Texts) : c = <<u>> /\ Len(c) = 1 /\ c[1] = u
  BY OneWord
<1>3. Row(c, 1)
  <2>1. Row(<<u>>, Len(u))
    BY <1>1, RowOfOne
  <2> QED
    BY <1>1, <1>2, <2>1
<1>4. CASE a.code # "VA"
  <2>1. FieldHead(a, f) = <<u>> \o <<>>
    BY <1>1, <1>4 DEF FieldHead, CodeWord
  <2>2. c \o <<>> = c
    OBVIOUS
  <2>3. FieldHead(a, f) = c
    BY <1>2, <2>1, <2>2
  <2>4. 1 \in Nat /\ 3 \in Nat /\ 1 <= 3
    OBVIOUS
  <2>5. Row(c, 3)
    BY <1>3, <2>4, RowWider
  <2> QED
    BY <1>1, <1>2, <1>4, <2>3, <2>5
<1>5. CASE a.code = "VA"
  <2>1. PICK d \in Seq(Texts) : d = <<z>> /\ Len(d) = 1 /\ d[1] = z
    BY OneWord
  <2>2. FieldHead(a, f) = c \o d
    BY <1>1, <1>2, <1>5, <2>1 DEF FieldHead, CodeWord, SizeWord
  <2>3. /\ c \o d \in Seq(Texts) /\ Len(c \o d) = Len(c) + Len(d)
        /\ \A i \in 1..Len(c) : (c \o d)[i] = c[i]
        /\ \A i \in 1..Len(d) : (c \o d)[Len(c) + i] = d[i]
    BY JoinWords
  <2>4. 1 \in 1..1 /\ 1 + 1 = 2 /\ 1 \in Nat /\ 1 <= 1 /\ 1 + 1 + 1 = 3
    OBVIOUS
  <2>5. (c \o d)[1] = u /\ (c \o d)[1 + 1] = z /\ Len(c \o d) = 2
    BY <1>2, <2>1, <2>3, <2>4
  <2>6. Row(c \o d, 3)
    <3>1. Len(z) <= 1
      BY <1>1
    <3>2. Row(c \o <<z>>, 1 + 1 + 1)
      BY <1>1, <1>3, <2>4, <3>1, RowGrows
    <3> QED
      BY <2>1, <2>4, <3>2
  <2> QED
    BY <1>1, <1>5, <2>2, <2>3, <2>4, <2>5, <2>6
<1> QED
  BY <1>4, <1>5

(* A response line: its words, and that it is never too long. *)
LEMMA FieldsShape ==
    ASSUME NEW a, IsAnswer(a), NEW f
    PROVE  /\ Fields(a, f) = FieldHead(a, f) \o FlagWords(a, f)
           /\ Row(Fields(a, f), MaxWireKey + 10)
<1>1. PICK h \in Seq(Texts), b \in Seq(Texts), k \in Seq(Texts) :
        h = FieldHead(a, f) /\ b = BadFlag(f) /\ k = KeyFlags(a)
  BY FieldHeadShape, BadFlagShape, KeyFlagsShape
<1>2. Fields(a, f) = (h \o b) \o k
  BY <1>1 DEF Fields, FieldHead, BadFlag
<1>3. (h \o b) \o k = h \o (b \o k)
  BY ConcatAssociative
<1>4. Row(h \o b, 6)
  <2>1. Row(h, 3)
    BY <1>1, FieldHeadShape
  <2>2. CASE f = "flag"
    <3>1. Printed(<<"c", "a">>) /\ Len(<<"c", "a">>) <= 2
      BY PrintedNames
    <3>2. 3 \in Nat /\ 2 \in Nat /\ 3 + 2 + 1 = 6
      OBVIOUS
    <3>3. Row(h \o << <<"c", "a">> >>, 3 + 2 + 1)
      BY <2>1, <3>1, <3>2, RowGrows
    <3> QED
      BY <1>1, <2>2, <3>2, <3>3 DEF BadFlag
  <2>3. CASE f # "flag"
    <3>1. h \o <<>> = h
      OBVIOUS
    <3>2. 3 \in Nat /\ 6 \in Nat /\ 3 <= 6
      OBVIOUS
    <3>3. Row(h, 6)
      BY <2>1, <3>2, RowWider
    <3> QED
      BY <1>1, <2>3, <3>1, <3>3 DEF BadFlag
  <2> QED
    BY <2>2, <2>3
<1>5. MaxWireKey \in Nat
  BY Assumed DEF LimitAssumption
<1>6. PICK m \in Nat, M \in Nat : m = MaxWireKey /\ M = m + 10 /\ 6 \in Nat /\ 6 <= M
  BY <1>5
<1>7. Row((h \o b) \o k, M)
  <2>1. CASE a.key = NoKey
    <3>1. k = <<>> /\ (h \o b) \o <<>> = h \o b
      <4>1. PICK x \in Seq(Texts) : x = h \o b
        BY JoinWords
      <4>2. x \o <<>> = x
        OBVIOUS
      <4>3. k = <<>>
        BY <1>1, <2>1, KeyFlagsAre
      <4> QED
        BY <4>1, <4>2, <4>3
    <3>2. Row(h \o b, M)
      BY <1>4, <1>6, RowWider
    <3> QED
      BY <3>1, <3>2
  <2>2. CASE a.key # NoKey
    <3>1. PICK t : t = encodeKey(a.key) /\ Printed(t)
      BY <2>2, KeyFlagsAre
    <3>2. PICK l \in Nat : l = Len(t) /\ l <= m
      <4>1. Len(encodeKey(a.key)) <= MaxWireKey
        BY <2>2 DEF IsAnswer, Sendable
      <4> QED
        BY <1>6, <3>1, <4>1 DEF Printed, Texts
    <3>3. CASE a.code = "ME"
      <4>1. k = <<t>>
        BY <1>1, <2>2, <3>1, <3>3, KeyFlagsAre
      <4>2. Row((h \o b) \o <<t>>, 6 + m + 1)
        BY <1>4, <1>6, <3>1, <3>2, RowGrows
      <4>3. 6 + m + 1 \in Nat /\ 6 + m + 1 <= M
        BY <1>6
      <4>4. Row((h \o b) \o <<t>>, M)
        BY <4>2, <4>3, RowWider
      <4> QED
        BY <4>1, <4>4
    <3>4. CASE a.code # "ME"
      <4>1. PICK w : w = <<"k">> \o t /\ Printed(w) /\ Len(w) <= m + 1
        <5>1. Printed(<<"k">> \o t) /\ Len(<<"k">> \o t) = Len(t) + 1
          BY <3>1, KeyWord
        <5>2. l + 1 <= m + 1
          BY <3>2
        <5>3. Len(<<"k">> \o t) <= m + 1
          BY <3>2, <5>1, <5>2
        <5> QED
          BY <5>1, <5>3
      <4>2. PICK s : s = 6 + (m + 1) + 1 /\ s \in Nat /\ s + 1 + 1 \in Nat /\ s + 1 + 1 <= M /\ s <= M
                     /\ m + 1 \in Nat
        BY <1>6
      <4>3. Row((h \o b) \o <<w>>, s)
        <5>1. Row((h \o b) \o <<w>>, 6 + (m + 1) + 1)
          BY <1>4, <1>6, <4>1, <4>2, RowGrows
        <5> QED
          BY <4>2, <5>1
      <4>4. CASE ~Binary(a.key)
        <5>1. k = <<w>>
          BY <1>1, <2>2, <3>1, <3>4, <4>1, <4>4, KeyFlagsAre
        <5>2. Row((h \o b) \o <<w>>, M)
          BY <4>2, <4>3, RowWider
        <5> QED
          BY <5>1, <5>2
      <4>5. CASE Binary(a.key)
        <5>1. k = <<w>> \o << <<"b">> >>
          BY <1>1, <2>2, <3>1, <3>4, <4>1, <4>5, KeyFlagsAre
        <5>2. Printed(<<"b">>) /\ Len(<<"b">>) <= 1 /\ 1 \in Nat
          BY PrintedNames
        <5>3. Row(((h \o b) \o <<w>>) \o << <<"b">> >>, s + 1 + 1)
          BY <4>2, <4>3, <5>2, RowGrows
        <5>4. Row(((h \o b) \o <<w>>) \o << <<"b">> >>, M)
          BY <4>2, <5>3, RowWider
        <5>5. ((h \o b) \o <<w>>) \o << <<"b">> >> = (h \o b) \o (<<w>> \o << <<"b">> >>)
          <6>1. PICK x \in Seq(Texts), y \in Seq(Texts), z \in Seq(Texts) :
                  x = h \o b /\ y = <<w>> /\ z = << <<"b">> >>
            <7>1. h \o b \in Seq(Texts)
              BY JoinWords
            <7>2. <<w>> \in Seq(Texts)
              BY <4>1, OneWord DEF Printed
            <7>3. << <<"b">> >> \in Seq(Texts)
              BY PrintedNames, OneWord
            <7> QED
              BY <7>1, <7>2, <7>3
          <6>2. (x \o y) \o z = x \o (y \o z)
            BY ConcatAssociative
          <6> QED
            BY <6>1, <6>2
        <5> QED
          BY <5>1, <5>4, <5>5
      <4> QED
        BY <4>4, <4>5
    <3> QED
      BY <3>3, <3>4
  <2> QED
    BY <2>1, <2>2
<1> QED
  BY <1>1, <1>2, <1>3, <1>6, <1>7 DEF FlagWords

-----------------------------------------------------------------------------
(* parseResponseFlags reads back what KeyFlags wrote *)

KeysOf(words) == {i \in DOMAIN words : words[i][1] = "k"}

TextIn(words) == Tail(words[CHOOSE i \in KeysOf(words) : \A j \in KeysOf(words) : j <= i])

Coded(words) == \E i \in DOMAIN words : words[i][1] = "b"

Unread(words) == \E i \in DOMAIN words : unreadable(words[i])

LEMMA Parsing ==
    ASSUME NEW r, NEW words
    PROVE  parseResponseFlags(r, words) =
             [r EXCEPT !.key = IF KeysOf(words) = {} THEN NoKey
                               ELSE IF Coded(words) /\ Decoded(TextIn(words)) # NoKey
                                    THEN Decoded(TextIn(words)) ELSE TextIn(words),
                       !.err = \/ Unread(words)
                                 \/ /\ KeysOf(words) # {} /\ Coded(words)
                                    /\ Decoded(TextIn(words)) = NoKey]
BY DEF parseResponseFlags, KeysOf, TextIn, Coded, Unread

LEMMA ReadableWords ==
    /\ unreadable(<<"c", "a">>) /\ <<"c", "a">>[1] # "k" /\ <<"c", "a">>[1] # "b"
    /\ ~unreadable(<<"b">>) /\ <<"b">>[1] = "b" /\ <<"b">>[1] # "k"
    /\ \A t : Printed(t) => /\ ~unreadable(<<"k">> \o t) /\ (<<"k">> \o t)[1] = "k"
                            /\ (<<"k">> \o t)[1] # "b"
<1>1. <<"c", "a">>[1] = "c" /\ Tail(<<"c", "a">>) = <<"a">>
  BY PrintedNames
<1>2. unreadable(<<"c", "a">>)
  BY <1>1, NoNumber DEF unreadable
<1>3. <<"b">>[1] = "b"
  BY PrintedNames
<1>4. ~unreadable(<<"b">>)
  BY <1>3 DEF unreadable
<1>5. ASSUME NEW t, Printed(t)
      PROVE  ~unreadable(<<"k">> \o t) /\ (<<"k">> \o t)[1] = "k" /\ (<<"k">> \o t)[1] # "b"
  <2>1. (<<"k">> \o t)[1] = "k"
    BY <1>5, KeyWord
  <2> QED
    BY <2>1 DEF unreadable
<1> QED
  BY <1>1, <1>2, <1>3, <1>4, <1>5

Flagged(r, a, f) == [r EXCEPT !.key = a.key, !.err = (f = "flag")]

LEMMA ParsedFlags ==
    ASSUME NEW a, IsAnswer(a), a.code # "ME", NEW f, NEW r
    PROVE  parseResponseFlags(r, FlagWords(a, f)) = Flagged(r, a, f)
<1>1. PICK w \in Seq(Texts), k \in Seq(Texts), o \in Nat :
        /\ w = FlagWords(a, f) /\ k = KeyFlags(a) /\ o = Off(f)
        /\ Len(w) = o + Len(k)
        /\ f = "flag" => w[1] = <<"c", "a">>
        /\ \A i \in 1..Len(k) : w[o + i] = k[i]
  BY FlagWordsShape, KeyFlagsShape DEF Off
<1>2. PICK n \in Nat : n = Len(k) /\ DOMAIN w = 1..(o + n)
  BY <1>1
<1>3. (f = "flag" /\ o = 1) \/ (f # "flag" /\ o = 0)
  BY <1>1 DEF Off
<1>4. ASSUME NEW i \in DOMAIN w
      PROVE  \/ i \in 1..o /\ f = "flag" /\ w[i] = <<"c", "a">>
             \/ \E j \in 1..n : i = o + j /\ w[i] = k[j]
  <2>1. CASE i <= o
    <3>1. i = 1 /\ i \in 1..o /\ f = "flag"
      BY <1>2, <1>3, <2>1
    <3> QED
      BY <1>1, <3>1
  <2>2. CASE ~(i <= o)
    <3>1. i - o \in 1..n /\ o + (i - o) = i
      BY <1>2, <2>2
    <3> QED
      BY <1>1, <1>2, <3>1
  <2> QED
    BY <2>1, <2>2
<1>5. f = "flag" => 1 \in DOMAIN w
  BY <1>2, <1>3
<1>6. \A j \in 1..n : o + j \in DOMAIN w /\ w[o + j] = k[j]
  BY <1>1, <1>2
<1>7. CASE a.key = NoKey
  <2>1. n = 0
    BY <1>1, <1>2, <1>7, KeyFlagsShape
  <2>2. \A i \in DOMAIN w : f = "flag" /\ w[i] = <<"c", "a">>
    BY <1>4, <2>1
  <2>3. KeysOf(w) = {}
    BY <2>2, ReadableWords DEF KeysOf
  <2>4. Unread(w) <=> f = "flag"
    BY <1>1, <1>5, <2>2, ReadableWords DEF Unread
  <2>5. (Unread(w) \/ (KeysOf(w) # {} /\ Coded(w) /\ Decoded(TextIn(w)) = NoKey)) = (f = "flag")
    BY <2>3, <2>4
  <2> QED
    BY <1>1, <1>7, <2>3, <2>5, Parsing DEF Flagged
<1>8. CASE a.key # NoKey
  <2>1. PICK t : t = encodeKey(a.key) /\ Printed(t)
    BY <1>8, KeyFlagsAre
  <2>2. /\ n = IF Binary(a.key) THEN 2 ELSE 1
        /\ k[1] = <<"k">> \o t
        /\ Binary(a.key) => k[2] = <<"b">>
    BY <1>1, <1>2, <1>8, <2>1, KeyFlagsShape
  <2>3. \A j \in 1..n : j = 1 \/ (j = 2 /\ Binary(a.key))
    BY <2>2
  <2>4. o + 1 \in DOMAIN w /\ w[o + 1] = <<"k">> \o t
    <3>1. 1 \in 1..n
      BY <2>2
    <3> QED
      BY <1>6, <2>2, <3>1
  <2>5. Binary(a.key) => o + 2 \in DOMAIN w /\ w[o + 2] = <<"b">>
    <3>1. Binary(a.key) => 2 \in 1..n
      BY <2>2
    <3> QED
      BY <1>6, <2>2, <3>1
  <2>6. \A i \in DOMAIN w : \/ f = "flag" /\ w[i] = <<"c", "a">>
                            \/ i = o + 1 /\ w[i] = <<"k">> \o t
                            \/ Binary(a.key) /\ w[i] = <<"b">>
    BY <1>4, <2>2, <2>3
  <2>7. KeysOf(w) = {o + 1}
    BY <2>1, <2>4, <2>6, ReadableWords DEF KeysOf
  <2>8. TextIn(w) = t
    <3>1. (CHOOSE i \in {o + 1} : \A j \in {o + 1} : j <= i) = o + 1
      OBVIOUS
    <3>2. TextIn(w) = Tail(w[o + 1])
      BY <2>7, <3>1 DEF TextIn
    <3>3. Tail(<<"k">> \o t) = t
      BY <2>1, KeyWord
    <3> QED
      BY <2>4, <3>2, <3>3
  <2>9. Coded(w) <=> Binary(a.key)
    BY <2>1, <2>5, <2>6, ReadableWords DEF Coded
  <2>10. Unread(w) <=> f = "flag"
    BY <1>1, <1>5, <2>1, <2>6, ReadableWords DEF Unread
  <2>11. Binary(a.key) => Decoded(t) = a.key /\ a.key # NoKey
    <3>1. ASSUME Binary(a.key) PROVE Decoded(t) = a.key
      <4>1. a.key \in DOMAIN Base64
        BY <1>8, <3>1 DEF IsAnswer, Sendable
      <4>2. t = Base64[a.key]
        BY <2>1, <3>1 DEF encodeKey, Encoded
      <4> QED
        BY <4>1, <4>2, Decodes
    <3> QED
      BY <1>8, <3>1
  <2>12. ~Binary(a.key) => t = a.key
    BY <2>1 DEF encodeKey, Encoded
  <2>13. (Unread(w) \/ (KeysOf(w) # {} /\ Coded(w) /\ Decoded(TextIn(w)) = NoKey)) = (f = "flag")
    BY <2>8, <2>9, <2>10, <2>11
  <2>14. (IF KeysOf(w) = {} THEN NoKey
          ELSE IF Coded(w) /\ Decoded(TextIn(w)) # NoKey THEN Decoded(TextIn(w)) ELSE TextIn(w))
         = a.key
    <3>1. KeysOf(w) # {}
      BY <2>7
    <3>2. CASE Binary(a.key)
      BY <2>8, <2>9, <2>11, <3>1, <3>2
    <3>3. CASE ~Binary(a.key)
      BY <2>8, <2>9, <2>12, <3>1, <3>3
    <3> QED
      BY <3>2, <3>3
  <2> QED
    BY <1>1, <2>13, <2>14, Parsing DEF Flagged
<1> QED
  BY <1>7, <1>8

-----------------------------------------------------------------------------
(* readRawResponse on a stream of answers *)

LEMMA FatalIs == Fatal.st = "fatal"
BY DEF Fatal, Result

(* No line end yet. *)
LEMMA ReadOpen ==
    ASSUME NEW b \in Texts, \A i \in 1..Len(b) : b[i] # Lf, eof
    PROVE  readRawResponse(b) = Fatal
<1>1. LfAt(b) = 0
  BY NoLf
<1>2. Short = Fatal
  BY DEF Short
<1> QED
  BY <1>1, <1>2 DEF readRawResponse

(* What a line of these words means, with c behind it. *)
LineRead(parts, c) ==
    CASE parts[1][1] = "VA" ->
           IF Len(parts) < 2 THEN Fatal
           ELSE IF ~Numeric(parts[2]) THEN Fatal
           ELSE IF tooLarge(ParseUint(parts[2])) THEN Fatal
           ELSE readValue(c, ParseUint(parts[2]), After(parts, 2))
      [] parts[1][1] = "ME" ->
           IF Len(parts) < 2 THEN Fatal
           ELSE Framed([NoResponse EXCEPT !.code = "ME", !.key = parts[2]], c)
      [] parts[1][1] \in {"HD", "EN", "NS", "EX", "NF", "MN"} ->
           Framed(parseResponseFlags([NoResponse EXCEPT !.code = parts[1][1]], After(parts, 1)), c)
      [] OTHER -> Fatal

(* The first line of a stream, when it is neither too long nor torn. *)
LEMMA ReadLine ==
    ASSUME NEW H \in Texts, NEW c \in Texts, NEW b, Lined(b, H, c), Len(H) + 2 <= MaxLine
    PROVE  readRawResponse(b) =
             IF asciiFields(H) = <<>> \/ b[1] \in {"ERROR", "CLIENT_ERROR", "SERVER_ERROR"}
             THEN Fatal ELSE LineRead(asciiFields(H), c)
<1>1. PICK h \in Nat : h = Len(H)
  BY DEF Texts
<1>2. /\ LfAt(b) = h + 2 /\ b[h + 1] = Cr /\ SubSeq(b, 1, h) = H /\ After(b, h + 2) = c
  BY <1>1 DEF Lined
<1>3. PICK n \in Nat : n = LfAt(b) /\ n - 2 = h /\ n - 1 = h + 1 /\ n # 0 /\ ~(n > MaxLine) /\ n # 1
                       /\ n = h + 2
  <2>1. MaxLine \in Nat
    BY Assumed DEF LimitAssumption
  <2>2. (h + 2) - 2 = h /\ (h + 2) - 1 = h + 1 /\ h + 2 # 0 /\ h + 2 # 1 /\ ~(h + 2 > MaxLine)
    BY <1>1, <2>1
  <2> QED
    BY <1>2, <2>2
<1>4. b[n - 1] = Cr /\ SubSeq(b, 1, n - 2) = H /\ After(b, n) = c
  BY <1>2, <1>3
<1> QED
  BY <1>3, <1>4 DEF readRawResponse, LineRead

(* The line of an answer. *)
LEMMA AnswerLine ==
    ASSUME NEW a, IsAnswer(a), NEW f
    PROVE  LET H == Joined(Fields(a, f)) IN
           /\ H \in Texts /\ H # <<>> /\ asciiFields(H) = Fields(a, f)
           /\ \A i \in 1..Len(H) : H[i] # Lf /\ H[i] # Cr
           /\ H[1] = IF f = "code" THEN "a" ELSE a.code
           /\ Len(H) + 2 <= MaxLine
           /\ Fields(a, f) # <<>>
           /\ Fields(a, f)[1][1] = IF f = "code" THEN "a" ELSE a.code
           /\ a.code = "VA" => /\ ~(Len(Fields(a, f)) < 2)
                               /\ Fields(a, f)[2] = SizeWord(a, f)
                               /\ After(Fields(a, f), 2) = FlagWords(a, f)
           /\ a.code # "VA" => After(Fields(a, f), 1) = FlagWords(a, f)
           /\ a.code = "ME" /\ f # "flag" => /\ ~(Len(Fields(a, f)) < 2)
                                             /\ Fields(a, f)[2] = encodeKey(a.key)
<1>1. PICK h \in Seq(Texts), w \in Seq(Texts) :
        /\ h = FieldHead(a, f) /\ w = FlagWords(a, f)
        /\ Len(h) = IF a.code = "VA" THEN 2 ELSE 1
        /\ h[1] = CodeWord(a, f)
        /\ a.code = "VA" => h[2] = SizeWord(a, f)
  BY FieldHeadShape, FlagWordsShape
<1>2. PICK s \in Seq(Texts) :
        /\ s = Fields(a, f) /\ s = h \o w /\ Len(s) = Len(h) + Len(w)
        /\ \A i \in 1..Len(h) : s[i] = h[i]
        /\ \A i \in 1..Len(w) : s[Len(h) + i] = w[i]
        /\ After(s, Len(h)) = w
  <2>1. /\ h \o w \in Seq(Texts) /\ Len(h \o w) = Len(h) + Len(w)
        /\ \A i \in 1..Len(h) : (h \o w)[i] = h[i]
        /\ \A i \in 1..Len(w) : (h \o w)[Len(h) + i] = w[i]
        /\ After(h \o w, Len(h)) = w
    BY JoinWords
  <2>2. Fields(a, f) = h \o w
    BY <1>1, FieldsShape
  <2> QED
    BY <2>1, <2>2
<1>3. /\ s # <<>> /\ \A i \in 1..Len(s) : Printed(s[i])
      /\ Len(Joined(s)) <= MaxWireKey + 10
  BY <1>2, FieldsShape DEF Row
<1>4. PICK H \in Texts : /\ H = Joined(s) /\ H # <<>> /\ asciiFields(H) = s
                         /\ \A i \in 1..Len(H) : H[i] # Lf /\ H[i] # Cr
                         /\ H[1] = s[1][1]
  <2>1. /\ Joined(s) \in Texts /\ Joined(s) # <<>> /\ asciiFields(Joined(s)) = s
        /\ \A j \in 1..Len(Joined(s)) : Joined(s)[j] # Lf /\ Joined(s)[j] # Cr
        /\ Joined(s)[1] = s[1][1]
    BY <1>3, PrintedLine
  <2> QED
    BY <2>1
<1>5. Len(H) + 2 <= MaxLine
  <2>1. PICK x \in Nat, m \in Nat, l \in Nat : x = Len(H) /\ m = MaxWireKey /\ l = MaxLine
    BY Assumed DEF LimitAssumption, Texts
  <2>2. m + 12 <= l
    BY <2>1, Assumed DEF LimitAssumption
  <2>3. x <= m + 10
    BY <1>3, <1>4, <2>1
  <2>4. x + 2 <= l
    BY <2>2, <2>3
  <2> QED
    BY <2>1, <2>4
<1>6. s[1] = CodeWord(a, f)
  <2>1. 1 \in 1..Len(h)
    BY <1>1
  <2> QED
    BY <1>1, <1>2, <2>1
<1>7. s[1][1] = IF f = "code" THEN "a" ELSE a.code
  BY <1>6, HeadWords
<1>8. ASSUME a.code = "VA"
      PROVE  ~(Len(s) < 2) /\ s[2] = SizeWord(a, f) /\ After(s, 2) = w
  <2>1. Len(h) = 2 /\ Len(w) \in Nat
    BY <1>1, <1>8
  <2>2. 2 \in 1..2 /\ ~(2 + Len(w) < 2)
    BY <2>1
  <2> QED
    BY <1>1, <1>2, <1>8, <2>1, <2>2
<1>9. a.code # "VA" => After(s, 1) = w
  BY <1>1, <1>2
<1>10. ASSUME a.code = "ME", f # "flag"
       PROVE  ~(Len(s) < 2) /\ s[2] = encodeKey(a.key)
  <2>1. Len(h) = 1
    BY <1>1, <1>10
  <2>2. a.key # NoKey
    BY <1>10 DEF IsAnswer
  <2>3. Len(KeyFlags(a)) = 1 /\ KeyFlags(a)[1] = encodeKey(a.key)
    BY <1>10, <2>2, KeyFlagsShape
  <2>4. Off(f) = 0 /\ 1 \in 1..1 /\ 0 + 1 = 1 /\ 1 + 1 = 2
    BY <1>10 DEF Off
  <2>5. Len(w) = 1 /\ w[1] = encodeKey(a.key)
    <3>1. Len(w) = Off(f) + Len(KeyFlags(a))
      BY <1>1, FlagWordsShape
    <3>2. \A i \in 1..Len(KeyFlags(a)) : w[Off(f) + i] = KeyFlags(a)[i]
      BY <1>1, FlagWordsShape
    <3>3. w[0 + 1] = KeyFlags(a)[1]
      BY <2>3, <2>4, <3>2
    <3> QED
      BY <2>3, <2>4, <3>1, <3>3
  <2>6. s[1 + 1] = w[1] /\ Len(s) = 1 + 1
    BY <1>2, <2>1, <2>4, <2>5
  <2> QED
    BY <2>4, <2>5, <2>6
<1> QED
  BY <1>1, <1>2, <1>3, <1>4, <1>5, <1>7, <1>8, <1>9, <1>10

(* What may be delivered of an answer, and as what. *)
Good(a, f) == f \in {"none", "flag"} /\ ~tooLarge(Len(a.value))

Expected(a, f) ==
    [code |-> a.code, value |-> a.value,
     key |-> IF a.code = "ME" THEN encodeKey(a.key) ELSE a.key, err |-> f = "flag"]

Delivered(a, f, rest) == Result(IF f = "flag" THEN "framed" ELSE "ok", rest, Expected(a, f))

LEMMA FlaggedResponse ==
    ASSUME NEW a, IsAnswer(a), a.code # "ME", NEW f, NEW rest
    PROVE  Framed(parseResponseFlags([NoResponse EXCEPT !.code = a.code, !.value = a.value],
                                     FlagWords(a, f)), rest)
           = Delivered(a, f, rest)
<1>1. PICK r : r = [NoResponse EXCEPT !.code = a.code, !.value = a.value]
  OBVIOUS
<1>2. r = [code |-> a.code, value |-> a.value, key |-> NoKey, err |-> FALSE]
  BY <1>1 DEF NoResponse
<1>3. PICK d : d = Flagged(r, a, f)
  OBVIOUS
<1>4. d = [code |-> a.code, value |-> a.value, key |-> a.key, err |-> f = "flag"]
  BY <1>2, <1>3 DEF Flagged
<1>5. parseResponseFlags(r, FlagWords(a, f)) = d
  BY <1>3, ParsedFlags
<1>6. d = Expected(a, f) /\ (d.err <=> f = "flag")
  BY <1>4 DEF Expected
<1>7. Framed(d, rest) = Delivered(a, f, rest)
  BY <1>6 DEF Framed, Delivered
<1> QED
  BY <1>1, <1>5, <1>7

(* The words of a line that was read are those that were sent. *)
LEMMA ReadFields ==
    ASSUME NEW a, IsAnswer(a), NEW f, NEW c \in Texts, NEW b, Lined(b, Joined(Fields(a, f)), c)
    PROVE  readRawResponse(b) = LineRead(Fields(a, f), c)
<1>1. PICK H \in Texts :
        /\ H = Joined(Fields(a, f)) /\ Fields(a, f) = asciiFields(H)
        /\ H # <<>> /\ H[1] = (IF f = "code" THEN "a" ELSE a.code) /\ Len(H) + 2 <= MaxLine
        /\ Fields(a, f) # <<>>
  BY AnswerLine
<1>2. b[1] = H[1]
  <2>1. PICK n \in Nat : n = Len(H) /\ n # 0
    BY <1>1 DEF Texts
  <2>2. 1 \in 1..Len(H)
    BY <2>1
  <2> QED
    BY <1>1, <2>2 DEF Lined
<1>3. H[1] \notin {"ERROR", "CLIENT_ERROR", "SERVER_ERROR"}
  BY <1>1 DEF IsAnswer, Codes
<1>4. Lined(b, H, c)
  BY <1>1
<1> QED
  BY <1>1, <1>2, <1>3, <1>4, ReadLine

(* The words of the line, as readRawResponse looks at them. *)
LEMMA ReadWords ==
    ASSUME NEW a, IsAnswer(a), NEW f, NEW c \in Texts
    PROVE  /\ f = "code" => LineRead(Fields(a, f), c) = Fatal
           /\ a.code = "VA" /\ f = "size" => LineRead(Fields(a, f), c) = Fatal
           /\ a.code = "VA" /\ f \notin {"code", "size"}
                => LineRead(Fields(a, f), c) =
                     IF tooLarge(Len(a.value)) THEN Fatal
                     ELSE readValue(c, Len(a.value), FlagWords(a, f))
           /\ a.code # "VA" /\ f # "code" /\ Fits(f, a.code)
                => LineRead(Fields(a, f), c) = Delivered(a, f, c)
<1>1. PICK s \in Seq(Texts) :
        /\ s = Fields(a, f)
        /\ s[1][1] = IF f = "code" THEN "a" ELSE a.code
        /\ a.code = "VA" => /\ ~(Len(s) < 2) /\ s[2] = SizeWord(a, f)
                            /\ After(s, 2) = FlagWords(a, f)
        /\ a.code # "VA" => After(s, 1) = FlagWords(a, f)
        /\ a.code = "ME" /\ f # "flag" => ~(Len(s) < 2) /\ s[2] = encodeKey(a.key)
  <2>1. Fields(a, f) \in Seq(Texts)
    BY FieldsShape DEF Row
  <2> QED
    BY <2>1, AnswerLine
<1>2. f = "code" => LineRead(s, c) = Fatal
  BY <1>1 DEF LineRead
<1>3. ASSUME a.code = "VA", f = "size"
      PROVE  LineRead(s, c) = Fatal
  <2>1. s[1][1] = "VA" /\ s[2] = <<"a">>
    BY <1>1, <1>3 DEF SizeWord
  <2> QED
    BY <2>1, NoNumber DEF LineRead
<1>4. ASSUME a.code = "VA", f \notin {"code", "size"}
      PROVE  LineRead(s, c) = IF tooLarge(Len(a.value)) THEN Fatal
                              ELSE readValue(c, Len(a.value), FlagWords(a, f))
  <2>1. PICK n \in Nat : n = Len(a.value) /\ n < Len(Numerals)
    BY DEF IsAnswer
  <2>2. s[1][1] = "VA" /\ ~(Len(s) < 2) /\ s[2] = <<Itoa(n)>> /\ After(s, 2) = FlagWords(a, f)
    BY <1>1, <1>4, <2>1 DEF SizeWord
  <2>3. Numeric(s[2]) /\ ParseUint(s[2]) = n
    BY <2>1, <2>2, Numbers
  <2> QED
    BY <2>1, <2>2, <2>3 DEF LineRead
<1>5. ASSUME a.code # "VA", f # "code", Fits(f, a.code)
      PROVE  LineRead(s, c) = Delivered(a, f, c)
  <2>1. s[1][1] = a.code /\ a.value = <<>> /\ a.code \in Codes
    BY <1>1, <1>5 DEF IsAnswer
  <2>2. CASE a.code = "ME"
    <3>1. f # "flag" /\ ~(Len(s) < 2) /\ s[2] = encodeKey(a.key)
      BY <1>1, <1>5, <2>2 DEF Fits
    <3>2. PICK r : r = [NoResponse EXCEPT !.code = "ME", !.key = s[2]]
      OBVIOUS
    <3>3. r = [code |-> "ME", value |-> <<>>, key |-> s[2], err |-> FALSE]
      BY <3>2 DEF NoResponse
    <3>4. r = [code |-> a.code, value |-> a.value, key |-> encodeKey(a.key), err |-> f = "flag"]
      BY <2>1, <2>2, <3>1, <3>3
    <3>5. r = Expected(a, f) /\ ~r.err
      BY <2>2, <3>1, <3>4 DEF Expected
    <3>6. LineRead(s, c) = Framed(r, c)
      BY <2>1, <2>2, <3>1, <3>2 DEF LineRead
    <3> QED
      BY <3>1, <3>5, <3>6 DEF Framed, Delivered
  <2>3. CASE a.code # "ME"
    <3>1. a.code \in {"HD", "EN", "NS", "EX", "NF", "MN"} /\ After(s, 1) = FlagWords(a, f)
      BY <1>1, <1>5, <2>1, <2>3 DEF Codes
    <3>2. PICK r : r = [NoResponse EXCEPT !.code = a.code]
      OBVIOUS
    <3>3. PICK q : q = [NoResponse EXCEPT !.code = a.code, !.value = a.value]
      OBVIOUS
    <3>4. r = q
      <4>1. r = [code |-> a.code, value |-> <<>>, key |-> NoKey, err |-> FALSE]
        BY <3>2 DEF NoResponse
      <4>2. q = [code |-> a.code, value |-> a.value, key |-> NoKey, err |-> FALSE]
        BY <3>3 DEF NoResponse
      <4> QED
        BY <2>1, <4>1, <4>2
    <3>5. Framed(parseResponseFlags(r, FlagWords(a, f)), c) = Delivered(a, f, c)
      BY <2>3, <3>3, <3>4, FlaggedResponse
    <3>6. LineRead(s, c) = Framed(parseResponseFlags(r, FlagWords(a, f)), c)
      BY <1>5, <2>1, <2>3, <3>1, <3>2 DEF LineRead
    <3> QED
      BY <3>5, <3>6
  <2> QED
    BY <2>2, <2>3
<1> QED
  BY <1>1, <1>2, <1>3, <1>4, <1>5

(* A value that has come whole, and one that has not. *)
LEMMA ReadWholeValue ==
    ASSUME NEW a, IsAnswer(a), a.code = "VA", NEW f, NEW u \in Texts, NEW x \in {Cr, "a"}
    PROVE  readValue((a.value \o <<x, Lf>>) \o u, Len(a.value), FlagWords(a, f))
           = IF x = Cr THEN Delivered(a, f, u) ELSE Fatal
<1>1. PICK v \in Texts : v = a.value
  BY StringTexts DEF IsAnswer
<1>2. PICK e \in Texts : e = <<x, Lf>> /\ Len(e) = 2
  <2>1. x \in Atoms /\ Lf \in Atoms
    BY DEF Atoms
  <2>2. <<x, Lf>> \in Seq(Atoms) /\ Len(<<x, Lf>>) = 2
    BY <2>1
  <2> QED
    BY <2>2 DEF Texts
<1>3. PICK n \in Nat : n = Len(v)
  BY DEF Texts
<1>4. PICK c \in Texts : /\ c = (v \o e) \o u /\ Len(c) = (n + 2) + Len(u)
                         /\ SubSeq(c, 1, n) = v /\ SubSeq(c, n + 1, n + 2) = e
                         /\ After(c, n + 2) = u
  <2>1. v \o e \in Texts /\ Len(v \o e) = n + 2 /\ (v \o e) \o u \in Texts
    BY <1>2, <1>3, JoinTexts
  <2>2. Len((v \o e) \o u) = Len(v \o e) + Len(u)
    BY <2>1, JoinTexts
  <2>3. SubSeq((v \o e) \o u, n + 1, n + 2) = e
    BY <1>2, <1>3, Middle
  <2>4. After((v \o e) \o u, Len(v \o e)) = u
    BY <2>1, Halves
  <2>5. SubSeq((v \o e) \o u, 1, n) = v
    <3>1. e \o u \in Texts
      BY JoinTexts
    <3>2. SubSeq(v \o (e \o u), 1, n) = v
      BY <1>3, <3>1, Halves
    <3> QED
      BY <3>2, Associates
  <2> QED
    BY <2>1, <2>2, <2>3, <2>4, <2>5
<1>5. ~(Len(c) < n + 2)
  <2>1. PICK l \in Nat : l = Len(u)
    BY DEF Texts
  <2> QED
    BY <1>4, <2>1
<1>6. e = Crlf <=> x = Cr
  BY <1>2, Marks DEF Crlf
<1>7. Framed(parseResponseFlags([NoResponse EXCEPT !.code = "VA", !.value = v],
                                FlagWords(a, f)), u) = Delivered(a, f, u)
  BY <1>1, FlaggedResponse
<1>8. readValue(c, n, FlagWords(a, f)) = IF x = Cr THEN Delivered(a, f, u) ELSE Fatal
  BY <1>4, <1>5, <1>6, <1>7 DEF readValue
<1> QED
  BY <1>1, <1>2, <1>3, <1>4, <1>8

LEMMA ReadPartOfValue ==
    ASSUME NEW c \in Texts, NEW n \in Nat, Len(c) < n + 2, eof, NEW words
    PROVE  readValue(c, n, words) = Fatal
BY DEF readValue, Short

(* What a read makes of a stream that begins with the text of an answer.   *)
(* cut is what the client does not receive, rest what follows the text.    *)
Outcome(r, a, f, cut, rest) ==
    \/ Good(a, f) /\ \E u \in Texts : rest = u \o cut /\ r = Delivered(a, f, u)
    \/ r.st = "fatal" /\ (eof \/ ~Good(a, f))

(* b is received, cut is not: of x and the z behind it. *)
Cuts(b, cut, x, z) ==
    /\ b \in Texts /\ cut \in Texts /\ x \in Texts /\ z \in Texts
    /\ b \o cut = x \o z
    /\ cut # <<>> => eof

Whole(b, cut, x, z) == \E u \in Texts : b = x \o u /\ z = u \o cut

Part(b, x) == eof /\ Len(b) < Len(x) /\ \A i \in 1..Len(b) : b[i] = x[i]

LEMMA WholeOrPart ==
    ASSUME NEW b, NEW cut, NEW x, NEW z, Cuts(b, cut, x, z)
    PROVE  Whole(b, cut, x, z) \/ Part(b, x)
<1> DEFINE P(p, q, s, t) == \/ \E u \in Texts : p = s \o u /\ t = u \o q
                            \/ Len(p) < Len(s) /\ q # <<>> /\ \A i \in 1..Len(p) : p[i] = s[i]
<1>1. \A p, q, s, t \in Texts : p \o q = s \o t => P(p, q, s, t)
  BY TwoCuts
<1>2. P(b, cut, x, z)
  <2> HIDE DEF P
  <2> QED
    BY <1>1, Zenon DEF Cuts
<1>3. cut # <<>> => eof
  BY DEF Cuts
<1> QED
  BY <1>2, <1>3 DEF Whole, Part

(* A line is received whole, or the connection was cut. *)
LEMMA CutLine ==
    ASSUME NEW H \in Texts, \A i \in 1..Len(H) : H[i] # Lf, NEW e \in {Crlf, <<Lf>>},
           NEW b, NEW cut, NEW z, Cuts(b, cut, H \o e, z)
    PROVE  \/ Whole(b, cut, H \o e, z)
           \/ eof /\ readRawResponse(b) = Fatal
<1>1. e \in Texts /\ Len(e) \in {1, 2} /\ \A i \in 1..(Len(e) - 1) : e[i] # Lf
  <2>1. CASE e = Crlf
    <3>1. Len(e) = 2 /\ \A i \in 1..(2 - 1) : i = 1
      BY <2>1, LineEnds
    <3> QED
      BY <2>1, <3>1, LineEnds, Marks
  <2>2. CASE e = <<Lf>>
    <3>1. Len(e) = 1 /\ \A i \in 1..(1 - 1) : FALSE
      BY <2>2, LineEnds
    <3> QED
      BY <2>2, <3>1, LineEnds
  <2> QED
    BY <2>1, <2>2
<1>2. /\ H \o e \in Texts /\ Len(H \o e) = Len(H) + Len(e)
      /\ \A i \in 1..Len(H) : (H \o e)[i] = H[i]
      /\ \A i \in 1..Len(e) : (H \o e)[Len(H) + i] = e[i]
  BY <1>1, JoinTexts
<1>3. b \in Texts
  BY DEF Cuts
<1>4. CASE Part(b, H \o e)
  <2>1. ASSUME NEW i \in 1..Len(b)
        PROVE  b[i] # Lf
    <3> USE DEF Part
    <3>1. PICK h \in Nat, k \in Nat, l \in Nat : h = Len(H) /\ k = Len(e) /\ l = Len(b)
      BY <1>1, <1>3 DEF Texts
    <3>2. l < h + k
      BY <1>2, <1>4, <3>1
    <3>3. CASE i <= h
      <4>1. i \in 1..h
        BY <3>1, <3>3
      <4> QED
        BY <1>2, <1>4, <3>1, <4>1
    <3>4. CASE ~(i <= h)
      <4>1. PICK j \in 1..(k - 1) : i = h + j
        <5>1. i - h \in 1..(k - 1) /\ i = h + (i - h)
          BY <3>1, <3>2, <3>4
        <5> QED
          BY <5>1
      <4>2. j \in 1..k
        BY <4>1
      <4> QED
        BY <1>1, <1>2, <1>4, <3>1, <4>1, <4>2
    <3> QED
      BY <3>3, <3>4
  <2> QED
    BY <1>3, <1>4, <2>1, ReadOpen DEF Part
<1> QED
  BY <1>4, WholeOrPart

(* Streams that begin with an answer, or what stands for one. *)
Sent(a, f, b, cut, y) ==
    /\ b \in Texts /\ cut \in Texts /\ y \in Texts
    /\ cut # <<>> => eof
    /\ b \o cut = Text(a, f) \o y

LEMMA ReadErrorLine ==
    ASSUME NEW a, NEW b, NEW cut, NEW y, Sent(a, "error", b, cut, y)
    PROVE  Outcome(readRawResponse(b), a, "error", cut, y)
<1>1. PICK x \in {"ERROR", "SERVER_ERROR"} : Text(a, "error") = <<x>> \o Crlf
  BY DEF Text
<1>2. Printed(<<x>>) /\ <<x>> \in Texts /\ Len(<<x>>) = 1 /\ <<x>>[1] = x
  <2>1. x \in Atoms
    BY DEF Atoms
  <2>2. x \notin {Sp, Cr, Lf}
    BY DEF Sp, Cr, Lf
  <2> QED
    BY <2>1, <2>2, OneAtom
<1>3. PICK H \in Texts : H = <<x>> /\ Len(H) = 1 /\ H[1] = x /\ \A i \in 1..Len(H) : H[i] # Lf
  <2>1. \A i \in 1..Len(<<x>>) : <<x>>[i] # Lf
    BY <1>2, PrintedWord
  <2> QED
    BY <1>2, <2>1
<1>4. Cuts(b, cut, H \o Crlf, y)
  <2>1. H \o Crlf \in Texts
    BY LineEnds, JoinTexts
  <2> QED
    BY <1>1, <1>3, <2>1 DEF Sent, Cuts
<1>5. CASE eof /\ readRawResponse(b) = Fatal
  BY <1>5, FatalIs DEF Outcome
<1>6. CASE Whole(b, cut, H \o Crlf, y)
  <2>1. PICK u \in Texts : b = (H \o Crlf) \o u
    BY <1>6 DEF Whole
  <2>2. Lined(b, H, u)
    BY <1>3, <2>1, FirstLine
  <2>3. Len(H) + 2 <= MaxLine
    BY <1>3, Assumed DEF LimitAssumption
  <2>4. b[1] = x
    <3>1. 1 \in 1..Len(H)
      BY <1>3
    <3> QED
      BY <1>3, <2>2, <3>1 DEF Lined
  <2>5. readRawResponse(b) = Fatal
    BY <2>2, <2>3, <2>4, ReadLine
  <2> QED
    BY <2>5, FatalIs DEF Outcome, Good
<1>7. Crlf \in {Crlf, <<Lf>>}
  OBVIOUS
<1> QED
  BY <1>3, <1>4, <1>5, <1>6, <1>7, CutLine

LEMMA ReadEmptyLine ==
    ASSUME NEW a, NEW b, NEW cut, NEW y, Sent(a, "empty", b, cut, y)
    PROVE  Outcome(readRawResponse(b), a, "empty", cut, y)
<1>1. Text(a, "empty") = Crlf
  BY DEF Text
<1>2. PICK H \in Texts : H = <<>> /\ Len(H) = 0 /\ \A i \in 1..Len(H) : H[i] # Lf
  <2>1. <<>> \in Seq(Atoms) /\ Len(<<>>) = 0 /\ \A i \in 1..0 : FALSE
    OBVIOUS
  <2> QED
    BY <2>1 DEF Texts
<1>3. H \o Crlf = Crlf
  BY <1>2, LineEnds DEF Texts
<1>4. Cuts(b, cut, H \o Crlf, y)
  <2>1. H \o Crlf \in Texts
    BY LineEnds, JoinTexts
  <2> QED
    BY <1>1, <1>3, <2>1 DEF Sent, Cuts
<1>5. CASE eof /\ readRawResponse(b) = Fatal
  BY <1>5, FatalIs DEF Outcome
<1>6. CASE Whole(b, cut, H \o Crlf, y)
  <2>1. PICK u \in Texts : b = (H \o Crlf) \o u
    BY <1>6 DEF Whole
  <2>2. Lined(b, H, u)
    BY <1>2, <2>1, FirstLine
  <2>3. Len(H) + 2 <= MaxLine
    BY <1>2, Assumed DEF LimitAssumption
  <2>4. asciiFields(H) = <<>>
    BY <1>2, NoFields
  <2>5. readRawResponse(b) = Fatal
    BY <2>2, <2>3, <2>4, ReadLine
  <2> QED
    BY <2>5, FatalIs DEF Outcome, Good
<1>7. Crlf \in {Crlf, <<Lf>>}
  OBVIOUS
<1> QED
  BY <1>2, <1>4, <1>5, <1>6, <1>7, CutLine

LEMMA LfAtIs ==
    ASSUME NEW b \in Texts
    PROVE  LfAt(b) = 0 \/ (LfAt(b) \in 1..Len(b) /\ b[LfAt(b)] = Lf)
<1> DEFINE I == {i \in 1..Len(b) : b[i] = Lf}
<1>1. CASE I # {}
  <2>2. I \subseteq Nat
    BY DEF Texts
  <2> HIDE DEF I
  <2> DEFINE R == OpToRel(<, Nat)
  <2>1. IsWellFoundedOn(R, Nat)
    BY NatLessThanWellFounded
  <2>7. \A x, y \in Nat : x < y => <<x, y>> \in R
    BY DEF OpToRel
  <2> HIDE DEF R
  <2>3. PICK x \in I : \A y \in I : ~(<<y, x>> \in R)
    BY <1>1, <2>1, <2>2, WFMin
  <2>4. \A y \in I : x <= y
    <3>1. ASSUME NEW y \in I
          PROVE  x <= y
      <4>1. x \in Nat /\ y \in Nat /\ ~(<<y, x>> \in R)
        BY <2>2, <2>3
      <4>2. ~(y < x)
        BY <2>7, <4>1
      <4> QED
        BY <4>1, <4>2
    <3> QED
      BY <3>1
  <2>5. Min(I) \in I
    BY <2>4 DEF Min
  <2>6. LfAt(b) = Min(I)
    BY <1>1 DEF LfAt, SelectInSeq, I
  <2> QED
    BY <2>5, <2>6 DEF I
<1>2. CASE I = {}
  <2>1. LfAt(b) = 0
    BY <1>2 DEF LfAt, SelectInSeq
  <2> QED
    BY <2>1
<1> QED
  BY <1>1, <1>2

LEMMA ReadLongLine ==
    ASSUME NEW a, NEW b, NEW cut, NEW y, Sent(a, "long", b, cut, y)
    PROVE  Outcome(readRawResponse(b), a, "long", cut, y)
<1>1. PICK m \in Nat : m = MaxLine
  BY Assumed DEF LimitAssumption
<1>2. PICK L \in Texts : /\ L = Text(a, "long") /\ Len(L) = m + 1
                         /\ \A i \in 1..(m + 1) : L[i] = "a"
  <2>1. [i \in 1..(m + 1) |-> "a"] \in Seq(Atoms) /\ Len([i \in 1..(m + 1) |-> "a"]) = m + 1
    BY DEF Atoms
  <2> QED
    BY <1>1, <2>1 DEF Text, Texts
<1>3. Cuts(b, cut, L, y) /\ b \in Texts
  BY <1>2 DEF Sent, Cuts
<1>4. "a" # Lf
  BY DEF Lf
<1>5. CASE Part(b, L)
  <2>1. ASSUME NEW i \in 1..Len(b)
        PROVE  b[i] # Lf
    <3>1. PICK l \in Nat : l = Len(b)
      BY <1>3 DEF Texts
    <3>2. i \in 1..(m + 1)
      BY <1>2, <1>5, <3>1 DEF Part
    <3> QED
      BY <1>2, <1>4, <1>5, <3>2 DEF Part
  <2>2. readRawResponse(b) = Fatal
    BY <1>3, <1>5, <2>1, ReadOpen DEF Part
  <2> QED
    BY <1>5, <2>2, FatalIs DEF Outcome, Part
<1>6. CASE Whole(b, cut, L, y)
  <2>1. PICK u \in Texts : b = L \o u
    BY <1>6 DEF Whole
  <2>2. PICK l \in Nat : l = Len(b) /\ l >= m + 1
    <3>1. PICK k \in Nat : k = Len(u)
      BY DEF Texts
    <3>2. Len(L \o u) = Len(L) + Len(u)
      BY JoinTexts
    <3> QED
      BY <1>2, <2>1, <3>1, <3>2
  <2>3. \A i \in 1..(m + 1) : b[i] # Lf
    <3>1. \A i \in 1..Len(L) : (L \o u)[i] = L[i]
      BY JoinTexts
    <3> QED
      BY <1>2, <1>4, <2>1, <3>1
  <2>4. CASE LfAt(b) = 0
    <3>1. Len(b) > MaxLine
      BY <1>1, <2>2
    <3>2. readRawResponse(b) = Fatal
      BY <2>4, <3>1 DEF readRawResponse
    <3> QED
      BY <3>2, FatalIs DEF Outcome, Good
  <2>5. CASE LfAt(b) \in 1..Len(b) /\ b[LfAt(b)] = Lf
    <3>1. PICK n \in Nat : n = LfAt(b) /\ n \in 1..l /\ b[n] = Lf
      BY <2>2, <2>5
    <3>2. n > m /\ n # 0
      BY <2>3, <3>1
    <3>3. readRawResponse(b) = Fatal
      BY <1>1, <3>1, <3>2 DEF readRawResponse
    <3> QED
      BY <3>3, FatalIs DEF Outcome, Good
  <2> QED
    BY <1>3, <2>4, <2>5, LfAtIs
<1> QED
  BY <1>3, <1>5, <1>6, WholeOrPart

(* The text of an answer: its line, the end of the line, its value. *)
LineEnd(f) == IF f = "bare" THEN <<Lf>> ELSE Crlf

ValueEnd(f) == IF f = "tail" THEN "a" ELSE Cr

Behind(a, f) == IF a.code # "VA" THEN <<>> ELSE a.value \o <<ValueEnd(f), Lf>>

Ordinary(f) == f \notin {"error", "empty", "long"}

LEMMA TextIs ==
    ASSUME NEW a, IsAnswer(a), NEW f, Ordinary(f)
    PROVE  /\ Text(a, f) = (Joined(Fields(a, f)) \o LineEnd(f)) \o Behind(a, f)
           /\ Joined(Fields(a, f)) \in Texts /\ LineEnd(f) \in Texts /\ Behind(a, f) \in Texts
           /\ Text(a, f) \in Texts
           /\ a.value \in Texts
<1>1. Joined(Fields(a, f)) \in Texts
  BY AnswerLine
<1>2. LineEnd(f) \in Texts
  BY LineEnds DEF LineEnd
<1>3. a.value \in Texts
  BY StringTexts DEF IsAnswer
<1>4. <<ValueEnd(f), Lf>> \in Texts
  <2>1. ValueEnd(f) \in Atoms /\ Lf \in Atoms
    BY DEF Atoms, ValueEnd
  <2>2. <<ValueEnd(f), Lf>> \in Seq(Atoms)
    BY <2>1
  <2> QED
    BY <2>2 DEF Texts
<1>5. Behind(a, f) \in Texts
  <2>1. a.value \o <<ValueEnd(f), Lf>> \in Texts
    BY <1>3, <1>4, JoinTexts
  <2>2. <<>> \in Seq(Atoms)
    OBVIOUS
  <2> QED
    BY <2>1, <2>2 DEF Behind, Texts
<1>6. Joined(Fields(a, f)) \o LineEnd(f) \in Texts
  BY <1>1, <1>2, JoinTexts
<1>7. (Joined(Fields(a, f)) \o LineEnd(f)) \o Behind(a, f) \in Texts
  BY <1>5, <1>6, JoinTexts
<1>8. Text(a, f) = (Joined(Fields(a, f)) \o LineEnd(f)) \o Behind(a, f)
  <2>1. (IF f = "tail" THEN <<"a", Lf>> ELSE Crlf) = <<ValueEnd(f), Lf>>
    BY DEF ValueEnd, Crlf
  <2>2. CASE a.code = "VA"
    BY <2>1, <2>2 DEF Text, LineEnd, Behind, Ordinary, IsAnswer
  <2>3. CASE a.code # "VA"
    BY <2>3 DEF Text, LineEnd, Behind, Ordinary, IsAnswer
  <2> QED
    BY <2>2, <2>3
<1> QED
  BY <1>1, <1>2, <1>3, <1>5, <1>7, <1>8

LEMMA ReadBareLine ==
    ASSUME NEW a, IsAnswer(a), NEW b, NEW cut, NEW y, Sent(a, "bare", b, cut, y)
    PROVE  Outcome(readRawResponse(b), a, "bare", cut, y)
<1>1. PICK H \in Texts : /\ H = Joined(Fields(a, "bare")) /\ H # <<>>
                         /\ \A i \in 1..Len(H) : H[i] # Lf /\ H[i] # Cr
  BY AnswerLine
<1>2. PICK c \in Texts : c = Behind(a, "bare")
  BY TextIs DEF Ordinary
<1>3. Text(a, "bare") = (H \o <<Lf>>) \o c
  BY <1>1, <1>2, TextIs DEF Ordinary, LineEnd
<1>4. Cuts(b, cut, H \o <<Lf>>, c \o y) /\ y \in Texts
  <2>1. H \o <<Lf>> \in Texts
    BY LineEnds, JoinTexts
  <2>2. y \in Texts
    BY DEF Sent
  <2>3. c \o y \in Texts
    BY <2>2, JoinTexts
  <2>4. ((H \o <<Lf>>) \o c) \o y = (H \o <<Lf>>) \o (c \o y)
    BY <2>1, <2>2, Associates
  <2> QED
    BY <1>3, <2>1, <2>2, <2>3, <2>4 DEF Sent, Cuts
<1>5. CASE eof /\ readRawResponse(b) = Fatal
  BY <1>5, FatalIs DEF Outcome
<1>6. CASE Whole(b, cut, H \o <<Lf>>, c \o y)
  <2>1. PICK u \in Texts : b = (H \o <<Lf>>) \o u
    BY <1>6 DEF Whole
  <2>2. BareLined(b, H)
    BY <1>1, <2>1, FirstBareLine
  <2>3. PICK h \in Nat : h = Len(H) /\ h # 0 /\ LfAt(b) = h + 1 /\ b[h] # Cr
    BY <2>2 DEF BareLined
  <2>4. h + 1 # 0 /\ (h + 1) - 1 = h
    OBVIOUS
  <2>5. readRawResponse(b) = Fatal
    BY <2>3, <2>4 DEF readRawResponse
  <2> QED
    BY <2>5, FatalIs DEF Outcome, Good
<1>7. <<Lf>> \in {Crlf, <<Lf>>} /\ \A i \in 1..Len(H) : H[i] # Lf
  BY <1>1
<1> QED
  BY <1>4, <1>5, <1>6, <1>7, CutLine

(* The value of an answer, behind its line. *)
LEMMA ReadSentValue ==
    ASSUME NEW a, IsAnswer(a), a.code = "VA", NEW f \in {"none", "flag", "tail"},
           ~tooLarge(Len(a.value)),
           NEW c \in Texts, NEW cut \in Texts, NEW y \in Texts, cut # <<>> => eof,
           c \o cut = Behind(a, f) \o y
    PROVE  Outcome(readValue(c, Len(a.value), FlagWords(a, f)), a, f, cut, y)
<1>1. PICK x \in Texts : x = Behind(a, f) /\ x = a.value \o <<ValueEnd(f), Lf>>
  BY TextIs DEF Behind, Ordinary
<1>2. PICK n \in Nat : n = Len(a.value)
  BY DEF IsAnswer
<1>3. Cuts(c, cut, x, y)
  BY <1>1 DEF Cuts
<1>4. CASE Whole(c, cut, x, y)
  <2>1. PICK u \in Texts : c = x \o u /\ y = u \o cut
    BY <1>4 DEF Whole
  <2>2. ValueEnd(f) \in {Cr, "a"} /\ (ValueEnd(f) = Cr <=> f # "tail")
    BY DEF ValueEnd, Cr
  <2>3. readValue(c, Len(a.value), FlagWords(a, f))
        = IF ValueEnd(f) = Cr THEN Delivered(a, f, u) ELSE Fatal
    <3>1. PICK v \in {Cr, "a"} : v = ValueEnd(f)
      BY <2>2
    <3>2. c = (a.value \o <<v, Lf>>) \o u
      BY <1>1, <2>1, <3>1
    <3>3. readValue((a.value \o <<v, Lf>>) \o u, Len(a.value), FlagWords(a, f))
          = IF v = Cr THEN Delivered(a, f, u) ELSE Fatal
      BY ReadWholeValue
    <3> QED
      BY <3>1, <3>2, <3>3
  <2>4. CASE f = "tail"
    BY <2>2, <2>3, <2>4, FatalIs DEF Outcome, Good
  <2>5. CASE f # "tail"
    <3>1. Good(a, f)
      BY <2>5 DEF Good
    <3>2. readValue(c, Len(a.value), FlagWords(a, f)) = Delivered(a, f, u)
      BY <2>2, <2>3, <2>5
    <3> QED
      BY <2>1, <3>1, <3>2 DEF Outcome
  <2> QED
    BY <2>4, <2>5
<1>5. CASE Part(c, x)
  <2>1. Len(x) = n + 2
    <3>1. PICK e \in Texts : e = <<ValueEnd(f), Lf>> /\ Len(e) = 2
      <4>1. ValueEnd(f) \in Atoms /\ Lf \in Atoms
        BY DEF Atoms, ValueEnd
      <4>2. <<ValueEnd(f), Lf>> \in Seq(Atoms) /\ Len(<<ValueEnd(f), Lf>>) = 2
        BY <4>1
      <4> QED
        BY <4>2 DEF Texts
    <3>2. a.value \in Texts
      BY StringTexts DEF IsAnswer
    <3>3. Len(a.value \o e) = Len(a.value) + Len(e)
      BY <3>2, JoinTexts
    <3> QED
      BY <1>1, <1>2, <3>1, <3>3
  <2>2. Len(c) < n + 2 /\ eof
    BY <1>5, <2>1 DEF Part
  <2>3. readValue(c, n, FlagWords(a, f)) = Fatal
    BY <2>2, ReadPartOfValue
  <2> QED
    BY <1>2, <2>2, <2>3, FatalIs DEF Outcome
<1> QED
  BY <1>3, <1>4, <1>5, WholeOrPart

LEMMA ReadOrdinary ==
    ASSUME NEW a, IsAnswer(a), NEW f \in {"none", "flag", "code", "size", "tail"},
           Fits(f, a.code), NEW b, NEW cut, NEW y, Sent(a, f, b, cut, y)
    PROVE  Outcome(readRawResponse(b), a, f, cut, y)
<1>1. PICK H \in Texts : /\ H = Joined(Fields(a, f)) /\ H # <<>>
                         /\ \A i \in 1..Len(H) : H[i] # Lf /\ H[i] # Cr
  BY AnswerLine
<1>2. PICK t \in Texts : t = Behind(a, f)
  BY TextIs DEF Ordinary
<1>3. Text(a, f) = (H \o Crlf) \o t
  BY <1>1, <1>2, TextIs DEF Ordinary, LineEnd
<1>4. Cuts(b, cut, H \o Crlf, t \o y) /\ y \in Texts /\ cut \in Texts /\ (cut # <<>> => eof)
  <2>1. H \o Crlf \in Texts
    BY LineEnds, JoinTexts
  <2>2. y \in Texts /\ cut \in Texts /\ (cut # <<>> => eof)
    BY DEF Sent
  <2>3. t \o y \in Texts
    BY <2>2, JoinTexts
  <2>4. ((H \o Crlf) \o t) \o y = (H \o Crlf) \o (t \o y)
    BY <2>1, <2>2, Associates
  <2> QED
    BY <1>3, <2>1, <2>2, <2>3, <2>4 DEF Sent, Cuts
<1>5. CASE eof /\ readRawResponse(b) = Fatal
  BY <1>5, FatalIs DEF Outcome
<1>6. CASE Whole(b, cut, H \o Crlf, t \o y)
  <2>1. PICK c \in Texts : b = (H \o Crlf) \o c /\ c \o cut = t \o y
    BY <1>6 DEF Whole
  <2>2. Lined(b, H, c)
    BY <1>1, <2>1, FirstLine
  <2>3. readRawResponse(b) = LineRead(Fields(a, f), c)
    <3>1. Lined(b, Joined(Fields(a, f)), c)
      BY <1>1, <2>2
    <3> QED
      BY <3>1, ReadFields
  <2>4. CASE f = "code" \/ (a.code = "VA" /\ f = "size")
    <3>1. readRawResponse(b) = Fatal
      BY <2>3, <2>4, ReadWords
    <3> QED
      BY <2>4, <3>1, FatalIs DEF Outcome, Good
  <2>5. CASE a.code # "VA" /\ f # "code"
    <3>1. readRawResponse(b) = Delivered(a, f, c)
      BY <2>3, <2>5, ReadWords
    <3>2. t \o y = y
      <4>1. t = <<>>
        BY <1>2, <2>5 DEF Behind
      <4> QED
        BY <1>4, <4>1 DEF Texts
    <3>3. f \in {"none", "flag"}
      BY <2>5 DEF Fits
    <3>4. ~tooLarge(Len(a.value))
      <4>1. Len(a.value) = 0
        BY <2>5 DEF IsAnswer
      <4> QED
        BY <4>1, Assumed DEF tooLarge, LimitAssumption
    <3> QED
      BY <2>1, <3>1, <3>2, <3>3, <3>4 DEF Outcome, Good
  <2>6. CASE a.code = "VA" /\ f \notin {"code", "size"}
    <3>1. readRawResponse(b) = IF tooLarge(Len(a.value)) THEN Fatal
                               ELSE readValue(c, Len(a.value), FlagWords(a, f))
      BY <2>3, <2>6, ReadWords
    <3>2. CASE tooLarge(Len(a.value))
      BY <3>1, <3>2, FatalIs DEF Outcome, Good
    <3>3. CASE ~tooLarge(Len(a.value))
      <4>1. c \o cut = Behind(a, f) \o y
        BY <1>2, <2>1
      <4>2. f \in {"none", "flag", "tail"}
        BY <2>6
      <4>3. Outcome(readValue(c, Len(a.value), FlagWords(a, f)), a, f, cut, y)
        BY <1>4, <2>6, <3>3, <4>1, <4>2, ReadSentValue
      <4> QED
        BY <3>1, <3>3, <4>3
    <3> QED
      BY <3>2, <3>3
  <2> QED
    BY <2>4, <2>5, <2>6
<1>7. Crlf \in {Crlf, <<Lf>>} /\ \A i \in 1..Len(H) : H[i] # Lf
  BY <1>1
<1> QED
  BY <1>4, <1>5, <1>6, <1>7, CutLine

AllFaults == {"none", "flag", "error", "empty", "long", "code", "size", "bare", "tail"}

(* What the server sends for a command: an answer and what is wrong with   *)
(* it, or the error line for what it cannot make sense of.                 *)
Reply(a, f) ==
    \/ IsAnswer(a) /\ f \in AllFaults /\ Fits(f, a.code)
    \/ a.code = "none" /\ f = "error"

(* One read delivers the answer that was sent and leaves what is behind    *)
(* it, or the connection is lost for a reason.                             *)
LEMMA ReadStream ==
    ASSUME NEW a, NEW f, Reply(a, f), NEW b, NEW cut, NEW y, Sent(a, f, b, cut, y)
    PROVE  Outcome(readRawResponse(b), a, f, cut, y)
<1>1. CASE f = "error"
  BY <1>1, ReadErrorLine
<1>2. CASE f = "empty"
  BY <1>2, ReadEmptyLine
<1>3. CASE f = "long"
  BY <1>3, ReadLongLine
<1>4. CASE f = "bare"
  BY <1>4, ReadBareLine DEF Reply
<1>5. CASE f \in {"none", "flag", "code", "size", "tail"}
  BY <1>5, ReadOrdinary DEF Reply
<1> QED
  BY <1>1, <1>2, <1>3, <1>4, <1>5 DEF Reply, AllFaults

LEMMA ReplyText ==
    ASSUME NEW a, NEW f, Reply(a, f)
    PROVE  Text(a, f) \in Texts
<1>1. CASE f = "error"
  <2>1. PICK x \in {"ERROR", "SERVER_ERROR"} : Text(a, f) = <<x>> \o Crlf
    BY <1>1 DEF Text
  <2>2. x \in Atoms
    BY DEF Atoms
  <2>3. <<x>> \in Seq(Atoms)
    BY <2>2
  <2>4. <<x>> \in Texts
    BY <2>3 DEF Texts
  <2> QED
    BY <2>1, <2>4, LineEnds, JoinTexts
<1>2. CASE f = "empty"
  BY <1>2, LineEnds DEF Text
<1>3. CASE f = "long"
  <2>1. MaxLine + 1 \in Nat /\ "a" \in Atoms
    BY Assumed DEF LimitAssumption, Atoms
  <2>2. [i \in 1..(MaxLine + 1) |-> "a"] \in Seq(Atoms)
    BY <2>1
  <2> QED
    BY <1>3, <2>2 DEF Text, Texts
<1>4. CASE Ordinary(f)
  <2>1. IsAnswer(a)
    BY <1>4 DEF Reply, Ordinary
  <2> QED
    BY <1>4, <2>1, TextIs
<1> QED
  BY <1>1, <1>2, <1>3, <1>4 DEF Ordinary

-----------------------------------------------------------------------------
(* The answers *)

(* A key the server knows, it can send back. *)
LEMMA MeantSendable ==
    ASSUME NEW m \in Requests, ~Refused(m), m.op # "mn", Meant(m).key # NoKey
    PROVE  Sendable(Meant(m).key)
<1>1. /\ m.key \in Seq(STRING) /\ m.key # <<>> /\ (Binary(m.key) => m.key \in DOMAIN Base64)
      /\ Len(encodeKey(m.key)) <= MaxWireKey
  BY RequestIs
<1>2. CASE <<"b">> \in Range(m.flags) /\ ~Binary(m.key)
  <2>1. PICK d : d = Decoded(m.key)
    OBVIOUS
  <2>2. Meant(m).key = d
    BY <1>2, <2>1 DEF Meant
  <2>3. d \in DOMAIN Base64 /\ Base64[d] = m.key
    BY <2>1, <2>2, DecodedIs
  <2>4. d \in Seq(STRING) /\ Len(Base64[d]) = 4 * ((Len(d) + 2) \div 3)
    BY <2>3, Assumed DEF TextAssumption
  <2>5. PICK n \in Nat, k \in Nat, x \in Nat : n = Len(d) /\ k = Len(m.key) /\ x = MaxWireKey
    BY <1>1, <2>4, Assumed DEF LimitAssumption
  <2>6. k = 4 * ((n + 2) \div 3)
    BY <2>3, <2>4, <2>5
  <2>7. n <= k /\ (n = 0 => k = 0)
    BY <2>6
  <2>8. k <= x /\ k # 0
    <3>1. encodeKey(m.key) = m.key
      BY <1>2 DEF encodeKey, Encoded
    <3> QED
      BY <1>1, <2>5, <3>1
  <2>9. d # <<>>
    BY <2>5, <2>7, <2>8
  <2>10. Len(encodeKey(d)) <= MaxWireKey
    <3>1. encodeKey(d) = m.key \/ encodeKey(d) = d
      BY <2>3 DEF encodeKey
    <3>2. n <= x
      BY <2>7, <2>8
    <3> QED
      BY <2>5, <2>8, <3>1, <3>2
  <2> QED
    BY <2>2, <2>3, <2>4, <2>9, <2>10 DEF Sendable
<1>3. CASE ~(<<"b">> \in Range(m.flags) /\ ~Binary(m.key))
  <2>1. Meant(m).key = m.key
    BY <1>3 DEF Meant
  <2> QED
    BY <1>1, <2>1 DEF Sendable
<1> QED
  BY <1>2, <1>3

LEMMA AnswersShape ==
    ASSUME NEW m \in Requests, ~Refused(m), Meant(m).key # NoKey, NEW fl,
           NEW a \in Answers(m.op, fl, Meant(m).key)
    PROVE  IsAnswer(a) /\ a.key \in {NoKey, Meant(m).key}
<1>1. PICK key : key = Meant(m).key /\ key # NoKey
  OBVIOUS
<1>2. 0 < Len(Numerals) /\ <<>> \in Seq(STRING) /\ Len(<<>>) = 0
  <2>1. PICK n \in Nat, k \in Nat : n = Len(m.value) /\ k = Len(Numerals) /\ n < k
    <3>1. Len(Numerals) \in Nat
      BY Assumed DEF TextAssumption
    <3>2. Len(m.value) \in Nat /\ Len(m.value) < Len(Numerals)
      BY RequestIs
    <3> QED
      BY <3>1, <3>2
  <2> QED
    BY <2>1
<1>3. m.op # "mn" => Sendable(key)
  BY <1>1, MeantSendable
<1>4. \A v \in Values : v \in Seq(STRING) /\ Len(v) < Len(Numerals)
  BY Assumed
<1>5. m.op \in Ops
  BY RequestIs
<1>6. a \in Answers(m.op, fl, key)
  BY <1>1
<1>7. CASE m.op = "mg"
  BY <1>1, <1>2, <1>3, <1>4, <1>6, <1>7 DEF Answers, IsAnswer, Codes
<1>8. CASE m.op = "ms"
  BY <1>1, <1>2, <1>3, <1>6, <1>8 DEF Answers, IsAnswer, Codes
<1>9. CASE m.op = "md"
  BY <1>1, <1>2, <1>3, <1>6, <1>9 DEF Answers, IsAnswer, Codes
<1>10. CASE m.op = "me"
  BY <1>1, <1>2, <1>3, <1>6, <1>10 DEF Answers, IsAnswer, Codes
<1>11. CASE m.op = "mn"
  BY <1>1, <1>2, <1>6, <1>11 DEF Answers, IsAnswer, Codes
<1> QED
  BY <1>5, <1>7, <1>8, <1>9, <1>10, <1>11 DEF Ops

(* The words do not depend on what else a record says. *)
LEMMA SameText ==
    ASSUME NEW a, NEW b, a.code = b.code, a.value = b.value, a.key = b.key, NEW f
    PROVE  Text(a, f) = Text(b, f) /\ (Reply(a, f) <=> Reply(b, f))
<1>1. KeyFlags(a) = KeyFlags(b)
  BY DEF KeyFlags
<1>2. Fields(a, f) = Fields(b, f)
  BY <1>1 DEF Fields
<1>3. Text(a, f) = Text(b, f)
  BY <1>2 DEF Text
<1>4. Reply(a, f) <=> Reply(b, f)
  BY DEF Reply, IsAnswer
<1> QED
  BY <1>3, <1>4

AnswerRecords ==
    [code : Codes \cup {"none"}, value : Seq(STRING), key : Seq(STRING) \cup {NoKey},
     fault : AllFaults]

LEMMA ReplyRecord ==
    ASSUME NEW a, NEW f, Reply(a, f), a.value \in Seq(STRING), a.key \in Seq(STRING) \cup {NoKey},
           NEW d, d = [code |-> a.code, value |-> a.value, key |-> a.key, fault |-> f]
    PROVE  d \in AnswerRecords /\ Reply(d, d.fault) /\ Text(d, d.fault) = Text(a, f)
           /\ d.key = a.key
<1>1. d.code = a.code /\ d.value = a.value /\ d.key = a.key /\ d.fault = f
  OBVIOUS
<1>2. Text(d, f) = Text(a, f) /\ Reply(d, f)
  BY <1>1, SameText
<1>3. a.code \in Codes \cup {"none"} /\ f \in AllFaults
  BY DEF Reply, IsAnswer, AllFaults
<1>4. d \in AnswerRecords
  BY <1>3 DEF AnswerRecords
<1> QED
  BY <1>1, <1>2, <1>4

(* Every command the server took has its answer, which can be read. *)
Answered ==
    /\ answers \in Seq(AnswerRecords) /\ Len(answers) = Len(served)
    /\ \A i \in 1..Len(answers) : /\ Reply(answers[i], answers[i].fault)
                                  /\ answers[i].key \in {NoKey, wrote[i].key}

(* What was delivered are the first of the answers. *)
Received ==
    /\ got \in Seq([code : Codes, value : Seq(STRING), key : Seq(STRING) \cup {NoKey},
                    err : BOOLEAN])
    /\ Len(got) <= Len(answers)
    /\ \A i \in 1..Len(got) : /\ Good(answers[i], answers[i].fault)
                              /\ got[i] = Expected(answers[i], answers[i].fault)

(* rests[i] is the stream from behind the i-th answer. *)
Carries(rests, s, ans) ==
    /\ \A i \in s..Len(ans) : rests[i] \in Texts
    /\ rests[Len(ans)] = <<>>
    /\ \A i \in (s + 1)..Len(ans) : rests[i - 1] = Text(ans[i], ans[i].fault) \o rests[i]

(* The client has before it the texts of the answers not yet delivered, up *)
(* to where the connection was cut.                                        *)
Coming(rests, cut) ==
    /\ toClient \in Texts /\ cut \in Texts /\ (cut # <<>> => eof)
    /\ rests[Len(got)] = toClient \o cut
    /\ Carries(rests, Len(got), answers)

ClientStream == conn = "open" => \E rests, cut : Coming(rests, cut)

ClientInv == Answered /\ Received /\ ClientStream /\ NoSpuriousLoss

WireInv == ServerInv /\ ClientInv

LEMMA ClientInit == Init => ClientInv
<1>1. SUFFICES ASSUME Init PROVE ClientInv
  OBVIOUS
<1>2. /\ answers = <<>> /\ served = <<>> /\ got = <<>> /\ toClient = <<>> /\ conn = "open"
      /\ Len(<<>>) = 0 /\ \A i \in 1..0 : FALSE
  BY <1>1 DEF Init
<1>3. Answered /\ Received
  <2>1. \A S : <<>> \in Seq(S)
    OBVIOUS
  <2> QED
    BY <1>2, <2>1 DEF Answered, Received
<1>4. PICK rests : rests = [i \in 0..0 |-> <<>>]
  OBVIOUS
<1>5. rests[0] = <<>> /\ \A i \in 0..0 : rests[i] = <<>>
  BY <1>4
<1>6. <<>> \in Texts /\ <<>> \o <<>> = <<>>
  BY DEF Texts
<1>7. Carries(rests, 0, <<>>)
  <2>1. Len(<<>>) = 0 /\ \A i \in (0 + 1)..0 : FALSE
    OBVIOUS
  <2>2. \A i \in 0..0 : rests[i] \in Texts
    BY <1>5, <1>6
  <2> QED
    BY <1>5, <2>1, <2>2 DEF Carries
<1>8. Coming(rests, <<>>)
  BY <1>2, <1>5, <1>6, <1>7 DEF Coming
<1>9. NoSpuriousLoss
  BY <1>2 DEF NoSpuriousLoss
<1> QED
  BY <1>3, <1>8, <1>9 DEF ClientInv, ClientStream

LEMMA ClientWrite ==
    ASSUME WireInv, NEW m \in Requests, Write(m)
    PROVE  ClientInv'
<1>1. /\ wrote' = Append(wrote, Meant(m))
      /\ UNCHANGED <<served, answers, toClient, eof, conn, got>>
  BY DEF Write
<1>2. /\ wrote \in Seq(Meanings) /\ Len(served) <= Len(wrote)
  BY DEF WireInv, ServerInv, Understood
<1>3. Answered'
  <2>1. PICK n \in Nat, w \in Nat : n = Len(answers) /\ w = Len(wrote) /\ n <= w
    BY <1>2 DEF WireInv, ClientInv, Answered
  <2>2. \A i \in 1..w : wrote'[i] = wrote[i]
    <3>1. Meant(m) \in Meanings
      BY DEF Meanings
    <3> QED
      BY <1>1, <1>2, <2>1, <3>1, AppendProperties
  <2>3. \A i \in 1..n : i \in 1..w
    BY <2>1
  <2>4. \A i \in 1..n : wrote'[i] = wrote[i]
    BY <2>2, <2>3
  <2> QED
    BY <1>1, <2>1, <2>4 DEF WireInv, ClientInv, Answered
<1>4. Received'
  BY <1>1 DEF WireInv, ClientInv, Received
<1>5. ClientStream'
  BY <1>1 DEF WireInv, ClientInv, ClientStream, Coming
<1>6. NoSpuriousLoss'
  BY <1>1 DEF WireInv, ClientInv, NoSpuriousLoss
<1> QED
  BY <1>3, <1>4, <1>5, <1>6 DEF ClientInv

(* Whatever the server makes of the next command, it sends a reply to it. *)
LEMMA ServeReplies ==
    ASSUME WireInv, Serve
    PROVE  \E a, f : /\ Reply(a, f) /\ a.value \in Seq(STRING)
                     /\ a.key \in Seq(STRING) \cup {NoKey}
                     /\ a.key \in {NoKey, wrote[Len(served) + 1].key}
                     /\ Answer(a, f)
                     /\ Len(served') = Len(served) + 1
                     /\ Len(served) + 1 <= Len(wrote)
<1>1. PICK m \in Requests, rest \in Texts : Ahead(m, rest)
  BY NextCommand DEF WireInv
<1>2. /\ ~Refused(m) /\ Meant(m) = wrote[Len(served) + 1]
      /\ Len(served) + 1 <= Len(wrote) /\ toServer = marshal(m) \o rest
  BY <1>1 DEF Ahead
<1>3. /\ served' = Append(served, Meant(m))
      /\ \/ Answer(NoAnswer, "error")
         \/ \E a \in Answers(m.op, Range(flags(m)), Meant(m).key), f \in Faults :
              Meant(m).key # NoKey /\ Fits(f, a.code) /\ Answer(a, f)
  BY <1>2, ServeNext
<1>4. Len(served') = Len(served) + 1
  <2>1. Meant(m) \in Meanings /\ served \in Seq(Meanings)
    BY DEF Meanings, WireInv, ServerInv, Understood
  <2> QED
    BY <1>3, <2>1, AppendProperties
<1>5. CASE Answer(NoAnswer, "error")
  <2>1. /\ NoAnswer.code = "none" /\ NoAnswer.value = <<>> /\ NoAnswer.key = NoKey
        /\ <<>> \in Seq(STRING)
    BY DEF NoAnswer
  <2>2. Reply(NoAnswer, "error")
    BY <2>1 DEF Reply
  <2> QED
    BY <1>2, <1>4, <1>5, <2>1, <2>2
<1>6. CASE \E a \in Answers(m.op, Range(flags(m)), Meant(m).key), f \in Faults :
             Meant(m).key # NoKey /\ Fits(f, a.code) /\ Answer(a, f)
  <2>1. PICK a \in Answers(m.op, Range(flags(m)), Meant(m).key), f \in Faults :
          Meant(m).key # NoKey /\ Fits(f, a.code) /\ Answer(a, f)
    BY <1>6
  <2>2. IsAnswer(a) /\ a.key \in {NoKey, Meant(m).key}
    BY <1>2, <2>1, AnswersShape
  <2>3. f \in AllFaults
    BY WireAssumption DEF AllFaults
  <2>4. Reply(a, f) /\ a.value \in Seq(STRING) /\ a.key \in Seq(STRING) \cup {NoKey}
    BY <2>1, <2>2, <2>3 DEF Reply, IsAnswer, Sendable
  <2> QED
    BY <1>2, <1>4, <2>1, <2>2, <2>4
<1> QED
  BY <1>3, <1>5, <1>6

LEMMA ClientServe ==
    ASSUME WireInv, Serve
    PROVE  ClientInv'
<1>1. PICK a, f : /\ Reply(a, f) /\ a.value \in Seq(STRING)
                  /\ a.key \in Seq(STRING) \cup {NoKey}
                  /\ a.key \in {NoKey, wrote[Len(served) + 1].key}
                  /\ Answer(a, f)
                  /\ Len(served') = Len(served) + 1
                  /\ Len(served) + 1 <= Len(wrote)
  BY ServeReplies
<1>2. ~eof /\ UNCHANGED <<wrote, eof, conn, got>>
  BY DEF Serve
<1>3. PICK d : d = [code |-> a.code, value |-> a.value, key |-> a.key, fault |-> f]
  OBVIOUS
<1>4. /\ d \in AnswerRecords /\ Reply(d, d.fault) /\ Text(d, d.fault) = Text(a, f)
      /\ d.key = a.key
  BY <1>1, <1>3, ReplyRecord
<1>5. answers' = Append(answers, d) /\ toClient' = toClient \o Text(a, f)
  BY <1>1, <1>3 DEF Answer
<1>6. PICK n \in Nat, g \in Nat : n = Len(answers) /\ n = Len(served) /\ g = Len(got) /\ g <= n
  BY DEF WireInv, ClientInv, Answered, Received
<1>7. /\ answers' \in Seq(AnswerRecords) /\ Len(answers') = n + 1 /\ answers'[n + 1] = d
      /\ \A i \in 1..n : answers'[i] = answers[i]
  <2>1. answers \in Seq(AnswerRecords)
    BY DEF WireInv, ClientInv, Answered
  <2>2. /\ Append(answers, d) \in Seq(AnswerRecords)
        /\ Len(Append(answers, d)) = Len(answers) + 1
        /\ \A i \in 1..Len(answers) : Append(answers, d)[i] = answers[i]
        /\ Append(answers, d)[Len(answers) + 1] = d
    BY <1>4, <2>1, AppendProperties
  <2> QED
    BY <1>5, <1>6, <2>2
<1>8. Answered'
  <2>1. ASSUME NEW i \in 1..(n + 1)
        PROVE  /\ Reply(answers'[i], answers'[i].fault)
               /\ answers'[i].key \in {NoKey, wrote[i].key}
    <3>1. CASE i = n + 1
      BY <1>1, <1>4, <1>6, <1>7, <3>1
    <3>2. CASE i # n + 1
      <4>1. i \in 1..n
        BY <3>2
      <4> QED
        BY <1>6, <1>7, <4>1 DEF WireInv, ClientInv, Answered
    <3> QED
      BY <3>1, <3>2
  <2> QED
    BY <1>1, <1>2, <1>6, <1>7, <2>1 DEF Answered
<1>9. Received'
  <2>1. \A i \in 1..g : i \in 1..n
    BY <1>6
  <2> QED
    BY <1>2, <1>6, <1>7, <2>1 DEF WireInv, ClientInv, Received
<1>10. NoSpuriousLoss'
  <2>1. conn = "failed" => \E i \in 1..n : \/ answers[i].fault \notin {"none", "flag"}
                                           \/ MaxItem > 0 /\ Len(answers[i].value) > MaxItem
    BY <1>2, <1>6 DEF WireInv, ClientInv, Answered, NoSpuriousLoss
  <2>2. \A i \in 1..n : i \in 1..(n + 1)
    OBVIOUS
  <2>3. DOMAIN answers' = 1..(n + 1)
    BY <1>7
  <2> QED
    BY <1>2, <1>7, <2>1, <2>2, <2>3 DEF NoSpuriousLoss
<1>11. ASSUME conn = "open"
       PROVE  \E rests, cut : Coming(rests, cut)'
  <2>1. PICK old, cut : Coming(old, cut)
    BY <1>11 DEF WireInv, ClientInv, ClientStream
  <2>2. /\ toClient \in Texts /\ cut = <<>> /\ old[g] = toClient \o cut
        /\ \A i \in g..n : old[i] \in Texts
        /\ old[n] = <<>>
        /\ \A i \in (g + 1)..n : old[i - 1] = Text(answers[i], answers[i].fault) \o old[i]
    BY <1>2, <1>6, <2>1 DEF Coming, Carries
  <2>3. PICK t \in Texts : t = Text(a, f)
    BY <1>1, ReplyText
  <2>4. <<>> \o t = t /\ t \o <<>> = t /\ <<>> \in Texts
    BY DEF Texts
  <2>5. PICK rests : rests = [i \in g..(n + 1) |-> IF i = n + 1 THEN <<>> ELSE old[i] \o t]
    OBVIOUS
  <2>6. rests[n + 1] = <<>>
    <3>1. n + 1 \in g..(n + 1)
      BY <1>6
    <3> QED
      BY <2>5, <3>1
  <2>7. ASSUME NEW i \in g..n PROVE rests[i] = old[i] \o t /\ rests[i] \in Texts
    <3>1. i \in g..(n + 1) /\ i # n + 1
      OBVIOUS
    <3>2. rests[i] = old[i] \o t
      BY <2>5, <3>1
    <3>3. old[i] \o t \in Texts
      BY <2>2, JoinTexts
    <3> QED
      BY <3>2, <3>3
  <2>8. \A i \in g..(n + 1) : rests[i] \in Texts
    <3>1. \A i \in g..(n + 1) : i \in g..n \/ i = n + 1
      OBVIOUS
    <3> QED
      BY <2>4, <2>6, <2>7, <3>1
  <2>9. ASSUME NEW i \in (g + 1)..(n + 1)
        PROVE  rests[i - 1] = Text(answers'[i], answers'[i].fault) \o rests[i]
    <3>1. CASE i = n + 1
      <4>1. i - 1 = n /\ n \in g..n
        BY <1>6, <3>1
      <4>2. rests[i - 1] = <<>> \o t
        BY <2>2, <2>7, <4>1
      <4> QED
        BY <1>4, <1>7, <2>3, <2>4, <2>6, <3>1, <4>2
    <3>2. CASE i # n + 1
      <4>1. i \in (g + 1)..n /\ i \in g..n /\ i - 1 \in g..n /\ i \in 1..n
        BY <3>2
      <4>2. PICK u \in Texts, v \in Texts :
              u = Text(answers[i], answers[i].fault) /\ v = old[i] /\ old[i - 1] = u \o v
        <5>1. Reply(answers[i], answers[i].fault)
          BY <1>6, <4>1 DEF WireInv, ClientInv, Answered
        <5> QED
          BY <2>2, <4>1, <5>1, ReplyText
      <4>3. (u \o v) \o t = u \o (v \o t)
        BY Associates
      <4> QED
        BY <1>7, <2>7, <4>1, <4>2, <4>3
    <3> QED
      BY <3>1, <3>2
  <2>10. rests[g] = toClient' \o <<>> /\ toClient' \in Texts
    <3>1. g \in g..n
      BY <1>6
    <3>2. toClient \o <<>> = toClient
      BY <2>2 DEF Texts
    <3>3. PICK s \in Texts : s = toClient \o t
      BY <2>2, JoinTexts
    <3>4. rests[g] = s /\ toClient' = s
      BY <1>5, <2>2, <2>3, <2>7, <3>1, <3>2, <3>3
    <3>5. s \o <<>> = s
      BY DEF Texts
    <3> QED
      BY <3>3, <3>4, <3>5
  <2>11. Carries(rests, g, answers')
    BY <1>7, <2>6, <2>8, <2>9 DEF Carries
  <2>12. Coming(rests, <<>>)'
    BY <1>2, <1>6, <2>4, <2>10, <2>11 DEF Coming
  <2> QED
    BY <2>12
<1>12. ClientStream'
  BY <1>2, <1>11 DEF ClientStream
<1> QED
  BY <1>8, <1>9, <1>10, <1>12 DEF ClientInv

(* A stream is its first n atoms and what is behind them. *)
LEMMA Split ==
    ASSUME NEW s \in Texts, NEW n \in 0..Len(s)
    PROVE  /\ SubSeq(s, 1, n) \in Texts /\ After(s, n) \in Texts
           /\ SubSeq(s, 1, n) \o After(s, n) = s
<1>1. PICK l \in Nat : l = Len(s)
  BY DEF Texts
<1>2. n \in Nat /\ n <= l /\ l <= Len(s) /\ n <= Len(s) /\ 1 # 0 /\ 1 <= n + 1
      /\ n + 1 \in Nat /\ n + 1 # 0 /\ n + 1 <= l + 1
  BY <1>1
<1>3. PICK a \in Texts : /\ a = SubSeq(s, 1, n) /\ Len(a) = n
                         /\ \A i \in 1..n : a[i] = s[i]
  <2>1. /\ SubSeq(s, 1, n) \in Texts /\ Len(SubSeq(s, 1, n)) = n - 1 + 1
        /\ \A i \in 1..(n - 1 + 1) : SubSeq(s, 1, n)[i] = s[1 + i - 1]
    BY <1>2, PartOf
  <2>2. n - 1 + 1 = n /\ \A i \in 1..n : 1 + i - 1 = i
    BY <1>2
  <2> QED
    BY <2>1, <2>2
<1>8. PICK k \in Nat : l = n + k
  <2>1. l - n \in Nat /\ l = n + (l - n)
    BY <1>1, <1>2
  <2> QED
    BY <2>1
<1>4. PICK c \in Texts : /\ c = After(s, n) /\ Len(c) = k
                         /\ \A i \in 1..k : c[i] = s[n + i]
  <2>1. PICK m \in Nat : m = n + 1
    BY <1>2
  <2>2. m <= l + 1 /\ m # 0
    BY <1>2, <2>1
  <2>3. /\ SubSeq(s, m, l) \in Texts /\ Len(SubSeq(s, m, l)) = l - m + 1
        /\ \A i \in 1..(l - m + 1) : SubSeq(s, m, l)[i] = s[m + i - 1]
    BY <1>2, <2>2, PartOf
  <2>4. l - m + 1 = k /\ \A i \in 1..k : m + i - 1 = n + i
    BY <1>2, <1>8, <2>1
  <2>5. SubSeq(s, m, l) = After(s, n)
    BY <1>1, <2>1 DEF After
  <2>6. PICK c \in Texts : /\ c = SubSeq(s, m, l) /\ Len(c) = l - m + 1
                           /\ \A i \in 1..(l - m + 1) : c[i] = s[m + i - 1]
    BY <2>3
  <2> QED
    BY <2>4, <2>5, <2>6
<1>5. PICK t \in Texts : /\ t = a \o c /\ Len(t) = l
                         /\ \A i \in 1..n : t[i] = s[i]
                         /\ \A i \in 1..k : t[n + i] = s[n + i]
  <2>1. /\ a \o c \in Texts /\ Len(a \o c) = Len(a) + Len(c)
        /\ \A i \in 1..Len(a) : (a \o c)[i] = a[i]
        /\ \A i \in 1..Len(c) : (a \o c)[Len(a) + i] = c[i]
    BY JoinTexts
  <2>2. PICK t \in Texts : /\ t = a \o c /\ Len(t) = Len(a) + Len(c)
                           /\ \A i \in 1..Len(a) : t[i] = a[i]
                           /\ \A i \in 1..Len(c) : t[Len(a) + i] = c[i]
    BY <2>1
  <2>3. Len(t) = l
    BY <1>3, <1>4, <1>8, <2>2
  <2>4. \A i \in 1..n : t[i] = s[i]
    BY <1>3, <2>2
  <2>5. \A i \in 1..k : t[n + i] = s[n + i]
    BY <1>3, <1>4, <2>2
  <2> QED
    BY <2>2, <2>3, <2>4, <2>5, Zenon
<1>6. ASSUME NEW i \in 1..l PROVE t[i] = s[i]
  <2>1. i \in 1..n \/ (i - n \in 1..k /\ n + (i - n) = i)
    BY <1>1, <1>2, <1>8
  <2> QED
    BY <1>5, <2>1
<1>7. t = s
  BY <1>1, <1>5, <1>6, EqualTexts
<1> QED
  BY <1>3, <1>4, <1>5, <1>7

LEMMA ClientCut ==
    ASSUME WireInv, Cut
    PROVE  ClientInv'
<1>1. eof' = TRUE /\ UNCHANGED <<wrote, served, answers, conn, got>>
  BY DEF Cut
<1>2. PICK n \in 0..Len(toClient) : toClient' = SubSeq(toClient, 1, n)
  BY DEF Cut
<1>3. Answered'
  BY <1>1 DEF WireInv, ClientInv, Answered
<1>4. Received'
  BY <1>1 DEF WireInv, ClientInv, Received
<1>5. NoSpuriousLoss'
  BY <1>1 DEF NoSpuriousLoss
<1>6. ASSUME conn = "open"
      PROVE  \E rests, cut : Coming(rests, cut)'
  <2>1. PICK rests, cut : Coming(rests, cut)
    BY <1>6 DEF WireInv, ClientInv, ClientStream
  <2>2. /\ toClient \in Texts /\ cut \in Texts /\ rests[Len(got)] = toClient \o cut
        /\ Carries(rests, Len(got), answers)
    BY <2>1 DEF Coming
  <2>3. PICK a \in Texts, c \in Texts : a = SubSeq(toClient, 1, n) /\ toClient = a \o c
    BY <2>2, Split
  <2>4. PICK x \in Texts : x = c \o cut
    BY <2>2, JoinTexts
  <2>5. (a \o c) \o cut = a \o (c \o cut)
    BY <2>2, Associates
  <2>6. rests[Len(got)] = a \o x /\ toClient' = a
    BY <1>2, <2>2, <2>3, <2>4, <2>5
  <2>7. Coming(rests, x)'
    BY <1>1, <2>2, <2>6 DEF Coming
  <2> QED
    BY <2>7
<1>7. ClientStream'
  BY <1>1, <1>6 DEF ClientStream
<1> QED
  BY <1>3, <1>4, <1>5, <1>7 DEF ClientInv

(* What the client can read next, when there is an answer left. *)
LEMMA ReadNext ==
    ASSUME WireInv, conn = "open", Len(got) < Len(answers)
    PROVE  LET a == answers[Len(got) + 1]
               r == readRawResponse(toClient)
           IN \/ /\ Good(a, a.fault)
                 /\ \E u, rests, cut :
                      /\ u \in Texts
                      /\ r = Delivered(a, a.fault, u)
                      /\ cut \in Texts /\ (cut # <<>> => eof)
                      /\ rests[Len(got) + 1] = u \o cut
                      /\ Carries(rests, Len(got) + 1, answers)
              \/ r.st = "fatal" /\ (eof \/ ~Good(a, a.fault))

<1>1. PICK n \in Nat, g \in Nat : n = Len(answers) /\ g = Len(got) /\ g < n
  BY DEF WireInv, ClientInv, Answered, Received
<1>2. PICK rests, cut : Coming(rests, cut)
  BY DEF WireInv, ClientInv, ClientStream
<1>3. /\ toClient \in Texts /\ cut \in Texts /\ (cut # <<>> => eof)
      /\ rests[g] = toClient \o cut
      /\ \A i \in g..n : rests[i] \in Texts
      /\ rests[n] = <<>>
      /\ \A i \in (g + 1)..n : rests[i - 1] = Text(answers[i], answers[i].fault) \o rests[i]
  BY <1>1, <1>2 DEF Coming, Carries
<1>4. g + 1 \in (g + 1)..n /\ (g + 1) - 1 = g /\ g + 1 \in g..n /\ g + 1 \in 1..n
  BY <1>1
<1>5. PICK a : a = answers[g + 1]
  OBVIOUS
<1>6. PICK y \in Texts : y = rests[g + 1]
  BY <1>3, <1>4
<1>7. Reply(a, a.fault)
  BY <1>1, <1>4, <1>5 DEF WireInv, ClientInv, Answered
<1>8. Sent(a, a.fault, toClient, cut, y)
  BY <1>3, <1>4, <1>5, <1>6 DEF Sent
<1>9. Outcome(readRawResponse(toClient), a, a.fault, cut, y)
  BY <1>7, <1>8, ReadStream
<1>10. Carries(rests, g + 1, answers)
  <2>1. \A i \in (g + 1)..n : i \in g..n
    OBVIOUS
  <2>2. \A i \in (g + 1 + 1)..n : i \in (g + 1)..n
    OBVIOUS
  <2> QED
    BY <1>1, <1>3, <2>1, <2>2 DEF Carries
<1> QED
  BY <1>1, <1>3, <1>5, <1>6, <1>9, <1>10 DEF Outcome

LEMMA ReadNothing ==
    ASSUME NEW b \in Texts, LfAt(b) = 0, Len(b) = 0
    PROVE  readRawResponse(b) = Short
<1>1. PICK m \in Nat : m = MaxLine /\ ~(0 > m)
  BY Assumed DEF LimitAssumption
<1>2. PICK x : x = Short
  OBVIOUS
<1> QED
  BY <1>1, <1>2 DEF readRawResponse

LEMMA ReadLast ==
    ASSUME WireInv, conn = "open", Len(got) = Len(answers)
    PROVE  LET r == readRawResponse(toClient) IN r.st = "wait" \/ (r.st = "fatal" /\ eof)
<1>1. PICK n \in Nat : n = Len(answers) /\ n = Len(got)
  BY DEF WireInv, ClientInv, Answered
<1>2. PICK rests, cut : Coming(rests, cut)
  BY DEF WireInv, ClientInv, ClientStream
<1>3. toClient \in Texts /\ cut \in Texts /\ toClient \o cut = <<>>
  BY <1>1, <1>2 DEF Coming, Carries
<1>4. Len(toClient) = 0
  <2>1. PICK k \in Nat, l \in Nat : k = Len(toClient) /\ l = Len(cut)
    BY <1>3 DEF Texts
  <2>2. Len(toClient \o cut) = k + l /\ Len(<<>>) = 0
    BY <1>3, <2>1, JoinTexts
  <2> QED
    BY <1>3, <2>1, <2>2
<1>5. LfAt(toClient) = 0
  <2>1. \A i \in 1..0 : toClient[i] # Lf
    OBVIOUS
  <2> QED
    BY <1>3, <1>4, <2>1, NoLf
<1>7. readRawResponse(toClient) = Short
  BY <1>3, <1>4, <1>5, ReadNothing
<1> QED
  BY <1>7, FatalIs DEF Short, Result

LEMMA ClientRead ==
    ASSUME WireInv, Read
    PROVE  ClientInv'
<1>1. PICK r : r = readRawResponse(toClient)
  OBVIOUS
<1>2. /\ conn = "open" /\ r.st # "wait"
      /\ UNCHANGED <<wrote, toServer, served, answers, eof>>
      /\ IF survives(r) /\ Len(got) < Len(wrote)
         THEN got' = Append(got, r.response) /\ toClient' = r.rest /\ conn' = conn
         ELSE conn' = "failed" /\ UNCHANGED <<got, toClient>>
  BY <1>1 DEF Read
<1>3. PICK n \in Nat, g \in Nat, w \in Nat :
        n = Len(answers) /\ g = Len(got) /\ w = Len(wrote) /\ g <= n /\ n <= w
  BY DEF WireInv, ClientInv, Answered, Received, ServerInv, Understood
<1>4. Answered'
  BY <1>2 DEF WireInv, ClientInv, Answered
<1>5. ASSUME r.st = "fatal", eof \/ (g < n /\ ~Good(answers[g + 1], answers[g + 1].fault))
      PROVE  ClientInv'
  <2>1. ~survives(r)
    BY <1>5 DEF survives
  <2>2. conn' = "failed" /\ UNCHANGED <<got, answers, eof>>
    BY <1>2, <2>1
  <2>3. Received'
    BY <2>2 DEF WireInv, ClientInv, Received
  <2>4. ClientStream'
    BY <2>2 DEF ClientStream
  <2>5. NoSpuriousLoss'
    <3>1. CASE eof
      BY <2>2, <3>1 DEF NoSpuriousLoss
    <3>2. CASE g < n /\ ~Good(answers[g + 1], answers[g + 1].fault)
      <4>1. g + 1 \in DOMAIN answers
        <5>1. answers \in Seq(AnswerRecords)
          BY DEF WireInv, ClientInv, Answered
        <5>2. DOMAIN answers = 1..n /\ g + 1 \in 1..n
          BY <1>3, <3>2, <5>1
        <5> QED
          BY <5>2
      <4>2. \/ answers[g + 1].fault \notin {"none", "flag"}
            \/ MaxItem > 0 /\ Len(answers[g + 1].value) > MaxItem
        BY <3>2 DEF Good, tooLarge
      <4> QED
        BY <2>2, <4>1, <4>2 DEF NoSpuriousLoss
    <3> QED
      BY <1>5, <3>1, <3>2
  <2> QED
    BY <1>4, <2>3, <2>4, <2>5 DEF ClientInv
<1>6. CASE g = n
  <2>1. r.st = "fatal" /\ eof
    BY <1>1, <1>2, <1>3, <1>6, ReadLast
  <2> QED
    BY <1>5, <2>1
<1>7. CASE g < n
  <2>1. PICK a : a = answers[g + 1]
    OBVIOUS
  <2>2. \/ /\ Good(a, a.fault)
           /\ \E u, rests, cut :
                /\ u \in Texts
                /\ r = Delivered(a, a.fault, u)
                /\ cut \in Texts /\ (cut # <<>> => eof)
                /\ rests[g + 1] = u \o cut
                /\ Carries(rests, g + 1, answers)
        \/ r.st = "fatal" /\ (eof \/ ~Good(a, a.fault))
    BY <1>1, <1>2, <1>3, <1>7, <2>1, ReadNext
  <2>3. CASE r.st = "fatal" /\ (eof \/ ~Good(a, a.fault))
    BY <1>5, <1>7, <2>1, <2>3
  <2>4. CASE /\ Good(a, a.fault)
             /\ \E u, rests, cut :
                  /\ u \in Texts
                  /\ r = Delivered(a, a.fault, u)
                  /\ cut \in Texts /\ (cut # <<>> => eof)
                  /\ rests[g + 1] = u \o cut
                  /\ Carries(rests, g + 1, answers)
    <3>1. PICK u, rests, cut : /\ u \in Texts
                               /\ r = Delivered(a, a.fault, u)
                               /\ cut \in Texts /\ (cut # <<>> => eof)
                               /\ rests[g + 1] = u \o cut
                               /\ Carries(rests, g + 1, answers)
      BY <2>4
    <3>2. PICK e : e = Expected(a, a.fault)
      OBVIOUS
    <3>3. r.st \in {"ok", "framed"} /\ r.rest = u /\ r.response = e
      BY <3>1, <3>2 DEF Delivered, Result
    <3>4. survives(r) /\ Len(got) < Len(wrote)
      BY <1>3, <1>7, <3>3 DEF survives
    <3>5. got' = Append(got, e) /\ toClient' = u /\ conn' = conn /\ answers' = answers /\ eof' = eof
      BY <1>2, <3>3, <3>4
    <3>6. g + 1 \in 1..n
      BY <1>3, <1>7
    <3>7. a \in AnswerRecords /\ Reply(a, a.fault)
      BY <1>3, <2>1, <3>6 DEF WireInv, ClientInv, Answered
    <3>8. IsAnswer(a) /\ a.fault \in {"none", "flag"}
      BY <2>4, <3>7 DEF Reply, Good
    <3>9. e \in [code : Codes, value : Seq(STRING), key : Seq(STRING) \cup {NoKey}, err : BOOLEAN]
      <4>1. a.code = "ME" => encodeKey(a.key) \in Seq(STRING)
        <5>1. ASSUME a.code = "ME"
              PROVE  encodeKey(a.key) \in Seq(STRING)
          <6>1. Sendable(a.key)
            BY <3>8, <5>1 DEF IsAnswer
          <6> QED
            BY <6>1, SentKey DEF Sendable
        <5> QED
          BY <5>1
      <4>2. a.code \in Codes /\ a.value \in Seq(STRING) /\ a.key \in Seq(STRING) \cup {NoKey}
        BY <3>7, <3>8 DEF IsAnswer, AnswerRecords
      <4> QED
        BY <3>2, <4>1, <4>2 DEF Expected
    <3>10. Received'
      <4> DEFINE S == [code : Codes, value : Seq(STRING), key : Seq(STRING) \cup {NoKey},
                       err : BOOLEAN]
      <4>1. got \in Seq(S)
        BY DEF WireInv, ClientInv, Received
      <4>2. e \in S
        BY <3>9
      <4> HIDE DEF S
      <4>3. /\ Append(got, e) \in Seq(S)
            /\ Len(Append(got, e)) = Len(got) + 1
            /\ \A i \in 1..Len(got) : Append(got, e)[i] = got[i]
            /\ Append(got, e)[Len(got) + 1] = e
        BY <4>1, <4>2, AppendProperties
      <4>4. /\ got' \in Seq(S) /\ Len(got') = g + 1 /\ got'[g + 1] = e
            /\ \A i \in 1..g : got'[i] = got[i]
        BY <1>3, <3>5, <4>3
      <4>5. \A i \in 1..g : /\ Good(answers[i], answers[i].fault)
                            /\ got[i] = Expected(answers[i], answers[i].fault)
        BY <1>3 DEF WireInv, ClientInv, Received
      <4>6. \A i \in 1..(g + 1) : i \in 1..g \/ i = g + 1
        BY <1>3
      <4>7. \A i \in 1..(g + 1) : /\ Good(answers[i], answers[i].fault)
                                  /\ got'[i] = Expected(answers[i], answers[i].fault)
        BY <2>1, <2>4, <3>2, <4>4, <4>5, <4>6
      <4>8. g + 1 <= n
        BY <1>3, <1>7
      <4> QED
        BY <1>3, <3>5, <4>4, <4>7, <4>8 DEF Received, S
    <3>11. Len(got') = g + 1
      BY <1>3, <3>5, <3>9, AppendProperties DEF WireInv, ClientInv, Received
    <3>12. Coming(rests, cut)'
      BY <3>1, <3>5, <3>11 DEF Coming
    <3>13. ClientStream'
      BY <3>12 DEF ClientStream
    <3>14. NoSpuriousLoss'
      BY <1>2, <3>5 DEF NoSpuriousLoss
    <3> QED
      BY <1>4, <3>10, <3>13, <3>14 DEF ClientInv
  <2> QED
    BY <2>2, <2>3, <2>4
<1> QED
  BY <1>3, <1>6, <1>7

LEMMA ClientStep == WireInv /\ [Next]_vars => ClientInv'
<1>1. SUFFICES ASSUME WireInv, [Next]_vars PROVE ClientInv'
  OBVIOUS
<1>2. CASE \E m \in Requests : Write(m)
  BY <1>1, <1>2, ClientWrite
<1>3. CASE Serve
  BY <1>1, <1>3, ClientServe
<1>4. CASE Cut
  BY <1>1, <1>4, ClientCut
<1>5. CASE Read
  BY <1>1, <1>5, ClientRead
<1>6. CASE Ended \/ UNCHANGED vars
  BY <1>1, <1>6 DEF Ended, vars, WireInv, ClientInv, Answered, Received, ClientStream, Coming,
                    NoSpuriousLoss
<1> QED
  BY <1>1, <1>2, <1>3, <1>4, <1>5, <1>6 DEF Next

LEMMA WireAlways == Spec => []WireInv
<1>1. Init => WireInv
  BY ServerInit, ClientInit DEF WireInv
<1>2. WireInv /\ [Next]_vars => WireInv'
  BY ServerStep, ClientStep DEF WireInv
<1> QED
  BY <1>1, <1>2, PTL DEF Spec

LEMMA WireInSync == WireInv => InSync
<1>1. SUFFICES ASSUME WireInv, NEW i \in DOMAIN got
               PROVE  /\ i <= Len(answers)
                      /\ \A j \in 1..i : answers[j].fault \in {"none", "flag"}
                      /\ got[i].code = answers[i].code /\ got[i].value = answers[i].value
                      /\ got[i].key \in {NoKey, IF got[i].code = "ME" THEN encodeKey(wrote[i].key)
                                                ELSE wrote[i].key}
                      /\ got[i].err <=> answers[i].fault = "flag"
                      /\ MaxItem > 0 => Len(got[i].value) <= MaxItem
  BY DEF InSync
<1>2. PICK n \in Nat, g \in Nat : n = Len(answers) /\ g = Len(got) /\ g <= n
  BY <1>1 DEF WireInv, ClientInv, Answered, Received
<1>3. i \in 1..g /\ i \in 1..n
  BY <1>1, <1>2 DEF WireInv, ClientInv, Received
<1>4. \A j \in 1..g : /\ Good(answers[j], answers[j].fault)
                      /\ got[j] = Expected(answers[j], answers[j].fault)
  BY <1>1, <1>2 DEF WireInv, ClientInv, Received
<1>5. \A j \in 1..i : answers[j].fault \in {"none", "flag"}
  <2>1. \A j \in 1..i : j \in 1..g
    BY <1>2, <1>3
  <2> QED
    BY <1>4, <2>1 DEF Good
<1>6. PICK a : a = answers[i]
  OBVIOUS
<1>7. Good(a, a.fault) /\ got[i] = Expected(a, a.fault)
  BY <1>3, <1>4, <1>6
<1>8. Reply(a, a.fault) /\ a.key \in {NoKey, wrote[i].key}
  BY <1>1, <1>2, <1>3, <1>6 DEF WireInv, ClientInv, Answered
<1>9. IsAnswer(a)
  BY <1>7, <1>8 DEF Good, Reply
<1>10. /\ got[i].code = a.code /\ got[i].value = a.value
       /\ got[i].key = (IF a.code = "ME" THEN encodeKey(a.key) ELSE a.key)
       /\ got[i].err <=> a.fault = "flag"
  <2>1. PICK e : e = got[i]
    OBVIOUS
  <2>2. e = [code |-> a.code, value |-> a.value,
             key |-> IF a.code = "ME" THEN encodeKey(a.key) ELSE a.key, err |-> a.fault = "flag"]
    BY <1>7, <2>1 DEF Expected
  <2>3. e.code = a.code /\ e.value = a.value /\ (e.err <=> a.fault = "flag")
    BY <2>2
  <2>4. e.key = (IF a.code = "ME" THEN encodeKey(a.key) ELSE a.key)
    BY <2>2
  <2> QED
    BY <2>1, <2>3, <2>4
<1>11. got[i].key \in {NoKey, IF got[i].code = "ME" THEN encodeKey(wrote[i].key) ELSE wrote[i].key}
  <2>1. CASE a.code = "ME"
    <3>1. a.key = wrote[i].key
      BY <1>8, <1>9, <2>1 DEF IsAnswer
    <3> QED
      BY <1>10, <2>1, <3>1
  <2>2. CASE a.code # "ME"
    BY <1>8, <1>10, <2>2
  <2> QED
    BY <2>1, <2>2
<1>12. MaxItem > 0 => Len(got[i].value) <= MaxItem
  <2>1. PICK l \in Nat, m \in Nat : l = Len(a.value) /\ m = MaxItem
    BY <1>9, Assumed DEF IsAnswer, LimitAssumption
  <2>2. ~(m > 0 /\ l > m)
    BY <1>7, <2>1 DEF Good, tooLarge
  <2> QED
    BY <1>10, <2>1, <2>2
<1> QED
  BY <1>2, <1>3, <1>5, <1>6, <1>10, <1>11, <1>12

(* readRawResponse: the i-th response delivered is the server's answer to  *)
(* the i-th command, whatever values look like, flags say and frames lack, *)
(* and wherever the stream is cut; a key that comes back is the one the    *)
(* caller gave.                                                            *)
THEOREM ResponsesAlwaysInSync == Spec => []InSync
BY WireAlways, WireInSync, PTL

(* framedResponseError, survives: a connection is given up only when it was *)
(* cut, or when the server sent an error line, a frame it should not, or a  *)
(* value beyond the limit.                                                  *)
THEOREM NeverSpuriouslyLost == Spec => []NoSpuriousLoss
<1>1. WireInv => NoSpuriousLoss
  BY DEF WireInv, ClientInv
<1> QED
  BY <1>1, WireAlways, PTL

=============================================================================
