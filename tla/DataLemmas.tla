----------------------------- MODULE DataLemmas -----------------------------
(***************************************************************************)
(* Induction over data, and what the operators on sequences and sets that  *)
(* the models are built from come to.                                      *)
(*                                                                         *)
(* The induction theorems of the library have an operator for the property *)
(* they prove, and no prover here instantiates it.  Stated with a set for  *)
(* the property, induction follows from WFMin, which has no operator: a    *)
(* non-empty set of numbers has a least element.                           *)
(***************************************************************************)
EXTENDS SequencesExt, SequenceTheorems, FiniteSetTheorems, TLAPS

(* A non-empty set of natural numbers has a least element. *)
LEMMA LeastNumber ==
  ASSUME NEW S \in SUBSET Nat, S # {}
  PROVE  \E m \in S : \A k \in S : m <= k
<1>1. PICK m \in S : \A k \in S : <<k, m>> \notin OpToRel(<, Nat)
  BY WFMin, NatLessThanWellFounded, Zenon
<1>2. \A k \in S : ~(k < m)
  BY <1>1, Zenon DEF OpToRel
<1> QED  BY <1>2

(* Induction: the property is a set that the numbers are shown to be in. *)
LEMMA Induction ==
  ASSUME NEW S, 0 \in S, \A n \in Nat : n \in S => n + 1 \in S
  PROVE  \A n \in Nat : n \in S
<1> DEFINE rest == Nat \ S
<1>1. SUFFICES ASSUME rest # {} PROVE FALSE
  OBVIOUS
<1>2. PICK m \in rest : \A k \in rest : m <= k
  BY <1>1, LeastNumber
<1>3. m - 1 \in Nat /\ m - 1 \in S
  BY <1>2
<1> QED  BY <1>2, <1>3

(* A bounded set of numbers has a greatest element. *)
LEMMA GreatestNumber ==
  ASSUME NEW S \in SUBSET Nat, S # {}, NEW b \in Nat, \A k \in S : k <= b
  PROVE  \E m \in S : \A k \in S : k <= m
<1> DEFINE bounds == {n \in Nat : \A k \in S : k <= n}
<1>1. PICK m \in bounds : \A n \in bounds : m <= n
  <2>1. b \in bounds /\ bounds \in SUBSET Nat
    OBVIOUS
  <2> QED  BY <2>1, LeastNumber
<1>2. m \in S
  <2>1. SUFFICES ASSUME m \notin S PROVE FALSE
    OBVIOUS
  <2>2. PICK k \in S : TRUE
    OBVIOUS
  <2>3. m - 1 \in Nat
    BY <1>1, <2>1, <2>2
  <2>4. m - 1 \in bounds
    BY <1>1, <2>1, <2>3
  <2> QED  BY <1>1, <2>3, <2>4
<1> QED  BY <1>1, <1>2

(***************************************************************************)
(* Recursion: a function on 0 .. n, or on all the numbers, that starts     *)
(* with base and makes each value of the one before it, its values staying *)
(* in S.                                                                   *)
(***************************************************************************)
RecursiveUpto(f, n, S, base, step) ==
  /\ f \in [0..n -> S] /\ f[0] = base
  /\ \A i \in 1..n : f[i] = step[<<i, f[i - 1]>>]

Recursive(f, S, base, step) ==
  /\ f \in [Nat -> S] /\ f[0] = base
  /\ \A i \in Nat : f[i + 1] = step[<<i + 1, f[i]>>]

(* There is one as far as any number. *)
LEMMA RecursionExists ==
  ASSUME NEW S, NEW base \in S, NEW step \in [Nat \X S -> S], NEW n \in Nat
  PROVE  \E f : RecursiveUpto(f, n, S, base, step)
<1> DEFINE done == {k \in Nat : \E f : RecursiveUpto(f, k, S, base, step)}
<1>1. 0 \in done
  <2>1. RecursiveUpto([i \in 0..0 |-> base], 0, S, base, step)
    BY DEF RecursiveUpto
  <2> QED  BY <2>1
<1>2. ASSUME NEW k \in Nat, k \in done
      PROVE  k + 1 \in done
  <2>1. PICK f : RecursiveUpto(f, k, S, base, step)
    BY <1>2
  <2>2. PICK x \in S : x = step[<<k + 1, f[k]>>]
    <3>1. f[k] \in S /\ k + 1 \in Nat
      BY <2>1 DEF RecursiveUpto
    <3> QED  BY <3>1
  <2>3. PICK g : g = [i \in 0..(k + 1) |-> IF i = k + 1 THEN x ELSE f[i]]
    OBVIOUS
  <2>4. g \in [0..(k + 1) -> S] /\ g[0] = base
    BY <2>1, <2>2, <2>3 DEF RecursiveUpto
  <2>5. ASSUME NEW i \in 1..(k + 1)
        PROVE  g[i] = step[<<i, g[i - 1]>>]
    <3>1. CASE i = k + 1
      <4>1. g[i] = x /\ g[i - 1] = f[k]
        BY <2>3, <3>1
      <4> QED  BY <2>2, <3>1, <4>1
    <3>2. CASE i # k + 1
      <4>1. i \in 1..k /\ g[i] = f[i] /\ g[i - 1] = f[i - 1]
        BY <2>3, <3>2
      <4> QED  BY <2>1, <4>1 DEF RecursiveUpto
    <3> QED  BY <3>1, <3>2
  <2> QED  BY <2>4, <2>5 DEF RecursiveUpto
<1>3. n \in done
  <2> HIDE DEF done
  <2> QED  BY <1>1, <1>2, Induction
<1> QED  BY <1>3

(* What satisfies the equation of a recursion has its values in S. *)
LEMMA RecursionStays ==
  ASSUME NEW S, NEW base \in S, NEW step \in [Nat \X S -> S], NEW n \in Nat, NEW f,
         f = [i \in 0..n |-> f[i]], f[0] = base,
         \A i \in 1..n : f[i - 1] \in S => f[i] = step[<<i, f[i - 1]>>]
  PROVE  RecursiveUpto(f, n, S, base, step)
<1> DEFINE in == {i \in Nat : i <= n => f[i] \in S}
<1>1. 0 \in in
  OBVIOUS
<1>2. ASSUME NEW i \in Nat, i \in in PROVE i + 1 \in in
  <2>1. SUFFICES ASSUME i + 1 <= n PROVE f[i + 1] \in S
    OBVIOUS
  <2>2. i + 1 \in 1..n /\ (i + 1) - 1 = i /\ f[i] \in S
    BY <1>2, <2>1
  <2>3. f[i + 1] = step[<<i + 1, f[i]>>]
    BY <2>2
  <2> QED  BY <2>2, <2>3
<1>3. \A i \in 0..n : f[i] \in S
  <2>1. \A i \in Nat : i \in in
    <3> HIDE DEF in
    <3> QED  BY <1>1, <1>2, Induction
  <2> QED  BY <2>1
<1>4. f \in [0..n -> S]
  <2>1. PICK g : g = [i \in 0..n |-> f[i]]
    OBVIOUS
  <2>2. g \in [0..n -> S]
    BY <1>3, <2>1
  <2> QED  BY <2>1, <2>2
<1>5. \A i \in 1..n : f[i] = step[<<i, f[i - 1]>>]
  <2>1. \A i \in 1..n : i - 1 \in 0..n
    OBVIOUS
  <2> QED  BY <1>3, <2>1
<1> QED  BY <1>4, <1>5 DEF RecursiveUpto

(* And so there is one on all the numbers. *)
LEMMA RecursionOnNat ==
  ASSUME NEW S, NEW base \in S, NEW step \in [Nat \X S -> S]
  PROVE  \E f : Recursive(f, S, base, step)
<1>1. \A n \in Nat : \E f : RecursiveUpto(f, n, S, base, step)
  BY RecursionExists
<1>2. ASSUME NEW n \in Nat, NEW m \in Nat, n <= m, NEW f, NEW g,
             RecursiveUpto(f, n, S, base, step), RecursiveUpto(g, m, S, base, step)
      PROVE  f[n] = g[n]
  <2> DEFINE same == {k \in Nat : k <= n => f[k] = g[k]}
  <2>1. 0 \in same
    BY <1>2 DEF RecursiveUpto
  <2>2. ASSUME NEW k \in Nat, k \in same
        PROVE  k + 1 \in same
    <3>1. SUFFICES ASSUME k + 1 <= n PROVE f[k + 1] = g[k + 1]
      OBVIOUS
    <3>2. k + 1 \in 1..n /\ k + 1 \in 1..m /\ (k + 1) - 1 = k /\ f[k] = g[k]
      BY <1>2, <2>2, <3>1
    <3> QED  BY <1>2, <3>2 DEF RecursiveUpto
  <2>3. n \in same
    <3> HIDE DEF same
    <3> QED  BY <2>1, <2>2, Induction
  <2> QED  BY <2>3
<1>3. PICK at : at = [n \in Nat |-> CHOOSE f : RecursiveUpto(f, n, S, base, step)]
  OBVIOUS
<1>4. \A n \in Nat : RecursiveUpto(at[n], n, S, base, step)
  BY <1>1, <1>3
<1>5. PICK h : h = [n \in Nat |-> at[n][n]]
  OBVIOUS
<1>6. h \in [Nat -> S] /\ h[0] = base
  BY <1>4, <1>5 DEF RecursiveUpto
<1>7. ASSUME NEW i \in Nat
      PROVE  h[i + 1] = step[<<i + 1, h[i]>>]
  <2>1. PICK f, g : f = at[i] /\ g = at[i + 1]
    OBVIOUS
  <2>2. RecursiveUpto(f, i, S, base, step) /\ RecursiveUpto(g, i + 1, S, base, step)
    BY <1>4, <2>1
  <2>3. f[i] = g[i]
    <3>1. i <= i + 1 /\ i + 1 \in Nat
      OBVIOUS
    <3> QED  BY <1>2, <2>2, <3>1
  <2>4. g[i + 1] = step[<<i + 1, g[i]>>]
    <3>1. i + 1 \in 1..(i + 1) /\ (i + 1) - 1 = i
      OBVIOUS
    <3> QED  BY <2>2, <3>1 DEF RecursiveUpto
  <2> QED  BY <1>5, <2>1, <2>3, <2>4
<1> QED  BY <1>6, <1>7 DEF Recursive

----------------------------------------------------------------------------
(* The sequences b[1] .. b[n], one after the other. *)
Joined(b) == CHOOSE f : f = [n \in Nat |-> IF n = 0 THEN <<>> ELSE f[n - 1] \o b[n]]

(* Joined is the recursion it is written as. *)
LEMMA JoinedHolds ==
  ASSUME NEW S, NEW b \in [Nat -> Seq(S)]
  PROVE  /\ Joined(b) \in [Nat -> Seq(S)]
         /\ Joined(b)[0] = <<>>
         /\ \A n \in Nat : Joined(b)[n + 1] = Joined(b)[n] \o b[n + 1]
<1>1. PICK seqs : seqs = Seq(S)
  OBVIOUS
<1>2. PICK step, none : /\ step = [p \in Nat \X seqs |-> p[2] \o b[p[1]]]
                       /\ none = <<>>
  OBVIOUS
<1>3. step \in [Nat \X seqs -> seqs] /\ none \in seqs
  <2>1. ASSUME NEW n \in Nat, NEW q \in seqs
        PROVE  q \o b[n] \in seqs
    BY <1>1, ConcatProperties
  <2>2. <<>> \in seqs
    BY <1>1, EmptySeq
  <2> QED  BY <1>2, <2>1, <2>2
<1>4. PICK f : Recursive(f, seqs, none, step)
  BY <1>3, RecursionOnNat
<1>12. f \in [Nat -> seqs]
  BY <1>4 DEF Recursive
<1>5. \A i \in Nat : f[i + 1] = f[i] \o b[i + 1]
  <2>1. ASSUME NEW i \in Nat
        PROVE  f[i + 1] = f[i] \o b[i + 1]
    <3>1. PICK x, n : x = f[i] /\ n = i + 1
      OBVIOUS
    <3>2. x \in seqs /\ n \in Nat
      BY <1>12, <3>1
    <3>3. step[<<n, x>>] = x \o b[n]
      BY <1>2, <3>2
    <3>4. f[i + 1] = step[<<i + 1, f[i]>>]
      BY <1>4 DEF Recursive
    <3> QED  BY <3>1, <3>3, <3>4
  <2> QED  BY <2>1
<1>6. f = [n \in Nat |-> IF n = 0 THEN <<>> ELSE f[n - 1] \o b[n]]
  <2>1. ASSUME NEW n \in Nat
        PROVE  f[n] = IF n = 0 THEN <<>> ELSE f[n - 1] \o b[n]
    <3>1. CASE n = 0
      BY <1>2, <1>4, <3>1 DEF Recursive
    <3>2. CASE n # 0
      <4>1. n - 1 \in Nat /\ (n - 1) + 1 = n
        BY <3>2
      <4> QED  BY <1>5, <3>2, <4>1
    <3> QED  BY <3>1, <3>2
  <2> QED  BY <1>12, <2>1
<1>7. PICK j : j = Joined(b)
  OBVIOUS
<1>8. j = [n \in Nat |-> IF n = 0 THEN <<>> ELSE j[n - 1] \o b[n]]
  BY <1>6, <1>7, Zenon DEF Joined
<1>9. j[0] = <<>> /\ \A n \in Nat : j[n + 1] = j[n] \o b[n + 1]
  <2>1. j[0] = <<>>
    BY <1>8
  <2>2. ASSUME NEW n \in Nat
        PROVE  j[n + 1] = j[n] \o b[n + 1]
    <3>1. n + 1 \in Nat /\ n + 1 # 0 /\ (n + 1) - 1 = n
      OBVIOUS
    <3> QED  BY <1>8, <3>1
  <2> QED  BY <2>1, <2>2
<1>10. \A n \in Nat : j[n] = f[n]
  <2> DEFINE same == {n \in Nat : j[n] = f[n]}
  <2>1. 0 \in same
    BY <1>2, <1>4, <1>9 DEF Recursive
  <2>2. ASSUME NEW n \in Nat, n \in same
        PROVE  n + 1 \in same
    <3>1. j[n] = f[n] /\ n + 1 \in Nat
      BY <2>2
    <3>2. j[n + 1] = f[n + 1]
      BY <1>5, <1>9, <3>1
    <3> QED  BY <3>1, <3>2
  <2>3. \A n \in Nat : n \in same
    <3> HIDE DEF same
    <3> QED  BY <2>1, <2>2, Induction
  <2> QED  BY <2>3
<1>11. j \in [Nat -> seqs]
  BY <1>4, <1>8, <1>10 DEF Recursive
<1> QED  BY <1>1, <1>7, <1>9, <1>11

(* What is joined up to m begins what is joined further. *)
LEMMA JoinedGrows ==
  ASSUME NEW S, NEW b \in [Nat -> Seq(S)], NEW m \in Nat, NEW n \in Nat, m <= n
  PROVE  /\ Len(Joined(b)[m]) \in Nat /\ Len(Joined(b)[m]) <= Len(Joined(b)[n])
         /\ \A i \in 1..Len(Joined(b)[m]) : Joined(b)[n][i] = Joined(b)[m][i]
<1>1. PICK j : j = Joined(b)
  OBVIOUS
<1>2. j \in [Nat -> Seq(S)] /\ \A k \in Nat : j[k + 1] = j[k] \o b[k + 1]
  BY <1>1, JoinedHolds
<1> DEFINE begun == {k \in Nat : /\ Len(j[m]) <= Len(j[m + k])
                                 /\ \A i \in 1..Len(j[m]) : j[m + k][i] = j[m][i]}
<1>3. \A k \in Nat : Len(j[k]) \in Nat
  BY <1>2, LenProperties
<1>4. 0 \in begun
  BY <1>3
<1>5. ASSUME NEW k \in Nat, k \in begun
      PROVE  k + 1 \in begun
  <2>1. PICK s, t : s = j[m + k] /\ t = b[m + k + 1]
    OBVIOUS
  <2>2. s \in Seq(S) /\ t \in Seq(S)
    BY <1>2, <2>1
  <2>3. j[m + (k + 1)] = s \o t
    <3>1. m + k \in Nat /\ m + (k + 1) = (m + k) + 1 /\ m + k + 1 = (m + k) + 1
      OBVIOUS
    <3> QED  BY <1>2, <2>1, <3>1
  <2>4. /\ Len(s \o t) = Len(s) + Len(t) /\ Len(s) \in Nat /\ Len(t) \in Nat
        /\ \A i \in 1..Len(s) : (s \o t)[i] = s[i]
    BY <2>2, ConcatProperties, LenProperties
  <2>5. Len(j[m]) \in Nat /\ Len(j[m]) <= Len(s) /\ \A i \in 1..Len(j[m]) : s[i] = j[m][i]
    BY <1>3, <1>5, <2>1
  <2>6. PICK q, r : q = s \o t /\ r = j[m]
    OBVIOUS
  <2>7. PICK l, k1, k2 : l = Len(r) /\ k1 = Len(s) /\ k2 = Len(t)
    OBVIOUS
  <2>8. /\ Len(q) = k1 + k2 /\ k1 \in Nat /\ k2 \in Nat /\ l \in Nat /\ l <= k1
        /\ \A i \in 1..k1 : q[i] = s[i]
        /\ \A i \in 1..l : s[i] = r[i]
    BY <2>4, <2>5, <2>6, <2>7
  <2>9. l <= Len(q)
    BY <2>8
  <2>10. ASSUME NEW i \in 1..l
         PROVE  q[i] = r[i]
    <3>1. i \in 1..k1
      BY <2>8
    <3> QED  BY <2>8, <3>1
  <2>11. /\ Len(j[m]) <= Len(j[m + (k + 1)])
         /\ \A i \in 1..Len(j[m]) : j[m + (k + 1)][i] = j[m][i]
    BY <2>3, <2>6, <2>7, <2>9, <2>10
  <2>12. k + 1 \in Nat
    OBVIOUS
  <2> QED  BY <2>11, <2>12, Zenon
<1>6. \A k \in Nat : k \in begun
  <2> HIDE DEF begun
  <2> QED  BY <1>4, <1>5, Induction
<1>7. n - m \in Nat /\ m + (n - m) = n
  OBVIOUS
<1>8. Len(j[m]) <= Len(j[n]) /\ \A i \in 1..Len(j[m]) : j[n][i] = j[m][i]
  <2>1. n - m \in begun
    BY <1>6, <1>7
  <2> QED  BY <1>7, <2>1
<1> QED  BY <1>1, <1>3, <1>8

EqualOn(f, g, S) == \A i \in S : f[i] = g[i]

(* It depends on no more than what it joins. *)
LEMMA JoinedAgree ==
  ASSUME NEW S, NEW b \in [Nat -> Seq(S)], NEW c \in [Nat -> Seq(S)], NEW n \in Nat,
         EqualOn(b, c, 1..n)
  PROVE  EqualOn(Joined(b), Joined(c), 0..n)
<1>1. PICK j, l : j = Joined(b) /\ l = Joined(c)
  OBVIOUS
<1>2. /\ j[0] = <<>> /\ \A k \in Nat : j[k + 1] = j[k] \o b[k + 1]
      /\ l[0] = <<>> /\ \A k \in Nat : l[k + 1] = l[k] \o c[k + 1]
  BY <1>1, JoinedHolds
<1> DEFINE same == {k \in Nat : k <= n => j[k] = l[k]}
<1>3. 0 \in same
  BY <1>2
<1>4. ASSUME NEW k \in Nat, k \in same
      PROVE  k + 1 \in same
  <2>1. SUFFICES ASSUME k + 1 <= n PROVE j[k + 1] = l[k + 1]
    OBVIOUS
  <2>2. k + 1 \in 1..n /\ j[k] = l[k]
    BY <1>4, <2>1
  <2> QED  BY <1>2, <2>2 DEF EqualOn
<1>5. \A k \in Nat : k \in same
  <2> HIDE DEF same
  <2> QED  BY <1>3, <1>4, Induction
<1> QED  BY <1>1, <1>5 DEF EqualOn

(* Joining nothing gives nothing. *)
LEMMA JoinedEmpty ==
  ASSUME NEW S, NEW b \in [Nat -> Seq(S)], NEW n \in Nat, \A i \in 1..n : b[i] = <<>>
  PROVE  Joined(b)[n] = <<>>
<1>1. PICK c : c = [i \in Nat |-> <<>>]
  OBVIOUS
<1>2. <<>> \in Seq(S) /\ c \in [Nat -> Seq(S)] /\ \A i \in 1..n : b[i] = c[i]
  <2>1. <<>> \in Seq(S)
    BY EmptySeq
  <2> QED  BY <1>1, <2>1
<1>3. Joined(b)[n] = Joined(c)[n]
  <2>1. EqualOn(b, c, 1..n)
    BY <1>2 DEF EqualOn
  <2>2. EqualOn(Joined(b), Joined(c), 0..n)
    BY <1>2, <2>1, JoinedAgree
  <2> QED  BY <2>2 DEF EqualOn
<1>4. PICK j : j = Joined(c)
  OBVIOUS
<1>5. j[0] = <<>> /\ \A k \in Nat : j[k + 1] = j[k] \o <<>> /\ j[k] \in Seq(S)
  <2>1. /\ Joined(c) \in [Nat -> Seq(S)] /\ Joined(c)[0] = <<>>
        /\ \A k \in Nat : Joined(c)[k + 1] = Joined(c)[k] \o c[k + 1]
    BY <1>2, JoinedHolds
  <2>2. \A k \in Nat : k + 1 \in Nat /\ c[k + 1] = <<>>
    BY <1>1
  <2> QED  BY <1>4, <2>1, <2>2
<1> DEFINE none == {k \in Nat : j[k] = <<>>}
<1>6. 0 \in none /\ \A k \in Nat : k \in none => k + 1 \in none
  <2>1. <<>> \o <<>> = <<>>
    BY <1>2, ConcatEmptySeq
  <2>2. ASSUME NEW k \in Nat, j[k] = <<>>
        PROVE  j[k + 1] = <<>>
    BY <1>5, <2>1, <2>2, Zenon
  <2>3. j[0] = <<>>
    BY <1>5
  <2>4. 0 \in none
    BY <2>3
  <2>5. \A k \in Nat : k \in none => k + 1 \in none
    BY <2>2
  <2> QED  BY <2>4, <2>5
<1>7. n \in none
  <2> HIDE DEF none
  <2> QED  BY <1>6, Induction
<1> QED  BY <1>3, <1>4, <1>7

(* Concatenation: what it does to an empty sequence, and to three. *)
Neutral(p) == p \o <<>> = p /\ <<>> \o p = p
Associative(p, q, r) == (p \o q) \o r = p \o (q \o r)

LEMMA Concatenates ==
  ASSUME NEW X
  PROVE  /\ \A p \in Seq(X) : Neutral(p)
         /\ \A p, q, r \in Seq(X) : Associative(p, q, r)
<1>1. ASSUME NEW p \in Seq(X) PROVE Neutral(p)
  BY <1>1, ConcatEmptySeq DEF Neutral
<1>2. ASSUME NEW p \in Seq(X), NEW q \in Seq(X), NEW r \in Seq(X)
      PROVE  Associative(p, q, r)
  BY <1>2, ConcatAssociative DEF Associative
<1> QED  BY <1>1, <1>2

JoinsAt(j, l, m, i) == j[i] = j[m] \o l[i]

(* Joining from a place on is joining what comes from there. *)
LEMMA JoinedSplits ==
  ASSUME NEW S, NEW b \in [Nat -> Seq(S)], NEW c \in [Nat -> Seq(S)],
         NEW m \in Nat, NEW n \in Nat, m <= n,
         \A i \in 1 .. m : c[i] = <<>>, \A i \in m + 1 .. n : c[i] = b[i]
  PROVE  JoinsAt(Joined(b), Joined(c), m, n)
<1>1. PICK j, l : j = Joined(b) /\ l = Joined(c)
  OBVIOUS
<1>2. /\ j \in [Nat -> Seq(S)] /\ \A k \in Nat : j[k + 1] = j[k] \o b[k + 1]
      /\ l \in [Nat -> Seq(S)] /\ \A k \in Nat : l[k + 1] = l[k] \o c[k + 1]
  BY <1>1, JoinedHolds
<1> DEFINE split == {k \in Nat : m + k <= n => JoinsAt(j, l, m, m + k)}
<1>3. 0 \in split
  <2>1. l[m] = <<>>
    BY <1>1, JoinedEmpty
  <2>2. PICK p, e : p = j[m] /\ p \in Seq(S) /\ e = l[m] /\ e = <<>>
    BY <1>2, <2>1
  <2>3. p \o e = p
    BY <2>2, ConcatEmptySeq
  <2>4. JoinsAt(j, l, m, m)
    BY <2>2, <2>3, Zenon DEF JoinsAt
  <2>5. m + 0 = m
    OBVIOUS
  <2> QED  BY <2>4, <2>5
<1>4. ASSUME NEW k \in Nat, k \in split
      PROVE  k + 1 \in split
  <2>1. SUFFICES ASSUME m + (k + 1) <= n PROVE JoinsAt(j, l, m, m + (k + 1))
    OBVIOUS
  <2>2. PICK i, p, q, r : i = m + k /\ p = j[m] /\ q = l[i] /\ r = b[i + 1]
    OBVIOUS
  <2>3. i \in Nat /\ i + 1 = m + (k + 1) /\ i + 1 \in m + 1 .. n
    BY <2>1, <2>2
  <2>4. JoinsAt(j, l, m, i) /\ c[i + 1] = r
    <3>1. m + k <= n
      BY <2>1
    <3> QED  BY <1>4, <2>2, <2>3, <3>1
  <2>5. p \in Seq(S) /\ q \in Seq(S) /\ r \in Seq(S)
    BY <1>2, <2>2, <2>3
  <2>6. j[i] = p \o q
    BY <2>2, <2>4, Zenon DEF JoinsAt
  <2>7. j[i + 1] = (p \o q) \o r /\ l[i + 1] = q \o r
    BY <1>2, <2>2, <2>3, <2>4, <2>6, Zenon
  <2>8. Associative(p, q, r)
    BY <2>5, Concatenates, Zenon
  <2>9. JoinsAt(j, l, m, i + 1)
    BY <2>2, <2>7, <2>8, Zenon DEF JoinsAt, Associative
  <2> QED  BY <2>3, <2>9
<1>5. n - m \in split
  <2> HIDE DEF split
  <2>1. n - m \in Nat
    OBVIOUS
  <2> QED  BY <1>3, <1>4, <2>1, Induction
<1>6. JoinsAt(j, l, m, n)
  <2>1. m + (n - m) = n /\ n <= n
    OBVIOUS
  <2> QED  BY <1>5, <2>1
<1> QED  BY <1>1, <1>6

(* Joining nothing more changes nothing. *)
LEMMA JoinedStays ==
  ASSUME NEW S, NEW b \in [Nat -> Seq(S)], NEW m \in Nat, NEW n \in Nat, m <= n,
         \A i \in m + 1 .. n : b[i] = <<>>
  PROVE  Joined(b)[n] = Joined(b)[m]
<1>1. PICK c : c = [i \in Nat |-> <<>>]
  OBVIOUS
<1>2. <<>> \in Seq(S)
  BY EmptySeq
<1>3. c \in [Nat -> Seq(S)] /\ \A i \in Nat : c[i] = <<>>
  BY <1>1, <1>2
<1>4. JoinsAt(Joined(b), Joined(c), m, n)
  <2>1. \A i \in m + 1 .. n : i \in Nat
    OBVIOUS
  <2>2. \A i \in 1 .. m : i \in Nat
    OBVIOUS
  <2> QED  BY <1>3, <2>1, <2>2, JoinedSplits
<1>5. PICK p, e : p = Joined(b)[m] /\ e = Joined(c)[n] /\ e = <<>>
  <2>1. \A i \in 1 .. n : c[i] = <<>>
    <3>1. \A i \in 1 .. n : i \in Nat
      OBVIOUS
    <3> QED  BY <1>3, <3>1
  <2> QED  BY <1>3, <2>1, JoinedEmpty
<1>6. p \in Seq(S)
  BY <1>5, JoinedHolds
<1>7. p \o e = p
  BY <1>5, <1>6, ConcatEmptySeq
<1> QED  BY <1>4, <1>5, <1>7, Zenon DEF JoinsAt

----------------------------------------------------------------------------
(* The sequences that FlattenSeq makes on its way along those it joins. *)
FlatUpto(f, n, seqs) ==
  f = [i \in 1 .. n |-> IF i = 1 THEN seqs[i] ELSE f[i - 1] \o seqs[i]]

(* It gets to the last. *)
LEMMA FlatClimbs ==
  ASSUME NEW seqs, Len(seqs) \in Nat \ {0}
  PROVE  \E f : FlatUpto(f, Len(seqs), seqs) /\ FlattenSeq(seqs) = f[Len(seqs)]
<1> DEFINE done == {n \in Nat : \E f : FlatUpto(f, n, seqs)}
<1>1. 0 \in done
  <2>1. FlatUpto([i \in 1 .. 0 |-> seqs], 0, seqs)
    BY DEF FlatUpto
  <2> QED  BY <2>1
<1>2. ASSUME NEW n \in Nat, n \in done
      PROVE  n + 1 \in done
  <2>1. PICK f : FlatUpto(f, n, seqs)
    BY <1>2
  <2>2. PICK x : x = IF n + 1 = 1 THEN seqs[n + 1] ELSE f[n] \o seqs[n + 1]
    OBVIOUS
  <2>3. PICK g : g = [i \in 1 .. n + 1 |-> IF i = n + 1 THEN x ELSE f[i]]
    OBVIOUS
  <2>4. ASSUME NEW i \in 1 .. n + 1
        PROVE  g[i] = IF i = 1 THEN seqs[i] ELSE g[i - 1] \o seqs[i]
    <3>1. CASE i = n + 1
      <4>1. i - 1 = n /\ (i # 1 => n \in 1 .. n + 1) /\ n # n + 1
        BY <3>1
      <4>2. g[i] = x /\ (i # 1 => g[i - 1] = f[n])
        BY <2>3, <3>1, <4>1
      <4> QED  BY <2>2, <3>1, <4>1, <4>2
    <3>2. CASE i # n + 1
      <4>1. i \in 1 .. n /\ (i # 1 => i - 1 \in 1 .. n + 1 /\ i - 1 # n + 1)
        BY <3>2
      <4>2. g[i] = f[i] /\ (i # 1 => g[i - 1] = f[i - 1])
        BY <2>3, <3>2, <4>1
      <4>3. f[i] = IF i = 1 THEN seqs[i] ELSE f[i - 1] \o seqs[i]
        BY <2>1, <4>1, Zenon DEF FlatUpto
      <4> QED  BY <4>2, <4>3
    <3> QED  BY <3>1, <3>2
  <2>5. FlatUpto(g, n + 1, seqs)
    BY <2>3, <2>4, Zenon DEF FlatUpto
  <2> QED  BY <2>5
<1>3. Len(seqs) \in done
  <2> HIDE DEF done
  <2> QED  BY <1>1, <1>2, Induction
<1>4. PICK f : f = CHOOSE g : FlatUpto(g, Len(seqs), seqs)
  OBVIOUS
<1>5. FlatUpto(f, Len(seqs), seqs)
  BY <1>3, <1>4
<1>6. FlattenSeq(seqs) = f[Len(seqs)]
  <2>1. Len(seqs) # 0
    OBVIOUS
  <2> QED  BY <1>4, <2>1, Zenon DEF FlattenSeq, FlatUpto
<1> QED  BY <1>5, <1>6

(* What it makes of sequences of one set is one. *)
LEMMA FlatType ==
  ASSUME NEW X, NEW seqs, NEW w \in Nat, \A n \in 1 .. w : seqs[n] \in Seq(X),
         NEW f, FlatUpto(f, w, seqs)
  PROVE  \A n \in 1 .. w : f[n] \in Seq(X)
<1>1. \A n \in 1 .. w : f[n] = IF n = 1 THEN seqs[n] ELSE f[n - 1] \o seqs[n]
  BY Zenon DEF FlatUpto
<1> DEFINE done == {n \in Nat : n \in 1 .. w => f[n] \in Seq(X)}
<1>2. 0 \in done
  OBVIOUS
<1>3. ASSUME NEW n \in Nat, n \in done
      PROVE  n + 1 \in done
  <2>1. SUFFICES ASSUME n + 1 \in 1 .. w PROVE f[n + 1] \in Seq(X)
    OBVIOUS
  <2>2. PICK i, s, t : i = n + 1 /\ s = f[n] /\ t = seqs[i]
    OBVIOUS
  <2>3. CASE n = 0
    BY <1>1, <2>1, <2>3
  <2>4. CASE n # 0
    <3>1. i \in 1 .. w /\ i # 1 /\ i - 1 = n /\ n \in 1 .. w
      BY <2>1, <2>2, <2>4
    <3>2. f[i] = s \o t /\ s \in Seq(X) /\ t \in Seq(X)
      BY <1>1, <1>3, <2>2, <3>1
    <3> QED  BY <2>2, <3>2, ConcatProperties
  <2> QED  BY <2>3, <2>4
<1>4. \A n \in Nat : n \in done
  <2> HIDE DEF done
  <2> QED  BY <1>2, <1>3, Induction
<1> QED  BY <1>4

(* And so are they when joined. *)
LEMMA FlattenType ==
  ASSUME NEW X, NEW w \in Nat, NEW seqs, seqs = [n \in 1 .. w |-> seqs[n]],
         \A n \in 1 .. w : seqs[n] \in Seq(X)
  PROVE  FlattenSeq(seqs) \in Seq(X)
<1>1. seqs \in Seq(Seq(X)) /\ Len(seqs) = w
  <2>1. seqs \in [1 .. w -> Seq(X)]
    OBVIOUS
  <2>2. seqs \in Seq(Seq(X))
    BY <2>1, SeqDef
  <2>3. DOMAIN seqs = 1 .. w /\ DOMAIN seqs = 1 .. Len(seqs) /\ Len(seqs) \in Nat
    BY <2>1, <2>2, LenProperties
  <2> QED  BY <2>2, <2>3
<1>2. CASE w = 0
  <2>1. FlattenSeq(seqs) = seqs
    BY <1>1, <1>2, Zenon DEF FlattenSeq
  <2>2. seqs \in [1 .. 0 -> X]
    <3>1. 1 .. 0 = {}
      OBVIOUS
    <3> QED  BY <1>2, <3>1
  <2>3. seqs \in Seq(X)
    BY <2>2, SeqDef
  <2> QED  BY <2>1, <2>3
<1>3. CASE w # 0
  <2>1. PICK f : FlatUpto(f, w, seqs) /\ FlattenSeq(seqs) = f[w]
    BY <1>1, <1>3, FlatClimbs
  <2>2. w \in 1 .. w
    BY <1>3
  <2> QED  BY <2>1, <2>2, FlatType
<1> QED  BY <1>2, <1>3

(* What it makes of sequences holds each of their elements. *)
HoldsAll(s, part) == \A k \in 1 .. Len(part) : \E m \in 1 .. Len(s) : s[m] = part[k]

LEMMA FlattenHolds ==
  ASSUME NEW X, NEW w \in Nat, NEW seqs \in [1 .. w -> Seq(X)]
  PROVE  \A n \in 1 .. w : HoldsAll(FlattenSeq(seqs), seqs[n])
<1> SUFFICES ASSUME NEW n \in 1 .. w, NEW k \in 1 .. Len(seqs[n])
             PROVE  \E m \in 1 .. Len(FlattenSeq(seqs)) : FlattenSeq(seqs)[m] = seqs[n][k]
  BY DEF HoldsAll
<1>1. seqs \in Seq(Seq(X)) /\ Len(seqs) = w
  <2>1. seqs \in Seq(Seq(X))
    BY SeqDef
  <2>2. DOMAIN seqs = 1 .. w /\ DOMAIN seqs = 1 .. Len(seqs) /\ Len(seqs) \in Nat
    BY <2>1, LenProperties
  <2> QED  BY <2>1, <2>2
<1>2. PICK f : FlatUpto(f, w, seqs) /\ FlattenSeq(seqs) = f[w]
  <2>1. w \in Nat \ {0}
    OBVIOUS
  <2> QED  BY <1>1, <2>1, FlatClimbs
<1>3. \A i \in 1 .. w : f[i] \in Seq(X)
  BY <1>2, FlatType
<1>4. \A i \in 1 .. w : f[i] = IF i = 1 THEN seqs[i] ELSE f[i - 1] \o seqs[i]
  BY <1>2, Zenon DEF FlatUpto
<1> DEFINE has == {i \in Nat : i \in n .. w => \E m \in 1 .. Len(f[i]) : f[i][m] = seqs[n][k]}
<1>5. ASSUME NEW i \in Nat, i \in has
      PROVE  i + 1 \in has
  <2>1. SUFFICES ASSUME i + 1 \in n .. w
                 PROVE  \E m \in 1 .. Len(f[i + 1]) : f[i + 1][m] = seqs[n][k]
    OBVIOUS
  <2>2. PICK j, p, q : j = i + 1 /\ p = f[i] /\ q = seqs[j]
    OBVIOUS
  <2>3. CASE j = 1
    <3>1. n = 1 /\ f[j] = q /\ n = j
      BY <1>4, <2>1, <2>2, <2>3
    <3> QED  BY <2>2, <3>1
  <2>4. CASE j # 1
    <3>1. j \in 1 .. w /\ i \in 1 .. w /\ j - 1 = i
      BY <2>1, <2>2, <2>4
    <3>2. f[j] = p \o q /\ p \in Seq(X) /\ q \in Seq(X)
      BY <1>3, <1>4, <2>2, <2>4, <3>1
    <3>3. PICK r : r = p \o q
      OBVIOUS
    <3>4. /\ Len(r) = Len(p) + Len(q) /\ Len(p) \in Nat /\ Len(q) \in Nat
          /\ \A m \in 1 .. Len(p) + Len(q) : r[m] = IF m <= Len(p) THEN p[m] ELSE q[m - Len(p)]
      BY <3>2, <3>3, ConcatProperties, LenProperties
    <3>5. CASE n = j
      <4>1. /\ Len(p) + k \in 1 .. Len(r) /\ ~(Len(p) + k <= Len(p))
            /\ (Len(p) + k) - Len(p) = k
        <5>1. k \in 1 .. Len(q)
          BY <2>2, <3>5
        <5> QED  BY <3>4, <5>1
      <4>2. r[Len(p) + k] = q[k]
        BY <3>4, <4>1
      <4> QED  BY <2>2, <3>2, <3>3, <3>5, <4>1, <4>2
    <3>6. CASE n # j
      <4>1. i \in n .. w
        BY <2>1, <2>2, <3>1, <3>6
      <4>2. PICK m \in 1 .. Len(p) : p[m] = seqs[n][k]
        BY <1>5, <2>2, <4>1
      <4>3. m \in 1 .. Len(r) /\ r[m] = p[m]
        BY <3>4
      <4> QED  BY <2>2, <3>2, <3>3, <4>2, <4>3
    <3> QED  BY <3>5, <3>6
  <2> QED  BY <2>3, <2>4
<1>6. 0 \in has
  OBVIOUS
<1>7. w \in has
  <2> HIDE DEF has
  <2> QED  BY <1>5, <1>6, Induction
<1>8. w \in n .. w
  OBVIOUS
<1> QED  BY <1>2, <1>7, <1>8

(* Joining is what FlattenSeq does. *)
ListOf(s, n) == s = [i \in 1 .. n |-> s[i]]
Joinable(b, X) == b \in [Nat -> Seq(X)]
AgreeAt(f, j, n) == f[n] = j[n]

(* FlattenSeq is joining. *)
LEMMA FlattenJoined ==
  ASSUME NEW X, NEW w \in Nat, NEW seqs, ListOf(seqs, w),
         NEW b, Joinable(b, X), EqualOn(seqs, b, 1 .. w)
  PROVE  FlattenSeq(seqs) = Joined(b)[w]
<1>0. b \in [Nat -> Seq(X)] /\ seqs = [n \in 1 .. w |-> seqs[n]]
      /\ \A n \in 1 .. w : seqs[n] = b[n]
  BY DEF Joinable, ListOf, EqualOn
<1>1. seqs \in Seq(Seq(X)) /\ Len(seqs) = w
  <2>1. seqs \in [1 .. w -> Seq(X)]
    <3>1. \A n \in 1 .. w : n \in Nat
      OBVIOUS
    <3>2. \A n \in 1 .. w : seqs[n] \in Seq(X)
      BY <1>0, <3>1
    <3> QED  BY <1>0, <3>2
  <2>2. seqs \in Seq(Seq(X))
    BY <2>1, SeqDef
  <2>3. DOMAIN seqs = 1 .. w /\ DOMAIN seqs = 1 .. Len(seqs) /\ Len(seqs) \in Nat
    BY <2>1, <2>2, LenProperties
  <2> QED  BY <2>2, <2>3
<1>2. PICK j : j = Joined(b)
  OBVIOUS
<1>3. j \in [Nat -> Seq(X)] /\ j[0] = <<>> /\ \A k \in Nat : j[k + 1] = j[k] \o b[k + 1]
  BY <1>0, <1>2, JoinedHolds
<1>4. CASE w = 0
  <2>1. FlattenSeq(seqs) = seqs
    BY <1>1, <1>4, Zenon DEF FlattenSeq
  <2>2. seqs = <<>>
    BY <1>1, <1>4, EmptySeq
  <2> QED  BY <1>2, <1>3, <1>4, <2>1, <2>2
<1>5. CASE w # 0
  <2>1. PICK f : FlatUpto(f, w, seqs) /\ FlattenSeq(seqs) = f[w]
    BY <1>1, <1>5, FlatClimbs
  <2>2. \A n \in 1 .. w : f[n] = IF n = 1 THEN seqs[n] ELSE f[n - 1] \o seqs[n]
    BY <2>1, Zenon DEF FlatUpto
  <2> DEFINE same == {n \in Nat : n \in 1 .. w => AgreeAt(f, j, n)}
  <2>3. 0 \in same
    OBVIOUS
  <2>4. ASSUME NEW n \in Nat, n \in same
        PROVE  n + 1 \in same
    <3>1. SUFFICES ASSUME n + 1 \in 1 .. w PROVE AgreeAt(f, j, n + 1)
      OBVIOUS
    <3>2. PICK i, p, q : i = n + 1 /\ p = j[n] /\ q = seqs[i]
      OBVIOUS
    <3>3. /\ i \in 1 .. w /\ q = b[i] /\ p \in Seq(X) /\ q \in Seq(X)
      BY <1>0, <1>3, <3>1, <3>2
    <3>4. j[i] = p \o q
      BY <1>3, <3>2, <3>3, Zenon
    <3>5. CASE n = 0
      <4>1. i = 1 /\ p = <<>>
        BY <1>3, <3>2, <3>5
      <4>2. f[i] = q
        BY <2>2, <3>2, <3>3, <4>1, Zenon
      <4>3. p \o q = q
        BY <3>3, <4>1, Concatenates, Zenon DEF Neutral
      <4> QED  BY <3>2, <3>4, <4>2, <4>3, Zenon DEF AgreeAt
    <3>6. CASE n # 0
      <4>1. n \in 1 .. w /\ i # 1 /\ i - 1 = n
        BY <3>1, <3>2, <3>6
      <4>2. f[n] = p
        <5>1. AgreeAt(f, j, n)
          BY <2>4, <4>1
        <5> QED  BY <3>2, <5>1, Zenon DEF AgreeAt
      <4>3. f[i] = p \o q
        BY <2>2, <3>2, <3>3, <4>1, <4>2, Zenon
      <4> QED  BY <3>2, <3>4, <4>3, Zenon DEF AgreeAt
    <3> QED  BY <3>5, <3>6
  <2>5. w \in same
    <3> HIDE DEF same
    <3> QED  BY <2>3, <2>4, Induction
  <2>6. w \in 1 .. w
    BY <1>5
  <2>7. AgreeAt(f, j, w)
    BY <2>5, <2>6
  <2> QED  BY <1>2, <2>1, <2>7, Zenon DEF AgreeAt
<1> QED  BY <1>4, <1>5

----------------------------------------------------------------------------
(* SetToSeq puts a finite set in some order, each element once. *)
LEMMA SetToSeqHolds ==
  ASSUME NEW S, IsFiniteSet(S)
  PROVE  /\ SetToSeq(S) \in [1..Cardinality(S) -> S]
         /\ SetToSeq(S) \in Seq(S)
         /\ Cardinality(S) \in Nat
         /\ IsInjective(SetToSeq(S))
         /\ \A x \in S : \E i \in 1..Cardinality(S) : SetToSeq(S)[i] = x
<1> DEFINE n == Cardinality(S)
<1>1. n \in Nat /\ ExistsBijection(1..n, S)
  BY FS_CardinalityType
<1>2. \E f \in [1..n -> S] : IsInjective(f)
  BY <1>1 DEF ExistsBijection, Bijection, Injection
<1>3. SetToSeq(S) \in [1..n -> S] /\ IsInjective(SetToSeq(S))
  BY <1>2, Zenon DEF SetToSeq
<1>4. SetToSeq(S) \in Injection(1..n, S)
  BY <1>3 DEF Injection
<1>5. Cardinality(1..n) = n
  BY <1>1, FS_Interval
<1>6. SetToSeq(S) \in Surjection(1..n, S)
  BY <1>4, <1>5, FS_Injection
<1> QED  BY <1>1, <1>3, <1>6 DEF Surjection

(***************************************************************************)
(* Under a strict total order of a finite set there is one element for     *)
(* each number of elements before it: what sorting rests on.               *)
(***************************************************************************)
Before(R, S, x) == {y \in S : <<y, x>> \in R}

StrictOrder(R, S) ==
  /\ \A x \in S : <<x, x>> \notin R
  /\ \A x, y, z \in S : <<x, y>> \in R /\ <<y, z>> \in R => <<x, z>> \in R
  /\ \A x, y \in S : x = y \/ <<x, y>> \in R \/ <<y, x>> \in R

(* An element has more elements before it than one before it has. *)
LEMMA BeforeGrows ==
  ASSUME NEW S, IsFiniteSet(S), NEW R, StrictOrder(R, S),
         NEW x \in S, NEW y \in S, <<y, x>> \in R
  PROVE  /\ Cardinality(Before(R, S, x)) \in Nat /\ Cardinality(Before(R, S, y)) \in Nat
         /\ Cardinality(Before(R, S, y)) < Cardinality(Before(R, S, x))
<1>1. /\ Before(R, S, y) \subseteq Before(R, S, x)
      /\ y \in Before(R, S, x) /\ y \notin Before(R, S, y)
      /\ Before(R, S, x) \subseteq S
  BY DEF Before, StrictOrder
<1>2. IsFiniteSet(Before(R, S, x))
  BY <1>1, FS_Subset
<1>3. /\ IsFiniteSet(Before(R, S, y))
      /\ Cardinality(Before(R, S, y)) <= Cardinality(Before(R, S, x))
      /\ Cardinality(Before(R, S, x)) = Cardinality(Before(R, S, y)) =>
           Before(R, S, x) = Before(R, S, y)
  BY <1>1, <1>2, FS_Subset
<1>4. Cardinality(Before(R, S, x)) \in Nat /\ Cardinality(Before(R, S, y)) \in Nat
  BY <1>2, <1>3, FS_CardinalityType
<1> QED  BY <1>1, <1>3, <1>4

(* The number of elements before an element is its rank. *)
LEMMA OneOfEachRank ==
  ASSUME NEW S, IsFiniteSet(S), NEW R, StrictOrder(R, S)
  PROVE  /\ Cardinality(S) \in Nat
         /\ \A x \in S : Cardinality(Before(R, S, x)) \in 0..(Cardinality(S) - 1)
         /\ \A x, y \in S :
              Cardinality(Before(R, S, x)) = Cardinality(Before(R, S, y)) => x = y
         /\ \A n \in 1..Cardinality(S) :
              \E x \in S : Cardinality(Before(R, S, x)) = n - 1
<1> DEFINE rank == [x \in S |-> Cardinality(Before(R, S, x))]
           last == Cardinality(S) - 1
<1>1. Cardinality(S) \in Nat
  BY FS_CardinalityType
<1>2. ASSUME NEW x \in S
      PROVE  Cardinality(Before(R, S, x)) \in 0..last
  <2>1. Before(R, S, x) \subseteq S \ {x}
    BY DEF Before, StrictOrder
  <2>2. IsFiniteSet(S \ {x}) /\ Cardinality(S \ {x}) = last
    BY FS_RemoveElement
  <2>3. IsFiniteSet(Before(R, S, x)) /\ Cardinality(Before(R, S, x)) <= last
    BY <2>1, <2>2, FS_Subset
  <2>4. Cardinality(Before(R, S, x)) \in Nat
    BY <2>3, FS_CardinalityType
  <2> QED  BY <1>1, <2>3, <2>4
<1>3. ASSUME NEW x \in S, NEW y \in S,
             Cardinality(Before(R, S, x)) = Cardinality(Before(R, S, y))
      PROVE  x = y
  <2>1. <<x, y>> \notin R
    <3>1. SUFFICES ASSUME <<x, y>> \in R PROVE FALSE
      OBVIOUS
    <3> QED  BY <1>3, <3>1, BeforeGrows
  <2>2. <<y, x>> \notin R
    <3>1. SUFFICES ASSUME <<y, x>> \in R PROVE FALSE
      OBVIOUS
    <3> QED  BY <1>3, <3>1, BeforeGrows
  <2> QED  BY <2>1, <2>2 DEF StrictOrder
<1>4. rank \in Injection(S, 0..last)
  BY <1>2, <1>3 DEF Injection, IsInjective
<1>5. IsFiniteSet(0..last) /\ Cardinality(0..last) = Cardinality(S)
  <2>1. 0 \in Int /\ last \in Int
    BY <1>1
  <2>2. IsFiniteSet(0..last) /\ Cardinality(0..last) = IF 0 > last THEN 0 ELSE last - 0 + 1
    BY <2>1, FS_Interval
  <2> QED  BY <1>1, <2>2
<1>6. rank \in Surjection(S, 0..last)
  BY <1>4, <1>5, FS_Injection
<1>7. ASSUME NEW n \in 1..Cardinality(S)
      PROVE  \E x \in S : Cardinality(Before(R, S, x)) = n - 1
  <2>1. n - 1 \in 0..last
    BY <1>1
  <2> QED  BY <1>6, <2>1 DEF Surjection
<1> QED  BY <1>1, <1>2, <1>3, <1>7

Ranked(R, S, n) ==
  /\ \A x \in S : Cardinality(Before(R, S, x)) \in 0..(n - 1)
  /\ \A x, y \in S :
       Cardinality(Before(R, S, x)) = Cardinality(Before(R, S, y)) => x = y
  /\ \A k \in 1..n : \E x \in S : Cardinality(Before(R, S, x)) = k - 1

(* In short: the elements have the ranks below their number. *)
LEMMA StrictOrderRanks ==
  ASSUME NEW S, IsFiniteSet(S), NEW R, StrictOrder(R, S)
  PROVE  Ranked(R, S, Cardinality(S))
BY OneOfEachRank DEF Ranked

(* Of the numbers to n there is one of each rank to n. *)
LEMMA RanksOfNumbers ==
  ASSUME NEW n \in Nat, NEW R, StrictOrder(R, 1..n)
  PROVE  /\ \A i \in 1..n : Cardinality(Before(R, 1..n, i)) \in 0..(n - 1)
         /\ \A i, j \in 1..n :
              Cardinality(Before(R, 1..n, i)) = Cardinality(Before(R, 1..n, j)) => i = j
         /\ \A k \in 1..n : \E i \in 1..n : Cardinality(Before(R, 1..n, i)) = k - 1
<1>1. IsFiniteSet(1..n) /\ Cardinality(1..n) = n
  <2>1. 1 \in Int /\ n \in Int
    OBVIOUS
  <2>2. IsFiniteSet(1..n) /\ Cardinality(1..n) = IF 1 > n THEN 0 ELSE n - 1 + 1
    BY <2>1, FS_Interval
  <2> QED  BY <2>2
<1>2. PICK S, c : S = 1..n /\ c = Cardinality(S)
  OBVIOUS
<1>3. IsFiniteSet(S) /\ StrictOrder(R, S) /\ c = n
  BY <1>1, <1>2
<1>4. /\ \A x \in S : Cardinality(Before(R, S, x)) \in 0..(c - 1)
      /\ \A x, y \in S :
           Cardinality(Before(R, S, x)) = Cardinality(Before(R, S, y)) => x = y
      /\ \A k \in 1..c : \E x \in S : Cardinality(Before(R, S, x)) = k - 1
  BY <1>2, <1>3, OneOfEachRank
<1> QED  BY <1>2, <1>3, <1>4

=============================================================================
