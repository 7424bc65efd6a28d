----------------------------- MODULE DiffProofs -----------------------------
(***************************************************************************)
(* Theorems about Diff, for every pair of documents and every value of the *)
(* constants: no block is in two units, a block in none is unchanged, the  *)
(* greedy matching leaves no better pair behind, the spine is a longest    *)
(* one, the changeset has a unit for a slot, it has the slots Observation  *)
(* looks up, and its counts balance.                                       *)
(*                                                                         *)
(* The loops hand the blocks on to each other.  PendingOld and PendingNew  *)
(* are the blocks that a loop yet to come, or the present one, may still   *)
(* put into a unit; every other block is in one, or is unchanged.          *)
(***************************************************************************)
EXTENDS DiffObservation, DataLemmas

----------------------------------------------------------------------------
(* First the pure part, for any two documents: the spine is a longest      *)
(* increasing set of anchors, and masking leaves a document.               *)

(* An anchored block has one mate, and no two have the same. *)
LEMMA PositionHolds ==
  ASSUME NEW was, NEW now
  PROVE  /\ \A o \in AnchoredOld(was, now) :
              o \in DOMAIN was /\ <<o, Position(was, now, o)>> \in Anchors(was, now)
         /\ \A o, a \in AnchoredOld(was, now) :
              Position(was, now, o) = Position(was, now, a) => o = a
<1>1. ASSUME NEW o \in AnchoredOld(was, now)
      PROVE  o \in DOMAIN was /\ <<o, Position(was, now, o)>> \in Anchors(was, now)
  <2>1. PICK n \in DOMAIN now : o \in DOMAIN was /\ <<o, n>> \in Anchors(was, now)
    BY DEF AnchoredOld, Anchors
  <2> QED  BY <2>1 DEF Position
<1>2. ASSUME NEW o \in AnchoredOld(was, now), NEW a \in AnchoredOld(was, now),
             Position(was, now, o) = Position(was, now, a)
      PROVE  o = a
  <2>1. PICK n, m : n = Position(was, now, o) /\ m = Position(was, now, a)
    OBVIOUS
  <2>2. n = m /\ <<o, n>> \in Anchors(was, now) /\ <<a, m>> \in Anchors(was, now)
    BY <1>1, <1>2, <2>1
  <2>3. /\ o \in DOMAIN was /\ a \in DOMAIN was /\ Once(was, o)
        /\ was[o].key = now[n].key /\ was[a].key = now[n].key
    BY <2>2 DEF Anchors
  <2> QED  BY <2>3 DEF Once
<1> QED  BY <1>1, <1>2

----------------------------------------------------------------------------
(* The search finds the first pile whose top is not below x. *)
LEMMA PileForHolds ==
  ASSUME NEW L \in Nat, NEW tops \in [1..L -> Nat], NEW x \in Nat
  PROVE  /\ PileFor(tops, x) \in 1..(L + 1)
         /\ \A j \in 1..(PileFor(tops, x) - 1) : tops[j] < x
         /\ PileFor(tops, x) <= L => tops[PileFor(tops, x)] >= x
<1>1. Len(tops) = L
  OBVIOUS
<1>2. PICK S : S = {k \in 1..(L + 1) : k <= L => tops[k] >= x}
  OBVIOUS
<1>3. S \in SUBSET Nat /\ L + 1 \in S
  BY <1>2
<1>4. PICK m \in S : \A k \in S : m <= k
  BY <1>3, LeastNumber
<1>5. m \in 1..(L + 1) /\ (m <= L => tops[m] >= x)
  BY <1>2, <1>4
<1>6. ASSUME NEW j \in 1..(m - 1)
      PROVE  tops[j] < x
  <2>1. j \in 1..L /\ ~(m <= j)
    BY <1>5
  <2>2. j \notin S
    BY <1>4, <2>1
  <2> QED  BY <1>2, <2>1, <2>2
<1>7. \E k \in 1..Len(tops) + 1 :
        /\ \A j \in 1..(k - 1) : tops[j] < x
        /\ k <= Len(tops) => tops[k] >= x
  BY <1>1, <1>5, <1>6
<1> QED  BY <1>1, <1>7 DEF PileFor

(***************************************************************************)
(* The L piles after the anchors of D have been placed.  h is the pile     *)
(* that an anchor was put on: its top has only come down since, an anchor  *)
(* is linked to one on the pile before its own, and of two anchors in      *)
(* order the later one is on a later pile.                                 *)
(***************************************************************************)
Heights(D, L, tails, h) ==
  /\ tails \in [1..L -> D] /\ h \in [D -> 1..L]
  /\ \A j \in 1..L : h[tails[j]] = j

Descending(D, pos, L, tails, h) ==
  /\ \A a \in D : pos[tails[h[a]]] <= pos[a]
  /\ \A i, j \in 1..L : i < j => pos[tails[i]] < pos[tails[j]]

LinkedTo(D, pos, prev, h, a) ==
  IF h[a] = 1 THEN prev[a] = 0
  ELSE /\ prev[a] \in D /\ prev[a] < a
       /\ pos[prev[a]] < pos[a] /\ h[prev[a]] = h[a] - 1

Linked(D, pos, prev, h) == \A a \in D : LinkedTo(D, pos, prev, h, a)

Rising(D, pos, h) ==
  \A a, b \in D : a < b /\ pos[a] < pos[b] => h[a] < h[b]

Piled(D, pos, L, tails, prev, h) ==
  /\ Heights(D, L, tails, h) /\ Descending(D, pos, L, tails, h)
  /\ Linked(D, pos, prev, h) /\ Rising(D, pos, h)

(* o is put on pile k, the first whose top is not below it, of L or M. *)
Put(o, pos, L, tails, k, M, tails1) ==
  /\ M = (IF k > L THEN L + 1 ELSE L) /\ k \in 1..(L + 1)
  /\ \A j \in 1..(k - 1) : pos[tails[j]] < pos[o]
  /\ k <= L => pos[tails[k]] >= pos[o]
  /\ tails1 = [j \in 1..M |-> IF j = k THEN o ELSE tails[j]]

(* o, after all of D, is linked to the top of the pile before k. *)
Link(D, o, tails, k, prev, prev1) ==
  /\ \A a \in D : a < o /\ prev1[a] = prev[a]
  /\ prev1[o] = IF k = 1 THEN 0 ELSE tails[k - 1]

(* The piles stay so when the next anchor is put on one. *)
LEMMA PutKeepsPiles ==
  ASSUME NEW n \in Nat, NEW D \in SUBSET (1..n), NEW o \in 1..n,
         NEW pos \in [1..n -> Nat], NEW L \in Nat, NEW M \in Nat, NEW k \in Nat,
         NEW tails, NEW prev, NEW h, Piled(D, pos, L, tails, prev, h),
         NEW tails1, Put(o, pos, L, tails, k, M, tails1),
         NEW prev1, Link(D, o, tails, k, prev, prev1)
  PROVE  \E h1 : Piled(D \cup {o}, pos, M, tails1, prev1, h1)
<1>1. /\ tails \in [1..L -> D] /\ h \in [D -> 1..L] /\ \A j \in 1..L : h[tails[j]] = j
  BY DEF Piled, Heights
<1>2. /\ \A a \in D : pos[tails[h[a]]] <= pos[a]
      /\ \A i, j \in 1..L : i < j => pos[tails[i]] < pos[tails[j]]
  BY DEF Piled, Descending
<1>16. /\ \A a \in D : a < o /\ prev1[a] = prev[a]
       /\ prev1[o] = IF k = 1 THEN 0 ELSE tails[k - 1]
  BY DEF Link
<1>3. o \notin D /\ \A a \in D : a \in 1..n /\ a \in Nat /\ pos[a] \in Nat
  BY <1>16
<1>4. PICK x : x = pos[o]
  OBVIOUS
<1>5. /\ x \in Nat /\ k \in 1..(L + 1)
      /\ \A j \in 1..(k - 1) : pos[tails[j]] < x
      /\ k <= L => pos[tails[k]] >= x
  BY <1>4 DEF Put
<1>6. k \in 1..M /\ \A j \in 1..M : j # k => j \in 1..L
  BY DEF Put
<1>15. tails1 = [j \in 1..M |-> IF j = k THEN o ELSE tails[j]]
  BY DEF Put
<1>7. tails1[k] = o /\ \A j \in 1..M : j # k => tails1[j] = tails[j]
  BY <1>6, <1>15
<1>8. \A j \in 1..L : j \in 1..M
  BY DEF Put
<1>9. PICK h1 : h1 = [a \in D \cup {o} |-> IF a = o THEN k ELSE h[a]]
  OBVIOUS
<1>10. h1[o] = k /\ \A a \in D : h1[a] = h[a]
  BY <1>3, <1>9
<1>11. Heights(D \cup {o}, M, tails1, h1)
  <2>1. h1 \in [D \cup {o} -> 1..M]
    BY <1>1, <1>6, <1>8, <1>9
  <2>2. ASSUME NEW j \in 1..M
        PROVE  tails1[j] \in D \cup {o} /\ h1[tails1[j]] = j
    <3>1. CASE j = k
      BY <1>7, <1>10, <3>1
    <3>2. CASE j # k
      <4>1. j \in 1..L /\ tails1[j] = tails[j]
        BY <1>6, <1>7, <3>2
      <4>2. tails[j] \in D /\ h[tails[j]] = j
        BY <1>1, <4>1
      <4> QED  BY <1>10, <4>1, <4>2
    <3> QED  BY <3>1, <3>2
  <2>3. tails1 \in [1..M -> D \cup {o}]
    BY <1>15, <2>2
  <2> QED  BY <2>1, <2>2, <2>3 DEF Heights
<1>12. Descending(D \cup {o}, pos, M, tails1, h1)
  <2>1. ASSUME NEW a \in D \cup {o}
        PROVE  pos[tails1[h1[a]]] <= pos[a]
    <3>1. CASE a = o
      BY <1>4, <1>5, <1>7, <1>10, <3>1
    <3>2. CASE a \in D /\ h[a] = k
      <4>1. k \in 1..L
        BY <1>1, <3>2
      <4>2. tails1[h1[a]] = o
        BY <1>7, <1>10, <3>2
      <4>3. pos[tails[k]] <= pos[a] /\ pos[tails[k]] >= x
        BY <1>2, <1>5, <3>2, <4>1
      <4>4. tails[k] \in D /\ pos[tails[k]] \in Nat /\ pos[a] \in Nat
        BY <1>1, <1>3, <3>2, <4>1
      <4> QED  BY <1>4, <1>5, <4>2, <4>3, <4>4
    <3>3. CASE a \in D /\ h[a] # k
      <4>1. h1[a] = h[a] /\ h[a] \in 1..M
        BY <1>1, <1>8, <1>10, <3>3
      <4>2. tails1[h[a]] = tails[h[a]]
        BY <1>7, <3>3, <4>1
      <4> QED  BY <1>2, <3>3, <4>1, <4>2
    <3> QED  BY <3>1, <3>2, <3>3
  <2>2. ASSUME NEW i \in 1..M, NEW j \in 1..M, i < j
        PROVE  pos[tails1[i]] < pos[tails1[j]]
    <3>1. CASE i # k /\ j # k
      BY <1>2, <1>6, <1>7, <2>2, <3>1
    <3>2. CASE j = k
      <4>1. i # k /\ i \in 1..(k - 1)
        BY <2>2, <3>2
      <4> QED  BY <1>4, <1>5, <1>7, <3>2, <4>1
    <3>3. CASE i = k
      <4>1. j # k /\ j \in 1..L
        BY <1>6, <2>2, <3>3
      <4>2. k \in 1..L
        BY <2>2, <3>3, <4>1
      <4>3. pos[tails[k]] < pos[tails[j]] /\ pos[tails[k]] >= x
        BY <1>2, <1>5, <2>2, <3>3, <4>1, <4>2
      <4>4. pos[tails[k]] \in Nat /\ pos[tails[j]] \in Nat
        BY <1>1, <1>3, <4>1, <4>2
      <4>5. x < pos[tails[j]]
        <5>1. PICK p, q : p = pos[tails[k]] /\ q = pos[tails[j]]
          OBVIOUS
        <5>2. p \in Nat /\ q \in Nat /\ x \in Nat /\ p < q /\ x <= p
          BY <1>5, <4>3, <4>4, <5>1
        <5>3. x < q
          BY <5>2
        <5> QED  BY <5>1, <5>3
      <4> QED  BY <1>4, <1>7, <3>3, <4>1, <4>5
    <3> QED  BY <3>1, <3>2, <3>3
  <2> QED  BY <2>1, <2>2 DEF Descending
<1>13. Linked(D \cup {o}, pos, prev1, h1)
  <2>1. ASSUME NEW a \in D
        PROVE  LinkedTo(D \cup {o}, pos, prev1, h1, a)
    <3>1. h1[a] = h[a] /\ prev1[a] = prev[a]
      BY <1>10, <1>16
    <3>2. LinkedTo(D, pos, prev, h, a)
      BY DEF Piled, Linked
    <3>3. prev[a] \in D => h1[prev[a]] = h[prev[a]]
      BY <1>10
    <3> QED  BY <3>1, <3>2, <3>3 DEF LinkedTo
  <2>2. LinkedTo(D \cup {o}, pos, prev1, h1, o)
    <3>1. CASE k = 1
      BY <1>10, <1>16, <3>1 DEF LinkedTo
    <3>2. CASE k # 1
      <4>1. PICK a : a = tails[k - 1]
        OBVIOUS
      <4>2. k - 1 \in 1..L /\ k - 1 \in 1..(k - 1)
        BY <1>5, <3>2
      <4>3. a \in D /\ h[a] = k - 1 /\ pos[a] < x
        BY <1>1, <1>5, <4>1, <4>2
      <4>4. prev1[o] = a /\ h1[a] = k - 1 /\ a < o
        BY <1>10, <1>16, <3>2, <4>1, <4>3
      <4> QED  BY <1>4, <1>10, <3>2, <4>3, <4>4 DEF LinkedTo
    <3> QED  BY <3>1, <3>2
  <2> QED  BY <2>1, <2>2 DEF Linked
<1>14. Rising(D \cup {o}, pos, h1)
  <2>1. ASSUME NEW a \in D \cup {o}, NEW b \in D \cup {o}, a < b, pos[a] < pos[b]
        PROVE  h1[a] < h1[b]
    <3>1. CASE a \in D /\ b \in D
      BY <1>10, <2>1, <3>1 DEF Piled, Rising
    <3>2. CASE a \in D /\ b = o
      <4>1. h1[a] = h[a] /\ h1[b] = k /\ h[a] \in 1..L
        BY <1>1, <1>10, <3>2
      <4>2. PICK t : t = tails[h[a]]
        OBVIOUS
      <4>3. t \in D /\ pos[t] \in Nat /\ pos[t] <= pos[a] /\ pos[a] \in Nat
        BY <1>1, <1>2, <1>3, <3>2, <4>1, <4>2
      <4>4. pos[t] < x
        BY <1>4, <1>5, <2>1, <3>2, <4>3
      <4>5. ASSUME k <= h[a]
            PROVE  FALSE
        <5>1. k \in 1..L /\ h[a] \in Nat
          BY <1>5, <4>1, <4>5
        <5>2. tails[k] \in D /\ pos[tails[k]] \in Nat /\ pos[tails[k]] >= x
          <6>1. tails[k] \in D /\ pos[tails[k]] \in Nat
            BY <1>1, <1>3, <5>1
          <6>2. k <= L
            BY <5>1
          <6> QED  BY <1>5, <6>1, <6>2
        <5>3. CASE k = h[a]
          <6>1. pos[t] \in Nat /\ pos[t] >= x /\ x \in Nat
            BY <1>5, <4>2, <5>2, <5>3
          <6> QED  BY <4>4, <6>1
        <5>4. CASE k < h[a]
          <6>1. pos[tails[k]] < pos[t]
            BY <1>2, <4>1, <4>2, <5>1, <5>4
          <6> QED  BY <1>5, <4>3, <4>4, <5>2, <6>1
        <5> QED  BY <4>5, <5>1, <5>3, <5>4
      <4> QED  BY <1>5, <4>1, <4>5
    <3>3. CASE a = o
      <4>1. o \in Nat /\ b \in Nat /\ ~(o < b)
        BY <1>3, <1>16
      <4> QED  BY <2>1, <3>3, <4>1
    <3> QED  BY <3>1, <3>2, <3>3
  <2> QED  BY <2>1 DEF Rising
<1> QED  BY <1>11, <1>12, <1>13, <1>14 DEF Piled

----------------------------------------------------------------------------
(* The new index of every anchored old one, and 0 of the others. *)
MateOf(was, now) ==
  [o \in DOMAIN was |-> IF o \in AnchoredOld(was, now) THEN Position(was, now, o) ELSE 0]

PileStates(was, now) ==
  LET anchored == AnchoredOld(was, now)
  IN  [tails : Seq(anchored),
       prev : {f \in [DOMAIN was -> anchored \cup {0}] :
                 \A a \in (DOMAIN was) \ anchored : f[a] = 0}]

PiledUp(was, now, D, p) ==
  \E h : Piled(D, MateOf(was, now), Len(p.tails), p.tails, p.prev, h)

(* MateOf are numbers. *)
LEMMA MateOfHolds ==
  ASSUME NEW S, NEW was \in Seq(S), NEW now \in Seq(S)
  PROVE  /\ DOMAIN was = 1..Len(was) /\ Len(was) \in Nat
         /\ AnchoredOld(was, now) \subseteq 1..Len(was)
         /\ MateOf(was, now) \in [1..Len(was) -> Nat]
         /\ \A o \in AnchoredOld(was, now) : MateOf(was, now)[o] = Position(was, now, o)
<1>1. /\ DOMAIN was = 1..Len(was) /\ Len(was) \in Nat
      /\ DOMAIN now = 1..Len(now) /\ Len(now) \in Nat
  BY LenProperties
<1>2. \A o \in AnchoredOld(was, now) : o \in DOMAIN was /\ Position(was, now, o) \in DOMAIN now
  BY PositionHolds DEF Anchors
<1> QED  BY <1>1, <1>2 DEF MateOf

(* The turn of longest_increasing for one anchor. *)
LEMMA PlacedHolds ==
  ASSUME NEW S, NEW was \in Seq(S), NEW now \in Seq(S),
         NEW o \in AnchoredOld(was, now), NEW p \in PileStates(was, now)
  PROVE  /\ Placed(was, now, p, o) \in PileStates(was, now)
         /\ \A D \in SUBSET AnchoredOld(was, now) :
              (\A a \in D : a < o) /\ PiledUp(was, now, D, p) =>
                PiledUp(was, now, D \cup {o}, Placed(was, now, p, o))
<1>1. PICK A, n, pos : A = AnchoredOld(was, now) /\ n = Len(was) /\ pos = MateOf(was, now)
  OBVIOUS
<1>2. /\ n \in Nat /\ DOMAIN was = 1..n /\ A \subseteq 1..n /\ pos \in [1..n -> Nat] /\ o \in A
      /\ \A a \in A : pos[a] = Position(was, now, a)
  BY <1>1, MateOfHolds
<1>3. PICK tails, prev, L : tails = p.tails /\ prev = p.prev /\ L = Len(tails)
  OBVIOUS
<1>4. /\ tails \in Seq(A) /\ prev \in [1..n -> A \cup {0}]
      /\ \A a \in (1..n) \ A : prev[a] = 0
  BY <1>1, <1>2, <1>3 DEF PileStates
<1>5. L \in Nat /\ tails \in [1..L -> A] /\ DOMAIN tails = 1..L
  BY <1>3, <1>4, LenProperties
<1>6. PICK tops, x, k : /\ tops = [j \in DOMAIN p.tails |-> Position(was, now, p.tails[j])]
                        /\ x = Position(was, now, o) /\ k = PileFor(tops, x)
  OBVIOUS
<1>7. /\ tops \in [1..L -> Nat] /\ x \in Nat /\ x = pos[o]
      /\ \A j \in 1..L : tops[j] = pos[tails[j]]
  <2>1. \A j \in 1..L : tails[j] \in A /\ Position(was, now, tails[j]) = pos[tails[j]]
                        /\ pos[tails[j]] \in Nat
    BY <1>2, <1>5
  <2>2. tops = [j \in 1..L |-> Position(was, now, tails[j])]
    BY <1>3, <1>5, <1>6
  <2>3. tops \in [1..L -> Nat] /\ \A j \in 1..L : tops[j] = pos[tails[j]]
    BY <2>1, <2>2
  <2>4. x = pos[o] /\ pos[o] \in Nat
    BY <1>2, <1>6
  <2> QED  BY <2>3, <2>4
<1>8. /\ k \in 1..(L + 1) /\ \A j \in 1..(k - 1) : tops[j] < x
      /\ k <= L => tops[k] >= x
  BY <1>5, <1>6, <1>7, PileForHolds
<1>9. PICK tails1, prev1 :
        /\ tails1 = (IF k > L THEN Append(tails, o) ELSE [tails EXCEPT ![k] = o])
        /\ prev1 = [prev EXCEPT ![o] = IF k = 1 THEN 0 ELSE tails[k - 1]]
  OBVIOUS
<1>10. Placed(was, now, p, o) = [tails |-> tails1, prev |-> prev1]
  BY <1>3, <1>6, <1>9 DEF Placed
<1>11. PICK M : M = IF k > L THEN L + 1 ELSE L
  OBVIOUS
<1>12. /\ tails1 \in Seq(A) /\ M \in Nat /\ Len(tails1) = M
       /\ tails1 = [j \in 1..M |-> IF j = k THEN o ELSE tails[j]]
  <2>1. CASE k > L
    <3>1. k = L + 1 /\ M = L + 1 /\ tails1 = Append(tails, o)
      BY <1>5, <1>8, <1>9, <1>11, <2>1
    <3>2. /\ tails1 \in Seq(A) /\ Len(tails1) = L + 1
          /\ \A j \in 1..L : tails1[j] = tails[j]
          /\ tails1[L + 1] = o
      BY <1>2, <1>3, <1>4, <3>1, AppendProperties
    <3>3. tails1 \in [1..(L + 1) -> A]
      BY <3>2, LenProperties
    <3>4. \A j \in 1..(L + 1) : tails1[j] = IF j = L + 1 THEN o ELSE tails[j]
      <4>1. \A j \in 1..(L + 1) : j # L + 1 => j \in 1..L
        BY <1>5
      <4> QED  BY <3>2, <4>1
    <3>5. tails1 = [j \in 1..(L + 1) |-> IF j = L + 1 THEN o ELSE tails[j]]
      BY <3>3, <3>4
    <3>6. tails1 \in Seq(A) /\ M \in Nat /\ Len(tails1) = M
      BY <1>5, <3>1, <3>2
    <3> QED  BY <3>1, <3>5, <3>6
  <2>2. CASE ~(k > L)
    <3>1. k \in 1..L /\ M = L /\ tails1 = [tails EXCEPT ![k] = o]
      BY <1>5, <1>8, <1>9, <1>11, <2>2
    <3>2. tails1 \in Seq(A) /\ Len(tails1) = L
      BY <1>2, <1>3, <1>4, <3>1, ExceptSeq
    <3> QED  BY <1>5, <3>1, <3>2
  <2> QED  BY <2>1, <2>2
<1>13. /\ prev1 \in [1..n -> A \cup {0}]
       /\ prev1[o] = (IF k = 1 THEN 0 ELSE tails[k - 1])
       /\ \A a \in 1..n : a # o => prev1[a] = prev[a]
       /\ \A a \in (1..n) \ A : prev1[a] = 0
  <2>1. (IF k = 1 THEN 0 ELSE tails[k - 1]) \in A \cup {0}
    <3>1. k # 1 => k - 1 \in 1..L
      BY <1>5, <1>8
    <3> QED  BY <1>5, <3>1
  <2> QED  BY <1>2, <1>4, <1>9, <2>1
<1>14. ASSUME NEW D \in SUBSET A, \A a \in D : a < o, PiledUp(was, now, D, p)
       PROVE  PiledUp(was, now, D \cup {o}, Placed(was, now, p, o))
  <2>1. PICK h : Piled(D, pos, L, tails, prev, h)
    BY <1>1, <1>3, <1>14 DEF PiledUp
  <2>2. Put(o, pos, L, tails, k, M, tails1)
    <3>1. \A j \in 1..(k - 1) : j \in 1..L
      BY <1>5, <1>8
    <3>2. k <= L => k \in 1..L
      BY <1>5, <1>8
    <3> QED  BY <1>7, <1>8, <1>11, <1>12, <3>1, <3>2 DEF Put
  <2>3. /\ D \in SUBSET (1..n) /\ o \in 1..n /\ k \in Nat
        /\ \A a \in D : prev1[a] = prev[a]
    <3>1. \A a \in D : a \in A /\ a \in 1..n /\ a # o
      BY <1>2, <1>14
    <3>2. D \in SUBSET (1..n) /\ o \in 1..n /\ k \in Nat
      BY <1>2, <1>5, <1>8
    <3> QED  BY <1>13, <3>1, <3>2
  <2>4. Link(D, o, tails, k, prev, prev1)
    BY <1>13, <1>14, <2>3 DEF Link
  <2>5. PICK h1 : Piled(D \cup {o}, pos, M, tails1, prev1, h1)
    <3>1. n \in Nat /\ pos \in [1..n -> Nat] /\ L \in Nat /\ M \in Nat
      BY <1>2, <1>5, <1>12
    <3> QED  BY <2>1, <2>2, <2>3, <2>4, <3>1, PutKeepsPiles
  <2>6. PICK q : q = Placed(was, now, p, o)
    OBVIOUS
  <2>7. q.tails = tails1 /\ q.prev = prev1 /\ Len(q.tails) = M
    BY <1>10, <1>12, <2>6
  <2>8. PiledUp(was, now, D \cup {o}, q)
    BY <1>1, <2>5, <2>7 DEF PiledUp
  <2> QED  BY <2>6, <2>8
<1>15. [tails |-> tails1, prev |-> prev1] \in PileStates(was, now)
  BY <1>1, <1>2, <1>12, <1>13 DEF PileStates
<1> QED  BY <1>1, <1>10, <1>14, <1>15

----------------------------------------------------------------------------
(* The piles after each old block, as longest_increasing has them. *)
NoPiles(was) == [tails |-> <<>>, prev |-> [a \in DOMAIN was |-> 0]]

NextPiles(was, now, before, o) ==
  IF o \in AnchoredOld(was, now) THEN Placed(was, now, before, o) ELSE before

PilesAfter(was, now) ==
  CHOOSE place : place = [o \in 0..Len(was) |->
    IF o = 0 THEN NoPiles(was) ELSE NextPiles(was, now, place[o - 1], o)]

(* Before the first anchor there is no pile. *)
LEMMA NoPilesHold ==
  ASSUME NEW S, NEW was \in Seq(S), NEW now \in Seq(S)
  PROVE  /\ NoPiles(was) \in PileStates(was, now)
         /\ PiledUp(was, now, {}, NoPiles(was))
<1>1. PICK A, tails, prev, n : /\ A = AnchoredOld(was, now) /\ tails = NoPiles(was).tails
                              /\ prev = NoPiles(was).prev /\ n = Len(tails)
  OBVIOUS
<1>2. /\ tails = <<>> /\ n = 0 /\ prev \in [DOMAIN was -> A \cup {0}]
      /\ \A a \in (DOMAIN was) \ A : prev[a] = 0
  BY <1>1 DEF NoPiles
<1>3. tails \in Seq(A)
  BY <1>2, EmptySeq
<1>4. NoPiles(was) \in PileStates(was, now)
  BY <1>1, <1>2, <1>3 DEF NoPiles, PileStates
<1>5. PICK h : h \in [{} -> 1..0]
  <2>1. [x \in {} |-> 0] \in [{} -> 1..0]
    OBVIOUS
  <2> QED  BY <2>1
<1>6. tails \in [1..n -> {}] /\ \A j \in 1..n : FALSE
  <2>1. \A j \in 1..n : FALSE
    BY <1>2
  <2>2. tails \in [1..n -> A]
    BY <1>1, <1>3, LenProperties
  <2> QED  BY <2>1, <2>2
<1>7. Piled({}, MateOf(was, now), n, tails, prev, h)
  BY <1>2, <1>5, <1>6 DEF Piled, Heights, Descending, Linked, Rising
<1> QED  BY <1>1, <1>4, <1>7 DEF PiledUp

(* There are such piles. *)
LEMMA PilesExist ==
  ASSUME NEW S, NEW was \in Seq(S), NEW now \in Seq(S),
         NEW f, f = PilesAfter(was, now)
  PROVE  f = [o \in 0..Len(was) |->
                IF o = 0 THEN NoPiles(was) ELSE NextPiles(was, now, f[o - 1], o)]
<1>1. PICK St, n, base : St = PileStates(was, now) /\ n = Len(was) /\ base = NoPiles(was)
  OBVIOUS
<1>2. n \in Nat /\ base \in St
  BY <1>1, NoPilesHold, LenProperties
<1>3. PICK step : step = [q \in Nat \X St |-> NextPiles(was, now, q[2], q[1])]
  OBVIOUS
<1>4. step \in [Nat \X St -> St]
  <2>1. ASSUME NEW o \in Nat, NEW p \in St
        PROVE  NextPiles(was, now, p, o) \in St
    <3>1. CASE o \in AnchoredOld(was, now)
      BY <1>1, <3>1, PlacedHolds DEF NextPiles
    <3>2. CASE o \notin AnchoredOld(was, now)
      BY <3>2 DEF NextPiles
    <3> QED  BY <3>1, <3>2
  <2> QED  BY <1>3, <2>1
<1>5. PICK g : RecursiveUpto(g, n, St, base, step)
  BY <1>2, <1>4, RecursionExists
<1>6. ASSUME NEW o \in 0..n
      PROVE  g[o] = IF o = 0 THEN NoPiles(was) ELSE NextPiles(was, now, g[o - 1], o)
  <2>1. CASE o = 0
    BY <1>1, <1>5, <2>1 DEF RecursiveUpto
  <2>2. CASE o # 0
    <3>1. o \in 1..n /\ o - 1 \in 0..n /\ o \in Nat
      BY <1>2, <2>2
    <3>2. PICK b : b = g[o - 1]
      OBVIOUS
    <3>3. b \in St /\ g[o] = step[<<o, b>>]
      BY <1>5, <3>1, <3>2 DEF RecursiveUpto
    <3>4. step[<<o, b>>] = NextPiles(was, now, b, o)
      BY <1>3, <3>1, <3>3
    <3> QED  BY <2>2, <3>2, <3>3, <3>4
  <2> QED  BY <2>1, <2>2
<1>7. g = [o \in 0..n |->
             IF o = 0 THEN NoPiles(was) ELSE NextPiles(was, now, g[o - 1], o)]
  <2>1. g \in [0..n -> St]
    BY <1>5 DEF RecursiveUpto
  <2> QED  BY <1>6, <2>1
<1> QED  BY <1>1, <1>7, Zenon DEF PilesAfter

(* All anchors are on the piles in the end. *)
LEMMA PilesHold ==
  ASSUME NEW S, NEW was \in Seq(S), NEW now \in Seq(S)
  PROVE  /\ Piles(was, now) \in PileStates(was, now)
         /\ PiledUp(was, now, AnchoredOld(was, now), Piles(was, now))
<1>1. PICK f, n, A : f = PilesAfter(was, now) /\ n = Len(was) /\ A = AnchoredOld(was, now)
  OBVIOUS
<1>2. n \in Nat /\ A \subseteq 1..n
  BY <1>1, MateOfHolds
<1>9. \A a \in A : a \in Nat /\ a # 0 /\ a <= n
  BY <1>2
<1>3. f[0] = NoPiles(was) /\ \A o \in 1..n : f[o] = NextPiles(was, now, f[o - 1], o)
  <2>1. f = [o \in 0..n |->
               IF o = 0 THEN NoPiles(was) ELSE NextPiles(was, now, f[o - 1], o)]
    BY <1>1, PilesExist
  <2>2. 0 \in 0..n /\ \A o \in 1..n : o \in 0..n /\ o # 0
    BY <1>2
  <2> QED  BY <2>1, <2>2
<1> DEFINE placed == {o \in Nat : o <= n => /\ f[o] \in PileStates(was, now)
                                             /\ PiledUp(was, now, {a \in A : a <= o}, f[o])}
<1>4. 0 \in placed
  <2>1. {a \in A : a <= 0} = {}
    BY <1>9
  <2> QED  BY <1>3, <2>1, NoPilesHold
<1>5. ASSUME NEW o \in Nat, o \in placed
      PROVE  o + 1 \in placed
  <2>1. SUFFICES ASSUME o + 1 <= n
                 PROVE  /\ f[o + 1] \in PileStates(was, now)
                        /\ PiledUp(was, now, {a \in A : a <= o + 1}, f[o + 1])
    OBVIOUS
  <2>2. PICK p, D : p = f[o] /\ D = {a \in A : a <= o}
    OBVIOUS
  <2>3. p \in PileStates(was, now) /\ PiledUp(was, now, D, p)
    BY <1>2, <1>5, <2>1, <2>2
  <2>4. f[o + 1] = NextPiles(was, now, p, o + 1)
    <3>1. o + 1 \in 1..n /\ (o + 1) - 1 = o
      BY <1>2, <2>1
    <3> QED  BY <1>3, <2>2, <3>1
  <2>5. CASE o + 1 \in A
    <3>1. {a \in A : a <= o + 1} = D \cup {o + 1} /\ D \in SUBSET A
      <4>1. \A a \in A : a <= o + 1 <=> a <= o \/ a = o + 1
        BY <1>9
      <4> QED  BY <2>2, <2>5, <4>1
    <3>2. \A a \in D : a < o + 1
      BY <1>2, <2>2
    <3>3. PICK q : q = Placed(was, now, p, o + 1)
      OBVIOUS
    <3>4. q \in PileStates(was, now) /\ PiledUp(was, now, D \cup {o + 1}, q)
      BY <1>1, <2>3, <2>5, <3>1, <3>2, <3>3, PlacedHolds
    <3>5. f[o + 1] = q
      BY <1>1, <2>4, <2>5, <3>3 DEF NextPiles
    <3> QED  BY <3>1, <3>4, <3>5
  <2>6. CASE o + 1 \notin A
    <3>1. {a \in A : a <= o + 1} = D
      <4>1. \A a \in A : a <= o + 1 <=> a <= o
        BY <1>9, <2>6
      <4> QED  BY <2>2, <4>1
    <3>2. f[o + 1] = p
      BY <1>1, <2>4, <2>6 DEF NextPiles
    <3> QED  BY <2>3, <3>1, <3>2
  <2> QED  BY <2>5, <2>6
<1>6. n \in placed
  <2> HIDE DEF placed
  <2> QED  BY <1>2, <1>4, <1>5, Induction
<1>7. {a \in A : a <= n} = A
  BY <1>9
<1>8. Piles(was, now) = f[n]
  BY <1>1, Zenon DEF Piles, PilesAfter, NoPiles, NextPiles
<1>10. f[n] \in PileStates(was, now) /\ PiledUp(was, now, A, f[n])
  <2>1. n <= n
    BY <1>2
  <2> QED  BY <1>6, <1>7, <2>1
<1> QED  BY <1>1, <1>8, <1>10

----------------------------------------------------------------------------
(* The way back from each anchor along the links, as the spine takes it. *)
WayBack(prev, n) ==
  CHOOSE chain : chain = [o \in 0..n |->
    IF o = 0 THEN {} ELSE {o} \cup chain[prev[o]]]

GoesBack(n, prev, c) == c[0] = {} /\ \A o \in 1..n : c[o] = {o} \cup c[prev[o]]

(* When links lead back, there is one. *)
LEMMA WayBackExists ==
  ASSUME NEW n \in Nat, NEW prev, \A o \in 1..n : prev[o] \in 0..(o - 1),
         NEW c, c = WayBack(prev, n)
  PROVE  GoesBack(n, prev, c)
<1> DEFINE upto(k, f) ==
      f = [o \in 0..k |-> IF o = 0 THEN {} ELSE {o} \cup f[prev[o]]]
    done == {k \in Nat : k <= n => \E f : upto(k, f)}
<1>1. 0 \in done
  <2>1. upto(0, [o \in 0..0 |-> {}])
    OBVIOUS
  <2> QED  BY <2>1
<1>2. ASSUME NEW k \in Nat, k \in done
      PROVE  k + 1 \in done
  <2>1. SUFFICES ASSUME k + 1 <= n PROVE \E f : upto(k + 1, f)
    OBVIOUS
  <2>2. PICK f : upto(k, f)
    BY <1>2, <2>1
  <2>3. PICK g : g = [o \in 0..(k + 1) |->
                        IF o = k + 1 THEN {o} \cup f[prev[o]] ELSE f[o]]
    OBVIOUS
  <2>4. ASSUME NEW o \in 0..(k + 1)
        PROVE  g[o] = IF o = 0 THEN {} ELSE {o} \cup g[prev[o]]
    <3>1. CASE o = 0
      BY <2>2, <2>3, <3>1
    <3>2. CASE o # 0
      <4>1. PICK b : b = prev[o]
        OBVIOUS
      <4>2. o \in 1..n /\ b \in 0..(o - 1)
        BY <2>1, <3>2, <4>1
      <4>3. b \in 0..k /\ b # k + 1 /\ b \in 0..(k + 1)
        BY <4>2
      <4>4. g[b] = f[b]
        BY <2>3, <4>3
      <4>5. CASE o = k + 1
        BY <2>3, <3>2, <4>1, <4>4, <4>5
      <4>6. CASE o # k + 1
        <5>1. o \in 0..k /\ g[o] = f[o]
          BY <2>3, <4>6
        <5> QED  BY <2>2, <3>2, <4>1, <4>4, <5>1
      <4> QED  BY <4>5, <4>6
    <3> QED  BY <3>1, <3>2
  <2>5. upto(k + 1, g)
    BY <2>3, <2>4
  <2> QED  BY <2>5
<1>3. n \in done
  <2> HIDE DEF done
  <2> QED  BY <1>1, <1>2, Induction
<1>4. \E f : upto(n, f)
  BY <1>3
<1>5. c = [o \in 0..n |-> IF o = 0 THEN {} ELSE {o} \cup c[prev[o]]]
  BY <1>4, Zenon DEF WayBack
<1>6. 0 \in 0..n /\ \A o \in 1..n : o \in 0..n /\ o # 0
  OBVIOUS
<1> QED  BY <1>5, <1>6 DEF GoesBack

(* The way back from a: as long as its pile is high, and increasing. *)
Way(A, pos, h, c, a) ==
  /\ a \in c[a] /\ c[a] \subseteq A
  /\ IsFiniteSet(c[a]) /\ Cardinality(c[a]) = h[a]
  /\ \A b \in c[a] : b <= a /\ pos[b] <= pos[a]
  /\ \A b, d \in c[a] : b < d => pos[b] < pos[d]

WaysBack(A, pos, h, c) == \A a \in A : Way(A, pos, h, c, a)

(* One step further back. *)
LEMMA OneBack ==
  ASSUME NEW n \in Nat, NEW A \in SUBSET (1..n), NEW pos \in [1..n -> Nat],
         NEW h \in [A -> Nat], NEW prev, NEW c, NEW a \in A,
         LinkedTo(A, pos, prev, h, a),
         c[0] = {}, c[a] = {a} \cup c[prev[a]],
         h[a] # 1 => Way(A, pos, h, c, prev[a])
  PROVE  Way(A, pos, h, c, a)
<1>1. /\ a \in Nat /\ pos[a] \in Nat /\ h[a] \in Nat
      /\ \A b \in A : b \in Nat /\ pos[b] \in Nat
  OBVIOUS
<1>2. CASE h[a] = 1
  <2>1. c[a] = {a}
    BY <1>2 DEF LinkedTo
  <2>2. IsFiniteSet({a}) /\ Cardinality({a}) = 1
    BY FS_Singleton
  <2>3. a <= a /\ pos[a] <= pos[a] /\ ~(a < a)
    BY <1>1
  <2>4. /\ \A b \in c[a] : b <= a /\ pos[b] <= pos[a]
        /\ \A b, d \in c[a] : b < d => pos[b] < pos[d]
    BY <2>1, <2>3
  <2>5. a \in c[a] /\ c[a] \subseteq A /\ IsFiniteSet(c[a]) /\ Cardinality(c[a]) = h[a]
    BY <1>2, <2>1, <2>2
  <2> QED  BY <2>4, <2>5 DEF Way
<1>3. CASE h[a] # 1
  <2>1. PICK b, r : b = prev[a] /\ r = c[b]
    OBVIOUS
  <2>2. b \in A /\ b < a /\ pos[b] < pos[a] /\ h[b] = h[a] - 1 /\ c[a] = {a} \cup r
    BY <1>3, <2>1 DEF LinkedTo
  <2>3. /\ r \subseteq A /\ IsFiniteSet(r) /\ Cardinality(r) = h[b]
        /\ \A d \in r : d <= b /\ pos[d] <= pos[b]
        /\ \A d, e \in r : d < e => pos[d] < pos[e]
    BY <1>3, <2>1 DEF Way
  <2>4. \A d \in r : d < a /\ pos[d] < pos[a]
    <3>1. b \in Nat /\ pos[b] \in Nat
      BY <1>1, <2>2
    <3>2. ASSUME NEW d \in r
          PROVE  d < a /\ pos[d] < pos[a]
      <4>1. d \in Nat /\ pos[d] \in Nat /\ d <= b /\ pos[d] <= pos[b]
        BY <1>1, <2>3
      <4> QED  BY <1>1, <2>2, <3>1, <4>1
    <3> QED  BY <3>2
  <2>5. a \notin r
    BY <1>1, <2>4
  <2>6. IsFiniteSet(r \cup {a}) /\ Cardinality(r \cup {a}) = h[a]
    <3>1. IsFiniteSet(r \cup {a}) /\ Cardinality(r \cup {a}) = Cardinality(r) + 1
      BY <2>3, <2>5, FS_AddElement
    <3>2. h[b] \in Nat
      BY <2>2
    <3> QED  BY <1>1, <2>2, <2>3, <3>1, <3>2
  <2>7. c[a] = r \cup {a}
    BY <2>2
  <2>8. \A d \in c[a] : d <= a /\ pos[d] <= pos[a]
    <3>1. ASSUME NEW d \in r
          PROVE  d <= a /\ pos[d] <= pos[a]
      <4>1. d \in Nat /\ pos[d] \in Nat /\ d < a /\ pos[d] < pos[a]
        BY <1>1, <2>3, <2>4
      <4> QED  BY <1>1, <4>1
    <3>2. a <= a /\ pos[a] <= pos[a]
      BY <1>1
    <3> QED  BY <2>7, <3>1, <3>2
  <2>9. ASSUME NEW d \in c[a], NEW e \in c[a], d < e
        PROVE  pos[d] < pos[e]
    <3>1. CASE d \in r /\ e \in r
      BY <2>3, <2>9, <3>1
    <3>2. CASE d \in r /\ e = a
      BY <2>4, <3>2
    <3>3. CASE d = a
      <4>1. e <= a /\ e \in Nat
        BY <1>1, <2>3, <2>7, <2>8
      <4> QED  BY <1>1, <2>9, <3>3, <4>1
    <3> QED  BY <2>7, <3>1, <3>2, <3>3
  <2> QED  BY <2>3, <2>6, <2>7, <2>8, <2>9 DEF Way
<1> QED  BY <1>2, <1>3

(* And so all the way. *)
LEMMA WayBackHolds ==
  ASSUME NEW n \in Nat, NEW A \in SUBSET (1..n), NEW pos \in [1..n -> Nat],
         NEW h \in [A -> Nat], NEW prev, Linked(A, pos, prev, h), NEW c,
         GoesBack(n, prev, c)
  PROVE  WaysBack(A, pos, h, c)
<1> DEFINE back == {k \in Nat : \A a \in A : a <= k => Way(A, pos, h, c, a)}
<1>1. 0 \in back
  OBVIOUS
<1>2. ASSUME NEW k \in Nat, k \in back
      PROVE  k + 1 \in back
  <2>1. ASSUME NEW a \in A, a <= k + 1
        PROVE  Way(A, pos, h, c, a)
    <3>1. LinkedTo(A, pos, prev, h, a) /\ c[a] = {a} \cup c[prev[a]]
      BY DEF Linked, GoesBack
    <3>2. ASSUME h[a] # 1
          PROVE  Way(A, pos, h, c, prev[a])
      <4>1. PICK b : b = prev[a]
        OBVIOUS
      <4>2. b \in A /\ b < a
        BY <3>1, <3>2, <4>1 DEF LinkedTo
      <4>3. b \in Nat /\ a \in Nat
        BY <4>2
      <4>4. b <= k
        BY <2>1, <4>2, <4>3
      <4> QED  BY <1>2, <4>1, <4>2, <4>4
    <3>3. c[0] = {} /\ h \in [A -> Nat]
      BY DEF GoesBack
    <3> QED  BY <3>1, <3>2, <3>3, OneBack
  <2>2. k + 1 \in Nat
    OBVIOUS
  <2>3. \A a \in A : a <= k + 1 => Way(A, pos, h, c, a)
    BY <2>1, Zenon
  <2> QED  BY <2>2, <2>3, Zenon
<1>3. n \in back
  <2> HIDE DEF back
  <2> QED  BY <1>1, <1>2, Induction
<1> QED  BY <1>3 DEF WaysBack

----------------------------------------------------------------------------
Ascending(was, now, S) ==
  \A a, b \in S : a < b => Position(was, now, a) < Position(was, now, b)

(* No increasing set has more anchors than there are piles. *)
LEMMA NoneIsLonger ==
  ASSUME NEW n \in Nat, NEW A \in SUBSET (1..n), NEW pos, NEW h,
         NEW L \in Nat, h \in [A -> 1..L], Rising(A, pos, h),
         NEW S \in SUBSET A, \A a, b \in S : a < b => pos[a] < pos[b]
  PROVE  Cardinality(S) <= L
<1>1. PICK f : f = [a \in S |-> h[a]]
  OBVIOUS
<1>2. f \in Injection(S, 1..L)
  <2>1. f \in [S -> 1..L]
    BY <1>1
  <2>2. ASSUME NEW a \in S, NEW b \in S, f[a] = f[b]
        PROVE  a = b
    <3>1. h[a] = h[b] /\ h[a] \in Nat /\ a \in Nat /\ b \in Nat /\ a \in A /\ b \in A
      BY <1>1, <2>2
    <3>2. ~(h[a] < h[b]) /\ ~(h[b] < h[a])
      BY <3>1
    <3>3. ~(a < b) /\ ~(b < a)
      BY <3>1, <3>2 DEF Rising
    <3> QED  BY <3>1, <3>3
  <2> QED  BY <2>1, <2>2 DEF Injection, IsInjective
<1>3. IsFiniteSet(1..L) /\ Cardinality(1..L) = L
  <2>1. 1 \in Int /\ L \in Int
    OBVIOUS
  <2>2. IsFiniteSet(1..L) /\ Cardinality(1..L) = IF 1 > L THEN 0 ELSE L - 1 + 1
    BY <2>1, FS_Interval
  <2> QED  BY <2>2
<1> QED  BY <1>2, <1>3, FS_Injection

(***************************************************************************)
(* The spine is increasing in both documents, and no longer set of anchors *)
(* is: each of its anchors is on a pile of its own, the last on the last,  *)
(* and an increasing set has at most one anchor on each.                   *)
(***************************************************************************)
LEMMA SpineHolds ==
  ASSUME NEW T, NEW was \in Seq(T), NEW now \in Seq(T)
  PROVE  /\ Spine(was, now) \subseteq AnchoredOld(was, now)
         /\ Ascending(was, now, Spine(was, now))
         /\ \A S \in SUBSET AnchoredOld(was, now) :
              Ascending(was, now, S) => Cardinality(S) <= Cardinality(Spine(was, now))
<1>1. PICK A, n, pos, p : /\ A = AnchoredOld(was, now) /\ n = Len(was)
                          /\ pos = MateOf(was, now) /\ p = Piles(was, now)
  OBVIOUS
<1>2. /\ n \in Nat /\ DOMAIN was = 1..n /\ A \in SUBSET (1..n) /\ pos \in [1..n -> Nat]
      /\ \A a \in A : pos[a] = Position(was, now, a)
  BY <1>1, MateOfHolds
<1>3. PICK tails, prev, L : tails = p.tails /\ prev = p.prev /\ L = Len(tails)
  OBVIOUS
<1>4. PICK h : Piled(A, pos, L, tails, prev, h)
  BY <1>1, <1>3, PilesHold DEF PiledUp
<1>5. /\ tails \in Seq(A) /\ prev \in [1..n -> A \cup {0}]
      /\ \A a \in (1..n) \ A : prev[a] = 0
  <2>1. p \in PileStates(was, now)
    BY <1>1, PilesHold
  <2> QED  BY <1>1, <1>2, <1>3, <2>1 DEF PileStates
<1>6. /\ L \in Nat /\ tails \in [1..L -> A] /\ (L = 0 <=> tails = <<>>)
      /\ h \in [A -> 1..L] /\ \A j \in 1..L : h[tails[j]] = j
  <2>1. L \in Nat /\ (L = 0 <=> tails = <<>>)
    BY <1>3, <1>5, EmptySeq
  <2> QED  BY <1>4, <2>1 DEF Piled, Heights
<1>7. Linked(A, pos, prev, h) /\ Rising(A, pos, h)
  BY <1>4 DEF Piled
<1>8. PICK c : c = WayBack(prev, n)
  OBVIOUS
<1>9. GoesBack(n, prev, c)
  <2>1. ASSUME NEW o \in 1..n
        PROVE  prev[o] \in 0..(o - 1)
    <3>1. CASE o \in A
      <4>1. prev[o] = 0 \/ (prev[o] \in A /\ prev[o] < o)
        BY <1>7, <3>1 DEF Linked, LinkedTo
      <4>2. prev[o] \in A => prev[o] \in 1..n
        BY <1>2
      <4> QED  BY <4>1, <4>2
    <3>2. CASE o \notin A
      BY <1>5, <3>2
    <3> QED  BY <3>1, <3>2
  <2> QED  BY <1>2, <1>8, <2>1, WayBackExists
<1>10. \A a \in A : Way(A, pos, h, c, a)
  <2>1. h \in [A -> Nat]
    BY <1>6
  <2>2. WaysBack(A, pos, h, c)
    BY <1>2, <1>7, <1>9, <2>1, WayBackHolds
  <2> QED  BY <2>2 DEF WaysBack
<1>11. PICK spine : spine = Spine(was, now)
  OBVIOUS
<1>12. spine = IF tails = <<>> THEN {} ELSE c[tails[L]]
  <2>1. Spine(was, now) =
          IF Piles(was, now).tails = <<>> THEN {}
          ELSE WayBack(Piles(was, now).prev, Len(was))
                 [Piles(was, now).tails[Len(Piles(was, now).tails)]]
    BY Zenon DEF Spine, WayBack
  <2> QED  BY <1>1, <1>3, <1>8, <1>11, <2>1
<1>13. /\ spine \subseteq A /\ Cardinality(spine) = L
       /\ \A b, d \in spine : b < d => pos[b] < pos[d]
  <2>1. CASE L = 0
    <3>1. spine = {} /\ Cardinality({}) = 0
      BY <1>6, <1>12, <2>1, FS_EmptySet
    <3> QED  BY <2>1, <3>1
  <2>2. CASE L # 0
    <3>1. PICK t : t = tails[L]
      OBVIOUS
    <3>2. L \in 1..L
      BY <1>6, <2>2
    <3>3. t \in A /\ h[t] = L /\ spine = c[t]
      BY <1>6, <1>12, <2>2, <3>1, <3>2
    <3> QED  BY <1>10, <3>3 DEF Way
  <2> QED  BY <2>1, <2>2
<1>14. Ascending(was, now, spine)
  BY <1>2, <1>13 DEF Ascending
<1>15. ASSUME NEW S \in SUBSET A, Ascending(was, now, S)
       PROVE  Cardinality(S) <= Cardinality(spine)
  <2>1. \A a, b \in S : a < b => pos[a] < pos[b]
    BY <1>2, <1>15 DEF Ascending
  <2> QED  BY <1>2, <1>6, <1>7, <1>13, <2>1, NoneIsLonger
<1> QED  BY <1>1, <1>11, <1>13, <1>14, <1>15

----------------------------------------------------------------------------
NthKept(doc, k) ==
  CHOOSE i \in Kept(doc) : Cardinality({j \in Kept(doc) : j <= i}) = k

(* Each block that is kept has its own place. *)
LEMMA NthKeptHolds ==
  ASSUME NEW doc \in Seq(Block)
  PROVE  /\ Cardinality(Kept(doc)) \in Nat
         /\ \A k \in 1..Cardinality(Kept(doc)) : NthKept(doc, k) \in Kept(doc)
<1>1. PICK kept, n : kept = Kept(doc) /\ n = Cardinality(kept)
  OBVIOUS
<1>2. DOMAIN doc = 1..Len(doc) /\ Len(doc) \in Nat /\ \A i \in DOMAIN doc : doc[i] \in Block
  BY LenProperties, ElementOfSeq
<1>3. kept \subseteq 1..Len(doc) /\ IsFiniteSet(kept) /\ n \in Nat
  <2>1. 1 \in Int /\ Len(doc) \in Int
    BY <1>2
  <2>2. IsFiniteSet(1..Len(doc))
    BY <2>1, FS_Interval
  <2>3. kept \subseteq 1..Len(doc)
    BY <1>1, <1>2 DEF Kept
  <2> QED  BY <1>1, <2>2, <2>3, FS_Subset, FS_CardinalityType
<1>4. PICK R : R = {q \in kept \X kept : q[1] < q[2]}
  OBVIOUS
<1>5. StrictOrder(R, kept)
  <2>1. \A x, y \in kept : <<x, y>> \in R <=> x < y
    BY <1>4
  <2>2. \A x \in kept : x \in Nat
    BY <1>2, <1>3
  <2> QED  BY <2>1, <2>2 DEF StrictOrder
<1>6. /\ \A x \in kept : Cardinality(Before(R, kept, x)) \in 0..(n - 1)
      /\ \A x, y \in kept :
           Cardinality(Before(R, kept, x)) = Cardinality(Before(R, kept, y)) => x = y
      /\ \A k \in 1..n : \E x \in kept : Cardinality(Before(R, kept, x)) = k - 1
  BY <1>1, <1>3, <1>5, OneOfEachRank
<1>7. ASSUME NEW i \in kept
      PROVE  Cardinality({j \in kept : j <= i}) = Cardinality(Before(R, kept, i)) + 1
  <2>1. PICK b : b = Before(R, kept, i)
    OBVIOUS
  <2>2. \A j \in kept : j \in b <=> j < i
    BY <1>4, <2>1 DEF Before
  <2>3. b \subseteq kept /\ i \notin b
    <3>1. ~(i < i)
      BY <1>2, <1>3
    <3> QED  BY <2>1, <2>2, <3>1 DEF Before
  <2>4. {j \in kept : j <= i} = b \cup {i}
    <3>1. \A j \in kept : j <= i <=> j < i \/ j = i
      BY <1>2, <1>3
    <3> QED  BY <2>2, <2>3, <3>1
  <2>5. IsFiniteSet(b)
    BY <1>3, <2>3, FS_Subset
  <2> QED  BY <2>1, <2>3, <2>4, <2>5, FS_AddElement
<1>8. ASSUME NEW k \in 1..n
      PROVE  NthKept(doc, k) \in kept
  <2>1. PICK i \in kept : Cardinality(Before(R, kept, i)) = k - 1
    BY <1>6
  <2>2. Cardinality({j \in kept : j <= i}) = k
    <3>1. Cardinality({j \in kept : j <= i}) = Cardinality(Before(R, kept, i)) + 1
      BY <1>7
    <3> QED  BY <2>1, <3>1
  <2> QED  BY <1>1, <2>2, Zenon DEF NthKept
<1> QED  BY <1>1, <1>3, <1>8

(* So that masking leaves a document. *)
LEMMA MaskedHolds ==
  ASSUME NEW doc \in Seq(Block)
  PROVE  Masked(doc) \in Seq(Block)
<1>1. PICK kept, n : kept = Kept(doc) /\ n = Cardinality(kept)
  OBVIOUS
<1>2. DOMAIN doc = 1..Len(doc) /\ Len(doc) \in Nat /\ \A i \in DOMAIN doc : doc[i] \in Block
  BY LenProperties, ElementOfSeq
<1>3. kept \subseteq 1..Len(doc) /\ n \in Nat
  BY <1>1, <1>2, NthKeptHolds DEF Kept
<1>4. \A k \in 1..n : NthKept(doc, k) \in kept
  BY <1>1, NthKeptHolds
<1>5. ASSUME NEW b \in Block
      PROVE  MaskOne(b) \in Block
  BY MaskAssumption DEF MaskOne, Block
<1>6. PICK m : m = [k \in 1..n |-> MaskOne(doc[NthKept(doc, k)])]
  OBVIOUS
<1>7. m \in [1..n -> Block]
  <2>1. ASSUME NEW k \in 1..n
        PROVE  MaskOne(doc[NthKept(doc, k)]) \in Block
    BY <1>2, <1>3, <1>4, <1>5
  <2> QED  BY <1>6, <2>1
<1>8. Masked(doc) = m
  <2>1. Masked(doc) = [k \in 1..Cardinality(Kept(doc)) |-> MaskOne(doc[NthKept(doc, k)])]
    BY Zenon DEF Masked, Kept, NthKept
  <2> QED  BY <1>1, <1>6, <2>1
<1>9. m \in Seq(Block)
  BY <1>3, <1>7, SeqDef
<1> QED  BY <1>8, <1>9

----------------------------------------------------------------------------
(* What is still to be done, phase by phase. *)
PendingOld ==
  CASE phase = "align"                -> DOMAIN old
    [] phase = "anchors"              -> todo \cup OldResidual(old, new)
    [] phase \in {"same", "similar"}  -> OldResidual(old, new) \ oldDone
    [] phase = "removed"              -> todo
    [] OTHER                          -> {}

PendingNew ==
  CASE phase = "align"                -> DOMAIN new
    [] phase = "anchors"              ->
         {p[2] : p \in {q \in Anchors(old, new) : q[1] \in todo}}
           \cup NewResidual(old, new)
    [] phase \in {"same", "similar", "removed"} -> NewResidual(old, new) \ newDone
    [] phase = "added"                -> todo
    [] OTHER                          -> {}

(* The units that blocks of the two documents can have. *)
Drafts ==
  {Unit(ct, o, n, moved) : ct \in ChangeTypes, o \in {0} \cup DOMAIN old,
                           n \in {0} \cup DOMAIN new, moved \in BOOLEAN}

Told(field) == {units[i][field] : i \in DOMAIN units}

OldUnchanged == {o \in DOMAIN old : \E n \in DOMAIN new : Unchanged(o, n)}
NewUnchanged == {n \in DOMAIN new : \E o \in DOMAIN old : Unchanged(o, n)}

Shape ==
  /\ phase \in Phases
  /\ 0 \notin DOMAIN old /\ 0 \notin DOMAIN new
  /\ units \in Seq(Drafts)

(* What each loop finds. *)
Handed ==
  /\ phase = "anchors" => todo \subseteq AnchoredOld(old, new)
  /\ phase \in {"align", "anchors"} => oldDone = {} /\ newDone = {}
  /\ phase = "same" => todo \subseteq OldResidual(old, new) \ oldDone
  /\ scored \subseteq OldResidual(old, new) \X NewResidual(old, new)
  /\ PendingOld \subseteq DOMAIN old
  /\ PendingNew \subseteq DOMAIN new

(* Pending blocks are in no unit; the others are in one or unchanged. *)
Covered ==
  /\ Told("oi") \cap PendingOld = {}
  /\ Told("ni") \cap PendingNew = {}
  /\ phase # "done" =>
       /\ DOMAIN old \subseteq Told("oi") \cup OldUnchanged \cup PendingOld
       /\ DOMAIN new \subseteq Told("ni") \cup NewUnchanged \cup PendingNew

Core == Shape /\ Covered /\ EachBlockOnce

Inv == Core /\ Handed

----------------------------------------------------------------------------
(* Masking leaves a sequence of blocks: none has the index 0. *)
LEMMA MaskedDomain ==
  ASSUME NEW doc \in Doc
  PROVE  0 \notin DOMAIN Masked(doc)
<1> DEFINE kept == Kept(doc)
<1>1. DOMAIN doc = 1..Len(doc) /\ Len(doc) \in Nat
  BY LenProperties DEF Doc
<1>2. Len(doc) \in Int /\ 1 \in Int
  BY <1>1
<1>3. IsFiniteSet(1..Len(doc))
  BY <1>2, FS_Interval
<1>4. IsFiniteSet(kept)
  BY <1>1, <1>3, FS_Subset DEF Kept
<1>5. Cardinality(kept) \in Nat
  BY <1>4, FS_CardinalityType
<1>6. DOMAIN Masked(doc) = 1..Cardinality(kept)
  BY DEF Masked
<1> HIDE DEF kept
<1> QED  BY <1>5, <1>6

(* The fields of a draft. *)
LEMMA DraftFields ==
  ASSUME NEW u \in Drafts
  PROVE  u.oi \in {0} \cup DOMAIN old /\ u.ni \in {0} \cup DOMAIN new
BY DEF Drafts, Unit

(* What a unit in a sequence adds to what is told. *)
LEMMA ToldAppend ==
  ASSUME NEW s \in Seq(Drafts), NEW u \in Drafts, NEW t, t = Append(s, u)
  PROVE  /\ t \in Seq(Drafts)
         /\ DOMAIN t = DOMAIN s \cup {Len(s) + 1}
         /\ Len(s) + 1 \notin DOMAIN s
         /\ \A i \in DOMAIN s : t[i] = s[i]
         /\ t[Len(s) + 1] = u
BY AppendProperties, LenProperties

----------------------------------------------------------------------------
(* A step that tells a unit of pending blocks, and takes these off. *)
LEMMA StepTells ==
  ASSUME Core, UNCHANGED <<old, new>>, phase' \in Phases, phase # "done",
         NEW u \in Drafts, units' = Append(units, u),
         u.oi \in PendingOld \cup {0}, u.ni \in PendingNew \cup {0},
         PendingOld' = PendingOld \ {u.oi}, PendingNew' = PendingNew \ {u.ni},
         0 \notin PendingOld, 0 \notin PendingNew
  PROVE  Core'
<1> DEFINE k == Len(units) + 1
<1>1. /\ units' \in Seq(Drafts)
      /\ DOMAIN units' = DOMAIN units \cup {k}
      /\ k \notin DOMAIN units
      /\ \A i \in DOMAIN units : units'[i] = units[i]
      /\ units'[k] = u
  BY ToldAppend DEF Core, Shape
<1> HIDE DEF k
<1>2. Drafts' = Drafts
  BY DEF Drafts, Unit
<1>3. Shape'
  BY <1>1, <1>2 DEF Core, Shape
<1>4. Told("oi")' = Told("oi") \cup {u.oi} /\ Told("ni")' = Told("ni") \cup {u.ni}
  BY <1>1 DEF Told
<1>5. OldUnchanged' = OldUnchanged /\ NewUnchanged' = NewUnchanged
  BY DEF OldUnchanged, NewUnchanged, Unchanged
<1>6. Covered'
  BY <1>4, <1>5 DEF Core, Covered
<1>7. EachBlockOnce'
  <2> SUFFICES ASSUME NEW i \in DOMAIN units', NEW j \in DOMAIN units', i # j
               PROVE  /\ units'[i].oi # 0 => units'[i].oi # units'[j].oi
                      /\ units'[i].ni # 0 => units'[i].ni # units'[j].ni
    BY DEF EachBlockOnce
  <2>1. \A m \in DOMAIN units : units[m].oi \notin PendingOld /\ units[m].ni \notin PendingNew
    BY DEF Core, Covered, Told
  <2>2. CASE i \in DOMAIN units /\ j \in DOMAIN units
    BY <1>1, <2>2 DEF Core, EachBlockOnce
  <2>3. CASE i = k \/ j = k
    BY <1>1, <2>1, <2>3
  <2> QED  BY <1>1, <2>2, <2>3
<1> QED  BY <1>3, <1>6, <1>7 DEF Core

(* A step that tells nothing; what it takes off the pending is unchanged. *)
LEMMA StepSilent ==
  ASSUME Core, UNCHANGED <<old, new, units>>, phase' \in Phases,
         phase = "done" => phase' = "done",
         PendingOld' \subseteq PendingOld, PendingNew' \subseteq PendingNew,
         phase' # "done" =>
           /\ PendingOld \subseteq PendingOld' \cup OldUnchanged
           /\ PendingNew \subseteq PendingNew' \cup NewUnchanged
  PROVE  Core'
<1>1. Drafts' = Drafts
  BY DEF Drafts, Unit
<1>2. Shape'
  BY <1>1 DEF Core, Shape
<1>3. Told("oi")' = Told("oi") /\ Told("ni")' = Told("ni")
  BY DEF Told
<1>4. OldUnchanged' = OldUnchanged /\ NewUnchanged' = NewUnchanged
  BY DEF OldUnchanged, NewUnchanged, Unchanged
<1>5. Covered'
  BY <1>3, <1>4 DEF Core, Covered
<1>6. EachBlockOnce'
  BY DEF Core, EachBlockOnce
<1> QED  BY <1>2, <1>5, <1>6 DEF Core

----------------------------------------------------------------------------
(* At first all blocks are pending, or the documents are equal. *)
LEMMA InitInv == Init => Inv
<1> SUFFICES ASSUME Init  PROVE Inv
  OBVIOUS
<1>1. PICK p \in Inputs : /\ old = Masked(p[1]) /\ new = Masked(p[2])
                          /\ phase \in {"align", "done"}
  BY DEF Init
<1>2. p[1] \in Doc /\ p[2] \in Doc
  BY InputsAssumption
<1>3. 0 \notin DOMAIN old /\ 0 \notin DOMAIN new
  BY <1>1, <1>2, MaskedDomain
<1>4. units = <<>> /\ scored = {} /\ todo = {} /\ oldDone = {} /\ newDone = {}
  BY DEF Init
<1>5. Shape
  BY <1>1, <1>3, <1>4, EmptySeq DEF Shape, Phases
<1>6. DOMAIN units = {}
  BY <1>4
<1>7. /\ phase = "align" => PendingOld = DOMAIN old /\ PendingNew = DOMAIN new
      /\ phase = "done" => PendingOld = {} /\ PendingNew = {}
  BY DEF PendingOld, PendingNew
<1>8. Covered
  BY <1>1, <1>6, <1>7 DEF Covered, Told
<1>9. EachBlockOnce
  BY <1>6 DEF EachBlockOnce
<1>10. Handed
  BY <1>1, <1>4, <1>7 DEF Handed
<1> QED  BY <1>5, <1>8, <1>9, <1>10 DEF Inv, Core

(* The operators of a step depend on the documents alone. *)
LEMMA SameDocs ==
  ASSUME UNCHANGED <<old, new>>
  PROVE  /\ OldResidual(old, new)' = OldResidual(old, new)
         /\ NewResidual(old, new)' = NewResidual(old, new)
         /\ Anchors(old, new)' = Anchors(old, new)
         /\ AnchoredOld(old, new)' = AnchoredOld(old, new)
OBVIOUS

(* A block is anchored or residual. *)
LEMMA Residuals ==
  /\ OldResidual(old, new) \subseteq DOMAIN old
  /\ NewResidual(old, new) \subseteq DOMAIN new
  /\ AnchoredOld(old, new) \subseteq DOMAIN old
  /\ AnchoredNew(old, new) \subseteq DOMAIN new
  /\ DOMAIN old = AnchoredOld(old, new) \cup OldResidual(old, new)
  /\ DOMAIN new = AnchoredNew(old, new) \cup NewResidual(old, new)
BY DEF OldResidual, NewResidual, AnchoredOld, AnchoredNew, Anchors

(* An old and a new block are in one anchor at most. *)
LEMMA AnchorsPair ==
  ASSUME NEW p \in Anchors(old, new), NEW q \in Anchors(old, new)
  PROVE  p[1] = q[1] <=> p[2] = q[2]
BY DEF Anchors, Once

(* A unit of two blocks is a draft, and names them. *)
LEMMA UnitIsDraft ==
  ASSUME NEW ct \in ChangeTypes, NEW moved \in BOOLEAN,
         NEW o \in {0} \cup DOMAIN old, NEW n \in {0} \cup DOMAIN new
  PROVE  /\ Unit(ct, o, n, moved) \in Drafts
         /\ Unit(ct, o, n, moved).oi = o
         /\ Unit(ct, o, n, moved).ni = n
         /\ Unit(ct, o, n, moved).ct = ct
BY DEF Drafts, Unit

(* So is a unit of a block that was removed or added. *)
LEMMA LeftoverIsDraft ==
  /\ \A o \in DOMAIN old : /\ Unit("removed", o, 0, FALSE) \in Drafts
                            /\ Unit("removed", o, 0, FALSE).oi = o
                            /\ Unit("removed", o, 0, FALSE).ni = 0
  /\ \A n \in DOMAIN new : /\ Unit("added", 0, n, FALSE) \in Drafts
                            /\ Unit("added", 0, n, FALSE).oi = 0
                            /\ Unit("added", 0, n, FALSE).ni = n
<1>1. ASSUME NEW ct \in ChangeTypes,
             NEW o \in {0} \cup DOMAIN old, NEW n \in {0} \cup DOMAIN new
      PROVE  Unit(ct, o, n, FALSE) \in Drafts
  <2>1. \E b \in BOOLEAN : Unit(ct, o, n, FALSE) = Unit(ct, o, n, b)
    OBVIOUS
  <2> QED  BY <2>1, UnitIsDraft
<1>2. /\ \E o \in {0} \cup DOMAIN old : o = 0
      /\ \E n \in {0} \cup DOMAIN new : n = 0
  OBVIOUS
<1>3. ASSUME NEW ct \in ChangeTypes
      PROVE  /\ \A o \in DOMAIN old : Unit(ct, o, 0, FALSE) \in Drafts
             /\ \A n \in DOMAIN new : Unit(ct, 0, n, FALSE) \in Drafts
  BY <1>1, <1>2
<1>4. (\E ct \in ChangeTypes : ct = "removed") /\ (\E ct \in ChangeTypes : ct = "added")
  BY DEF ChangeTypes
<1>5. \A o \in DOMAIN old : Unit("removed", o, 0, FALSE) \in Drafts
  BY <1>3, <1>4
<1>6. \A n \in DOMAIN new : Unit("added", 0, n, FALSE) \in Drafts
  BY <1>3, <1>4
<1> QED  BY <1>5, <1>6 DEF Unit

(* Aligning sorts the pending blocks into anchored and residual ones. *)
LEMMA AlignStep == Inv /\ Align => Inv'
<1> SUFFICES ASSUME Inv, Align  PROVE Inv'
  OBVIOUS
<1> USE SameDocs, Residuals DEF Align
<1>1. /\ PendingOld = DOMAIN old /\ PendingNew = DOMAIN new
      /\ phase' = "anchors" /\ phase # "done" /\ UNCHANGED <<old, new, units>>
  BY DEF PendingOld, PendingNew
<1>2. PendingOld' = DOMAIN old
  BY DEF PendingOld
<1>3. PendingNew' = DOMAIN new
  <2>1. AnchoredNew(old, new)
          = {p[2] : p \in {q \in Anchors(old, new) : q[1] \in todo'}}
    BY DEF AnchoredNew, AnchoredOld
  <2> QED  BY <2>1, <1>1 DEF PendingNew
<1>4. Core'
  BY <1>1, <1>2, <1>3, StepSilent DEF Inv, Phases
<1>5. Handed'
  BY <1>1, <1>2, <1>3 DEF Inv, Handed
<1> QED  BY <1>4, <1>5 DEF Inv

(* A turn over the anchors tells a pair, or finds it unchanged. *)
LEMMA AnchorStep == Inv /\ Anchor => Inv'
<1> SUFFICES ASSUME Inv, Anchor  PROVE Inv'
  OBVIOUS
<1>1. PICK p \in Anchors(old, new) :
        Visit(p[1]) /\ units' = units \o AnchorUnit(p[1], p[2])
  BY DEF Anchor
<1> DEFINE o == p[1]  n == p[2]
<1>2. /\ phase = "anchors" /\ phase' = "anchors" /\ phase' \in Phases
      /\ UNCHANGED <<old, new, scored, oldDone, newDone>>
  BY DEF Anchor, Phases
<1>3. /\ o \in todo /\ todo' = todo \ {o}
  BY <1>1 DEF Visit, First
<1>4. o \in DOMAIN old /\ n \in DOMAIN new /\ p = <<o, n>>
  BY DEF Anchors
<1>5. o \notin OldResidual(old, new) /\ n \notin NewResidual(old, new)
  BY DEF OldResidual, NewResidual, AnchoredOld, AnchoredNew
<1>6. /\ PendingOld = todo \cup OldResidual(old, new)
      /\ PendingOld' = PendingOld \ {o} /\ o \in PendingOld
  BY <1>2, <1>3, <1>5, SameDocs DEF PendingOld
<1>7. /\ PendingNew' = PendingNew \ {n} /\ n \in PendingNew
  <2> DEFINE Mates(S) == {q[2] : q \in {r \in Anchors(old, new) : r[1] \in S}}
  <2>1. PendingNew = Mates(todo) \cup NewResidual(old, new)
    BY <1>2 DEF PendingNew
  <2>2. PendingNew' = Mates(todo') \cup NewResidual(old, new)
    BY <1>2, SameDocs DEF PendingNew
  <2>3. n \in Mates(todo)
    BY <1>3
  <2>4. Mates(todo') = Mates(todo) \ {n}
    BY <1>3, AnchorsPair
  <2> HIDE DEF Mates
  <2> QED  BY <2>1, <2>2, <2>3, <2>4, <1>5
<1>8. 0 \notin PendingOld /\ 0 \notin PendingNew
  BY DEF Inv, Handed, Core, Shape
<1>9. ASSUME AnchorUnit(o, n) = <<>>  PROVE Core'
  <2>1. units' = units
    BY <1>1, <1>9, ConcatEmptySeq DEF Inv, Core, Shape
  <2>2. Unchanged(o, n)
    <3>1. SameContent(old[o], new[n]) /\ old[o].mark = new[n].mark
      BY <1>9 DEF AnchorUnit
    <3> QED  BY <3>1, <1>4 DEF Unchanged, SameContent
  <2>3. o \in OldUnchanged /\ n \in NewUnchanged
    BY <2>2, <1>4 DEF OldUnchanged, NewUnchanged
  <2> HIDE DEF o, n
  <2> QED  BY <1>2, <1>6, <1>7, <2>1, <2>3, StepSilent DEF Inv
<1>10. ASSUME AnchorUnit(o, n) # <<>>  PROVE Core'
  <2>1. PICK ct \in ChangeTypes, moved \in BOOLEAN :
          AnchorUnit(o, n) = <<Unit(ct, o, n, moved)>>
    <3>1. MovedRun(old, new, o) \in BOOLEAN
      BY DEF MovedRun
    <3>2. \/ AnchorUnit(o, n) = <<Unit("modified", o, n, MovedRun(old, new, o))>>
          \/ AnchorUnit(o, n) = <<Unit("restyled", o, n, FALSE)>>
          \/ AnchorUnit(o, n) = <<Unit("reordered", o, n, TRUE)>>
      BY <1>10 DEF AnchorUnit
    <3> QED  BY <3>1, <3>2 DEF ChangeTypes
  <2>2. /\ Unit(ct, o, n, moved) \in Drafts
        /\ Unit(ct, o, n, moved).oi = o /\ Unit(ct, o, n, moved).ni = n
    BY <1>4, UnitIsDraft
  <2>3. units' = Append(units, Unit(ct, o, n, moved))
    BY <1>1, <2>1, <2>2, AppendIsConcat DEF Inv, Core, Shape
  <2> HIDE DEF o, n
  <2> QED  BY <1>2, <1>6, <1>7, <1>8, <2>2, <2>3, StepTells DEF Inv
<1>11. Core'
  BY <1>9, <1>10
<1>12. Handed'
  <2>1. PendingOld' \subseteq DOMAIN old /\ PendingNew' \subseteq DOMAIN new
    BY <1>6, <1>7 DEF Inv, Handed
  <2> QED  BY <1>2, <1>3, <2>1, SameDocs DEF Inv, Handed
<1> QED  BY <1>11, <1>12 DEF Inv

(* A step from one loop to the next that leaves the pending blocks alone. *)
LEMMA StepOn ==
  ASSUME Inv, UNCHANGED <<old, new, units>>, phase' \in Phases,
         phase # "done", phase' # "done",
         PendingOld' = PendingOld, PendingNew' = PendingNew
  PROVE  Core'
BY StepSilent DEF Inv

(* After the anchors the residual blocks are what is pending. *)
LEMMA EndAnchorsStep == Inv /\ EndAnchors => Inv'
<1> SUFFICES ASSUME Inv, EndAnchors  PROVE Inv'
  OBVIOUS
<1> USE SameDocs, Residuals
<1>1. /\ phase = "anchors" /\ todo = {} /\ phase' = "same"
      /\ todo' = OldResidual(old, new)
      /\ UNCHANGED <<old, new, units, scored, oldDone, newDone>>
  BY DEF EndAnchors
<1>2. oldDone = {} /\ newDone = {}
  BY <1>1 DEF Inv, Handed
<1>3. PendingOld = OldResidual(old, new) /\ PendingOld' = OldResidual(old, new)
  BY <1>1, <1>2 DEF PendingOld
<1>4. PendingNew = NewResidual(old, new) /\ PendingNew' = NewResidual(old, new)
  BY <1>1, <1>2 DEF PendingNew
<1>5. Core'
  BY <1>1, <1>3, <1>4, StepOn DEF Phases
<1>6. Handed'
  BY <1>1, <1>2, <1>3, <1>4 DEF Inv, Handed
<1> QED  BY <1>5, <1>6 DEF Inv

----------------------------------------------------------------------------
(* Two residual blocks that are not done yet are paired. *)
LEMMA StepPairs ==
  ASSUME Inv, phase \in {"same", "similar"}, UNCHANGED <<old, new, phase>>,
         NEW o \in OldResidual(old, new) \ oldDone,
         NEW n \in NewResidual(old, new) \ newDone,
         NEW ct \in ChangeTypes, NEW moved \in BOOLEAN,
         Pair(o, n, Unit(ct, o, n, moved))
  PROVE  /\ Core'
         /\ PendingOld' \subseteq DOMAIN old /\ PendingNew' \subseteq DOMAIN new
<1>1. /\ PendingOld = OldResidual(old, new) \ oldDone
      /\ PendingNew = NewResidual(old, new) \ newDone
  BY DEF PendingOld, PendingNew
<1>2. /\ PendingOld' = OldResidual(old, new) \ oldDone'
      /\ PendingNew' = NewResidual(old, new) \ newDone'
  BY SameDocs DEF PendingOld, PendingNew
<1>3. PendingOld' = PendingOld \ {o} /\ PendingNew' = PendingNew \ {n}
  BY <1>1, <1>2 DEF Pair
<1>4. 0 \notin PendingOld /\ 0 \notin PendingNew
  BY DEF Inv, Handed, Core, Shape
<1>5. /\ Unit(ct, o, n, moved) \in Drafts
      /\ Unit(ct, o, n, moved).oi = o /\ Unit(ct, o, n, moved).ni = n
  <2>1. o \in DOMAIN old /\ n \in DOMAIN new
    BY Residuals
  <2>2. o \in {0} \cup DOMAIN old /\ n \in {0} \cup DOMAIN new
    BY <2>1
  <2> QED  BY <2>2, UnitIsDraft
<1>6. Core'
  BY <1>1, <1>3, <1>4, <1>5, StepTells DEF Inv, Pair, Phases
<1> QED  BY <1>3, <1>6 DEF Inv, Handed

(* 3a takes two free residual blocks and tells them once. *)
LEMMA MoveStep == Inv /\ Move => Inv'
<1> SUFFICES ASSUME Inv, Move  PROVE Inv'
  OBVIOUS
<1>1. PICK o \in todo :
        Visit(o) /\ \E n \in SameText(o) : Pair(o, n, Unit("reordered", o, n, TRUE))
  BY DEF Move
<1> PICK n \in SameText(o) : Pair(o, n, Unit("reordered", o, n, TRUE))
  BY <1>1
<1>2. phase = "same" /\ UNCHANGED <<old, new, phase, scored>>
  BY DEF Move
<1>3. o \in OldResidual(old, new) \ oldDone /\ n \in NewResidual(old, new) \ newDone
  BY <1>2 DEF Inv, Handed, SameText
<1>4. /\ Core'
      /\ PendingOld' \subseteq DOMAIN old /\ PendingNew' \subseteq DOMAIN new
  BY <1>1, <1>2, <1>3, StepPairs DEF ChangeTypes
<1>5. todo' \subseteq OldResidual(old, new) \ oldDone'
  BY <1>1, <1>2 DEF Visit, Pair, Inv, Handed
<1>6. Handed'
  BY <1>2, <1>4, <1>5, SameDocs DEF Inv, Handed
<1> QED  BY <1>4, <1>6 DEF Inv

(* 3a passes a block on to 3b. *)
LEMMA KeepResidualStep == Inv /\ KeepResidual => Inv'
<1> SUFFICES ASSUME Inv, KeepResidual  PROVE Inv'
  OBVIOUS
<1>1. /\ phase = "same" /\ todo' \subseteq todo
      /\ UNCHANGED <<old, new, phase, scored, oldDone, newDone, units>>
  BY DEF KeepResidual, Visit
<1>2. PendingOld' = PendingOld /\ PendingNew' = PendingNew
  BY <1>1, SameDocs DEF PendingOld, PendingNew
<1>3. Core'
  BY <1>1, <1>2, StepOn DEF Phases
<1>4. Handed'
  BY <1>1, <1>2, SameDocs DEF Inv, Handed
<1> QED  BY <1>3, <1>4 DEF Inv

(* The scored pairs are pairs of residual blocks. *)
LEMMA EndSameStep == Inv /\ EndSame => Inv'
<1> SUFFICES ASSUME Inv, EndSame  PROVE Inv'
  OBVIOUS
<1>1. /\ phase = "same" /\ phase' = "similar"
      /\ UNCHANGED <<old, new, todo, oldDone, newDone, units>>
  BY DEF EndSame
<1>2. PendingOld' = PendingOld /\ PendingNew' = PendingNew
  BY <1>1, SameDocs DEF PendingOld, PendingNew
<1>3. Core'
  BY <1>1, <1>2, StepOn DEF Phases
<1>4. scored' \subseteq OldResidual(old, new) \X NewResidual(old, new)
  BY DEF EndSame, Scored
<1>5. Handed'
  BY <1>1, <1>2, <1>4, SameDocs DEF Inv, Handed
<1> QED  BY <1>3, <1>5 DEF Inv

(* 3b takes two blocks none of which is done and tells them once. *)
LEMMA PairSimilarStep == Inv /\ PairSimilar => Inv'
<1> SUFFICES ASSUME Inv, PairSimilar  PROVE Inv'
  OBVIOUS
<1>1. PICK p \in scored :
        /\ ~Taken(p) /\ scored' = scored \ {p}
        /\ Pair(p[1], p[2], Unit("modified", p[1], p[2],
                                 Affinity(old[p[1]], new[p[2]]) < 50))
  BY DEF PairSimilar
<1>2. phase = "similar" /\ UNCHANGED <<old, new, phase, todo>>
  BY DEF PairSimilar
<1>3. p[1] \in OldResidual(old, new) \ oldDone /\ p[2] \in NewResidual(old, new) \ newDone
  BY <1>1 DEF Inv, Handed, Taken
<1>4. (Affinity(old[p[1]], new[p[2]]) < 50) \in BOOLEAN
  OBVIOUS
<1>5. /\ Core'
      /\ PendingOld' \subseteq DOMAIN old /\ PendingNew' \subseteq DOMAIN new
  BY <1>1, <1>2, <1>3, <1>4, StepPairs DEF ChangeTypes
<1>6. Handed'
  BY <1>1, <1>2, <1>5, SameDocs DEF Inv, Handed
<1> QED  BY <1>5, <1>6 DEF Inv

(* A pair that is skipped tells nothing. *)
LEMMA SkipPairStep == Inv /\ SkipPair => Inv'
<1> SUFFICES ASSUME Inv, SkipPair  PROVE Inv'
  OBVIOUS
<1>1. /\ phase = "similar" /\ scored' \subseteq scored
      /\ UNCHANGED <<old, new, phase, todo, oldDone, newDone, units>>
  BY DEF SkipPair
<1>2. PendingOld' = PendingOld /\ PendingNew' = PendingNew
  BY <1>1, SameDocs DEF PendingOld, PendingNew
<1>3. Core'
  BY <1>1, <1>2, StepOn DEF Phases
<1>4. Handed'
  BY <1>1, <1>2, SameDocs DEF Inv, Handed
<1> QED  BY <1>3, <1>4 DEF Inv

(* 3c begins with the old blocks that are not done. *)
LEMMA EndSimilarStep == Inv /\ EndSimilar => Inv'
<1> SUFFICES ASSUME Inv, EndSimilar  PROVE Inv'
  OBVIOUS
<1>1. /\ phase = "similar" /\ phase' = "removed"
      /\ todo' = OldResidual(old, new) \ oldDone
      /\ UNCHANGED <<old, new, scored, oldDone, newDone, units>>
  BY DEF EndSimilar
<1>2. PendingOld' = PendingOld /\ PendingNew' = PendingNew
  BY <1>1, SameDocs DEF PendingOld, PendingNew
<1>3. Core'
  BY <1>1, <1>2, StepOn DEF Phases
<1>4. Handed'
  BY <1>1, <1>2, SameDocs DEF Inv, Handed
<1> QED  BY <1>3, <1>4 DEF Inv

----------------------------------------------------------------------------
(* A block that was removed is told once. *)
LEMMA TellRemovedStep == Inv /\ TellRemoved => Inv'
<1> SUFFICES ASSUME Inv, TellRemoved  PROVE Inv'
  OBVIOUS
<1>1. PICK o \in todo :
        Visit(o) /\ units' = Append(units, Unit("removed", o, 0, FALSE))
  BY DEF TellRemoved
<1>2. phase = "removed" /\ UNCHANGED <<old, new, phase, scored, oldDone, newDone>>
  BY DEF TellRemoved
<1>3. PendingOld = todo /\ PendingOld' = todo'
  BY <1>2 DEF PendingOld
<1>4. PendingNew' = PendingNew
  BY <1>2, SameDocs DEF PendingNew
<1>5. todo' = todo \ {o} /\ o \in DOMAIN old
  BY <1>1, <1>3 DEF Visit, Inv, Handed
<1>6. 0 \notin PendingOld /\ 0 \notin PendingNew
  BY DEF Inv, Handed, Core, Shape
<1>7. /\ Unit("removed", o, 0, FALSE) \in Drafts
      /\ Unit("removed", o, 0, FALSE).oi = o /\ Unit("removed", o, 0, FALSE).ni = 0
  BY <1>5, LeftoverIsDraft
<1>8. PendingOld' = PendingOld \ {o} /\ PendingNew' = PendingNew \ {0}
  BY <1>3, <1>4, <1>5, <1>6
<1>9. Core'
  BY <1>1, <1>2, <1>3, <1>6, <1>7, <1>8, StepTells DEF Inv, Phases
<1>10. Handed'
  BY <1>2, <1>8, SameDocs DEF Inv, Handed
<1> QED  BY <1>9, <1>10 DEF Inv

(* 3c goes on with the new blocks that are not done. *)
LEMMA EndRemovedStep == Inv /\ EndRemoved => Inv'
<1> SUFFICES ASSUME Inv, EndRemoved  PROVE Inv'
  OBVIOUS
<1>1. /\ phase = "removed" /\ todo = {} /\ phase' = "added"
      /\ todo' = NewResidual(old, new) \ newDone
      /\ UNCHANGED <<old, new, scored, oldDone, newDone, units>>
  BY DEF EndRemoved
<1>2. PendingOld' = PendingOld /\ PendingNew' = PendingNew
  BY <1>1, SameDocs DEF PendingOld, PendingNew
<1>3. Core'
  BY <1>1, <1>2, StepOn DEF Phases
<1>4. Handed'
  BY <1>1, <1>2, SameDocs DEF Inv, Handed
<1> QED  BY <1>3, <1>4 DEF Inv

(* A block that was added is told once. *)
LEMMA TellAddedStep == Inv /\ TellAdded => Inv'
<1> SUFFICES ASSUME Inv, TellAdded  PROVE Inv'
  OBVIOUS
<1>1. PICK n \in todo :
        Visit(n) /\ units' = Append(units, Unit("added", 0, n, FALSE))
  BY DEF TellAdded
<1>2. phase = "added" /\ UNCHANGED <<old, new, phase, scored, oldDone, newDone>>
  BY DEF TellAdded
<1>3. PendingNew = todo /\ PendingNew' = todo'
  BY <1>2 DEF PendingNew
<1>4. PendingOld' = PendingOld
  BY <1>2 DEF PendingOld
<1>5. todo' = todo \ {n} /\ n \in DOMAIN new
  BY <1>1, <1>3 DEF Visit, Inv, Handed
<1>6. 0 \notin PendingOld /\ 0 \notin PendingNew
  BY DEF Inv, Handed, Core, Shape
<1>7. /\ Unit("added", 0, n, FALSE) \in Drafts
      /\ Unit("added", 0, n, FALSE).oi = 0 /\ Unit("added", 0, n, FALSE).ni = n
  BY <1>5, LeftoverIsDraft
<1>8. PendingOld' = PendingOld \ {0} /\ PendingNew' = PendingNew \ {n}
  BY <1>3, <1>4, <1>5, <1>6
<1>9. Core'
  BY <1>1, <1>2, <1>3, <1>6, <1>7, <1>8, StepTells DEF Inv, Phases
<1>10. Handed'
  BY <1>2, <1>8, SameDocs DEF Inv, Handed
<1> QED  BY <1>9, <1>10 DEF Inv

(* When all loops are over no block is pending. *)
LEMMA EndAddedStep == Inv /\ EndAdded => Inv'
<1> SUFFICES ASSUME Inv, EndAdded  PROVE Inv'
  OBVIOUS
<1>1. /\ phase = "added" /\ todo = {} /\ phase' = "cluster"
      /\ UNCHANGED <<old, new, todo, scored, oldDone, newDone, units>>
  BY DEF EndAdded
<1>2. PendingOld' = PendingOld /\ PendingNew' = PendingNew
  BY <1>1 DEF PendingOld, PendingNew
<1>3. Core'
  BY <1>1, <1>2, StepOn DEF Phases
<1>4. Handed'
  BY <1>1, <1>2, SameDocs DEF Inv, Handed
<1> QED  BY <1>3, <1>4 DEF Inv

(* Clustering leaves the drafts alone. *)
LEMMA ClusterStep == Inv /\ ClusterCascades => Inv'
<1> SUFFICES ASSUME Inv, ClusterCascades  PROVE Inv'
  OBVIOUS
<1>1. /\ phase = "cluster" /\ phase' = "done"
      /\ UNCHANGED <<old, new, todo, scored, oldDone, newDone, units>>
  BY DEF ClusterCascades
<1>2. PendingOld' = {} /\ PendingNew' = {}
  BY <1>1 DEF PendingOld, PendingNew
<1>3. Core'
  BY <1>1, <1>2, StepSilent DEF Inv, Phases
<1>4. Handed'
  BY <1>1, <1>2, SameDocs DEF Inv, Handed
<1> QED  BY <1>3, <1>4 DEF Inv

(* So does a step of something else. *)
LEMMA StutterStep == Inv /\ UNCHANGED vars => Inv'
<1> SUFFICES ASSUME Inv, UNCHANGED vars  PROVE Inv'
  OBVIOUS
<1>1. UNCHANGED <<old, new, phase, todo, scored, oldDone, newDone, units>>
  BY DEF vars
<1>2. PendingOld' = PendingOld /\ PendingNew' = PendingNew
  BY <1>1, SameDocs DEF PendingOld, PendingNew
<1>3. Core'
  BY <1>1, <1>2, StepSilent DEF Inv, Core, Shape
<1>4. Handed'
  BY <1>1, <1>2, SameDocs DEF Inv, Handed
<1> QED  BY <1>3, <1>4 DEF Inv

(* The invariant of the diff, for all documents. *)
THEOREM Invariance == Spec => []Inv
<1>1. Inv /\ [Next]_vars => Inv'
  BY AlignStep, AnchorStep, EndAnchorsStep, MoveStep, KeepResidualStep,
     EndSameStep, PairSimilarStep, SkipPairStep, EndSimilarStep,
     TellRemovedStep, EndRemovedStep, TellAddedStep, EndAddedStep,
     ClusterStep, StutterStep DEF Next
<1> QED  BY <1>1, InitInv, PTL DEF Spec

(***************************************************************************)
(* No block of either document is told in two units.                       *)
(***************************************************************************)
THEOREM BlocksAreToldOnce == Spec => []EachBlockOnce
<1>1. Inv => EachBlockOnce
  BY DEF Inv, Core
<1> QED  BY <1>1, Invariance, PTL

(***************************************************************************)
(* When the loops are over, a block in no unit is unchanged: the diff      *)
(* hides no change of a text, a value or a presentation.                   *)
(***************************************************************************)
THEOREM NothingIsHidden == Spec => []SilentMeansSame
<1>1. Inv => SilentMeansSame
  <2> SUFFICES ASSUME Inv, phase = "cluster"  PROVE SilentMeansSame
    BY DEF SilentMeansSame
  <2>1. PendingOld = {} /\ PendingNew = {}
    BY DEF PendingOld, PendingNew
  <2>2. /\ DOMAIN old \subseteq Told("oi") \cup OldUnchanged
        /\ DOMAIN new \subseteq Told("ni") \cup NewUnchanged
    BY <2>1 DEF Inv, Core, Covered
  <2> QED  BY <2>2 DEF SilentMeansSame, Told, OldUnchanged, NewUnchanged
<1> QED  BY <1>1, Invariance, PTL

----------------------------------------------------------------------------
(***************************************************************************)
(* The matching.  A block that is done is in a unit with one of its text,  *)
(* or with one that no pair yet to be visited is more similar than.  So a  *)
(* pair that is skipped, as one of its blocks is done, is settled.         *)
(***************************************************************************)
Leads(u) ==
  /\ u.oi # 0 /\ u.ni # 0
  /\ \/ u.ct = "reordered"
     \/ /\ phase = "similar"
        /\ \A q \in scored : SimOf(<<u.oi, u.ni>>) >= SimOf(q)

DoneLead ==
  phase \in {"same", "similar"} =>
    /\ \A o \in oldDone : \E i \in DOMAIN units : units[i].oi = o /\ Leads(units[i])
    /\ \A n \in newDone : \E i \in DOMAIN units : units[i].ni = n /\ Leads(units[i])

CandidatesWait ==
  phase \in {"similar", "removed", "added", "cluster"} =>
    \A o \in OldResidual(old, new), n \in NewResidual(old, new) :
      Candidate(o, n) => \/ phase = "similar" /\ <<o, n>> \in scored
                         \/ Settled(o, n)

Matching == DoneLead /\ CandidatesWait

(* Units are only added to, so that what is settled stays so. *)
LEMMA SettledStays ==
  ASSUME UNCHANGED <<old, new>>,
         \A i \in DOMAIN units : i \in DOMAIN units' /\ units'[i] = units[i]
  PROVE  \A o, n : Settled(o, n) => Settled(o, n)'
<1> SUFFICES ASSUME NEW o, NEW n, Settled(o, n)  PROVE Settled(o, n)'
  OBVIOUS
<1>1. PICK i \in DOMAIN units :
        LET u == units[i] IN
        /\ u.oi # 0 /\ u.ni # 0
        /\ \/ u.oi = o /\ u.ni = n
           \/ /\ u.oi = o \/ u.ni = n
              /\ u.ct = "reordered" \/ SimOf(<<u.oi, u.ni>>) >= SimOf(<<o, n>>)
  BY DEF Settled
<1>2. \A p : SimOf(p)' = SimOf(p)
  BY DEF SimOf
<1>3. i \in DOMAIN units' /\ units'[i] = units[i]
  OBVIOUS
<1> QED  BY <1>1, <1>2, <1>3 DEF Settled

(* A step of the last loops, or one that only goes on to the next loop. *)
LEMMA MatchingStays ==
  ASSUME Matching, UNCHANGED <<old, new>>,
         \A i \in DOMAIN units : i \in DOMAIN units' /\ units'[i] = units[i],
         phase \in {"removed", "added", "cluster"},
         phase' \in {"removed", "added", "cluster", "done"}
  PROVE  Matching'
<1>1. DoneLead'
  BY DEF DoneLead
<1>2. CandidatesWait'
  <2> SUFFICES ASSUME NEW o \in OldResidual(old, new), NEW n \in NewResidual(old, new),
                      Candidate(o, n)
               PROVE  Settled(o, n)'
    BY SameDocs DEF CandidatesWait, Candidate
  <2>1. Settled(o, n)
    BY DEF Matching, CandidatesWait
  <2> QED  BY <2>1, SettledStays
<1> QED  BY <1>1, <1>2 DEF Matching

(* A pair is matched: the done blocks lead, this one's included. *)
LEMMA PairLeads ==
  ASSUME Inv, Matching, phase \in {"same", "similar"}, UNCHANGED <<old, new, phase>>,
         NEW o \in OldResidual(old, new), NEW n \in NewResidual(old, new),
         NEW ct \in ChangeTypes, NEW moved \in BOOLEAN,
         Pair(o, n, Unit(ct, o, n, moved)), scored' \subseteq scored,
         \/ ct = "reordered"
         \/ phase = "similar" /\ \A q \in scored' : SimOf(<<o, n>>) >= SimOf(q)
  PROVE  /\ DoneLead'
         /\ \A i \in DOMAIN units : i \in DOMAIN units' /\ units'[i] = units[i]
         /\ Settled(o, n)'
<1> DEFINE u == Unit(ct, o, n, moved)
<1>1. o \in DOMAIN old /\ n \in DOMAIN new /\ o # 0 /\ n # 0
  BY Residuals DEF Inv, Core, Shape
<1>2. u \in Drafts /\ u.oi = o /\ u.ni = n /\ u.ct = ct
  <2>1. o \in {0} \cup DOMAIN old /\ n \in {0} \cup DOMAIN new
    BY <1>1
  <2> QED  BY <2>1, UnitIsDraft
<1> HIDE DEF u
<1>3. PICK k \in DOMAIN units' :
        /\ DOMAIN units' = DOMAIN units \cup {k}
        /\ \A i \in DOMAIN units : units'[i] = units[i]
        /\ units'[k] = u
  <2>1. /\ DOMAIN units' = DOMAIN units \cup {Len(units) + 1}
        /\ \A i \in DOMAIN units : units'[i] = units[i]
        /\ units'[Len(units) + 1] = u
    BY <1>2, ToldAppend DEF Inv, Core, Shape, Pair, u
  <2> QED  BY <2>1
<1>4. \A p : SimOf(p)' = SimOf(p)
  BY DEF SimOf
<1>5. \A i \in DOMAIN units : Leads(units[i]) => Leads(units[i])'
  BY <1>3, <1>4 DEF Leads
<1>6. Leads(units[k])'
  BY <1>1, <1>2, <1>3, <1>4 DEF Leads
<1>7. DoneLead'
  <2>1. ASSUME NEW a \in oldDone'
        PROVE  \E i \in DOMAIN units' : units'[i].oi = a /\ Leads(units[i])'
    <3>1. CASE a = o
      BY <3>1, <1>2, <1>3, <1>6
    <3>2. CASE a \in oldDone
      <4>1. PICK i \in DOMAIN units : units[i].oi = a /\ Leads(units[i])
        BY <3>2 DEF Matching, DoneLead
      <4> QED  BY <4>1, <1>3, <1>5
    <3> QED  BY <3>1, <3>2 DEF Pair
  <2>2. ASSUME NEW b \in newDone'
        PROVE  \E i \in DOMAIN units' : units'[i].ni = b /\ Leads(units[i])'
    <3>1. CASE b = n
      BY <3>1, <1>2, <1>3, <1>6
    <3>2. CASE b \in newDone
      <4>1. PICK i \in DOMAIN units : units[i].ni = b /\ Leads(units[i])
        BY <3>2 DEF Matching, DoneLead
      <4> QED  BY <4>1, <1>3, <1>5
    <3> QED  BY <3>1, <3>2 DEF Pair
  <2> QED  BY <2>1, <2>2 DEF DoneLead
<1>8. Settled(o, n)'
  BY <1>1, <1>2, <1>3 DEF Settled
<1> QED  BY <1>3, <1>7, <1>8

(* 3a: a move makes both blocks done, in a unit of one text. *)
LEMMA MatchingMove == Inv /\ Matching /\ Move => Matching'
<1> SUFFICES ASSUME Inv, Matching, Move  PROVE Matching'
  OBVIOUS
<1>1. PICK o \in todo :
        \E n \in SameText(o) : Pair(o, n, Unit("reordered", o, n, TRUE))
  BY DEF Move
<1> PICK n \in SameText(o) : Pair(o, n, Unit("reordered", o, n, TRUE))
  BY <1>1
<1>2. phase = "same" /\ UNCHANGED <<old, new, phase, scored>>
  BY DEF Move
<1>3. o \in OldResidual(old, new) /\ n \in NewResidual(old, new)
  BY <1>2 DEF Inv, Handed, SameText
<1>4. DoneLead'
  BY <1>1, <1>2, <1>3, PairLeads DEF ChangeTypes
<1>5. CandidatesWait'
  BY <1>2 DEF CandidatesWait
<1> QED  BY <1>4, <1>5 DEF Matching

(* The candidates are scored; those with a done block are settled. *)
LEMMA MatchingEndSame == Inv /\ Matching /\ EndSame => Matching'
<1> SUFFICES ASSUME Inv, Matching, EndSame  PROVE Matching'
  OBVIOUS
<1> DEFINE os == OldResidual(old, new)  ns == NewResidual(old, new)
<1>1. /\ phase = "same" /\ phase' = "similar"
      /\ UNCHANGED <<old, new, oldDone, newDone, units>>
      /\ scored' = Scored(old, new, os \ oldDone, ns \ newDone)
  BY DEF EndSame
<1>2. \A i \in DOMAIN units : Leads(units[i]) => units[i].ct = "reordered"
  BY <1>1 DEF Leads
<1>3. \A i \in DOMAIN units : Leads(units[i]) => Leads(units[i])'
  BY <1>1, <1>2 DEF Leads
<1>4. DoneLead'
  BY <1>1, <1>3 DEF Matching, DoneLead
<1>5. CandidatesWait'
  <2> SUFFICES ASSUME NEW o \in os, NEW n \in ns, Candidate(o, n)
               PROVE  <<o, n>> \in scored' \/ Settled(o, n)'
    BY <1>1, SameDocs DEF CandidatesWait, Candidate
  <2>1. CASE o \in oldDone
    <3>1. PICK i \in DOMAIN units : units[i].oi = o /\ Leads(units[i])
      BY <1>1, <2>1 DEF Matching, DoneLead
    <3>2. Settled(o, n)
      BY <3>1, <1>2 DEF Settled, Leads
    <3> QED  BY <3>2, <1>1, SettledStays
  <2>2. CASE n \in newDone
    <3>1. PICK i \in DOMAIN units : units[i].ni = n /\ Leads(units[i])
      BY <1>1, <2>2 DEF Matching, DoneLead
    <3>2. Settled(o, n)
      BY <3>1, <1>2 DEF Settled, Leads
    <3> QED  BY <3>2, <1>1, SettledStays
  <2>3. CASE o \notin oldDone /\ n \notin newDone
    <3>1. <<o, n>> \in (os \ oldDone) \X (ns \ newDone)
      BY <2>3
    <3>2. <<o, n>> \in Scored(old, new, os \ oldDone, ns \ newDone)
      BY <3>1 DEF Scored, Candidate
    <3> QED  BY <3>2, <1>1
  <2> QED  BY <2>1, <2>2, <2>3
<1> QED  BY <1>4, <1>5 DEF Matching

(* 3b: the pair matched is ahead of those still to visit. *)
LEMMA MatchingPairSimilar == Inv /\ Matching /\ PairSimilar => Matching'
<1> SUFFICES ASSUME Inv, Matching, PairSimilar  PROVE Matching'
  OBVIOUS
<1>1. PICK p \in scored :
        /\ \A q \in scored \ {p} : Ahead(p, q)
        /\ scored' = scored \ {p}
        /\ Pair(p[1], p[2], Unit("modified", p[1], p[2],
                                 Affinity(old[p[1]], new[p[2]]) < 50))
  BY DEF PairSimilar
<1>2. phase = "similar" /\ UNCHANGED <<old, new, phase>>
  BY DEF PairSimilar
<1>3. /\ p[1] \in OldResidual(old, new) /\ p[2] \in NewResidual(old, new)
      /\ p = <<p[1], p[2]>>
  BY DEF Inv, Handed
<1>4. (Affinity(old[p[1]], new[p[2]]) < 50) \in BOOLEAN
  OBVIOUS
<1>5. \A q \in scored' : SimOf(<<p[1], p[2]>>) >= SimOf(q)
  BY <1>1, <1>3 DEF Ahead
<1>6. /\ DoneLead'
      /\ \A i \in DOMAIN units : i \in DOMAIN units' /\ units'[i] = units[i]
      /\ Settled(p[1], p[2])'
  BY <1>1, <1>2, <1>3, <1>4, <1>5, PairLeads DEF ChangeTypes
<1>7. CandidatesWait'
  <2> SUFFICES ASSUME NEW o \in OldResidual(old, new), NEW n \in NewResidual(old, new),
                      Candidate(o, n)
               PROVE  <<o, n>> \in scored' \/ Settled(o, n)'
    BY <1>2, SameDocs DEF CandidatesWait, Candidate
  <2>1. <<o, n>> \in scored \/ Settled(o, n)
    BY <1>2 DEF Matching, CandidatesWait
  <2>2. CASE <<o, n>> \in scored
    BY <2>2, <1>1, <1>3, <1>6
  <2>3. CASE Settled(o, n)
    BY <2>3, <1>2, <1>6, SettledStays
  <2> QED  BY <2>1, <2>2, <2>3
<1> QED  BY <1>6, <1>7 DEF Matching

(* 3b: a pair is skipped because one of its blocks is done, and leads. *)
LEMMA MatchingSkipPair == Inv /\ Matching /\ SkipPair => Matching'
<1> SUFFICES ASSUME Inv, Matching, SkipPair  PROVE Matching'
  OBVIOUS
<1>1. PICK p \in scored : Taken(p) /\ scored' = scored \ {p}
  BY DEF SkipPair
<1>2. phase = "similar" /\ UNCHANGED <<old, new, phase, oldDone, newDone, units>>
  BY DEF SkipPair
<1>3. p = <<p[1], p[2]>>
  BY DEF Inv, Handed
<1>4. \A q : SimOf(q)' = SimOf(q)
  BY <1>2 DEF SimOf
<1>5. \A i \in DOMAIN units : Leads(units[i]) => Leads(units[i])'
  BY <1>1, <1>2, <1>4 DEF Leads
<1>6. DoneLead'
  BY <1>2, <1>5 DEF Matching, DoneLead
<1>7. Settled(p[1], p[2])
  <2>1. PICK i \in DOMAIN units :
          /\ units[i].oi = p[1] \/ units[i].ni = p[2]
          /\ Leads(units[i])
    BY <1>1, <1>2 DEF Taken, Matching, DoneLead
  <2>2. \/ units[i].ct = "reordered"
        \/ SimOf(<<units[i].oi, units[i].ni>>) >= SimOf(<<p[1], p[2]>>)
    BY <2>1, <1>1, <1>3 DEF Leads
  <2> QED  BY <2>1, <2>2 DEF Leads, Settled
<1>8. CandidatesWait'
  <2> SUFFICES ASSUME NEW o \in OldResidual(old, new), NEW n \in NewResidual(old, new),
                      Candidate(o, n)
               PROVE  <<o, n>> \in scored' \/ Settled(o, n)'
    BY <1>2, SameDocs DEF CandidatesWait, Candidate
  <2>1. <<o, n>> \in scored \/ Settled(o, n)
    BY <1>2 DEF Matching, CandidatesWait
  <2>2. <<o, n>> \in scored' \/ Settled(o, n)
    BY <2>1, <1>1, <1>3, <1>7
  <2> QED  BY <2>2, <1>2, SettledStays
<1> QED  BY <1>6, <1>8 DEF Matching

(* When no pair is left to visit, every candidate is settled. *)
LEMMA MatchingEndSimilar == Matching /\ EndSimilar => Matching'
<1> SUFFICES ASSUME Matching, EndSimilar  PROVE Matching'
  OBVIOUS
<1>1. /\ phase = "similar" /\ scored = {} /\ phase' = "removed"
      /\ UNCHANGED <<old, new, units>>
  BY DEF EndSimilar
<1>2. DoneLead'
  BY <1>1 DEF DoneLead
<1>3. CandidatesWait'
  <2> SUFFICES ASSUME NEW o \in OldResidual(old, new), NEW n \in NewResidual(old, new),
                      Candidate(o, n)
               PROVE  Settled(o, n)'
    BY <1>1, SameDocs DEF CandidatesWait, Candidate
  <2>1. Settled(o, n)
    BY <1>1 DEF Matching, CandidatesWait
  <2> QED  BY <2>1, <1>1, SettledStays
<1> QED  BY <1>2, <1>3 DEF Matching

(* Before 3a nothing is done. *)
LEMMA MatchingBefore ==
  ASSUME Inv, Matching, Align \/ Anchor \/ EndAnchors \/ KeepResidual
  PROVE  Matching'
<1>1. /\ phase \in {"align", "anchors", "same"}
      /\ phase' \in {"align", "anchors", "same"}
      /\ UNCHANGED <<old, new, scored, oldDone, newDone>>
  BY DEF Align, Anchor, EndAnchors, KeepResidual
<1>2. CandidatesWait'
  BY <1>1 DEF CandidatesWait
<1>3. DoneLead'
  <2>1. CASE phase \in {"align", "anchors"}
    BY <2>1, <1>1 DEF Inv, Handed, DoneLead
  <2>2. CASE phase = "same"
    <3>1. UNCHANGED <<phase, units>>
      BY <2>2 DEF Align, Anchor, EndAnchors, KeepResidual
    <3>2. \A i \in DOMAIN units : Leads(units[i]) => Leads(units[i])'
      BY <3>1, <2>2 DEF Leads
    <3> QED  BY <3>1, <3>2, <1>1, <2>2 DEF Matching, DoneLead
  <2> QED  BY <2>1, <2>2, <1>1
<1> QED  BY <1>2, <1>3 DEF Matching

(* The last loops add units that pair nothing, and clustering none. *)
LEMMA MatchingAfter ==
  ASSUME Inv, Matching,
         TellRemoved \/ EndRemoved \/ TellAdded \/ EndAdded \/ ClusterCascades
  PROVE  Matching'
<1>1. /\ phase \in {"removed", "added", "cluster"}
      /\ phase' \in {"removed", "added", "cluster", "done"}
      /\ UNCHANGED <<old, new>>
  BY DEF TellRemoved, EndRemoved, TellAdded, EndAdded, ClusterCascades
<1>2. units' = units \/ \E u \in Drafts : units' = Append(units, u)
  <2>1. CASE TellRemoved
    <3>1. PICK o \in todo : units' = Append(units, Unit("removed", o, 0, FALSE))
      BY <2>1 DEF TellRemoved
    <3>2. o \in DOMAIN old
      BY <2>1 DEF TellRemoved, Inv, Handed, PendingOld
    <3> QED  BY <3>1, <3>2, LeftoverIsDraft
  <2>2. CASE TellAdded
    <3>1. PICK n \in todo : units' = Append(units, Unit("added", 0, n, FALSE))
      BY <2>2 DEF TellAdded
    <3>2. n \in DOMAIN new
      BY <2>2 DEF TellAdded, Inv, Handed, PendingNew
    <3> QED  BY <3>1, <3>2, LeftoverIsDraft
  <2>3. CASE EndRemoved \/ EndAdded \/ ClusterCascades
    BY <2>3 DEF EndRemoved, EndAdded, ClusterCascades
  <2> QED  BY <2>1, <2>2, <2>3
<1>3. \A i \in DOMAIN units : i \in DOMAIN units' /\ units'[i] = units[i]
  BY <1>2, ToldAppend DEF Inv, Core, Shape
<1> QED  BY <1>1, <1>3, MatchingStays

(***************************************************************************)
(* The greedy pass over the scored pairs leaves no near pair of similar    *)
(* blocks behind of which neither is in a unit with as similar a block,    *)
(* whatever the similarities are.                                          *)
(***************************************************************************)
THEOREM MatchingIsStable == Spec => []NoBlockingPair
<1>1. Init => Matching
  BY DEF Init, Matching, DoneLead, CandidatesWait
<1>2. Inv /\ Matching /\ [Next]_vars => Matching'
  <2> SUFFICES ASSUME Inv, Matching, [Next]_vars  PROVE Matching'
    OBVIOUS
  <2>1. CASE UNCHANGED vars
    <3>1. UNCHANGED <<old, new, phase, scored, oldDone, newDone, units>>
      BY <2>1 DEF vars
    <3> QED  BY <3>1 DEF Matching, DoneLead, CandidatesWait, Leads, Candidate,
                          Settled, SimOf
  <2> QED  BY <2>1, MatchingMove, MatchingEndSame, MatchingPairSimilar,
              MatchingSkipPair, MatchingEndSimilar, MatchingBefore, MatchingAfter
           DEF Next
<1>3. Matching => NoBlockingPair
  BY DEF Matching, CandidatesWait, NoBlockingPair
<1> QED  BY <1>1, <1>2, <1>3, Invariance, PTL DEF Spec

----------------------------------------------------------------------------
(* The documents are documents, masked as they are. *)
Docs == old \in Doc /\ new \in Doc

(* Masking keeps a document one, and no loop of the diff writes to it. *)
LEMMA DocsHold == Spec => []Docs
<1>1. Init => Docs
  <2> SUFFICES ASSUME Init  PROVE Docs
    OBVIOUS
  <2>1. PICK p \in Inputs : old = Masked(p[1]) /\ new = Masked(p[2])
    BY DEF Init
  <2>2. p[1] \in Seq(Block) /\ p[2] \in Seq(Block)
    BY InputsAssumption DEF Doc
  <2>3. Masked(p[1]) \in Seq(Block) /\ Masked(p[2]) \in Seq(Block)
    BY <2>2, MaskedHolds
  <2> QED  BY <2>1, <2>3 DEF Docs, Doc
<1>2. Docs /\ [Next]_vars => Docs'
  <2> SUFFICES ASSUME Docs, [Next]_vars  PROVE Docs'
    OBVIOUS
  <2>1. UNCHANGED <<old, new>>
    BY DEF Next, vars, Align, Anchor, EndAnchors, Move, KeepResidual, EndSame,
           PairSimilar, SkipPair, EndSimilar, TellRemoved, EndRemoved, TellAdded,
           EndAdded, ClusterCascades
  <2> QED  BY <2>1 DEF Docs
<1> QED  BY <1>1, <1>2, PTL DEF Spec

(***************************************************************************)
(* The patience sort of longest_increasing leaves a longest increasing set *)
(* of anchors, of any two documents: no anchor is told as moved that a     *)
(* larger part of the page could have kept in place.                       *)
(***************************************************************************)
THEOREM SpineHoldsTheMost == Spec => []SpineIsLongest
<1>1. Docs => SpineIsLongest
  <2> SUFFICES ASSUME Docs  PROVE SpineIsLongest
    OBVIOUS
  <2>1. PICK spine : spine = Spine(old, new)
    OBVIOUS
  <2>2. /\ spine \subseteq AnchoredOld(old, new)
        /\ Ascending(old, new, spine)
        /\ \A S \in SUBSET AnchoredOld(old, new) :
             Ascending(old, new, S) => Cardinality(S) <= Cardinality(spine)
    BY <2>1, SpineHolds DEF Docs, Doc
  <2>3. \A S : Increasing(S) <=> Ascending(old, new, S)
    BY Zenon DEF Increasing, Ascending
  <2> QED  BY <2>1, <2>2, <2>3, Zenon DEF SpineIsLongest
<1> QED  BY <1>1, DocsHold, PTL

----------------------------------------------------------------------------
(***************************************************************************)
(* The order of units, and the clustering of cascades.                     *)
(***************************************************************************)
(* vs has the elements of us, in the order f. *)
Shuffle(us, vs, f) ==
  /\ f \in [DOMAIN us -> DOMAIN us]
  /\ \A i, j \in DOMAIN us : f[i] = f[j] => i = j
  /\ vs = [k \in DOMAIN us |-> us[f[k]]]

(* Change types have different ranks. *)
LEMMA RanksDiffer ==
  \A c, d \in ChangeTypes : Rank[c] \in Nat /\ (Rank[c] = Rank[d] => c = d)
<1>1. /\ Rank["added"] = 0 /\ Rank["removed"] = 1 /\ Rank["modified"] = 2
      /\ Rank["reordered"] = 3 /\ Rank["restyled"] = 4
  BY DEF Rank, ChangeTypes
<1> QED  BY <1>1 DEF ChangeTypes

(* Sorting units shuffles them. *)
LEMMA InOrderHolds ==
  ASSUME NEW T, NEW us \in Seq(T),
         \A i \in DOMAIN us : us[i].key \in Nat /\ us[i].ct \in ChangeTypes
  PROVE  \E f : Shuffle(us, InOrder(us), f)
<1>1. PICK n : n = Len(us)
  OBVIOUS
<1>2. n \in Nat /\ DOMAIN us = 1..n
  BY <1>1, LenProperties
<1>3. PICK key, rank : /\ key = [i \in 1..n |-> us[i].key]
                       /\ rank = [i \in 1..n |-> Rank[us[i].ct]]
  OBVIOUS
<1>4. /\ key \in [1..n -> Nat] /\ rank \in [1..n -> Nat]
      /\ \A i, j \in 1..n : rank[i] = rank[j] => us[i].ct = us[j].ct
      /\ \A i, j \in 1..n : us[i].ct = us[j].ct => rank[i] = rank[j]
  BY <1>2, <1>3, RanksDiffer
<1>5. \A i, j \in 1..n :
        Sooner(us, i, j) <=> \/ key[i] < key[j]
                             \/ key[i] = key[j] /\ rank[i] < rank[j]
                             \/ key[i] = key[j] /\ rank[i] = rank[j] /\ i < j
  <2>1. \A i \in 1..n : key[i] = us[i].key /\ rank[i] = Rank[us[i].ct]
    BY <1>3
  <2> QED  BY <1>4, <2>1 DEF Sooner
<1>6. PICK R : R = {q \in (1..n) \X (1..n) : Sooner(us, q[1], q[2])}
  OBVIOUS
<1>7. \A i, j \in 1..n : <<i, j>> \in R <=> Sooner(us, i, j)
  BY <1>6
<1>8. StrictOrder(R, 1..n)
  <2>1. \A i \in 1..n : i \in Nat /\ key[i] \in Nat /\ rank[i] \in Nat
    BY <1>4
  <2>2. \A i \in 1..n : <<i, i>> \notin R
    BY <1>5, <1>7, <2>1
  <2>3. ASSUME NEW x \in 1..n, NEW y \in 1..n, NEW z \in 1..n,
               <<x, y>> \in R, <<y, z>> \in R
        PROVE  <<x, z>> \in R
    <3>1. Sooner(us, x, y) /\ Sooner(us, y, z)
      BY <1>7, <2>3
    <3>2. PICK a, b, c, d, e, f : /\ a = key[x] /\ b = key[y] /\ c = key[z]
                                  /\ d = rank[x] /\ e = rank[y] /\ f = rank[z]
      OBVIOUS
    <3>3. /\ a \in Nat /\ b \in Nat /\ c \in Nat /\ d \in Nat /\ e \in Nat /\ f \in Nat
          /\ x \in Nat /\ y \in Nat /\ z \in Nat
      BY <2>1, <3>2
    <3>4. /\ a < b \/ (a = b /\ d < e) \/ (a = b /\ d = e /\ x < y)
          /\ b < c \/ (b = c /\ e < f) \/ (b = c /\ e = f /\ y < z)
      BY <1>5, <3>1, <3>2
    <3>5. a < c \/ (a = c /\ d < f) \/ (a = c /\ d = f /\ x < z)
      BY <3>3, <3>4
    <3>6. Sooner(us, x, z)
      BY <1>5, <3>2, <3>5
    <3> QED  BY <1>7, <3>6
  <2>4. ASSUME NEW x \in 1..n, NEW y \in 1..n
        PROVE  x = y \/ <<x, y>> \in R \/ <<y, x>> \in R
    <3>1. PICK a, b, c, d : a = key[x] /\ b = key[y] /\ c = rank[x] /\ d = rank[y]
      OBVIOUS
    <3>2. /\ a \in Nat /\ b \in Nat /\ c \in Nat /\ d \in Nat /\ x \in Nat /\ y \in Nat
      BY <2>1, <3>1
    <3>3. \/ x = y
          \/ a < b \/ (a = b /\ c < d) \/ (a = b /\ c = d /\ x < y)
          \/ b < a \/ (b = a /\ d < c) \/ (b = a /\ d = c /\ y < x)
      BY <3>2
    <3>4. x = y \/ Sooner(us, x, y) \/ Sooner(us, y, x)
      BY <1>5, <3>1, <3>3
    <3> QED  BY <1>7, <3>4
  <2> QED  BY <2>2, <2>3, <2>4 DEF StrictOrder
<1>9. \A i \in 1..n : {j \in 1..n : Sooner(us, j, i)} = Before(R, 1..n, i)
  BY <1>7 DEF Before
<1>10. /\ \A i \in 1..n : Cardinality(Before(R, 1..n, i)) \in 0..(n - 1)
       /\ \A i, j \in 1..n :
            Cardinality(Before(R, 1..n, i)) = Cardinality(Before(R, 1..n, j)) => i = j
       /\ \A k \in 1..n : \E i \in 1..n : Cardinality(Before(R, 1..n, i)) = k - 1
  BY <1>2, <1>8, RanksOfNumbers
<1>11. PICK f : f = [k \in 1..n |->
                       CHOOSE i \in 1..n :
                         Cardinality({j \in 1..n : Sooner(us, j, i)}) = k - 1]
  OBVIOUS
<1>12. ASSUME NEW k \in 1..n
       PROVE  f[k] \in 1..n /\ Cardinality(Before(R, 1..n, f[k])) = k - 1
  <2>1. PICK i \in 1..n : Cardinality(Before(R, 1..n, i)) = k - 1
    BY <1>10
  <2>2. Cardinality({j \in 1..n : Sooner(us, j, i)}) = k - 1
    BY <1>9, <2>1
  <2>3. f[k] = CHOOSE x \in 1..n : Cardinality({j \in 1..n : Sooner(us, j, x)}) = k - 1
    BY <1>11
  <2>4. f[k] \in 1..n /\ Cardinality({j \in 1..n : Sooner(us, j, f[k])}) = k - 1
    BY <2>2, <2>3, Zenon
  <2> QED  BY <1>9, <2>4
<1>13. \A i, j \in 1..n : f[i] = f[j] => i = j
  <2>1. ASSUME NEW i \in 1..n, NEW j \in 1..n, f[i] = f[j]
        PROVE  i = j
    <3>1. i - 1 = j - 1
      BY <1>12, <2>1
    <3> QED  BY <3>1
  <2> QED  BY <2>1
<1>14. f \in [1..n -> 1..n]
  BY <1>11, <1>12
<1>15. PICK vs : vs = InOrder(us)
  OBVIOUS
<1>16. vs = [k \in 1..n |-> us[f[k]]]
  BY <1>2, <1>11, <1>15 DEF InOrder
<1>17. Shuffle(us, vs, f)
  BY <1>2, <1>13, <1>14, <1>16 DEF Shuffle
<1> QED  BY <1>15, <1>17

(* Sorting a set of numbers lists each once. *)
LEMMA SortedHolds ==
  ASSUME NEW S \in SUBSET Nat, IsFiniteSet(S)
  PROVE  /\ Cardinality(S) \in Nat
         /\ Sorted(S) \in [1..Cardinality(S) -> S]
         /\ \A i, j \in 1..Cardinality(S) : Sorted(S)[i] = Sorted(S)[j] => i = j
<1>1. PICK n, R : n = Cardinality(S) /\ R = {q \in S \X S : q[1] < q[2]}
  OBVIOUS
<1>2. n \in Nat
  BY <1>1, FS_CardinalityType
<1>3. \A x, y \in S : <<x, y>> \in R <=> x < y
  BY <1>1
<1>4. IsFiniteSet(S) /\ StrictOrder(R, S)
  BY <1>3 DEF StrictOrder
<1>5. Ranked(R, S, n)
  BY <1>1, <1>4, StrictOrderRanks
<1>6. \A x \in S : {y \in S : y < x} = Before(R, S, x)
  BY <1>3 DEF Before
<1>7. PICK f : f = Sorted(S)
  OBVIOUS
<1>8. f = [k \in 1..n |-> CHOOSE x \in S : Cardinality({y \in S : y < x}) = k - 1]
  BY <1>1, <1>7 DEF Sorted
<1>9. ASSUME NEW k \in 1..n
      PROVE  f[k] \in S /\ Cardinality(Before(R, S, f[k])) = k - 1
  <2>1. PICK x \in S : Cardinality(Before(R, S, x)) = k - 1
    BY <1>5 DEF Ranked
  <2>2. Cardinality({y \in S : y < x}) = k - 1
    BY <1>6, <2>1
  <2>3. f[k] = CHOOSE z \in S : Cardinality({y \in S : y < z}) = k - 1
    BY <1>8
  <2>4. f[k] \in S /\ Cardinality({y \in S : y < f[k]}) = k - 1
    BY <2>2, <2>3, Zenon
  <2> QED  BY <1>6, <2>4
<1>10. \A i, j \in 1..n : f[i] = f[j] => i = j
  <2>1. ASSUME NEW i \in 1..n, NEW j \in 1..n, f[i] = f[j]
        PROVE  i = j
    <3>1. i - 1 = j - 1
      BY <1>9, <2>1
    <3> QED  BY <3>1
  <2> QED  BY <2>1
<1>11. f \in [1..n -> S]
  BY <1>8, <1>9
<1> QED  BY <1>1, <1>2, <1>7, <1>10, <1>11

----------------------------------------------------------------------------
(***************************************************************************)
(* What a unit stands for: an anchor, or residual blocks, one at least.    *)
(***************************************************************************)
Sided(u) ==
  \/ <<u.oi, u.ni>> \in Anchors(old, new)
  \/ /\ u.oi \in OldResidual(old, new) \cup {0}
     /\ u.ni \in NewResidual(old, new) \cup {0}
     /\ u.oi # 0 \/ u.ni # 0

Sides ==
  /\ todo \subseteq DOMAIN old \cup DOMAIN new
  /\ oldDone \subseteq OldResidual(old, new)
  /\ newDone \subseteq NewResidual(old, new)
  /\ phase = "removed" => todo \subseteq OldResidual(old, new)
  /\ phase = "added" => todo \subseteq NewResidual(old, new)
  /\ \A i \in DOMAIN units : Sided(units[i])

(* A step adds one such unit at most. *)
Adds ==
  units' = units \/ \E u \in Drafts : Sided(u) /\ units' = Append(units, u)

(* What the units and the documents are made of stays as it is when they do. *)
LEMMA SidesStay ==
  ASSUME Inv, Sides, UNCHANGED <<old, new>>, Adds,
         todo' \subseteq DOMAIN old \cup DOMAIN new,
         oldDone' \subseteq OldResidual(old, new),
         newDone' \subseteq NewResidual(old, new),
         phase' = "removed" => todo' \subseteq OldResidual(old, new),
         phase' = "added" => todo' \subseteq NewResidual(old, new)
  PROVE  Sides'
<1>1. /\ Anchors(old, new)' = Anchors(old, new)
      /\ OldResidual(old, new)' = OldResidual(old, new)
      /\ NewResidual(old, new)' = NewResidual(old, new)
  BY SameDocs
<1>2. ASSUME NEW i \in DOMAIN units'
      PROVE  Sided(units'[i])
  <2>1. CASE units' = units
    BY <2>1 DEF Sides
  <2>2. ASSUME NEW u \in Drafts, Sided(u), units' = Append(units, u)
        PROVE  Sided(units'[i])
    <3>1. /\ DOMAIN units' = DOMAIN units \cup {Len(units) + 1}
          /\ \A j \in DOMAIN units : units'[j] = units[j]
          /\ units'[Len(units) + 1] = u
      BY <2>2, ToldAppend DEF Inv, Core, Shape
    <3> QED  BY <2>2, <3>1 DEF Sides
  <2> QED  BY <2>1, <2>2 DEF Adds
<1>3. ASSUME NEW i \in DOMAIN units'
      PROVE  Sided(units[i])'
  BY <1>1, <1>2 DEF Sided
<1> QED  BY <1>1, <1>3 DEF Sides

(* The loop over the anchors adds one at most. *)
LEMMA AnchorAdds == Inv /\ Anchor => Adds
<1> SUFFICES ASSUME Inv, Anchor  PROVE Adds
  OBVIOUS
<1>1. PICK p \in Anchors(old, new) : units' = units \o AnchorUnit(p[1], p[2])
  BY DEF Anchor
<1>2. PICK o, n : o = p[1] /\ n = p[2]
  OBVIOUS
<1>3. o \in {0} \cup DOMAIN old /\ n \in {0} \cup DOMAIN new /\ <<o, n>> \in Anchors(old, new)
  BY <1>2 DEF Anchors
<1>4. units \in Seq(Drafts)
  BY DEF Inv, Core, Shape
<1>5. CASE AnchorUnit(o, n) = <<>>
  BY <1>1, <1>2, <1>4, <1>5, ConcatEmptySeq DEF Adds
<1>6. CASE AnchorUnit(o, n) # <<>>
  <2>1. PICK ct \in ChangeTypes, moved \in BOOLEAN :
          AnchorUnit(o, n) = <<Unit(ct, o, n, moved)>>
    <3>1. MovedRun(old, new, o) \in BOOLEAN
      BY DEF MovedRun
    <3>2. \/ AnchorUnit(o, n) = <<Unit("modified", o, n, MovedRun(old, new, o))>>
          \/ AnchorUnit(o, n) = <<Unit("restyled", o, n, FALSE)>>
          \/ AnchorUnit(o, n) = <<Unit("reordered", o, n, TRUE)>>
      BY <1>6 DEF AnchorUnit
    <3> QED  BY <3>1, <3>2 DEF ChangeTypes
  <2>2. PICK u : u = Unit(ct, o, n, moved)
    OBVIOUS
  <2>3. u \in Drafts /\ u.oi = o /\ u.ni = n
    BY <1>3, <2>2, UnitIsDraft
  <2>4. Sided(u)
    BY <1>3, <2>3 DEF Sided
  <2>5. units' = Append(units, u)
    BY <1>1, <1>2, <1>4, <2>1, <2>2, <2>3, AppendIsConcat
  <2> QED  BY <2>3, <2>4, <2>5 DEF Adds
<1> QED  BY <1>5, <1>6

(* A pair of residual blocks is such a unit. *)
LEMMA PairAdds ==
  ASSUME Inv, NEW o \in OldResidual(old, new), NEW n \in NewResidual(old, new),
         NEW ct \in ChangeTypes, NEW moved \in BOOLEAN,
         units' = Append(units, Unit(ct, o, n, moved))
  PROVE  Adds
<1>1. PICK u : u = Unit(ct, o, n, moved)
  OBVIOUS
<1>2. o \in {0} \cup DOMAIN old /\ n \in {0} \cup DOMAIN new /\ o # 0
  <2>1. o \in DOMAIN old /\ n \in DOMAIN new
    BY Residuals
  <2> QED  BY <2>1 DEF Inv, Core, Shape
<1>3. u \in Drafts /\ u.oi = o /\ u.ni = n
  BY <1>1, <1>2, UnitIsDraft
<1>4. Sided(u)
  BY <1>2, <1>3 DEF Sided
<1> QED  BY <1>1, <1>3, <1>4 DEF Adds

(* Every step of the diff keeps which side each unit speaks of. *)
LEMMA SidesStep == Inv /\ Sides /\ [Next]_vars => Sides'
<1> SUFFICES ASSUME Inv, Sides, [Next]_vars  PROVE Sides'
  OBVIOUS
<1>1. ASSUME UNCHANGED units  PROVE Adds
  BY <1>1 DEF Adds
<1>2. CASE Align
  BY <1>1, <1>2, SidesStay, Residuals DEF Align, Sides
<1>3. CASE Anchor
  <2>1. Adds
    BY <1>3, AnchorAdds
  <2>2. todo' \subseteq todo /\ phase' = "anchors" /\ UNCHANGED <<old, new, oldDone, newDone>>
    BY <1>3 DEF Anchor, Visit
  <2> QED  BY <2>1, <2>2, SidesStay DEF Sides
<1>4. CASE EndAnchors
  BY <1>1, <1>4, SidesStay, Residuals DEF EndAnchors, Sides
<1>5. CASE Move
  <2>1. PICK o \in todo : \E n \in SameText(o) :
          Visit(o) /\ Pair(o, n, Unit("reordered", o, n, TRUE))
    BY <1>5 DEF Move
  <2>2. PICK n \in SameText(o) : Visit(o) /\ Pair(o, n, Unit("reordered", o, n, TRUE))
    BY <2>1
  <2>3. phase = "same" /\ UNCHANGED <<old, new, phase>>
    BY <1>5 DEF Move
  <2>4. o \in OldResidual(old, new) /\ n \in NewResidual(old, new)
    BY <2>3 DEF Inv, Handed, SameText
  <2>5. Adds
    <3>1. "reordered" \in ChangeTypes /\ TRUE \in BOOLEAN
      BY DEF ChangeTypes
    <3> QED  BY <2>2, <2>4, <3>1, PairAdds DEF Pair
  <2>6. /\ todo' \subseteq todo /\ phase' = "same"
        /\ oldDone' = oldDone \cup {o} /\ newDone' = newDone \cup {n}
    BY <2>2, <2>3 DEF Visit, Pair
  <2> QED  BY <2>3, <2>4, <2>5, <2>6, SidesStay DEF Sides
<1>6. CASE KeepResidual
  BY <1>1, <1>6, SidesStay DEF KeepResidual, Visit, Sides
<1>7. CASE EndSame
  BY <1>1, <1>7, SidesStay DEF EndSame, Sides
<1>8. CASE PairSimilar
  <2>1. PICK p \in scored : Pair(p[1], p[2], Unit("modified", p[1], p[2],
                                   Affinity(old[p[1]], new[p[2]]) < 50))
    BY <1>8 DEF PairSimilar
  <2>2. PICK o, n, moved : /\ o = p[1] /\ n = p[2]
                           /\ moved = (Affinity(old[p[1]], new[p[2]]) < 50)
    OBVIOUS
  <2>3. /\ o \in OldResidual(old, new) /\ n \in NewResidual(old, new)
        /\ moved \in BOOLEAN
    BY <2>2 DEF Inv, Handed
  <2>4. Pair(o, n, Unit("modified", o, n, moved))
    BY <2>1, <2>2
  <2>5. Adds
    <3>1. "modified" \in ChangeTypes
      BY DEF ChangeTypes
    <3> QED  BY <2>3, <2>4, <3>1, PairAdds DEF Pair
  <2>6. phase' = "similar" /\ UNCHANGED <<old, new, todo>>
    BY <1>8 DEF PairSimilar
  <2>7. oldDone' = oldDone \cup {o} /\ newDone' = newDone \cup {n}
    BY <2>4 DEF Pair
  <2> QED  BY <2>3, <2>5, <2>6, <2>7, SidesStay DEF Sides
<1>9. CASE SkipPair
  BY <1>1, <1>9, SidesStay DEF SkipPair, Sides
<1>10. CASE EndSimilar
  BY <1>1, <1>10, SidesStay, Residuals DEF EndSimilar, Sides
<1>11. CASE TellRemoved
  <2>1. PICK o \in todo : Visit(o) /\ units' = Append(units, Unit("removed", o, 0, FALSE))
    BY <1>11 DEF TellRemoved
  <2>2. phase = "removed" /\ UNCHANGED <<old, new, phase, oldDone, newDone>>
    BY <1>11 DEF TellRemoved
  <2>3. o \in OldResidual(old, new) /\ o \in DOMAIN old /\ o # 0
    BY <2>2, Residuals DEF Sides, Inv, Core, Shape
  <2>4. PICK u : u = Unit("removed", o, 0, FALSE)
    OBVIOUS
  <2>5. u \in Drafts /\ u.oi = o /\ u.ni = 0
    BY <2>3, <2>4, LeftoverIsDraft
  <2>6. Adds
    BY <2>1, <2>3, <2>4, <2>5 DEF Adds, Sided
  <2>7. todo' \subseteq todo
    BY <2>1 DEF Visit
  <2> QED  BY <2>2, <2>6, <2>7, SidesStay DEF Sides
<1>12. CASE EndRemoved
  BY <1>1, <1>12, SidesStay, Residuals DEF EndRemoved, Sides
<1>13. CASE TellAdded
  <2>1. PICK n \in todo : Visit(n) /\ units' = Append(units, Unit("added", 0, n, FALSE))
    BY <1>13 DEF TellAdded
  <2>2. phase = "added" /\ UNCHANGED <<old, new, phase, oldDone, newDone>>
    BY <1>13 DEF TellAdded
  <2>3. n \in NewResidual(old, new) /\ n \in DOMAIN new /\ n # 0
    BY <2>2, Residuals DEF Sides, Inv, Core, Shape
  <2>4. PICK u : u = Unit("added", 0, n, FALSE)
    OBVIOUS
  <2>5. u \in Drafts /\ u.oi = 0 /\ u.ni = n
    BY <2>3, <2>4, LeftoverIsDraft
  <2>6. Adds
    BY <2>1, <2>3, <2>4, <2>5 DEF Adds, Sided
  <2>7. todo' \subseteq todo
    BY <2>1 DEF Visit
  <2> QED  BY <2>2, <2>6, <2>7, SidesStay DEF Sides
<1>14. CASE EndAdded
  BY <1>1, <1>14, SidesStay DEF EndAdded, Sides
<1>15. CASE ClusterCascades
  BY <1>1, <1>15, SidesStay DEF ClusterCascades, Sides
<1>16. CASE UNCHANGED vars
  BY <1>1, <1>16, SidesStay DEF vars, Sides
<1> QED  BY <1>2, <1>3, <1>4, <1>5, <1>6, <1>7, <1>8, <1>9, <1>10, <1>11, <1>12,
            <1>13, <1>14, <1>15, <1>16 DEF Next

(* So every reachable unit speaks of the side its change type says. *)
LEMMA SidesHold == Spec => [](Inv /\ Docs /\ Sides)
<1>1. Init => Sides
  <2> SUFFICES ASSUME Init  PROVE Sides
    OBVIOUS
  <2>1. /\ todo = {} /\ oldDone = {} /\ newDone = {} /\ units = <<>>
        /\ phase \in {"align", "done"}
    BY DEF Init
  <2>2. DOMAIN units = {}
    BY <2>1
  <2> QED  BY <2>1, <2>2 DEF Sides
<1> QED  BY <1>1, Invariance, DocsHold, SidesStep, PTL DEF Spec

----------------------------------------------------------------------------
(* A unit of a block is of its kind, and has the slot key of the new one. *)
LEMMA DraftTyped ==
  ASSUME Docs, NEW u \in Drafts, u.oi # 0 \/ u.ni # 0
  PROVE  /\ u \in UnitType
         /\ u.key = IF u.ni = 0 THEN old[u.oi].key ELSE new[u.ni].key
<1>1. PICK ct \in ChangeTypes, o \in {0} \cup DOMAIN old, n \in {0} \cup DOMAIN new,
           moved \in BOOLEAN : u = Unit(ct, o, n, moved)
  BY DEF Drafts
<1>2. /\ u = [key |-> IF n = 0 THEN old[o].key ELSE new[n].key, ct |-> ct,
              from |-> IF o = 0 THEN EmptyNorm ELSE old[o].norm,
              to |-> IF n = 0 THEN EmptyNorm ELSE new[n].norm,
              oi |-> o, ni |-> n, moved |-> moved, counts |-> NoCounts]
      /\ o # 0 \/ n # 0
  BY <1>1 DEF Unit
<1>3. /\ DOMAIN old \subseteq Nat /\ DOMAIN new \subseteq Nat
      /\ \A i \in DOMAIN old : old[i].key \in Keys /\ old[i].norm \in Norms
      /\ \A i \in DOMAIN new : new[i].key \in Keys /\ new[i].norm \in Norms
  <2>1. /\ DOMAIN old = 1..Len(old) /\ Len(old) \in Nat
        /\ DOMAIN new = 1..Len(new) /\ Len(new) \in Nat
    BY LenProperties DEF Docs, Doc
  <2>2. /\ \A i \in DOMAIN old : old[i] \in Block
        /\ \A i \in DOMAIN new : new[i] \in Block
    BY <2>1, ElementOfSeq DEF Docs, Doc
  <2> QED  BY <2>1, <2>2 DEF Block
<1>4. NoCounts \in [added : Nat, removed : Nat, modified : Nat]
  BY DEF NoCounts
<1>5. (IF n = 0 THEN old[o].key ELSE new[n].key) \in Keys
  BY <1>1, <1>2, <1>3
<1>6. /\ (IF o = 0 THEN EmptyNorm ELSE old[o].norm) \in Norms \cup {EmptyNorm}
      /\ (IF n = 0 THEN EmptyNorm ELSE new[n].norm) \in Norms \cup {EmptyNorm}
      /\ o \in Nat /\ n \in Nat
  BY <1>1, <1>3
<1> QED  BY <1>1, <1>2, <1>4, <1>5, <1>6 DEF UnitType

(* The blocks tell units. *)
LEMMA UnitsTyped ==
  ASSUME Inv, Docs, Sides
  PROVE  /\ units \in Seq(UnitType)
         /\ \A i \in DOMAIN units :
              units[i].key = IF units[i].ni = 0 THEN old[units[i].oi].key
                             ELSE new[units[i].ni].key
<1>1. units \in Seq(Drafts) /\ DOMAIN units = 1..Len(units) /\ Len(units) \in Nat
  BY LenProperties DEF Inv, Core, Shape
<1>2. ASSUME NEW i \in DOMAIN units
      PROVE  /\ units[i] \in UnitType
             /\ units[i].key = IF units[i].ni = 0 THEN old[units[i].oi].key
                               ELSE new[units[i].ni].key
  <2>1. PICK u : u = units[i]
    OBVIOUS
  <2>2. u \in Drafts /\ Sided(u)
    BY <1>1, <2>1, ElementOfSeq DEF Sides
  <2>3. u.oi # 0 \/ u.ni # 0
    <3>1. ASSUME <<u.oi, u.ni>> \in Anchors(old, new)
          PROVE  u.oi \in DOMAIN old
      BY <3>1 DEF Anchors
    <3>2. 0 \notin DOMAIN old
      BY DEF Inv, Core, Shape
    <3> QED  BY <2>2, <3>1, <3>2 DEF Sided
  <2> QED  BY <2>1, <2>2, <2>3, DraftTyped
<1>3. units \in [1..Len(units) -> UnitType]
  BY <1>1, <1>2
<1>4. units \in Seq(UnitType)
  BY <1>1, <1>3
<1> QED  BY <1>2, <1>4

(* The text of a container is one of the document. *)
LEMMA ContainerNormTyped ==
  ASSUME NEW doc \in Doc, NEW c
  PROVE  ContainerNorm(doc, c) \in Norms \cup {EmptyNorm}
<1>1. PICK held : held = {i \in DOMAIN doc : /\ doc[i].key = c
                                             /\ i < Len(doc) /\ doc[i + 1].parent = c}
  OBVIOUS
<1>2. ContainerNorm(doc, c) =
        IF held = {} THEN EmptyNorm
        ELSE doc[CHOOSE i \in held : \A j \in held : j <= i].norm
  BY <1>1 DEF ContainerNorm
<1>3. CASE held = {}
  BY <1>2, <1>3
<1>4. CASE held # {}
  <2>1. doc \in Seq(Block) /\ DOMAIN doc = 1..Len(doc) /\ Len(doc) \in Nat
    BY LenProperties DEF Doc
  <2>2. held \in SUBSET Nat /\ \A i \in held : i \in DOMAIN doc /\ i <= Len(doc)
    BY <1>1, <2>1
  <2>3. \E i \in held : \A j \in held : j <= i
    BY <1>4, <2>1, <2>2, GreatestNumber
  <2>4. PICK k : k = CHOOSE i \in held : \A j \in held : j <= i
    OBVIOUS
  <2>5. k \in DOMAIN doc
    BY <2>2, <2>3, <2>4
  <2>6. doc[k] \in Block
    BY <2>1, <2>5, ElementOfSeq
  <2> QED  BY <1>2, <1>4, <2>4, <2>6 DEF Block
<1> QED  BY <1>3, <1>4

(* A unit that counts others is one. *)
LEMMA StructTyped ==
  ASSUME Docs, NEW T, NEW us \in Seq(T), NEW c \in Keys
  PROVE  Struct(us, c) \in UnitType /\ Struct(us, c).key = c
<1> DEFINE count(cts) == Cardinality({i \in Members(us, c) : us[i].ct \in cts})
           counts == [added |-> count({"added"}), removed |-> count({"removed"}),
                      modified |-> count({"modified", "reordered", "restyled"})]
<1>1. \A cts : count(cts) \in Nat
  <2>1. DOMAIN us = 1..Len(us) /\ Len(us) \in Nat
    BY LenProperties
  <2>2. 1 \in Int /\ Len(us) \in Int
    BY <2>1
  <2>3. IsFiniteSet(1..Len(us))
    BY <2>2, FS_Interval
  <2>4. \A cts : {i \in Members(us, c) : us[i].ct \in cts} \subseteq 1..Len(us)
    BY <2>1 DEF Members
  <2> QED  BY <2>3, <2>4, FS_Subset, FS_CardinalityType
<1>2. counts \in [added : Nat, removed : Nat, modified : Nat]
  BY <1>1
<1>3. PICK ct \in ChangeTypes :
        Struct(us, c) = [key |-> c, ct |-> ct,
                         from |-> ContainerNorm(old, c), to |-> ContainerNorm(new, c),
                         oi |-> 0, ni |-> 0, moved |-> FALSE, counts |-> counts]
  <2> DEFINE only(f) == \A g \in DOMAIN counts : counts[g] > 0 <=> g = f
  <2>1. PICK ct : ct = IF only("removed") THEN "removed"
                       ELSE IF only("added") THEN "added" ELSE "modified"
    OBVIOUS
  <2>2. ct \in ChangeTypes
    <3> HIDE DEF only
    <3> QED  BY <2>1 DEF ChangeTypes
  <2>3. Struct(us, c) = [key |-> c, ct |-> ct,
                         from |-> ContainerNorm(old, c), to |-> ContainerNorm(new, c),
                         oi |-> 0, ni |-> 0, moved |-> FALSE, counts |-> counts]
    BY <2>1, Zenon DEF Struct
  <2> QED  BY <2>2, <2>3
<1>4. /\ ContainerNorm(old, c) \in Norms \cup {EmptyNorm}
      /\ ContainerNorm(new, c) \in Norms \cup {EmptyNorm}
  BY ContainerNormTyped DEF Docs
<1> HIDE DEF counts, count
<1> QED  BY <1>2, <1>3, <1>4 DEF UnitType

----------------------------------------------------------------------------
UniqueKeys(us) == \A i, j \in DOMAIN us : us[i].key = us[j].key => i = j

(* Sorting units changes neither what they are nor how many have a key. *)
LEMMA InOrderKeeps ==
  ASSUME NEW us \in Seq(UnitType)
  PROVE  /\ InOrder(us) \in Seq(UnitType)
         /\ UniqueKeys(us) => UniqueKeys(InOrder(us))
<1>1. DOMAIN us = 1..Len(us) /\ Len(us) \in Nat /\ us \in [1..Len(us) -> UnitType]
  BY LenProperties
<1>2. \A i \in DOMAIN us : us[i].key \in Nat /\ us[i].ct \in ChangeTypes
  BY <1>1, KeysAssumption DEF UnitType
<1>3. PICK f : Shuffle(us, InOrder(us), f)
  BY <1>2, InOrderHolds
<1>4. PICK vs : vs = InOrder(us)
  OBVIOUS
<1>5. /\ f \in [DOMAIN us -> DOMAIN us]
      /\ \A i, j \in DOMAIN us : f[i] = f[j] => i = j
      /\ vs = [k \in DOMAIN us |-> us[f[k]]]
  BY <1>3, <1>4 DEF Shuffle
<1>6. vs \in [1..Len(us) -> UnitType]
  BY <1>1, <1>5
<1>7. vs \in Seq(UnitType)
  BY <1>1, <1>6
<1>8. UniqueKeys(us) => UniqueKeys(vs)
  BY <1>5 DEF UniqueKeys
<1> QED  BY <1>4, <1>7, <1>8

(* There are finitely many full containers. *)
LEMMA CascadesFinite ==
  ASSUME NEW T, NEW us \in Seq(T)
  PROVE  IsFiniteSet(Cascades(us)) /\ Cascades(us) \in SUBSET Keys
<1>1. DOMAIN us = 1..Len(us) /\ Len(us) \in Nat
  BY LenProperties
<1>2. IsFiniteSet(DOMAIN us)
  <2>1. 1 \in Int /\ Len(us) \in Int
    BY <1>1
  <2> QED  BY <1>1, <2>1, FS_Interval
<1>3. PICK f, S, D : /\ D = DOMAIN us /\ f = [i \in D |-> ContainerOf(us[i])]
                     /\ S = {ContainerOf(us[i]) : i \in D}
  OBVIOUS
<1>4. f \in Surjection(D, S)
  BY <1>3 DEF Surjection
<1>5. IsFiniteSet(S)
  BY <1>2, <1>3, <1>4, FS_Surjection
<1>6. ASSUME NEW c \in Cascades(us)
      PROVE  c \in S
  <2>1. Cardinality(Members(us, c)) > MaxChildren
    BY DEF Cascades
  <2>2. Members(us, c) # {}
    <3>1. SUFFICES ASSUME Members(us, c) = {} PROVE FALSE
      OBVIOUS
    <3>2. Cardinality(Members(us, c)) = 0
      BY <3>1, FS_EmptySet
    <3> QED  BY <2>1, <3>2, MaxChildrenAssumption
  <2>3. PICK i \in DOMAIN us : ContainerOf(us[i]) = c
    BY <2>2 DEF Members
  <2> QED  BY <1>3, <2>3
<1>7. IsFiniteSet(Cascades(us))
  BY <1>5, <1>6, FS_Subset
<1> QED  BY <1>7 DEF Cascades

(***************************************************************************)
(* What clustering returns before it is sorted: the units that are not     *)
(* dropped, then the ones that count.                                      *)
(***************************************************************************)
Remaining(us) ==
  DOMAIN us \ UNION {Members(us, c) \cup Own(us, c) : c \in Cascades(us)}

Loose(us) ==
  [n \in DOMAIN Sorted(Remaining(us)) |-> us[Sorted(Remaining(us))[n]]]

Counting(us) ==
  [n \in DOMAIN Sorted(Cascades(us)) |-> Struct(us, Sorted(Cascades(us))[n])]

(* Where each of them comes from: s lists the units kept, t the containers. *)
Unsorted(us, z, r, c, s, t) ==
  /\ r \in Nat /\ s \in [1..r -> Remaining(us)]
  /\ c \in Nat /\ t \in [1..c -> Cascades(us)]
  /\ \A i, j \in 1..r : s[i] = s[j] => i = j
  /\ \A i, j \in 1..c : t[i] = t[j] => i = j
  /\ DOMAIN z = 1..(r + c)
  /\ \A i \in 1..(r + c) : z[i] = IF i <= r THEN us[s[i]] ELSE Struct(us, t[i - r])

(* Clustering sorts these. *)
LEMMA UnsortedHolds ==
  ASSUME Docs, NEW us \in Seq(UnitType)
  PROVE  \E z \in Seq(UnitType) :
           /\ Clustered(us) = InOrder(z)
           /\ \E r, c, s, t : Unsorted(us, z, r, c, s, t)
<1>1. DOMAIN us = 1..Len(us) /\ Len(us) \in Nat /\ us \in [1..Len(us) -> UnitType]
  BY LenProperties
<1>2. PICK R, C, r, c, s, t :
        /\ R = Remaining(us) /\ C = Cascades(us)
        /\ r = Cardinality(R) /\ c = Cardinality(C)
        /\ s = Sorted(R) /\ t = Sorted(C)
  OBVIOUS
<1>3. /\ r \in Nat /\ s \in [1..r -> R] /\ R \subseteq DOMAIN us
      /\ \A i, j \in 1..r : s[i] = s[j] => i = j
  <2>1. 1 \in Int /\ Len(us) \in Int
    BY <1>1
  <2>2. IsFiniteSet(DOMAIN us)
    BY <1>1, <2>1, FS_Interval
  <2>3. R \subseteq DOMAIN us /\ R \in SUBSET Nat
    BY <1>1, <1>2 DEF Remaining
  <2>4. IsFiniteSet(R)
    BY <2>2, <2>3, FS_Subset
  <2> QED  BY <1>2, <2>3, <2>4, SortedHolds
<1>4. /\ c \in Nat /\ t \in [1..c -> C] /\ C \subseteq Keys
      /\ \A i, j \in 1..c : t[i] = t[j] => i = j
  <2>1. IsFiniteSet(C) /\ C \subseteq Keys
    BY <1>2, CascadesFinite
  <2>2. C \in SUBSET Nat
    BY <2>1, KeysAssumption
  <2> QED  BY <1>2, <2>1, <2>2, SortedHolds
<1>5. PICK x, y : x = Loose(us) /\ y = Counting(us)
  OBVIOUS
<1>6. x = [n \in 1..r |-> us[s[n]]]
  BY <1>2, <1>3, <1>5 DEF Loose
<1>7. y = [n \in 1..c |-> Struct(us, t[n])]
  BY <1>2, <1>4, <1>5 DEF Counting
<1>8. x \in Seq(UnitType) /\ Len(x) = r /\ DOMAIN x = 1..r
  <2>1. x \in [1..r -> UnitType]
    BY <1>1, <1>3, <1>6
  <2> QED  BY <1>3, <2>1
<1>9. \A n \in 1..c : y[n] \in UnitType /\ y[n].key = t[n]
  <2>1. ASSUME NEW n \in 1..c
        PROVE  y[n] \in UnitType /\ y[n].key = t[n]
    <3>1. PICK k : k = t[n]
      OBVIOUS
    <3>2. k \in Keys /\ y[n] = Struct(us, k)
      BY <1>4, <1>7, <3>1
    <3> QED  BY <3>1, <3>2, StructTyped
  <2> QED  BY <2>1
<1>10. y \in Seq(UnitType) /\ Len(y) = c /\ DOMAIN y = 1..c
  <2>1. y \in [1..c -> UnitType]
    BY <1>7, <1>9
  <2> QED  BY <1>4, <2>1
<1>11. PICK z : z = x \o y
  OBVIOUS
<1>12. /\ z \in Seq(UnitType) /\ DOMAIN z = 1..(r + c)
       /\ \A i \in 1..(r + c) : z[i] = IF i <= r THEN x[i] ELSE y[i - r]
  <2>1. /\ z \in Seq(UnitType) /\ Len(z) = r + c
        /\ \A i \in 1..(r + c) : z[i] = IF i <= r THEN x[i] ELSE y[i - r]
    BY <1>8, <1>10, <1>11, ConcatProperties
  <2> QED  BY <2>1, LenProperties
<1>13. Clustered(us) = InOrder(z)
  BY <1>5, <1>11 DEF Clustered, Loose, Counting, Remaining
<1>14. \A i \in 1..(r + c) : z[i] = IF i <= r THEN us[s[i]] ELSE Struct(us, t[i - r])
  <2>1. ASSUME NEW i \in 1..(r + c), i <= r  PROVE z[i] = us[s[i]]
    <3>1. i \in 1..r
      BY <1>3, <1>4, <2>1
    <3> QED  BY <1>6, <1>12, <2>1, <3>1
  <2>2. ASSUME NEW i \in 1..(r + c), ~(i <= r)  PROVE z[i] = Struct(us, t[i - r])
    <3>1. i - r \in 1..c
      BY <1>3, <1>4, <2>2
    <3> QED  BY <1>7, <1>12, <2>2, <3>1
  <2> QED  BY <2>1, <2>2
<1>15. Unsorted(us, z, r, c, s, t)
  BY <1>2, <1>3, <1>4, <1>12, <1>14 DEF Unsorted
<1> QED  BY <1>12, <1>13, <1>15

(* Of units with a slot key each, a container's own gives way to its count. *)
LEMMA ClusteredHolds ==
  ASSUME Docs, NEW us \in Seq(UnitType)
  PROVE  /\ Clustered(us) \in Seq(UnitType)
         /\ UniqueKeys(us) => UniqueKeys(Clustered(us))
<1>1. DOMAIN us = 1..Len(us) /\ Len(us) \in Nat
  BY LenProperties
<1>2. PICK z \in Seq(UnitType) : /\ Clustered(us) = InOrder(z)
                                /\ \E r, c, s, t : Unsorted(us, z, r, c, s, t)
  BY UnsortedHolds
<1>3. PICK r, c, s, t : Unsorted(us, z, r, c, s, t)
  BY <1>2
<1>4. PICK R, C : R = Remaining(us) /\ C = Cascades(us)
  OBVIOUS
<1>5. /\ r \in Nat /\ s \in [1..r -> R] /\ R \subseteq DOMAIN us
      /\ \A i, j \in 1..r : s[i] = s[j] => i = j
  BY <1>3, <1>4 DEF Unsorted, Remaining
<1>6. /\ c \in Nat /\ t \in [1..c -> C] /\ C \subseteq Keys
      /\ \A i, j \in 1..c : t[i] = t[j] => i = j
  BY <1>3, <1>4, CascadesFinite DEF Unsorted
<1>7. PICK x, y : /\ x = [n \in 1..r |-> us[s[n]]]
                  /\ y = [n \in 1..c |-> Struct(us, t[n])]
  OBVIOUS
<1>8. \A n \in 1..c : y[n].key = t[n]
  <2>1. ASSUME NEW n \in 1..c  PROVE y[n].key = t[n]
    <3>1. PICK k : k = t[n]
      OBVIOUS
    <3>2. k \in Keys /\ y[n] = Struct(us, k)
      BY <1>6, <1>7, <3>1
    <3> QED  BY <3>1, <3>2, StructTyped
  <2> QED  BY <2>1
<1>9. /\ DOMAIN z = 1..(r + c)
      /\ \A i \in 1..(r + c) : z[i] = IF i <= r THEN us[s[i]] ELSE Struct(us, t[i - r])
  BY <1>3 DEF Unsorted
<1>10. /\ \A i \in 1..(r + c) : i <= r => i \in 1..r /\ z[i] = x[i]
       /\ \A i \in 1..(r + c) : ~(i <= r) => i - r \in 1..c /\ z[i] = y[i - r]
  <2>1. ASSUME NEW i \in 1..(r + c), i <= r  PROVE i \in 1..r /\ z[i] = x[i]
    <3>1. i \in 1..r
      BY <1>5, <1>6, <2>1
    <3> QED  BY <1>7, <1>9, <2>1, <3>1
  <2>2. ASSUME NEW i \in 1..(r + c), ~(i <= r)  PROVE i - r \in 1..c /\ z[i] = y[i - r]
    <3>1. i - r \in 1..c
      BY <1>5, <1>6, <2>2
    <3> QED  BY <1>7, <1>9, <2>2, <3>1
  <2> QED  BY <2>1, <2>2
<1>11. ASSUME UniqueKeys(us)
       PROVE  UniqueKeys(z)
  <2>1. ASSUME NEW i \in 1..r, NEW j \in 1..r, x[i].key = x[j].key
        PROVE  i = j
    <3>1. PICK a, b : a = s[i] /\ b = s[j]
      OBVIOUS
    <3>2. a \in DOMAIN us /\ b \in DOMAIN us /\ us[a].key = us[b].key
      BY <1>5, <1>7, <2>1, <3>1
    <3>3. a = b
      BY <1>11, <3>2 DEF UniqueKeys
    <3> QED  BY <1>5, <3>1, <3>3
  <2>2. ASSUME NEW i \in 1..r, NEW n \in 1..c, x[i].key = y[n].key
        PROVE  FALSE
    <3>1. PICK a, k : a = s[i] /\ k = t[n]
      OBVIOUS
    <3>2. a \in R /\ k \in C /\ us[a].key = k /\ a \in DOMAIN us
      BY <1>5, <1>6, <1>7, <1>8, <2>2, <3>1
    <3>3. a \in Own(us, k)
      <4>1. {j \in DOMAIN us : us[j].key = k} = {a}
        BY <1>11, <3>2 DEF UniqueKeys
      <4>2. First(a, {a})
        <5>1. a <= a
          BY <1>1, <3>2
        <5> QED  BY <5>1 DEF First
      <4> QED  BY <3>2, <4>1, <4>2 DEF Own
    <3> QED  BY <1>4, <3>2, <3>3 DEF Remaining
  <2>3. ASSUME NEW i \in 1..c, NEW j \in 1..c, y[i].key = y[j].key
        PROVE  i = j
    BY <1>6, <1>8, <2>3
  <2>4. ASSUME NEW i \in 1..(r + c), NEW j \in 1..(r + c), z[i].key = z[j].key
        PROVE  i = j
    <3>1. CASE i <= r /\ j <= r
      <4>1. i \in 1..r /\ j \in 1..r /\ z[i] = x[i] /\ z[j] = x[j]
        BY <1>10, <3>1
      <4> QED  BY <2>1, <2>4, <4>1
    <3>2. CASE i <= r /\ ~(j <= r)
      <4>1. i \in 1..r /\ j - r \in 1..c /\ z[i] = x[i] /\ z[j] = y[j - r]
        BY <1>10, <3>2
      <4> QED  BY <2>2, <2>4, <4>1
    <3>3. CASE ~(i <= r) /\ j <= r
      <4>1. j \in 1..r /\ i - r \in 1..c /\ z[j] = x[j] /\ z[i] = y[i - r]
        BY <1>10, <3>3
      <4> QED  BY <2>2, <2>4, <4>1
    <3>4. CASE ~(i <= r) /\ ~(j <= r)
      <4>1. i - r \in 1..c /\ j - r \in 1..c /\ z[i] = y[i - r] /\ z[j] = y[j - r]
        BY <1>10, <3>4
      <4>2. i - r = j - r
        BY <2>3, <2>4, <4>1
      <4> QED  BY <1>5, <1>6, <4>2
    <3> QED  BY <3>1, <3>2, <3>3, <3>4
  <2> QED  BY <1>9, <2>4 DEF UniqueKeys
<1> QED  BY <1>2, <1>11, InOrderKeeps

----------------------------------------------------------------------------
(***************************************************************************)
(* Where slot keys are distinct, units have distinct ones: those of one    *)
(* block are residual, and a key of both documents is an anchor's.         *)
(***************************************************************************)
LEMMA UnitKeysDiffer ==
  ASSUME Inv, Docs, Sides, Distinct(old), Distinct(new)
  PROVE  UniqueKeys(units)
<1>1. ASSUME NEW i \in DOMAIN units, NEW j \in DOMAIN units,
             units[i].key = units[j].key, i # j
      PROVE  FALSE
  <2>1. PICK u, v : u = units[i] /\ v = units[j]
    OBVIOUS
  <2>2. /\ Sided(u) /\ Sided(v) /\ u.key = v.key
        /\ u.key = IF u.ni = 0 THEN old[u.oi].key ELSE new[u.ni].key
        /\ v.key = IF v.ni = 0 THEN old[v.oi].key ELSE new[v.ni].key
    BY <1>1, <2>1, UnitsTyped DEF Sides
  <2>3. /\ u.oi # 0 => u.oi # v.oi
        /\ u.ni # 0 => u.ni # v.ni
    BY <1>1, <2>1 DEF Inv, Core, EachBlockOnce
  <2>4. 0 \notin DOMAIN old /\ 0 \notin DOMAIN new
    BY DEF Inv, Core, Shape
  <2>5. \A w : Sided(w) /\ w.ni = 0 => w.oi \in OldResidual(old, new) /\ w.oi # 0
    BY <2>4 DEF Sided, Anchors
  <2>6. \A w : Sided(w) /\ w.ni # 0 => w.ni \in DOMAIN new
    BY Residuals DEF Sided, Anchors
  <2>7. ASSUME NEW o \in OldResidual(old, new), NEW n \in DOMAIN new,
               old[o].key = new[n].key
        PROVE  FALSE
    <3>1. o \in DOMAIN old /\ o \notin AnchoredOld(old, new)
      BY DEF OldResidual
    <3>2. <<o, n>> \in Anchors(old, new)
      BY <2>7, <3>1 DEF Anchors, Distinct
    <3> QED  BY <3>1, <3>2 DEF AnchoredOld
  <2>8. CASE u.ni = 0 /\ v.ni = 0
    <3>1. u.oi \in DOMAIN old /\ v.oi \in DOMAIN old /\ u.oi # v.oi
      BY <2>2, <2>3, <2>5, <2>8, Residuals
    <3> QED  BY <2>2, <2>8, <3>1 DEF Distinct, Once
  <2>9. CASE u.ni = 0 /\ v.ni # 0
    BY <2>2, <2>5, <2>6, <2>7, <2>9
  <2>10. CASE u.ni # 0 /\ v.ni = 0
    BY <2>2, <2>5, <2>6, <2>7, <2>10
  <2>11. CASE u.ni # 0 /\ v.ni # 0
    <3>1. u.ni \in DOMAIN new /\ v.ni \in DOMAIN new /\ u.ni # v.ni
      BY <2>2, <2>3, <2>6, <2>11
    <3> QED  BY <2>2, <2>11, <3>1 DEF Distinct, Once
  <2> QED  BY <2>8, <2>9, <2>10, <2>11
<1> QED  BY <1>1 DEF UniqueKeys

(* The changeset is one of units; with distinct slot keys, of one for each. *)
Returned ==
  /\ changeset \in Seq(UnitType)
  /\ Distinct(old) /\ Distinct(new) => UniqueKeys(changeset)

(* What the diff returns is clustered and in order: nothing else writes it. *)
LEMMA ReturnedHolds == Spec => []Returned
<1>1. Init => Returned
  <2> SUFFICES ASSUME Init  PROVE Returned
    OBVIOUS
  <2>1. changeset = <<>> /\ DOMAIN changeset = {}
    BY DEF Init
  <2> QED  BY <2>1, EmptySeq DEF Returned, UniqueKeys
<1>2. Inv /\ Docs /\ Sides /\ Returned /\ [Next]_vars => Returned'
  <2> SUFFICES ASSUME Inv, Docs, Sides, Returned, [Next]_vars  PROVE Returned'
    OBVIOUS
  <2>1. CASE ClusterCascades
    <3>1. UNCHANGED <<old, new>> /\ changeset' = Clustered(InOrder(units))
      BY <2>1 DEF ClusterCascades
    <3>2. units \in Seq(UnitType)
      BY UnitsTyped
    <3>3. /\ InOrder(units) \in Seq(UnitType)
          /\ UniqueKeys(units) => UniqueKeys(InOrder(units))
      BY <3>2, InOrderKeeps
    <3>4. PICK cs : cs = Clustered(InOrder(units))
      OBVIOUS
    <3>5. /\ cs \in Seq(UnitType)
          /\ UniqueKeys(InOrder(units)) => UniqueKeys(cs)
      BY <3>3, <3>4, ClusteredHolds
    <3>6. Distinct(old) /\ Distinct(new) => UniqueKeys(cs)
      BY <3>3, <3>5, UnitKeysDiffer
    <3>7. changeset' = cs
      BY <3>1, <3>4
    <3> QED  BY <3>1, <3>5, <3>6, <3>7 DEF Returned, Distinct, UniqueKeys
  <2>2. CASE UNCHANGED <<old, new, changeset>>
    BY <2>2 DEF Returned, Distinct, UniqueKeys
  <2>3. ClusterCascades \/ UNCHANGED <<old, new, changeset>>
    BY DEF Next, vars, Align, Anchor, EndAnchors, Move, KeepResidual, EndSame,
           PairSimilar, SkipPair, EndSimilar, TellRemoved, EndRemoved, TellAdded,
           EndAdded
  <2> QED  BY <2>1, <2>2, <2>3
<1> QED  BY <1>1, <1>2, SidesHold, PTL DEF Spec

(***************************************************************************)
(* Where no slot key repeats, diff returns at most one unit for a slot,    *)
(* clustering and all: no event of a check is then the twin of another.    *)
(***************************************************************************)
THEOREM OneUnitForASlot == Spec => []OneUnitPerSlot
<1>1. Returned => OneUnitPerSlot
  BY DEF Returned, UniqueKeys, OneUnitPerSlot
<1> QED  BY <1>1, ReturnedHolds, PTL

(***************************************************************************)
(* Every variable of the diff holds a value of its kind, whatever the      *)
(* documents: every unit pushed, and every one put together by clustering. *)
(***************************************************************************)
THEOREM DiffTypes == Spec => []TypeOK
<1>1. Inv /\ Docs /\ Sides /\ Returned => TypeOK
  <2> SUFFICES ASSUME Inv, Docs, Sides, Returned  PROVE TypeOK
    OBVIOUS
  <2>1. DOMAIN old \subseteq Nat /\ DOMAIN new \subseteq Nat
    <3>1. /\ DOMAIN old = 1..Len(old) /\ Len(old) \in Nat
          /\ DOMAIN new = 1..Len(new) /\ Len(new) \in Nat
      BY LenProperties DEF Docs, Doc
    <3> QED  BY <3>1
  <2>2. todo \subseteq Nat
    BY <2>1 DEF Sides
  <2>3. scored \subseteq (DOMAIN old) \X (DOMAIN new)
    BY Residuals DEF Inv, Handed
  <2>4. units \in Seq(UnitType)
    BY UnitsTyped
  <2> QED  BY <2>2, <2>3, <2>4 DEF TypeOK, Docs, Sides, Returned, Inv, Core, Shape
<1> QED  BY <1>1, SidesHold, ReturnedHolds, PTL

----------------------------------------------------------------------------
(***************************************************************************)
(* The diff of plain pages.                                                *)
(***************************************************************************)
(* Where all anchors are in one order, all are on the spine. *)
LEMMA AllOnTheSpine ==
  ASSUME Docs, Increasing(AnchoredOld(old, new))
  PROVE  Spine(old, new) = AnchoredOld(old, new)
<1>1. PICK A, S : A = AnchoredOld(old, new) /\ S = Spine(old, new)
  OBVIOUS
<1>2. /\ S \subseteq A /\ \A T \in SUBSET A :
           Ascending(old, new, T) => Cardinality(T) <= Cardinality(S)
  BY <1>1, SpineHolds DEF Docs, Doc
<1>3. Ascending(old, new, A)
  BY <1>1, Zenon DEF Increasing, Ascending
<1>4. Cardinality(A) <= Cardinality(S)
  BY <1>2, <1>3
<1>5. IsFiniteSet(A)
  <2>1. DOMAIN old = 1..Len(old) /\ Len(old) \in Nat
    BY LenProperties DEF Docs, Doc
  <2>2. 1 \in Int /\ Len(old) \in Int
    BY <2>1
  <2>3. IsFiniteSet(DOMAIN old)
    BY <2>1, <2>2, FS_Interval
  <2> QED  BY <1>1, <2>3, Residuals, FS_Subset
<1>6. IsFiniteSet(S) /\ Cardinality(S) <= Cardinality(A)
      /\ (Cardinality(S) = Cardinality(A) => S = A)
  BY <1>2, <1>5, FS_Subset
<1>7. Cardinality(S) \in Nat /\ Cardinality(A) \in Nat
  BY <1>5, <1>6, FS_CardinalityType
<1> QED  BY <1>1, <1>4, <1>6, <1>7

(* So that none has moved. *)
LEMMA NoneMoves ==
  ASSUME Docs, Increasing(AnchoredOld(old, new)), NEW o \in AnchoredOld(old, new)
  PROVE  ~MovedRun(old, new, o)
<1>1. PICK A : A = AnchoredOld(old, new)
  OBVIOUS
<1>2. PICK run : run = {a \in A : \A s \in A : ~(o <= s /\ s <= a) /\ ~(a <= s /\ s <= o)}
  OBVIOUS
<1>3. \A a \in A : a \in Nat
  <2>1. DOMAIN old = 1..Len(old) /\ Len(old) \in Nat
    BY LenProperties DEF Docs, Doc
  <2> QED  BY <1>1, <2>1, Residuals
<1>4. run = {}
  <2>1. SUFFICES ASSUME NEW a \in run  PROVE FALSE
    OBVIOUS
  <2>2. a \in A /\ a \in Nat /\ o \in Nat /\ o \in A
    BY <1>1, <1>2, <1>3, <2>1
  <2>3. o <= a \/ a <= o
    BY <2>2
  <2>4. /\ ~(o <= a /\ a <= a) /\ ~(a <= o /\ o <= o)
    BY <1>2, <2>1, <2>2
  <2> QED  BY <2>2, <2>3, <2>4
<1>5. MovedRun(old, new, o) <=> Cardinality(run) >= MoveMin
  <2>1. Spine(old, new) = A
    BY <1>1, AllOnTheSpine
  <2> QED  BY <1>1, <1>2, <2>1 DEF MovedRun
<1>6. Cardinality(run) = 0
  BY <1>4, FS_EmptySet
<1> QED  BY <1>5, <1>6, BoundsAssumption

(***************************************************************************)
(* A unit of plain pages is that of an anchor whose blocks differ, or of   *)
(* one residual block.                                                     *)
(***************************************************************************)
Plain(u) ==
  /\ <<u.oi, u.ni>> \in Anchors(old, new) => ~Unchanged(u.oi, u.ni)
  /\ <<u.oi, u.ni>> \notin Anchors(old, new) => u.oi = 0 \/ u.ni = 0

PlainUnits ==
  PlainPages =>
    /\ oldDone = {} /\ newDone = {} /\ scored = {}
    /\ \A i \in DOMAIN units : Plain(units[i])

(* A step that pairs nothing and adds one such unit at most keeps them so. *)
LEMMA PlainStay ==
  ASSUME Inv, PlainUnits, UNCHANGED <<old, new>>,
         PlainPages => /\ UNCHANGED <<oldDone, newDone>> /\ scored' = {}
                       /\ \/ units' = units
                          \/ \E u \in Drafts : Plain(u) /\ units' = Append(units, u)
  PROVE  PlainUnits'
<1>1. /\ Anchors(old, new)' = Anchors(old, new) /\ (PlainPages' <=> PlainPages)
      /\ \A o, n : Unchanged(o, n)' <=> Unchanged(o, n)
  BY SameDocs DEF PlainPages, Unchanged, Distinct, Increasing
<1>2. SUFFICES ASSUME PlainPages
               PROVE  /\ oldDone' = {} /\ newDone' = {} /\ scored' = {}
                      /\ \A i \in DOMAIN units' : Plain(units[i])'
  BY <1>1 DEF PlainUnits
<1>3. oldDone' = {} /\ newDone' = {} /\ scored' = {}
  BY <1>2 DEF PlainUnits
<1>4. ASSUME NEW i \in DOMAIN units'
      PROVE  Plain(units'[i])
  <2>1. CASE units' = units
    BY <1>2, <2>1 DEF PlainUnits
  <2>2. ASSUME NEW u \in Drafts, Plain(u), units' = Append(units, u)
        PROVE  Plain(units'[i])
    <3>1. /\ DOMAIN units' = DOMAIN units \cup {Len(units) + 1}
          /\ \A j \in DOMAIN units : units'[j] = units[j]
          /\ units'[Len(units) + 1] = u
      BY <2>2, ToldAppend DEF Inv, Core, Shape
    <3> QED  BY <1>2, <2>2, <3>1 DEF PlainUnits
  <2> QED  BY <1>2, <2>1, <2>2
<1>5. ASSUME NEW i \in DOMAIN units'
      PROVE  Plain(units[i])'
  BY <1>1, <1>4 DEF Plain
<1> QED  BY <1>3, <1>5

(* The loop over the anchors tells those whose blocks differ. *)
LEMMA PlainAnchor ==
  ASSUME Inv, Docs, PlainUnits, Anchor
  PROVE  PlainUnits'
<1>1. PICK p \in Anchors(old, new) : units' = units \o AnchorUnit(p[1], p[2])
  BY DEF Anchor
<1>2. PICK o, n : o = p[1] /\ n = p[2]
  OBVIOUS
<1>3. /\ o \in {0} \cup DOMAIN old /\ n \in {0} \cup DOMAIN new
      /\ <<o, n>> \in Anchors(old, new) /\ o \in AnchoredOld(old, new)
  BY <1>2 DEF Anchors, AnchoredOld
<1>4. units \in Seq(Drafts)
  BY DEF Inv, Core, Shape
<1>5. UNCHANGED <<old, new, scored, oldDone, newDone>>
  BY DEF Anchor
<1>6. ASSUME PlainPages
      PROVE  \/ units' = units
             \/ \E u \in Drafts : Plain(u) /\ units' = Append(units, u)
  <2>1. ~MovedRun(old, new, o)
    BY <1>3, <1>6, NoneMoves DEF PlainPages
  <2>2. CASE AnchorUnit(o, n) = <<>>
    BY <1>1, <1>2, <1>4, <2>2, ConcatEmptySeq
  <2>3. CASE AnchorUnit(o, n) # <<>>
    <3>1. \/ /\ ~SameContent(old[o], new[n])
             /\ AnchorUnit(o, n) = <<Unit("modified", o, n, FALSE)>>
          \/ /\ old[o].mark # new[n].mark
             /\ AnchorUnit(o, n) = <<Unit("restyled", o, n, FALSE)>>
      <4>1. PICK moved, same : /\ moved = MovedRun(old, new, o)
                               /\ same = SameContent(old[o], new[n])
        OBVIOUS
      <4>2. same \in BOOLEAN /\ moved = FALSE
        <5>1. SameContent(old[o], new[n]) \in BOOLEAN
          BY DEF SameContent
        <5>2. MovedRun(old, new, o) \in BOOLEAN
          BY DEF MovedRun
        <5>3. moved = FALSE
          BY <2>1, <4>1, <5>2
        <5> QED  BY <4>1, <5>1, <5>3
      <4>3. AnchorUnit(o, n) =
              CASE ~same -> <<Unit("modified", o, n, moved)>>
                [] same /\ old[o].mark # new[n].mark
                                -> <<Unit("restyled", o, n, FALSE)>>
                [] same /\ old[o].mark = new[n].mark /\ moved
                                -> <<Unit("reordered", o, n, TRUE)>>
                [] OTHER        -> <<>>
        BY <4>1, Zenon DEF AnchorUnit
      <4>4. PICK x, y, z : /\ x = <<Unit("modified", o, n, FALSE)>>
                           /\ y = <<Unit("restyled", o, n, FALSE)>>
                           /\ z = <<Unit("reordered", o, n, TRUE)>>
        OBVIOUS
      <4>5. AnchorUnit(o, n) =
              CASE ~same -> x [] same /\ old[o].mark # new[n].mark -> y
                [] same /\ old[o].mark = new[n].mark /\ FALSE -> z
                [] OTHER -> <<>>
        BY <4>2, <4>3, <4>4
      <4>6. (~same /\ AnchorUnit(o, n) = x) \/ (old[o].mark # new[n].mark /\ AnchorUnit(o, n) = y)
        BY <2>3, <4>2, <4>5
      <4> QED  BY <4>1, <4>4, <4>6
    <3>2. ~Unchanged(o, n)
      BY <3>1 DEF SameContent, Unchanged
    <3>3. PICK ct \in ChangeTypes : AnchorUnit(o, n) = <<Unit(ct, o, n, FALSE)>>
      BY <3>1 DEF ChangeTypes
    <3>4. PICK u : u = Unit(ct, o, n, FALSE)
      OBVIOUS
    <3>5. u \in Drafts /\ u.oi = o /\ u.ni = n
      <4>1. PICK moved \in BOOLEAN : moved = FALSE
        OBVIOUS
      <4>2. u = Unit(ct, o, n, moved)
        BY <3>4, <4>1
      <4> QED  BY <1>3, <4>2, UnitIsDraft
    <3>6. Plain(u)
      BY <1>3, <3>2, <3>5 DEF Plain
    <3>7. units' = Append(units, u)
      BY <1>1, <1>2, <1>4, <3>3, <3>4, <3>5, AppendIsConcat
    <3> QED  BY <3>5, <3>6, <3>7
  <2> QED  BY <2>2, <2>3
<1>7. PlainPages => scored' = {}
  BY <1>5 DEF PlainUnits
<1> QED  BY <1>5, <1>6, <1>7, PlainStay

(* What is left over is told by itself. *)
LEMMA PlainLeftover ==
  ASSUME Inv, Sides, PlainUnits, TellRemoved \/ TellAdded
  PROVE  PlainUnits'
<1>1. UNCHANGED <<old, new, scored, oldDone, newDone>>
  BY DEF TellRemoved, TellAdded
<1>2. /\ OldResidual(old, new) \subseteq DOMAIN old
      /\ NewResidual(old, new) \subseteq DOMAIN new
      /\ 0 \notin DOMAIN old /\ 0 \notin DOMAIN new
  BY Residuals DEF Inv, Core, Shape
<1>3. \E u \in Drafts : Plain(u) /\ units' = Append(units, u)
  <2>1. CASE TellRemoved
    <3>1. PICK o \in todo : units' = Append(units, Unit("removed", o, 0, FALSE))
      BY <2>1 DEF TellRemoved
    <3>2. o \in DOMAIN old
      BY <1>2, <2>1, <3>1 DEF TellRemoved, Sides
    <3>3. PICK u : u = Unit("removed", o, 0, FALSE)
      OBVIOUS
    <3>4. u \in Drafts /\ u.oi = o /\ u.ni = 0
      BY <3>2, <3>3, LeftoverIsDraft
    <3>5. Plain(u)
      BY <1>2, <3>4 DEF Plain, Anchors
    <3> QED  BY <3>1, <3>3, <3>4, <3>5
  <2>2. CASE TellAdded
    <3>1. PICK n \in todo : units' = Append(units, Unit("added", 0, n, FALSE))
      BY <2>2 DEF TellAdded
    <3>2. n \in DOMAIN new
      BY <1>2, <2>2, <3>1 DEF TellAdded, Sides
    <3>3. PICK u : u = Unit("added", 0, n, FALSE)
      OBVIOUS
    <3>4. u \in Drafts /\ u.oi = 0 /\ u.ni = n
      BY <3>2, <3>3, LeftoverIsDraft
    <3>5. Plain(u)
      BY <1>2, <3>4 DEF Plain, Anchors
    <3> QED  BY <3>1, <3>3, <3>4, <3>5
  <2> QED  BY <2>1, <2>2
<1>4. PlainPages => scored' = {}
  BY <1>1 DEF PlainUnits
<1> QED  BY <1>1, <1>3, <1>4, PlainStay

(* Neither twins nor similar pairs are there to be matched. *)
LEMMA PlainMatch ==
  ASSUME Inv, PlainUnits, Move \/ EndSame \/ PairSimilar
  PROVE  PlainUnits'
<1>1. UNCHANGED <<old, new>>
  BY DEF Move, EndSame, PairSimilar
<1>2. CASE Move
  <2>1. PICK o \in todo : \E n \in SameText(o) : TRUE
    BY <1>2 DEF Move
  <2>2. PICK n : n \in SameText(o)
    BY <2>1
  <2>3. o \in OldResidual(old, new) /\ n \in NewResidual(old, new)
        /\ new[n].norm = old[o].norm
    BY <1>2, <2>2 DEF Move, Inv, Handed, SameText
  <2>4. ~PlainPages
    BY <2>3 DEF PlainPages
  <2> QED  BY <1>1, <2>4, PlainStay
<1>3. CASE EndSame
  <2>1. UNCHANGED <<units, oldDone, newDone>>
    BY <1>3 DEF EndSame
  <2>2. ASSUME PlainPages  PROVE scored' = {}
    <3>1. oldDone = {} /\ newDone = {}
      BY <2>2 DEF PlainUnits
    <3>2. /\ OldResidual(old, new) \ oldDone = OldResidual(old, new)
          /\ NewResidual(old, new) \ newDone = NewResidual(old, new)
      BY <3>1
    <3>3. scored' = Scored(old, new, OldResidual(old, new), NewResidual(old, new))
      BY <1>3, <3>2 DEF EndSame
    <3> QED  BY <2>2, <3>3 DEF PlainPages
  <2> QED  BY <1>1, <2>1, <2>2, PlainStay
<1>4. CASE PairSimilar
  <2>1. scored # {}
    BY <1>4 DEF PairSimilar
  <2>2. ~PlainPages
    BY <2>1 DEF PlainUnits
  <2> QED  BY <1>1, <2>2, PlainStay
<1> QED  BY <1>2, <1>3, <1>4

(* Every step of the diff keeps the units plain. *)
LEMMA PlainStep == Inv /\ Docs /\ Sides /\ PlainUnits /\ [Next]_vars => PlainUnits'
<1> SUFFICES ASSUME Inv, Docs, Sides, PlainUnits, [Next]_vars  PROVE PlainUnits'
  OBVIOUS
<1>1. ASSUME UNCHANGED <<old, new, scored, oldDone, newDone, units>>
      PROVE  PlainUnits'
  BY <1>1, PlainStay DEF PlainUnits
<1>2. CASE SkipPair
  <2>1. scored # {} /\ UNCHANGED <<old, new, units>>
    BY <1>2 DEF SkipPair
  <2>2. ~PlainPages
    BY <2>1 DEF PlainUnits
  <2> QED  BY <2>1, <2>2, PlainStay
<1>3. \/ UNCHANGED <<old, new, scored, oldDone, newDone, units>>
      \/ Anchor \/ TellRemoved \/ TellAdded \/ Move \/ EndSame \/ PairSimilar \/ SkipPair
  BY DEF Next, vars, Align, EndAnchors, KeepResidual, EndSimilar, EndRemoved,
         EndAdded, ClusterCascades
<1> QED  BY <1>1, <1>2, <1>3, PlainAnchor, PlainLeftover, PlainMatch

----------------------------------------------------------------------------
KeysOf(us) == {us[i].key : i \in DOMAIN us}

(* Sorting lists every element of the set. *)
LEMMA SortedListsAll ==
  ASSUME NEW S \in SUBSET Nat, IsFiniteSet(S), NEW x \in S
  PROVE  \E i \in 1..Cardinality(S) : Sorted(S)[i] = x
<1>1. PICK n, f : n = Cardinality(S) /\ f = Sorted(S)
  OBVIOUS
<1>2. /\ n \in Nat /\ f \in [1..n -> S]
      /\ \A i, j \in 1..n : f[i] = f[j] => i = j
  BY <1>1, SortedHolds
<1>3. f \in Injection(1..n, S)
  BY <1>2 DEF Injection, IsInjective
<1>4. Cardinality(1..n) = n
  <2>1. 1 \in Int /\ n \in Int
    BY <1>2
  <2>2. Cardinality(1..n) = IF 1 > n THEN 0 ELSE n - 1 + 1
    BY <2>1, FS_Interval
  <2> QED  BY <1>2, <2>2
<1>5. f \in Surjection(1..n, S)
  BY <1>1, <1>3, <1>4, FS_Injection
<1> QED  BY <1>1, <1>5 DEF Surjection

(* So does sorting units. *)
LEMMA InOrderListsAll ==
  ASSUME NEW us \in Seq(UnitType)
  PROVE  KeysOf(InOrder(us)) = KeysOf(us)
<1>1. DOMAIN us = 1..Len(us) /\ Len(us) \in Nat /\ us \in [1..Len(us) -> UnitType]
  BY LenProperties
<1>2. \A i \in DOMAIN us : us[i].key \in Nat /\ us[i].ct \in ChangeTypes
  BY <1>1, KeysAssumption DEF UnitType
<1>3. PICK f : Shuffle(us, InOrder(us), f)
  BY <1>2, InOrderHolds
<1>4. PICK vs, D : vs = InOrder(us) /\ D = DOMAIN us
  OBVIOUS
<1>5. /\ f \in [D -> D] /\ \A i, j \in D : f[i] = f[j] => i = j
      /\ vs = [k \in D |-> us[f[k]]]
  BY <1>3, <1>4 DEF Shuffle
<1>6. IsFiniteSet(D)
  <2>1. 1 \in Int /\ Len(us) \in Int
    BY <1>1
  <2> QED  BY <1>1, <1>4, <2>1, FS_Interval
<1>7. f \in Injection(D, D)
  BY <1>5 DEF Injection, IsInjective
<1>8. f \in Surjection(D, D)
  BY <1>6, <1>7, FS_Injection
<1>9. \A i \in D : \E k \in D : f[k] = i
  BY <1>8 DEF Surjection
<1>10. KeysOf(vs) = KeysOf(us)
  <2>1. PICK key : key = [i \in D |-> us[i].key]
    OBVIOUS
  <2>2. KeysOf(us) = {key[i] : i \in D}
    BY <1>4, <2>1 DEF KeysOf
  <2>3. \A k \in D : f[k] \in D /\ vs[k].key = key[f[k]]
    BY <1>5, <2>1
  <2>4. DOMAIN vs = D
    BY <1>5
  <2>5. KeysOf(vs) = {key[f[k]] : k \in D}
    BY <2>3, <2>4 DEF KeysOf
  <2>6. \A i \in D : \E k \in D : key[f[k]] = key[i]
    BY <1>9
  <2> QED  BY <2>2, <2>3, <2>5, <2>6
<1> QED  BY <1>4, <1>10

(* It fills no container. *)
LEMMA InOrderFillsNone ==
  ASSUME NEW us \in Seq(UnitType), Cascades(us) = {}
  PROVE  Cascades(InOrder(us)) = {}
<1>1. DOMAIN us = 1..Len(us) /\ Len(us) \in Nat /\ us \in [1..Len(us) -> UnitType]
  BY LenProperties
<1>2. \A i \in DOMAIN us : us[i].key \in Nat /\ us[i].ct \in ChangeTypes
  BY <1>1, KeysAssumption DEF UnitType
<1>3. PICK f : Shuffle(us, InOrder(us), f)
  BY <1>2, InOrderHolds
<1>4. PICK vs, D : vs = InOrder(us) /\ D = DOMAIN us
  OBVIOUS
<1>5. /\ f \in [D -> D] /\ \A i, j \in D : f[i] = f[j] => i = j
      /\ vs = [k \in D |-> us[f[k]]] /\ DOMAIN vs = D
  BY <1>3, <1>4 DEF Shuffle
<1>6. IsFiniteSet(D)
  <2>1. 1 \in Int /\ Len(us) \in Int
    BY <1>1
  <2> QED  BY <1>1, <1>4, <2>1, FS_Interval
<1>7. ASSUME NEW c \in Keys
      PROVE  ~(Cardinality(Members(vs, c)) > MaxChildren)
  <2>1. PICK M, N, g : /\ M = Members(vs, c) /\ N = Members(us, c)
                       /\ g = [k \in M |-> f[k]]
    OBVIOUS
  <2>2. \A k \in M : k \in D /\ f[k] \in N
    BY <1>4, <1>5, <2>1 DEF Members
  <2>3. g \in Injection(M, N)
    BY <1>5, <2>1, <2>2 DEF Injection, IsInjective
  <2>4. N \subseteq D /\ IsFiniteSet(N)
    <3>1. N \subseteq D
      BY <1>4, <2>1 DEF Members
    <3> QED  BY <1>6, <3>1, FS_Subset
  <2>5. IsFiniteSet(M) /\ Cardinality(M) <= Cardinality(N)
    BY <2>3, <2>4, FS_Injection
  <2>6. Cardinality(M) \in Nat /\ Cardinality(N) \in Nat
    BY <2>4, <2>5, FS_CardinalityType
  <2>7. ~(Cardinality(N) > MaxChildren)
    BY <2>1 DEF Cascades
  <2> QED  BY <2>1, <2>5, <2>6, <2>7, MaxChildrenAssumption
<1>8. Cascades(vs) = {}
  BY <1>7 DEF Cascades
<1> QED  BY <1>4, <1>8

(* Where no container is full, clustering returns the units, sorted. *)
LEMMA ClusteringKeepsKeys ==
  ASSUME NEW us \in Seq(UnitType), Cascades(us) = {}
  PROVE  KeysOf(Clustered(us)) = KeysOf(us)
<1>1. PICK n, D : n = Len(us) /\ D = DOMAIN us
  OBVIOUS
<1>2. n \in Nat /\ D = 1..n /\ us \in [1..n -> UnitType]
  BY <1>1, LenProperties
<1>3. D \in SUBSET Nat /\ IsFiniteSet(D) /\ Cardinality(D) = n
  <2>1. 1 \in Int /\ n \in Int
    BY <1>2
  <2>2. IsFiniteSet(1..n) /\ Cardinality(1..n) = IF 1 > n THEN 0 ELSE n - 1 + 1
    BY <2>1, FS_Interval
  <2> QED  BY <1>2, <2>2
<1>4. Remaining(us) = D
  BY <1>1 DEF Remaining
<1>5. PICK s : s = Sorted(D)
  OBVIOUS
<1>6. s \in [1..n -> D] /\ \A x \in D : \E i \in 1..n : s[i] = x
  BY <1>3, <1>5, SortedHolds, SortedListsAll
<1>7. PICK x, y : x = Loose(us) /\ y = Counting(us)
  OBVIOUS
<1>8. x = [k \in 1..n |-> us[s[k]]]
  BY <1>4, <1>5, <1>6, <1>7 DEF Loose
<1>9. x \in Seq(UnitType)
  <2>1. x \in [1..n -> UnitType]
    BY <1>2, <1>6, <1>8
  <2> QED  BY <1>2, <2>1
<1>10. KeysOf(x) = KeysOf(us)
  <2>1. PICK key : key = [i \in D |-> us[i].key]
    OBVIOUS
  <2>2. KeysOf(us) = {key[i] : i \in D}
    BY <1>1, <2>1 DEF KeysOf
  <2>3. \A k \in 1..n : s[k] \in D /\ x[k].key = key[s[k]]
    BY <1>6, <1>8, <2>1
  <2>4. DOMAIN x = 1..n
    BY <1>8
  <2>5. KeysOf(x) = {key[s[k]] : k \in 1..n}
    BY <2>3, <2>4 DEF KeysOf
  <2>6. \A i \in D : \E k \in 1..n : key[s[k]] = key[i]
    BY <1>6
  <2> QED  BY <2>2, <2>3, <2>5, <2>6
<1>11. y = <<>>
  <2>1. Cardinality({}) = 0
    BY FS_EmptySet
  <2>2. 1..0 = {}
    OBVIOUS
  <2>3. DOMAIN Sorted(Cascades(us)) = {}
    BY <2>1, <2>2 DEF Sorted
  <2>4. y \in Seq(UnitType) /\ DOMAIN y = {}
    BY <1>7, <2>2, <2>3 DEF Counting
  <2>5. Len(y) = 0
    BY <2>4, LenProperties
  <2> QED  BY <2>4, <2>5, EmptySeq
<1>12. x \o y = x
  BY <1>9, <1>11, ConcatEmptySeq
<1>13. Clustered(us) = InOrder(x)
  <2>1. Clustered(us) = InOrder(x \o y)
    BY <1>7 DEF Clustered, Loose, Counting, Remaining
  <2> QED  BY <1>12, <2>1
<1>14. KeysOf(InOrder(x)) = KeysOf(x)
  BY <1>9, InOrderListsAll
<1> QED  BY <1>10, <1>13, <1>14

----------------------------------------------------------------------------
(* The loops are over, and told every block or found it unchanged. *)
AllTold ==
  /\ \A o \in DOMAIN old :
       \/ \E i \in DOMAIN units : units[i].oi = o
       \/ \E n \in DOMAIN new : Unchanged(o, n)
  /\ \A n \in DOMAIN new :
       \/ \E i \in DOMAIN units : units[i].ni = n
       \/ \E o \in DOMAIN old : Unchanged(o, n)

(* A document without repeated slot keys, looked up under one of them. *)
LEMMA AsSlotsHolds ==
  ASSUME NEW doc, Distinct(doc), NEW i \in DOMAIN doc
  PROVE  /\ doc[i].key \in DOMAIN AsSlots(doc)
         /\ AsSlots(doc)[doc[i].key]
              = [norm |-> doc[i].norm, detail |-> <<doc[i].val, doc[i].mark>>]
<1>1. PICK k : k = doc[i].key
  OBVIOUS
<1>2. PICK j : j = CHOOSE x \in DOMAIN doc : doc[x].key = k
  OBVIOUS
<1>3. j \in DOMAIN doc /\ doc[j].key = k
  BY <1>1, <1>2, Zenon
<1>4. j = i
  BY <1>1, <1>3 DEF Distinct, Once
<1>5. /\ k \in DOMAIN AsSlots(doc)
      /\ AsSlots(doc)[k] = [norm |-> doc[j].norm, detail |-> <<doc[j].val, doc[j].mark>>]
  BY <1>1, <1>2, Zenon DEF AsSlots
<1> QED  BY <1>1, <1>4, <1>5

Differ(a, b, k) == Obs!BlockAt(a, k) # Obs!BlockAt(b, k)

(* With no block ignored, the slots that changed are those that differ. *)
LEMMA ChangedSlotsHold ==
  ASSUME NEW a, NEW b
  PROVE  Obs!ChangedSlots(a, b) = {k \in DOMAIN a \cup DOMAIN b : Differ(a, b, k)}
<1>1. DOMAIN Obs!Mask(a) = DOMAIN a /\ DOMAIN Obs!Mask(b) = DOMAIN b
  BY DEF Obs!Mask, Obs!Restrict
<1> QED  BY <1>1 DEF Obs!ChangedSlots, Differ

(* A block is not the absence of one. *)
LEMMA BlockIsNotAbsent ==
  ASSUME NEW n, NEW d
  PROVE  [norm |-> n, detail |-> d] # [norm |-> EmptyNorm]
<1>1. PICK x, y : x = [norm |-> n, detail |-> d] /\ y = [norm |-> EmptyNorm]
  OBVIOUS
<1>2. "detail" \in DOMAIN x /\ DOMAIN y = {"norm"}
  BY <1>1
<1>3. "detail" # "norm"
  OBVIOUS
<1> QED  BY <1>1, <1>2, <1>3

(***************************************************************************)
(* The slots of plain units that tell every block are those that differ.   *)
(***************************************************************************)
(* Under a key of both documents there is an anchor, and it is told when   *)
(* it has changed.                                                         *)
LEMMA DifferOfBoth ==
  ASSUME Distinct(old), Distinct(new),
         NEW o \in DOMAIN old, NEW n \in DOMAIN new, old[o].key = new[n].key
  PROVE  /\ <<o, n>> \in Anchors(old, new)
         /\ Differ(AsSlots(old), AsSlots(new), old[o].key) <=> ~Unchanged(o, n)
<1>1. <<o, n>> \in Anchors(old, new)
  BY DEF Anchors, Distinct
<1>2. PICK k, a, b : k = old[o].key /\ a = AsSlots(old) /\ b = AsSlots(new)
  OBVIOUS
<1>3. /\ k \in DOMAIN a
      /\ a[k] = [norm |-> old[o].norm, detail |-> <<old[o].val, old[o].mark>>]
  BY <1>2, AsSlotsHolds
<1>4. /\ k \in DOMAIN b
      /\ b[k] = [norm |-> new[n].norm, detail |-> <<new[n].val, new[n].mark>>]
  BY <1>2, AsSlotsHolds
<1>5. Differ(a, b, k) <=> a[k] # b[k]
  BY <1>3, <1>4 DEF Differ, Obs!BlockAt
<1>6. a[k] = b[k] <=> /\ old[o].norm = new[n].norm
                      /\ old[o].val = new[n].val
                      /\ old[o].mark = new[n].mark
  <2>1. PICK p, q, r, s, t, u : /\ p = old[o].norm /\ q = old[o].val /\ r = old[o].mark
                                /\ s = new[n].norm /\ t = new[n].val /\ u = new[n].mark
    OBVIOUS
  <2>2. /\ a[k] = [norm |-> p, detail |-> <<q, r>>]
        /\ b[k] = [norm |-> s, detail |-> <<t, u>>]
    BY <1>3, <1>4, <2>1
  <2>3. a[k] = b[k] => p = s /\ q = t /\ r = u
    <3>1. SUFFICES ASSUME a[k] = b[k]  PROVE p = s /\ q = t /\ r = u
      OBVIOUS
    <3>2. a[k].norm = p /\ b[k].norm = s /\ a[k].detail = <<q, r>> /\ b[k].detail = <<t, u>>
      BY <2>2
    <3>3. p = s /\ <<q, r>> = <<t, u>>
      BY <3>1, <3>2
    <3> QED  BY <3>3
  <2> QED  BY <2>1, <2>2, <2>3
<1> QED  BY <1>1, <1>2, <1>5, <1>6 DEF Unchanged

(* A key of one document only differs. *)
LEMMA DifferOfOne ==
  ASSUME NEW doc, NEW other, Distinct(doc), NEW i \in DOMAIN doc,
         \A j \in DOMAIN other : other[j].key # doc[i].key
  PROVE  /\ Differ(AsSlots(doc), AsSlots(other), doc[i].key)
         /\ Differ(AsSlots(other), AsSlots(doc), doc[i].key)
<1>1. PICK k, a, b : k = doc[i].key /\ a = AsSlots(doc) /\ b = AsSlots(other)
  OBVIOUS
<1>2. /\ k \in DOMAIN a
      /\ a[k] = [norm |-> doc[i].norm, detail |-> <<doc[i].val, doc[i].mark>>]
  BY <1>1, AsSlotsHolds
<1>3. k \notin DOMAIN b
  BY <1>1 DEF AsSlots
<1>4. Obs!BlockAt(a, k) = a[k] /\ Obs!BlockAt(b, k) = [norm |-> EmptyNorm]
  BY <1>2, <1>3 DEF Obs!BlockAt
<1>5. a[k] # [norm |-> EmptyNorm]
  BY <1>2, BlockIsNotAbsent
<1> QED  BY <1>1, <1>4, <1>5 DEF Differ

----------------------------------------------------------------------------
(* The slots of plain units are among those that differ. *)
LEMMA ToldDiffers ==
  ASSUME Inv, Docs, Sides, Distinct(old), Distinct(new),
         NEW i \in DOMAIN units, Plain(units[i])
  PROVE  \E k \in DOMAIN AsSlots(old) \cup DOMAIN AsSlots(new) :
           k = units[i].key /\ Differ(AsSlots(old), AsSlots(new), k)
<1>1. PICK u, o, n : u = units[i] /\ o = u.oi /\ n = u.ni
  OBVIOUS
<1>2. /\ Sided(u) /\ Plain(u)
      /\ u.key = IF n = 0 THEN old[o].key ELSE new[n].key
  BY <1>1, UnitsTyped DEF Sides
<1>3. 0 \notin DOMAIN old /\ 0 \notin DOMAIN new
  BY DEF Inv, Core, Shape
<1>4. CASE <<o, n>> \in Anchors(old, new)
  <2>1. o \in DOMAIN old /\ n \in DOMAIN new /\ old[o].key = new[n].key
    BY <1>4 DEF Anchors
  <2>2. ~Unchanged(o, n)
    BY <1>1, <1>2, <1>4 DEF Plain
  <2>3. Differ(AsSlots(old), AsSlots(new), old[o].key)
    BY <2>1, <2>2, DifferOfBoth
  <2>4. old[o].key \in DOMAIN AsSlots(old)
    BY <2>1, AsSlotsHolds
  <2>5. u.key = old[o].key
    BY <1>2, <1>3, <2>1
  <2> QED  BY <1>1, <2>3, <2>4, <2>5
<1>5. CASE o \in OldResidual(old, new) /\ n = 0
  <2>1. o \in DOMAIN old /\ o \notin AnchoredOld(old, new)
    BY <1>5 DEF OldResidual
  <2>2. ASSUME NEW j \in DOMAIN new, new[j].key = old[o].key  PROVE FALSE
    <3>1. <<o, j>> \in Anchors(old, new)
      BY <2>1, <2>2, DifferOfBoth
    <3> QED  BY <2>1, <3>1 DEF AnchoredOld
  <2>3. Differ(AsSlots(old), AsSlots(new), old[o].key)
    BY <2>1, <2>2, DifferOfOne
  <2>4. old[o].key \in DOMAIN AsSlots(old)
    BY <2>1, AsSlotsHolds
  <2> QED  BY <1>1, <1>2, <1>5, <2>3, <2>4
<1>6. CASE o = 0 /\ n \in NewResidual(old, new)
  <2>1. n \in DOMAIN new /\ n \notin AnchoredNew(old, new) /\ n # 0
    BY <1>3, <1>6 DEF NewResidual
  <2>2. ASSUME NEW j \in DOMAIN old, old[j].key = new[n].key  PROVE FALSE
    <3>1. <<j, n>> \in Anchors(old, new)
      BY <2>1, <2>2, DifferOfBoth
    <3> QED  BY <2>1, <3>1 DEF AnchoredNew
  <2>3. Differ(AsSlots(old), AsSlots(new), new[n].key)
    BY <2>1, <2>2, DifferOfOne
  <2>4. new[n].key \in DOMAIN AsSlots(new)
    BY <2>1, AsSlotsHolds
  <2> QED  BY <1>1, <1>2, <2>1, <2>3, <2>4
<1>7. \/ <<o, n>> \in Anchors(old, new)
      \/ o \in OldResidual(old, new) /\ n = 0
      \/ o = 0 /\ n \in NewResidual(old, new)
  <2>1. SUFFICES ASSUME <<o, n>> \notin Anchors(old, new)
                 PROVE  \/ o \in OldResidual(old, new) /\ n = 0
                        \/ o = 0 /\ n \in NewResidual(old, new)
    OBVIOUS
  <2>2. o = 0 \/ n = 0
    BY <1>1, <1>2, <2>1 DEF Plain
  <2>3. /\ o \in OldResidual(old, new) \cup {0}
        /\ n \in NewResidual(old, new) \cup {0}
        /\ o # 0 \/ n # 0
    BY <1>1, <1>2, <2>1 DEF Sided
  <2> QED  BY <2>2, <2>3
<1> QED  BY <1>4, <1>5, <1>6, <1>7

(* And each that differs is the slot of one. *)
LEMMA DifferentIsTold ==
  ASSUME Inv, Docs, Sides, Distinct(old), Distinct(new), AllTold,
         \A i \in DOMAIN units : Plain(units[i]),
         NEW k \in DOMAIN AsSlots(old) \cup DOMAIN AsSlots(new),
         Differ(AsSlots(old), AsSlots(new), k)
  PROVE  \E i \in DOMAIN units : units[i].key = k
<1>1. 0 \notin DOMAIN old /\ 0 \notin DOMAIN new
  BY DEF Inv, Core, Shape
<1>2. ASSUME NEW o \in DOMAIN old, old[o].key = k
      PROVE  \E i \in DOMAIN units : units[i].key = k
  <2>1. ASSUME NEW n \in DOMAIN new, Unchanged(o, n)  PROVE FALSE
    <3>1. old[o].key = new[n].key
      BY <2>1 DEF Unchanged, Anchors
    <3> QED  BY <1>2, <2>1, <3>1, DifferOfBoth
  <2>2. PICK i \in DOMAIN units : units[i].oi = o
    BY <2>1 DEF AllTold
  <2>3. PICK n : n = units[i].ni
    OBVIOUS
  <2>4. units[i].key = IF n = 0 THEN old[o].key ELSE new[n].key
    BY <2>2, <2>3, UnitsTyped
  <2>5. <<o, n>> \in Anchors(old, new) => old[o].key = new[n].key
    BY DEF Anchors
  <2>6. <<o, n>> \notin Anchors(old, new) => n = 0
    BY <1>1, <2>2, <2>3 DEF Plain
  <2> QED  BY <1>2, <2>4, <2>5, <2>6
<1>3. ASSUME NEW n \in DOMAIN new, new[n].key = k
      PROVE  \E i \in DOMAIN units : units[i].key = k
  <2>1. ASSUME NEW o \in DOMAIN old, Unchanged(o, n)  PROVE FALSE
    <3>1. old[o].key = new[n].key
      BY <2>1 DEF Unchanged, Anchors
    <3> QED  BY <1>3, <2>1, <3>1, DifferOfBoth
  <2>2. PICK i \in DOMAIN units : units[i].ni = n
    BY <2>1 DEF AllTold
  <2>3. n # 0
    BY <1>1
  <2>4. units[i].key = new[n].key
    BY <2>2, <2>3, UnitsTyped
  <2> QED  BY <1>3, <2>4
<1>4. \/ \E o \in DOMAIN old : old[o].key = k
      \/ \E n \in DOMAIN new : new[n].key = k
  BY DEF AsSlots
<1> QED  BY <1>2, <1>3, <1>4

(* Together: the slots of the units are those Observation finds. *)
LEMMA PlainUnitsAgree ==
  ASSUME Inv, Docs, Sides, Distinct(old), Distinct(new), AllTold,
         \A i \in DOMAIN units : Plain(units[i])
  PROVE  KeysOf(units) = Obs!ChangedSlots(AsSlots(old), AsSlots(new))
<1>1. PICK a, b : a = AsSlots(old) /\ b = AsSlots(new)
  OBVIOUS
<1>2. Obs!ChangedSlots(a, b) = {k \in DOMAIN a \cup DOMAIN b : Differ(a, b, k)}
  BY ChangedSlotsHold
<1>3. \A i \in DOMAIN units :
        \E k \in DOMAIN a \cup DOMAIN b : k = units[i].key /\ Differ(a, b, k)
  BY <1>1, ToldDiffers
<1>4. \A k \in DOMAIN a \cup DOMAIN b :
        Differ(a, b, k) => \E i \in DOMAIN units : units[i].key = k
  BY <1>1, DifferentIsTold
<1>5. KeysOf(units) = {k \in DOMAIN a \cup DOMAIN b : Differ(a, b, k)}
  BY <1>3, <1>4 DEF KeysOf
<1> QED  BY <1>1, <1>2, <1>5

----------------------------------------------------------------------------
(* Two documents that agree in all that AsSlots sees. *)
LooksAlike(a, b) ==
  /\ DOMAIN a = DOMAIN b
  /\ \A i \in DOMAIN a : /\ a[i].key = b[i].key /\ a[i].norm = b[i].norm
                         /\ a[i].val = b[i].val /\ a[i].mark = b[i].mark

(* What has one doc_hash looks alike behind the mask. *)
LEMMA MaskedAlike ==
  ASSUME NEW a \in Seq(Block), NEW b \in Seq(Block), DocHash(a) = DocHash(b)
  PROVE  LooksAlike(Masked(a), Masked(b))
<1>1. PICK D : D = DOMAIN a
  OBVIOUS
<1>2. /\ DOMAIN b = D
      /\ \A i \in D : /\ a[i].key = b[i].key /\ a[i].parent = b[i].parent
                      /\ a[i].type = b[i].type /\ a[i].norm = b[i].norm
                      /\ a[i].val = b[i].val /\ a[i].mark = b[i].mark
  <2>1. PICK f, g : f = DocHash(a) /\ g = DocHash(b)
    OBVIOUS
  <2>2. DOMAIN f = DOMAIN a /\ DOMAIN g = DOMAIN b /\ f = g
    BY <2>1 DEF DocHash
  <2>3. ASSUME NEW i \in D
        PROVE  /\ a[i].key = b[i].key /\ a[i].parent = b[i].parent
               /\ a[i].type = b[i].type /\ a[i].norm = b[i].norm
               /\ a[i].val = b[i].val /\ a[i].mark = b[i].mark
    <3>1. /\ f[i] = <<a[i].key, a[i].parent, a[i].type, a[i].level, a[i].norm,
                      a[i].val, a[i].mark>>
          /\ g[i] = <<b[i].key, b[i].parent, b[i].type, b[i].level, b[i].norm,
                      b[i].val, b[i].mark>>
      BY <1>1, <2>1, <2>2 DEF DocHash
    <3>2. f[i] = g[i]
      BY <2>2
    <3> QED  BY <3>1, <3>2
  <2> QED  BY <1>1, <2>2, <2>3
<1>3. Kept(a) = Kept(b)
  <2>1. D = 1..Len(a) /\ Len(a) \in Nat
    BY <1>1, LenProperties
  <2>2. ASSUME NEW i \in D, NEW c \in 1..i
        PROVE  /\ Within(a, c, i) <=> Within(b, c, i)
               /\ SelectorMatches(a[c]) <=> SelectorMatches(b[c])
    <3>1. c \in D /\ \A k \in (c + 1)..i : k \in D
      BY <2>1
    <3> QED  BY <1>2, <3>1 DEF Within, SelectorMatches
  <2> QED  BY <1>1, <1>2, <2>2 DEF Kept
<1>4. PICK K, N : K = Kept(a) /\ N = [n \in 1..Cardinality(K) |-> NthKept(a, n)]
  OBVIOUS
<1>5. /\ Masked(a) = [n \in 1..Cardinality(K) |-> MaskOne(a[N[n]])]
      /\ Masked(b) = [n \in 1..Cardinality(K) |-> MaskOne(b[N[n]])]
  <2>1. /\ Masked(a) = [n \in 1..Cardinality(Kept(a)) |-> MaskOne(a[NthKept(a, n)])]
        /\ Masked(b) = [n \in 1..Cardinality(Kept(b)) |-> MaskOne(b[NthKept(b, n)])]
    BY Zenon DEF Masked, Kept, NthKept
  <2>2. \A n : NthKept(a, n) = NthKept(b, n)
    BY <1>3, Zenon DEF NthKept
  <2> QED  BY <1>3, <1>4, <2>1, <2>2
<1>6. \A n \in 1..Cardinality(K) : N[n] \in D
  <2>1. \A n \in 1..Cardinality(K) : N[n] \in K
    BY <1>4, NthKeptHolds
  <2> QED  BY <1>1, <1>4, <2>1 DEF Kept
<1>7. \A i \in D : a[i] \in Block /\ b[i] \in Block
  BY <1>1, <1>2, ElementOfSeq, LenProperties
<1>8. ASSUME NEW i \in D
      PROVE  /\ MaskOne(a[i]).key = MaskOne(b[i]).key
             /\ MaskOne(a[i]).norm = MaskOne(b[i]).norm
             /\ MaskOne(a[i]).val = MaskOne(b[i]).val
             /\ MaskOne(a[i]).mark = MaskOne(b[i]).mark
  BY <1>2, <1>7 DEF MaskOne, Block
<1> QED  BY <1>5, <1>6, <1>8 DEF LooksAlike

(* Then no slot differs. *)
LEMMA AlikeAgree ==
  ASSUME NEW a, NEW b, LooksAlike(a, b)
  PROVE  Obs!ChangedSlots(AsSlots(a), AsSlots(b)) = {}
<1>1. PICK f, g : f = AsSlots(a) /\ g = AsSlots(b)
  OBVIOUS
<1>2. {a[i].key : i \in DOMAIN a} = {b[i].key : i \in DOMAIN b}
  BY DEF LooksAlike
<1>3. DOMAIN f = DOMAIN g
  BY <1>1, <1>2 DEF AsSlots
<1>4. ASSUME NEW k \in DOMAIN f  PROVE f[k] = g[k]
  <2>1. PICK i, j : /\ i = CHOOSE x \in DOMAIN a : a[x].key = k
                    /\ j = CHOOSE x \in DOMAIN b : b[x].key = k
    OBVIOUS
  <2>2. i = j
    <3>1. \A x : (x \in DOMAIN a /\ a[x].key = k) <=> (x \in DOMAIN b /\ b[x].key = k)
      BY DEF LooksAlike
    <3> QED  BY <2>1, <3>1, Zenon
  <2>3. i \in DOMAIN a
    <3>1. \E x \in DOMAIN a : a[x].key = k
      BY <1>1, <1>4 DEF AsSlots
    <3> QED  BY <2>1, <3>1, Zenon
  <2>4. k \in DOMAIN g
    BY <1>3, <1>4
  <2>5. /\ f[k] = [norm |-> a[i].norm, detail |-> <<a[i].val, a[i].mark>>]
        /\ g[k] = [norm |-> b[j].norm, detail |-> <<b[j].val, b[j].mark>>]
    BY <1>1, <1>4, <2>1, <2>4, Zenon DEF AsSlots
  <2> QED  BY <2>2, <2>3, <2>5 DEF LooksAlike
<1>5. \A k \in DOMAIN f \cup DOMAIN g : ~Differ(f, g, k)
  BY <1>3, <1>4 DEF Differ, Obs!BlockAt
<1> QED  BY <1>1, <1>5, ChangedSlotsHold

----------------------------------------------------------------------------
(***************************************************************************)
(* How a diff ends: before it begins, on documents that look alike; or     *)
(* with every block told or unchanged.                                     *)
(***************************************************************************)
NoneFullKeepsKeys == Cascades(units) = {} => KeysOf(changeset) = KeysOf(units)

Ended ==
  phase = "done" =>
    \/ LooksAlike(old, new) /\ changeset = <<>>
    \/ AllTold /\ NoneFullKeepsKeys

(* It ends in either way, and stays so. *)
LEMMA EndedHolds ==
  /\ Init => Ended
  /\ Inv /\ Docs /\ Sides /\ Ended /\ [Next]_vars => Ended'
<1>1. Init => Ended
  <2> SUFFICES ASSUME Init, phase = "done"  PROVE LooksAlike(old, new) /\ changeset = <<>>
    BY DEF Ended
  <2>1. PICK p \in Inputs :
          /\ old = Masked(p[1]) /\ new = Masked(p[2])
          /\ phase = IF DocHash(p[1]) = DocHash(p[2]) THEN "done" ELSE "align"
    BY DEF Init
  <2>2. PICK a, b : a = p[1] /\ b = p[2]
    OBVIOUS
  <2>3. a \in Seq(Block) /\ b \in Seq(Block)
    BY <2>2, InputsAssumption DEF Doc
  <2>4. DocHash(a) = DocHash(b)
    BY <2>1, <2>2
  <2>5. LooksAlike(Masked(a), Masked(b))
    BY <2>3, <2>4, MaskedAlike
  <2>6. changeset = <<>>
    BY DEF Init
  <2> QED  BY <2>1, <2>2, <2>5, <2>6
<1>2. ASSUME Inv, Docs, Sides, Ended, [Next]_vars  PROVE Ended'
  <2>1. UNCHANGED <<old, new, units>> =>
          /\ AllTold' <=> AllTold
          /\ (Cascades(units) = {})' <=> Cascades(units) = {}
          /\ LooksAlike(old, new)' <=> LooksAlike(old, new)
    <3>1. SUFFICES ASSUME UNCHANGED <<old, new, units>>
                   PROVE  /\ AllTold' <=> AllTold
                          /\ (Cascades(units) = {})' <=> Cascades(units) = {}
                          /\ LooksAlike(old, new)' <=> LooksAlike(old, new)
      OBVIOUS
    <3>2. AllTold' <=> AllTold
      BY <3>1 DEF AllTold, Unchanged
    <3>3. \A u : ContainerOf(u)' = ContainerOf(u)
      BY <3>1 DEF ContainerOf, Container
    <3>4. Cascades(units)' = Cascades(units)
      BY <3>1, <3>3 DEF Cascades, Members
    <3> QED  BY <3>1, <3>2, <3>4
  <2>2. CASE ClusterCascades
    <3>1. /\ phase = "cluster" /\ changeset' = Clustered(InOrder(units))
          /\ UNCHANGED <<old, new, units>>
      BY <2>2 DEF ClusterCascades
    <3>2. PendingOld = {} /\ PendingNew = {} /\ phase # "done"
      BY <3>1 DEF PendingOld, PendingNew
    <3>3. /\ DOMAIN old \subseteq Told("oi") \cup OldUnchanged
          /\ DOMAIN new \subseteq Told("ni") \cup NewUnchanged
      BY <1>2, <3>2 DEF Inv, Core, Covered
    <3>4. AllTold
      BY <3>3 DEF AllTold, Told, OldUnchanged, NewUnchanged
    <3>5. ASSUME Cascades(units) = {}
          PROVE  KeysOf(changeset') = KeysOf(units')
      <4>1. units \in Seq(UnitType)
        BY <1>2, UnitsTyped
      <4>2. PICK us : us = InOrder(units)
        OBVIOUS
      <4>3. /\ us \in Seq(UnitType) /\ Cascades(us) = {}
            /\ KeysOf(us) = KeysOf(units)
        BY <3>5, <4>1, <4>2, InOrderKeeps, InOrderListsAll, InOrderFillsNone
      <4>4. KeysOf(Clustered(us)) = KeysOf(us)
        BY <4>3, ClusteringKeepsKeys
      <4> QED  BY <3>1, <4>2, <4>3, <4>4
    <3>6. NoneFullKeepsKeys'
      BY <2>1, <3>1, <3>5 DEF NoneFullKeepsKeys
    <3> QED  BY <2>1, <3>1, <3>4, <3>6 DEF Ended
  <2>3. CASE phase' # "done"
    BY <2>3 DEF Ended
  <2>4. CASE UNCHANGED vars
    <3>1. UNCHANGED <<old, new, phase, units, changeset>>
      BY <2>4 DEF vars
    <3>2. NoneFullKeepsKeys' <=> NoneFullKeepsKeys
      BY <2>1, <3>1 DEF NoneFullKeepsKeys
    <3> QED  BY <1>2, <2>1, <3>1, <3>2 DEF Ended
  <2>5. ClusterCascades \/ UNCHANGED vars \/ phase' # "done"
    <3>1. ASSUME UNCHANGED phase, phase # "done"  PROVE phase' # "done"
      BY <3>1
    <3>2. Align \/ EndAnchors \/ EndSame \/ EndSimilar \/ EndRemoved \/ EndAdded
            => phase' # "done"
      BY DEF Align, EndAnchors, EndSame, EndSimilar, EndRemoved, EndAdded
    <3>3. Anchor \/ Move \/ KeepResidual \/ PairSimilar \/ SkipPair \/ TellRemoved
          \/ TellAdded => UNCHANGED phase /\ phase # "done"
      BY DEF Anchor, Move, KeepResidual, PairSimilar, SkipPair, TellRemoved, TellAdded
    <3> QED  BY <1>2, <3>1, <3>2, <3>3 DEF Next
  <2> QED  BY <2>2, <2>3, <2>4, <2>5
<1> QED  BY <1>1, <1>2

(***************************************************************************)
(* The loops of the diff and the look-up by slot keys agree, on any two    *)
(* documents module Changefeed may assume: what it takes a check to find   *)
(* is what the code's diff returns.                                        *)
(***************************************************************************)
THEOREM ObservationIsTheDiff == Spec => []AgreesWithObservation
<1>1. Init => PlainUnits
  <2> SUFFICES ASSUME Init  PROVE PlainUnits
    OBVIOUS
  <2>1. units = <<>> /\ scored = {} /\ oldDone = {} /\ newDone = {} /\ DOMAIN units = {}
    BY DEF Init
  <2> QED  BY <2>1 DEF PlainUnits
<1>2. Inv /\ Docs /\ Sides /\ PlainUnits /\ Ended => AgreesWithObservation
  <2> SUFFICES ASSUME Inv, Docs, Sides, PlainUnits, Ended,
                      phase = "done", PlainPages, Cascades(units) = {}
               PROVE  KeysOf(changeset) = Obs!ChangedSlots(AsSlots(old), AsSlots(new))
    BY DEF AgreesWithObservation, KeysOf
  <2>1. CASE LooksAlike(old, new) /\ changeset = <<>>
    <3>1. KeysOf(changeset) = {}
      BY <2>1 DEF KeysOf
    <3> QED  BY <2>1, <3>1, AlikeAgree
  <2>2. CASE AllTold /\ NoneFullKeepsKeys
    <3>1. Distinct(old) /\ Distinct(new) /\ \A i \in DOMAIN units : Plain(units[i])
      BY DEF PlainUnits, PlainPages
    <3>2. KeysOf(units) = Obs!ChangedSlots(AsSlots(old), AsSlots(new))
      BY <2>2, <3>1, PlainUnitsAgree
    <3> QED  BY <2>2, <3>2 DEF NoneFullKeepsKeys
  <2> QED  BY <2>1, <2>2 DEF Ended
<1> QED  BY <1>1, <1>2, PlainStep, EndedHolds, SidesHold, PTL DEF Spec

----------------------------------------------------------------------------
(***************************************************************************)
(* The counts of a clustered table.                                        *)
(***************************************************************************)
(* Masking takes nothing out of its table, and nothing into one. *)
NestedIn(doc) ==
  \A i \in DOMAIN doc : doc[i].parent # NoKey <=> doc[i].type = TableRow

Nested == NestedIn(old) /\ NestedIn(new)

LEMMA MaskedNested ==
  ASSUME NEW doc \in Seq(Block), NestedIn(doc)
  PROVE  NestedIn(Masked(doc))
<1>1. PICK n : n = Cardinality(Kept(doc))
  OBVIOUS
<1>2. Masked(doc) = [k \in 1..n |-> MaskOne(doc[NthKept(doc, k)])]
  BY <1>1, Zenon DEF Masked, Kept, NthKept
<1>3. \A k \in 1..n : NthKept(doc, k) \in DOMAIN doc
  BY <1>1, NthKeptHolds DEF Kept
<1>4. \A i \in DOMAIN doc : doc[i] \in Block
  BY ElementOfSeq, LenProperties
<1>5. ASSUME NEW b \in Block
      PROVE  MaskOne(b).parent = b.parent /\ MaskOne(b).type = b.type
  BY DEF MaskOne, Block
<1>6. ASSUME NEW k \in 1..n
      PROVE  MaskOne(doc[NthKept(doc, k)]).parent # NoKey
               <=> MaskOne(doc[NthKept(doc, k)]).type = TableRow
  <2>1. PICK i, b : i = NthKept(doc, k) /\ b = doc[i]
    OBVIOUS
  <2>2. i \in DOMAIN doc /\ b \in Block
    BY <1>3, <1>4, <2>1
  <2>3. b.parent # NoKey <=> b.type = TableRow
    BY <2>1, <2>2 DEF NestedIn
  <2> QED  BY <1>5, <2>1, <2>2, <2>3
<1> QED  BY <1>2, <1>6 DEF NestedIn

(***************************************************************************)
(* What a draft says of its blocks: whether it has both, and then that it  *)
(* is an anchor, or its blocks are of one type.                            *)
(***************************************************************************)
OfAType(o, n) == <<o, n>> \in Anchors(old, new) \/ old[o].type = new[n].type

Kinded(u) ==
  /\ u.counts = NoCounts
  /\ u.ct = "added" <=> u.oi = 0
  /\ u.ct = "removed" <=> u.ni = 0
  /\ u.oi # 0 /\ u.ni # 0 => OfAType(u.oi, u.ni)

Kinds ==
  /\ Nested
  /\ \A p \in scored : old[p[1]].type = new[p[2]].type
  /\ \A i \in DOMAIN units : Kinded(units[i])

(* A step that adds one such draft at most leaves them so. *)
LEMMA KindsStay ==
  ASSUME Inv, Kinds, UNCHANGED <<old, new>>,
         \A p \in scored' : old[p[1]].type = new[p[2]].type,
         \/ units' = units
         \/ \E u \in Drafts : Kinded(u) /\ units' = Append(units, u)
  PROVE  Kinds'
<1>1. /\ Anchors(old, new)' = Anchors(old, new)
      /\ \A o, n : OfAType(o, n)' <=> OfAType(o, n)
  BY SameDocs DEF OfAType
<1>2. ASSUME NEW i \in DOMAIN units'
      PROVE  Kinded(units'[i])
  <2>1. CASE units' = units
    BY <2>1 DEF Kinds
  <2>2. ASSUME NEW u \in Drafts, Kinded(u), units' = Append(units, u)
        PROVE  Kinded(units'[i])
    <3>1. /\ DOMAIN units' = DOMAIN units \cup {Len(units) + 1}
          /\ \A j \in DOMAIN units : units'[j] = units[j]
          /\ units'[Len(units) + 1] = u
      BY <2>2, ToldAppend DEF Inv, Core, Shape
    <3> QED  BY <2>2, <3>1 DEF Kinds
  <2> QED  BY <2>1, <2>2
<1>3. ASSUME NEW i \in DOMAIN units'
      PROVE  Kinded(units[i])'
  BY <1>1, <1>2 DEF Kinded
<1>4. Nested'
  BY DEF Kinds, Nested, NestedIn
<1> QED  BY <1>3, <1>4 DEF Kinds

(* A draft of two blocks. *)
LEMMA PairKinded ==
  ASSUME Inv, NEW o \in DOMAIN old, NEW n \in DOMAIN new, OfAType(o, n),
         NEW ct \in {"modified", "restyled", "reordered"}, NEW moved \in BOOLEAN
  PROVE  /\ Unit(ct, o, n, moved) \in Drafts
         /\ Kinded(Unit(ct, o, n, moved))
<1>1. o # 0 /\ n # 0
  BY DEF Inv, Core, Shape
<1>2. ct \in ChangeTypes /\ ct # "added" /\ ct # "removed"
  BY DEF ChangeTypes
<1>3. Unit(ct, o, n, moved) \in Drafts
  <2>1. o \in {0} \cup DOMAIN old /\ n \in {0} \cup DOMAIN new
    OBVIOUS
  <2> QED  BY <1>2, <2>1, UnitIsDraft
<1>4. PICK u : u = Unit(ct, o, n, moved)
  OBVIOUS
<1>5. u.counts = NoCounts /\ u.ct = ct /\ u.oi = o /\ u.ni = n
  BY <1>4 DEF Unit
<1>6. Kinded(u)
  BY <1>1, <1>2, <1>5 DEF Kinded
<1> QED  BY <1>3, <1>4, <1>6

(* A draft of one. *)
LEMMA LeftoverKinded ==
  ASSUME Inv
  PROVE  /\ \A o \in DOMAIN old : Kinded(Unit("removed", o, 0, FALSE))
         /\ \A n \in DOMAIN new : Kinded(Unit("added", 0, n, FALSE))
<1>1. 0 \notin DOMAIN old /\ 0 \notin DOMAIN new
  BY DEF Inv, Core, Shape
<1>2. ASSUME NEW o \in DOMAIN old
      PROVE  Kinded(Unit("removed", o, 0, FALSE))
  <2>1. PICK u : u = Unit("removed", o, 0, FALSE)
    OBVIOUS
  <2>2. u.counts = NoCounts /\ u.ct = "removed" /\ u.oi = o /\ u.ni = 0 /\ o # 0
    BY <1>1, <2>1 DEF Unit
  <2>3. Kinded(u)
    BY <2>2 DEF Kinded
  <2> QED  BY <2>1, <2>3
<1>3. ASSUME NEW n \in DOMAIN new
      PROVE  Kinded(Unit("added", 0, n, FALSE))
  <2>1. PICK u : u = Unit("added", 0, n, FALSE)
    OBVIOUS
  <2>2. u.counts = NoCounts /\ u.ct = "added" /\ u.oi = 0 /\ u.ni = n /\ n # 0
    BY <1>1, <2>1 DEF Unit
  <2>3. Kinded(u)
    BY <2>2 DEF Kinded
  <2> QED  BY <2>1, <2>3
<1> QED  BY <1>2, <1>3

(* The loop over the anchors. *)
LEMMA KindsAnchor ==
  ASSUME Inv, Kinds, Anchor
  PROVE  Kinds'
<1>1. PICK p \in Anchors(old, new) : units' = units \o AnchorUnit(p[1], p[2])
  BY DEF Anchor
<1>2. PICK o, n : o = p[1] /\ n = p[2]
  OBVIOUS
<1>3. o \in DOMAIN old /\ n \in DOMAIN new /\ OfAType(o, n)
  BY <1>2 DEF Anchors, OfAType
<1>4. units \in Seq(Drafts) /\ UNCHANGED <<old, new, scored>>
  BY DEF Inv, Core, Shape, Anchor
<1>5. CASE AnchorUnit(o, n) = <<>>
  <2>1. units' = units
    BY <1>1, <1>2, <1>4, <1>5, ConcatEmptySeq
  <2> QED  BY <1>4, <2>1, KindsStay DEF Kinds
<1>6. CASE AnchorUnit(o, n) # <<>>
  <2>1. PICK ct \in {"modified", "restyled", "reordered"}, moved \in BOOLEAN :
          AnchorUnit(o, n) = <<Unit(ct, o, n, moved)>>
    <3>1. MovedRun(old, new, o) \in BOOLEAN
      BY DEF MovedRun
    <3>2. \/ AnchorUnit(o, n) = <<Unit("modified", o, n, MovedRun(old, new, o))>>
          \/ AnchorUnit(o, n) = <<Unit("restyled", o, n, FALSE)>>
          \/ AnchorUnit(o, n) = <<Unit("reordered", o, n, TRUE)>>
      BY <1>6 DEF AnchorUnit
    <3> QED  BY <3>1, <3>2
  <2>2. PICK u : u = Unit(ct, o, n, moved)
    OBVIOUS
  <2>3. u \in Drafts /\ Kinded(u)
    BY <1>3, <2>2, PairKinded
  <2>4. units' = Append(units, u)
    BY <1>1, <1>2, <1>4, <2>1, <2>2, <2>3, AppendIsConcat
  <2> QED  BY <1>4, <2>3, <2>4, KindsStay DEF Kinds
<1> QED  BY <1>5, <1>6

(* The loops over the residual blocks, and what is left over. *)
LEMMA KindsPair ==
  ASSUME Inv, Kinds, Move \/ PairSimilar
  PROVE  Kinds'
<1>1. \E o \in DOMAIN old, n \in DOMAIN new, ct \in {"modified", "reordered"}, b \in BOOLEAN :
        old[o].type = new[n].type /\ units' = Append(units, Unit(ct, o, n, b))
  <2>1. CASE Move
    <3>1. PICK o \in todo : \E n \in SameText(o) :
            /\ new[n].type = old[o].type
            /\ Pair(o, n, Unit("reordered", o, n, TRUE))
      BY <2>1 DEF Move
    <3>2. PICK n \in SameText(o) : /\ new[n].type = old[o].type
                                   /\ Pair(o, n, Unit("reordered", o, n, TRUE))
      BY <3>1
    <3>3. o \in DOMAIN old /\ n \in DOMAIN new
      BY <2>1, <3>2, Residuals DEF Move, Inv, Handed, SameText
    <3>4. units' = Append(units, Unit("reordered", o, n, TRUE))
      BY <3>2 DEF Pair
    <3> QED  BY <3>2, <3>3, <3>4
  <2>2. CASE PairSimilar
    <3>1. PICK p \in scored :
            Pair(p[1], p[2], Unit("modified", p[1], p[2],
                                  Affinity(old[p[1]], new[p[2]]) < 50))
      BY <2>2 DEF PairSimilar
    <3>2. PICK o, n, b : o = p[1] /\ n = p[2] /\ b = (Affinity(old[p[1]], new[p[2]]) < 50)
      OBVIOUS
    <3>3. o \in DOMAIN old /\ n \in DOMAIN new /\ old[o].type = new[n].type
      BY <3>2, Residuals DEF Inv, Handed, Kinds
    <3>4. units' = Append(units, Unit("modified", o, n, b)) /\ b \in BOOLEAN
      BY <3>1, <3>2 DEF Pair
    <3> QED  BY <3>3, <3>4
  <2> QED  BY <2>1, <2>2
<1>2. PICK o \in DOMAIN old, n \in DOMAIN new, ct \in {"modified", "reordered"}, b \in BOOLEAN :
        old[o].type = new[n].type /\ units' = Append(units, Unit(ct, o, n, b))
  BY <1>1
<1>3. PICK u : u = Unit(ct, o, n, b)
  OBVIOUS
<1>4. u \in Drafts /\ Kinded(u)
  <2>1. OfAType(o, n)
    BY <1>2 DEF OfAType
  <2>2. ct \in {"modified", "restyled", "reordered"}
    OBVIOUS
  <2> QED  BY <1>3, <2>1, <2>2, PairKinded
<1>5. UNCHANGED <<old, new>> /\ scored' \subseteq scored
  BY DEF Move, PairSimilar
<1> QED  BY <1>2, <1>3, <1>4, <1>5, KindsStay DEF Kinds

(* What is left over. *)
LEMMA KindsLeftover ==
  ASSUME Inv, Sides, Kinds, TellRemoved \/ TellAdded
  PROVE  Kinds'
<1>1. UNCHANGED <<old, new, scored>>
  BY DEF TellRemoved, TellAdded
<1>2. \E u \in Drafts : Kinded(u) /\ units' = Append(units, u)
  <2>1. CASE TellRemoved
    <3>1. PICK o \in todo : units' = Append(units, Unit("removed", o, 0, FALSE))
      BY <2>1 DEF TellRemoved
    <3>2. o \in DOMAIN old
      BY <2>1, <3>1, Residuals DEF TellRemoved, Sides
    <3> QED  BY <3>1, <3>2, LeftoverIsDraft, LeftoverKinded
  <2>2. CASE TellAdded
    <3>1. PICK n \in todo : units' = Append(units, Unit("added", 0, n, FALSE))
      BY <2>2 DEF TellAdded
    <3>2. n \in DOMAIN new
      BY <2>2, <3>1, Residuals DEF TellAdded, Sides
    <3> QED  BY <3>1, <3>2, LeftoverIsDraft, LeftoverKinded
  <2> QED  BY <2>1, <2>2
<1> QED  BY <1>1, <1>2, KindsStay DEF Kinds

(* Every step of the diff keeps the kinds of the units. *)
LEMMA KindsHold ==
  /\ Init => Kinds
  /\ Inv /\ Sides /\ Kinds /\ [Next]_vars => Kinds'
<1>1. ASSUME Init  PROVE Kinds
  <2>1. PICK p \in Inputs : old = Masked(p[1]) /\ new = Masked(p[2])
    BY <1>1 DEF Init
  <2>2. PICK a, b : a = p[1] /\ b = p[2]
    OBVIOUS
  <2>3. a \in Seq(Block) /\ b \in Seq(Block)
    BY <2>2, InputsAssumption DEF Doc
  <2>4. NestedIn(a) /\ NestedIn(b)
    BY <2>2, RowsAssumption DEF NestedIn
  <2>5. NestedIn(Masked(a)) /\ NestedIn(Masked(b))
    BY <2>3, <2>4, MaskedNested
  <2>6. scored = {} /\ DOMAIN units = {}
    BY <1>1 DEF Init
  <2> QED  BY <2>1, <2>2, <2>5, <2>6 DEF Kinds, Nested
<1>2. ASSUME Inv, Sides, Kinds, [Next]_vars  PROVE Kinds'
  <2>1. CASE UNCHANGED <<old, new, units>> /\ scored' \subseteq scored
    BY <1>2, <2>1, KindsStay DEF Kinds
  <2>2. CASE EndSame
    <3>1. UNCHANGED <<old, new, units>>
      BY <2>2 DEF EndSame
    <3>2. \A p \in scored' : old[p[1]].type = new[p[2]].type
      BY <2>2 DEF EndSame, Scored
    <3> QED  BY <1>2, <3>1, <3>2, KindsStay
  <2>3. \/ UNCHANGED <<old, new, units>> /\ scored' \subseteq scored
        \/ Anchor \/ Move \/ PairSimilar \/ TellRemoved \/ TellAdded \/ EndSame
    BY <1>2 DEF Next, vars, Align, EndAnchors, KeepResidual, SkipPair, EndSimilar,
       EndRemoved, EndAdded, ClusterCascades
  <2> QED  BY <1>2, <2>1, <2>2, <2>3, KindsAnchor, KindsPair, KindsLeftover
<1> QED  BY <1>1, <1>2

----------------------------------------------------------------------------
(* The container of a block is the one it stands in. *)
LEMMA ContainerHolds ==
  ASSUME NEW doc \in Doc, Distinct(doc)
  PROVE  /\ \A i \in DOMAIN doc : Container(doc, doc[i].key) = doc[i].parent
         /\ \A k : (\A i \in DOMAIN doc : doc[i].key # k) => Container(doc, k) = NoKey
<1>1. ASSUME NEW i \in DOMAIN doc
      PROVE  Container(doc, doc[i].key) = doc[i].parent
  <2>1. PICK k, held : /\ k = doc[i].key
                       /\ held = {j \in DOMAIN doc : doc[j].key = k /\ doc[j].parent # NoKey}
    OBVIOUS
  <2>2. Container(doc, k) = IF held = {} THEN NoKey
                            ELSE doc[CHOOSE j \in held : \A m \in held : m <= j].parent
    BY <2>1 DEF Container
  <2>3. CASE doc[i].parent = NoKey
    <3>1. held = {}
      BY <2>1, <2>3 DEF Distinct, Once
    <3> QED  BY <2>1, <2>2, <2>3, <3>1
  <2>4. CASE doc[i].parent # NoKey
    <3>1. held = {i}
      BY <2>1, <2>4 DEF Distinct, Once
    <3>2. i <= i
      <4>1. DOMAIN doc = 1..Len(doc) /\ Len(doc) \in Nat
        BY LenProperties DEF Doc
      <4> QED  BY <4>1
    <3>3. PICK x : x = CHOOSE j \in held : \A m \in held : m <= j
      OBVIOUS
    <3>4. x = i
      BY <3>1, <3>2, <3>3
    <3> QED  BY <2>1, <2>2, <3>1, <3>3, <3>4
  <2> QED  BY <2>3, <2>4
<1>2. ASSUME NEW k, \A i \in DOMAIN doc : doc[i].key # k
      PROVE  Container(doc, k) = NoKey
  BY <1>2 DEF Container
<1> QED  BY <1>1, <1>2

(* A residual block's slot key is in its own document alone. *)
LEMMA ResidualKeys ==
  ASSUME Distinct(old), Distinct(new)
  PROVE  /\ \A o \in OldResidual(old, new), n \in DOMAIN new : old[o].key # new[n].key
         /\ \A n \in NewResidual(old, new), o \in DOMAIN old : old[o].key # new[n].key
<1>1. ASSUME NEW o \in DOMAIN old, NEW n \in DOMAIN new, old[o].key = new[n].key
      PROVE  o \in AnchoredOld(old, new) /\ n \in AnchoredNew(old, new)
  <2>1. <<o, n>> \in Anchors(old, new)
    BY <1>1, DifferOfBoth
  <2> QED  BY <2>1 DEF AnchoredOld, AnchoredNew
<1> QED  BY <1>1 DEF OldResidual, NewResidual

(* What a unit that adds or removes a block tells. *)
LEMMA AddedOrRemoved ==
  ASSUME Inv, Sides, Kinds, NEW i \in DOMAIN units
  PROVE  /\ units[i].ct = "added" => /\ units[i].oi = 0
                                     /\ units[i].ni \in NewResidual(old, new)
         /\ units[i].ct = "removed" => /\ units[i].ni = 0
                                       /\ units[i].oi \in OldResidual(old, new)
<1>1. PICK u : u = units[i]
  OBVIOUS
<1>2. Kinded(u) /\ Sided(u)
  BY <1>1 DEF Kinds, Sides
<1>3. 0 \notin DOMAIN old /\ 0 \notin DOMAIN new
  BY DEF Inv, Core, Shape
<1>4. u.oi = 0 \/ u.ni = 0 => <<u.oi, u.ni>> \notin Anchors(old, new)
  BY <1>3 DEF Anchors
<1> QED  BY <1>1, <1>2, <1>4 DEF Kinded, Sided

Rows(us, c, ct) == {i \in Members(us, c) : us[i].ct \in {ct}}

(* The rows of a table that the units say are added, and those removed. *)
AddedRows(c) ==
  {n \in Children(new, c) : \E i \in DOMAIN units : units[i].ct = "added" /\ units[i].ni = n}
RemovedRows(c) ==
  {o \in Children(old, c) : \E i \in DOMAIN units : units[i].ct = "removed" /\ units[i].oi = o}

(* A document has finitely many blocks, and so have its tables. *)
LEMMA ChildrenFinite ==
  ASSUME NEW doc \in Doc, NEW c
  PROVE  IsFiniteSet(Children(doc, c))
<1>1. DOMAIN doc = 1..Len(doc) /\ Len(doc) \in Nat
  BY LenProperties DEF Doc
<1>2. 1 \in Int /\ Len(doc) \in Int
  BY <1>1
<1>3. IsFiniteSet(DOMAIN doc)
  BY <1>1, <1>2, FS_Interval
<1>4. Children(doc, c) \subseteq DOMAIN doc
  BY DEF Children
<1> QED  BY <1>3, <1>4, FS_Subset

(* Each row added has a unit of its own, which is counted for its table. *)
LEMMA AddedAreCounted ==
  ASSUME Inv, Docs, Sides, Kinds, Distinct(old), Distinct(new), NEW c \in Keys
  PROVE  Cardinality(Rows(units, c, "added")) = Cardinality(AddedRows(c))
<1>1. PICK M, N, f : /\ M = Rows(units, c, "added") /\ N = AddedRows(c)
                     /\ f = [i \in M |-> units[i].ni]
  OBVIOUS
<1>2. c # NoKey
  BY KeysAssumption
<1>3. ASSUME NEW i \in DOMAIN units, units[i].ct = "added"
      PROVE  /\ units[i].ni \in DOMAIN new /\ units[i].ni # 0
             /\ ContainerOf(units[i]) = new[units[i].ni].parent
  <2>1. PICK n : n = units[i].ni
    OBVIOUS
  <2>2. n \in NewResidual(old, new)
    BY <1>3, <2>1, AddedOrRemoved
  <2>3. n \in DOMAIN new /\ n # 0
    BY <2>2, Residuals DEF Inv, Core, Shape
  <2>4. units[i].key = new[n].key
    BY <2>1, <2>3, UnitsTyped
  <2>5. Container(new, new[n].key) = new[n].parent
    BY <2>3, ContainerHolds DEF Docs
  <2>6. \A o \in DOMAIN old : old[o].key # new[n].key
    BY <2>2, ResidualKeys
  <2>7. Container(old, new[n].key) = NoKey
    BY <2>6, ContainerHolds DEF Docs
  <2>8. ContainerOf(units[i]) = new[n].parent
    BY <1>3, <2>4, <2>5, <2>7 DEF ContainerOf
  <2> QED  BY <2>1, <2>3, <2>8
<1>4. ASSUME NEW i \in M  PROVE f[i] \in N
  <2>1. i \in DOMAIN units /\ units[i].ct = "added" /\ ContainerOf(units[i]) = c
    BY <1>1 DEF Rows, Members
  <2>2. units[i].ni \in Children(new, c)
    BY <1>3, <2>1 DEF Children
  <2> QED  BY <1>1, <2>1, <2>2 DEF AddedRows
<1>5. ASSUME NEW i \in M, NEW j \in M, f[i] = f[j]  PROVE i = j
  <2>1. /\ i \in DOMAIN units /\ units[i].ct = "added"
        /\ j \in DOMAIN units
    BY <1>1 DEF Rows, Members
  <2>2. units[i].ni # 0 /\ units[i].ni = units[j].ni
    BY <1>1, <1>3, <1>5, <2>1
  <2> QED  BY <2>1, <2>2 DEF Inv, Core, EachBlockOnce
<1>6. ASSUME NEW n \in N  PROVE \E i \in M : f[i] = n
  <2>1. n \in Children(new, c)
    BY <1>1 DEF AddedRows
  <2>2. PICK i \in DOMAIN units : units[i].ct = "added" /\ units[i].ni = n
    BY <1>1 DEF AddedRows
  <2>3. ContainerOf(units[i]) = c
    BY <1>3, <2>1, <2>2 DEF Children
  <2>4. i \in M
    BY <1>1, <2>2, <2>3 DEF Rows, Members
  <2> QED  BY <1>1, <2>2, <2>4
<1>7. f \in Injection(M, N) /\ f \in Surjection(M, N)
  BY <1>1, <1>4, <1>5, <1>6 DEF Injection, IsInjective, Surjection
<1>8. IsFiniteSet(N)
  <2>1. IsFiniteSet(Children(new, c)) /\ N \subseteq Children(new, c)
    BY <1>1, ChildrenFinite DEF Docs, AddedRows
  <2> QED  BY <2>1, FS_Subset
<1>9. Cardinality(M) = Cardinality(N)
  BY <1>7, <1>8, FS_Injection
<1> QED  BY <1>1, <1>9

(* So has each row removed. *)
LEMMA RemovedAreCounted ==
  ASSUME Inv, Docs, Sides, Kinds, Distinct(old), Distinct(new), NEW c \in Keys
  PROVE  Cardinality(Rows(units, c, "removed")) = Cardinality(RemovedRows(c))
<1>1. PICK M, N, f : /\ M = Rows(units, c, "removed") /\ N = RemovedRows(c)
                     /\ f = [i \in M |-> units[i].oi]
  OBVIOUS
<1>2. ASSUME NEW i \in DOMAIN units, units[i].ct = "removed"
      PROVE  /\ units[i].oi \in DOMAIN old /\ units[i].oi # 0
             /\ ContainerOf(units[i]) = old[units[i].oi].parent
  <2>1. PICK o : o = units[i].oi
    OBVIOUS
  <2>2. o \in OldResidual(old, new) /\ units[i].ni = 0
    BY <1>2, <2>1, AddedOrRemoved
  <2>3. o \in DOMAIN old /\ o # 0
    BY <2>2, Residuals DEF Inv, Core, Shape
  <2>4. units[i].key = old[o].key
    BY <2>1, <2>2, UnitsTyped
  <2>5. Container(old, old[o].key) = old[o].parent
    BY <2>3, ContainerHolds DEF Docs
  <2>6. ContainerOf(units[i]) = old[o].parent
    BY <1>2, <2>4, <2>5 DEF ContainerOf
  <2> QED  BY <2>1, <2>3, <2>6
<1>3. ASSUME NEW i \in M  PROVE f[i] \in N
  <2>1. i \in DOMAIN units /\ units[i].ct = "removed" /\ ContainerOf(units[i]) = c
    BY <1>1 DEF Rows, Members
  <2>2. units[i].oi \in Children(old, c)
    BY <1>2, <2>1 DEF Children
  <2> QED  BY <1>1, <2>1, <2>2 DEF RemovedRows
<1>4. ASSUME NEW i \in M, NEW j \in M, f[i] = f[j]  PROVE i = j
  <2>1. /\ i \in DOMAIN units /\ units[i].ct = "removed"
        /\ j \in DOMAIN units
    BY <1>1 DEF Rows, Members
  <2>2. units[i].oi # 0 /\ units[i].oi = units[j].oi
    BY <1>1, <1>2, <1>4, <2>1
  <2> QED  BY <2>1, <2>2 DEF Inv, Core, EachBlockOnce
<1>5. ASSUME NEW o \in N  PROVE \E i \in M : f[i] = o
  <2>1. o \in Children(old, c)
    BY <1>1 DEF RemovedRows
  <2>2. PICK i \in DOMAIN units : units[i].ct = "removed" /\ units[i].oi = o
    BY <1>1 DEF RemovedRows
  <2>3. ContainerOf(units[i]) = c
    BY <1>2, <2>1, <2>2 DEF Children
  <2>4. i \in M
    BY <1>1, <2>2, <2>3 DEF Rows, Members
  <2> QED  BY <1>1, <2>2, <2>4
<1>6. f \in Injection(M, N) /\ f \in Surjection(M, N)
  BY <1>1, <1>3, <1>4, <1>5 DEF Injection, IsInjective, Surjection
<1>7. IsFiniteSet(N)
  <2>1. IsFiniteSet(Children(old, c)) /\ N \subseteq Children(old, c)
    BY <1>1, ChildrenFinite DEF Docs, RemovedRows
  <2> QED  BY <2>1, FS_Subset
<1>8. Cardinality(M) = Cardinality(N)
  BY <1>6, <1>7, FS_Injection
<1> QED  BY <1>1, <1>8

----------------------------------------------------------------------------
(***************************************************************************)
(* The other rows of the two tables go in pairs: those a unit tells of     *)
(* together, and those that are unchanged.                                 *)
(***************************************************************************)
Mates(o, n) ==
  \/ Unchanged(o, n)
  \/ \E i \in DOMAIN units : units[i].oi = o /\ units[i].ni = n

(* No block has two mates. *)
LEMMA OneMate ==
  ASSUME Inv, Sides, NEW o \in DOMAIN old, NEW n \in DOMAIN new,
         NEW a \in DOMAIN old, NEW b \in DOMAIN new, Mates(o, n), Mates(a, b)
  PROVE  o = a <=> n = b
<1>1. o # 0 /\ n # 0 /\ a # 0 /\ b # 0
  BY DEF Inv, Core, Shape
<1>2. ASSUME NEW x \in DOMAIN old, NEW y \in DOMAIN new, Mates(x, y),
             x \in AnchoredOld(old, new) \/ y \in AnchoredNew(old, new)
      PROVE  <<x, y>> \in Anchors(old, new)
  <2>1. CASE Unchanged(x, y)
    BY <2>1 DEF Unchanged
  <2>2. ASSUME NEW i \in DOMAIN units, units[i].oi = x, units[i].ni = y
        PROVE  <<x, y>> \in Anchors(old, new)
    <3>1. Sided(units[i]) /\ x # 0 /\ y # 0
      BY DEF Sides, Inv, Core, Shape
    <3> QED  BY <1>2, <2>2, <3>1 DEF Sided, OldResidual, NewResidual
  <2> QED  BY <1>2, <2>1, <2>2 DEF Mates
<1>3. CASE <<o, n>> \in Anchors(old, new) \/ <<a, b>> \in Anchors(old, new)
  <2>1. SUFFICES ASSUME o = a \/ n = b  PROVE o = a /\ n = b
    OBVIOUS
  <2>2. \/ o \in AnchoredOld(old, new) /\ (a = o \/ b = n)
        \/ a \in AnchoredOld(old, new) /\ (a = o \/ b = n)
    BY <1>3, <2>1 DEF AnchoredOld
  <2>3. \/ o \in AnchoredOld(old, new) /\ n \in AnchoredNew(old, new)
        \/ a \in AnchoredOld(old, new) /\ b \in AnchoredNew(old, new)
    BY <1>3 DEF AnchoredOld, AnchoredNew
  <2>4. <<o, n>> \in Anchors(old, new) /\ <<a, b>> \in Anchors(old, new)
    BY <1>2, <1>3, <2>1, <2>3
  <2>5. PICK p \in Anchors(old, new), q \in Anchors(old, new) :
          p = <<o, n>> /\ q = <<a, b>>
    BY <2>4
  <2>6. o = a <=> n = b
    <3>1. p[1] = q[1] <=> p[2] = q[2]
      BY AnchorsPair
    <3> QED  BY <2>5, <3>1
  <2> QED  BY <2>1, <2>6
<1>4. CASE <<o, n>> \notin Anchors(old, new) /\ <<a, b>> \notin Anchors(old, new)
  <2>1. PICK i \in DOMAIN units : units[i].oi = o /\ units[i].ni = n
    BY <1>4 DEF Mates, Unchanged
  <2>2. PICK j \in DOMAIN units : units[j].oi = a /\ units[j].ni = b
    BY <1>4 DEF Mates, Unchanged
  <2> QED  BY <1>1, <2>1, <2>2 DEF Inv, Core, EachBlockOnce
<1> QED  BY <1>3, <1>4

(* Mates are in the same table. *)
LEMMA MatesShareTable ==
  ASSUME Inv, Sides, Kinds, NEW c \in Keys,
         OnlyContainer(old, c), OnlyContainer(new, c), KeepsItsRows(c),
         NEW o \in DOMAIN old, NEW n \in DOMAIN new, Mates(o, n)
  PROVE  old[o].parent = c <=> new[n].parent = c
<1>1. o # 0 /\ n # 0 /\ c # NoKey
  BY KeysAssumption DEF Inv, Core, Shape
<1>2. OfAType(o, n)
  BY <1>1 DEF Mates, Unchanged, OfAType, Kinds, Kinded
<1>3. CASE <<o, n>> \in Anchors(old, new)
  <2>1. old[o].key = new[n].key
    BY <1>3 DEF Anchors
  <2> QED  BY <2>1 DEF KeepsItsRows
<1>4. CASE old[o].type = new[n].type
  <2>1. /\ old[o].parent # NoKey <=> old[o].type = TableRow
        /\ new[n].parent # NoKey <=> new[n].type = TableRow
    BY DEF Kinds, Nested, NestedIn
  <2>2. old[o].parent \in {NoKey, c} /\ new[n].parent \in {NoKey, c}
    BY DEF OnlyContainer
  <2> QED  BY <1>1, <1>4, <2>1, <2>2
<1> QED  BY <1>2, <1>3, <1>4 DEF OfAType

(* Rows that are neither removed nor added are as many in both. *)
LEMMA TheRestIsPaired ==
  ASSUME Inv, Docs, Sides, Kinds, AllTold, NEW c \in Keys,
         OnlyContainer(old, c), OnlyContainer(new, c), KeepsItsRows(c)
  PROVE  Cardinality(Children(old, c) \ RemovedRows(c))
           = Cardinality(Children(new, c) \ AddedRows(c))
<1>1. PICK R, S, h : /\ R = Children(old, c) \ RemovedRows(c)
                     /\ S = Children(new, c) \ AddedRows(c)
                     /\ h = [o \in R |-> CHOOSE n \in S : Mates(o, n)]
  OBVIOUS
<1>2. 0 \notin DOMAIN old /\ 0 \notin DOMAIN new
  BY DEF Inv, Core, Shape
<1>3. \A o \in R : o \in DOMAIN old /\ old[o].parent = c
  BY <1>1 DEF Children
<1>4. \A n \in S : n \in DOMAIN new /\ new[n].parent = c
  BY <1>1 DEF Children
<1>5. ASSUME NEW o \in DOMAIN old, NEW n \in DOMAIN new, Mates(o, n)
      PROVE  o \in R <=> n \in S
  <2>1. o \in Children(old, c) <=> n \in Children(new, c)
    BY <1>5, MatesShareTable DEF Children
  <2>2. ASSUME NEW i \in DOMAIN units, units[i].ct = "removed", units[i].oi = o
        PROVE  FALSE
    <3>1. units[i].ni = 0 /\ o \in OldResidual(old, new)
      BY <2>2, AddedOrRemoved
    <3>2. ~Unchanged(o, n)
      BY <3>1 DEF Unchanged, OldResidual, AnchoredOld
    <3>3. PICK j \in DOMAIN units : units[j].oi = o /\ units[j].ni = n
      BY <1>5, <3>2 DEF Mates
    <3>4. i = j
      BY <1>2, <2>2, <3>3 DEF Inv, Core, EachBlockOnce
    <3> QED  BY <1>2, <3>1, <3>3, <3>4
  <2>3. ASSUME NEW i \in DOMAIN units, units[i].ct = "added", units[i].ni = n
        PROVE  FALSE
    <3>1. units[i].oi = 0 /\ n \in NewResidual(old, new)
      BY <2>3, AddedOrRemoved
    <3>2. ~Unchanged(o, n)
      BY <3>1 DEF Unchanged, NewResidual, AnchoredNew
    <3>3. PICK j \in DOMAIN units : units[j].oi = o /\ units[j].ni = n
      BY <1>5, <3>2 DEF Mates
    <3>4. i = j
      BY <1>2, <2>3, <3>3 DEF Inv, Core, EachBlockOnce
    <3> QED  BY <1>2, <3>1, <3>3, <3>4
  <2> QED  BY <1>1, <2>1, <2>2, <2>3 DEF RemovedRows, AddedRows
<1>6. ASSUME NEW o \in R  PROVE \E n \in S : Mates(o, n)
  <2>1. o \in DOMAIN old
    BY <1>3
  <2>2. \E n \in DOMAIN new : Mates(o, n)
    <3>1. CASE \E n \in DOMAIN new : Unchanged(o, n)
      BY <3>1 DEF Mates
    <3>2. ASSUME NEW i \in DOMAIN units, units[i].oi = o
          PROVE  \E n \in DOMAIN new : Mates(o, n)
      <4>1. units[i].ct # "removed"
        BY <1>1, <3>2 DEF RemovedRows
      <4>2. units[i].ni # 0
        BY <4>1 DEF Kinds, Kinded
      <4>3. units[i].ni \in DOMAIN new
        BY <4>2, Residuals DEF Sides, Sided, Anchors
      <4> QED  BY <3>2, <4>3 DEF Mates
    <3> QED  BY <2>1, <3>1, <3>2 DEF AllTold
  <2> QED  BY <1>5, <2>1, <2>2
<1>7. ASSUME NEW n \in S  PROVE \E o \in R : Mates(o, n)
  <2>1. n \in DOMAIN new
    BY <1>4
  <2>2. \E o \in DOMAIN old : Mates(o, n)
    <3>1. CASE \E o \in DOMAIN old : Unchanged(o, n)
      BY <3>1 DEF Mates
    <3>2. ASSUME NEW i \in DOMAIN units, units[i].ni = n
          PROVE  \E o \in DOMAIN old : Mates(o, n)
      <4>1. units[i].ct # "added"
        BY <1>1, <3>2 DEF AddedRows
      <4>2. units[i].oi # 0
        BY <4>1 DEF Kinds, Kinded
      <4>3. units[i].oi \in DOMAIN old
        BY <4>2, Residuals DEF Sides, Sided, Anchors
      <4> QED  BY <3>2, <4>3 DEF Mates
    <3> QED  BY <2>1, <3>1, <3>2 DEF AllTold
  <2> QED  BY <1>5, <2>1, <2>2
<1>8. \A o \in R : h[o] \in S /\ Mates(o, h[o])
  BY <1>1, <1>6
<1>9. ASSUME NEW o \in R, NEW a \in R, h[o] = h[a]  PROVE o = a
  <2>1. /\ o \in DOMAIN old /\ a \in DOMAIN old
        /\ h[o] \in DOMAIN new /\ h[a] \in DOMAIN new
        /\ Mates(o, h[o]) /\ Mates(a, h[a])
    BY <1>3, <1>4, <1>8
  <2> QED  BY <1>9, <2>1, OneMate
<1>10. ASSUME NEW n \in S  PROVE \E o \in R : h[o] = n
  <2>1. PICK o \in R : Mates(o, n)
    BY <1>7
  <2>2. /\ o \in DOMAIN old /\ n \in DOMAIN new /\ h[o] \in DOMAIN new
        /\ Mates(o, h[o])
    BY <1>3, <1>4, <1>8
  <2> QED  BY <2>1, <2>2, OneMate
<1>11. h \in Injection(R, S) /\ h \in Surjection(R, S)
  <2>1. h \in [R -> S]
    BY <1>1, <1>8
  <2>2. h \in Injection(R, S)
    BY <1>9, <2>1 DEF Injection, IsInjective
  <2>3. h \in Surjection(R, S)
    BY <1>10, <2>1 DEF Surjection
  <2> QED  BY <2>2, <2>3
<1>12. IsFiniteSet(S)
  <2>1. IsFiniteSet(Children(new, c)) /\ S \subseteq Children(new, c)
    BY <1>1, ChildrenFinite DEF Docs
  <2> QED  BY <2>1, FS_Subset
<1>13. Cardinality(R) = Cardinality(S)
  BY <1>11, <1>12, FS_Injection
<1> QED  BY <1>1, <1>13

(* Hence what was added less what was removed is what the table grew by. *)
LEMMA RowsBalance ==
  ASSUME Inv, Docs, Sides, Kinds, AllTold, NEW c \in Keys,
         Distinct(old), Distinct(new),
         OnlyContainer(old, c), OnlyContainer(new, c), KeepsItsRows(c)
  PROVE  Cardinality(Rows(units, c, "added")) - Cardinality(Rows(units, c, "removed"))
           = Cardinality(Children(new, c)) - Cardinality(Children(old, c))
<1>1. PICK O, N, D, A : /\ O = Children(old, c) /\ N = Children(new, c)
                        /\ D = RemovedRows(c) /\ A = AddedRows(c)
  OBVIOUS
<1>2. IsFiniteSet(O) /\ IsFiniteSet(N) /\ D \subseteq O /\ A \subseteq N
  BY <1>1, ChildrenFinite DEF Docs, RemovedRows, AddedRows
<1>3. IsFiniteSet(D) /\ IsFiniteSet(A) /\ IsFiniteSet(O \ D) /\ IsFiniteSet(N \ A)
  <2>1. O \ D \subseteq O /\ N \ A \subseteq N
    OBVIOUS
  <2> QED  BY <1>2, <2>1, FS_Subset
<1>4. /\ Cardinality(O \ D) = Cardinality(O) - Cardinality(D)
      /\ Cardinality(N \ A) = Cardinality(N) - Cardinality(A)
  <2>1. O \cap D = D /\ N \cap A = A
    BY <1>2
  <2>2. /\ Cardinality(O \ D) = Cardinality(O) - Cardinality(O \cap D)
        /\ Cardinality(N \ A) = Cardinality(N) - Cardinality(N \cap A)
    BY <1>2, FS_Difference
  <2> QED  BY <2>1, <2>2
<1>5. /\ Cardinality(O) \in Nat /\ Cardinality(N) \in Nat
      /\ Cardinality(D) \in Nat /\ Cardinality(A) \in Nat
  BY <1>2, <1>3, FS_CardinalityType
<1>6. Cardinality(O \ D) = Cardinality(N \ A)
  BY <1>1, TheRestIsPaired
<1>7. /\ Cardinality(Rows(units, c, "added")) = Cardinality(A)
      /\ Cardinality(Rows(units, c, "removed")) = Cardinality(D)
  BY <1>1, AddedAreCounted, RemovedAreCounted
<1>8. Cardinality(A) - Cardinality(D) = Cardinality(N) - Cardinality(O)
  BY <1>4, <1>5, <1>6
<1> QED  BY <1>1, <1>7, <1>8

----------------------------------------------------------------------------
(***************************************************************************)
(* Sorting and clustering count what the loops told.                       *)
(***************************************************************************)
(* Sorting units adds no row to a table, and takes none away. *)
LEMMA InOrderCounts ==
  ASSUME NEW us \in Seq(UnitType), NEW c, NEW ct
  PROVE  Cardinality(Rows(InOrder(us), c, ct)) = Cardinality(Rows(us, c, ct))
<1>1. DOMAIN us = 1..Len(us) /\ Len(us) \in Nat /\ us \in [1..Len(us) -> UnitType]
  BY LenProperties
<1>2. \A i \in DOMAIN us : us[i].key \in Nat /\ us[i].ct \in ChangeTypes
  BY <1>1, KeysAssumption DEF UnitType
<1>3. PICK f : Shuffle(us, InOrder(us), f)
  BY <1>2, InOrderHolds
<1>4. PICK vs, D : vs = InOrder(us) /\ D = DOMAIN us
  OBVIOUS
<1>5. /\ f \in [D -> D] /\ \A i, j \in D : f[i] = f[j] => i = j
      /\ vs = [k \in D |-> us[f[k]]] /\ DOMAIN vs = D
  BY <1>3, <1>4 DEF Shuffle
<1>6. IsFiniteSet(D)
  <2>1. 1 \in Int /\ Len(us) \in Int
    BY <1>1
  <2> QED  BY <1>1, <1>4, <2>1, FS_Interval
<1>7. \A i \in D : \E k \in D : f[k] = i
  <2>1. f \in Injection(D, D)
    BY <1>5 DEF Injection, IsInjective
  <2>2. f \in Surjection(D, D)
    BY <1>6, <2>1, FS_Injection
  <2> QED  BY <2>2 DEF Surjection
<1>8. PICK M, N, g : /\ M = Rows(vs, c, ct) /\ N = Rows(us, c, ct)
                     /\ g = [k \in M |-> f[k]]
  OBVIOUS
<1>9. /\ M \subseteq D /\ N \subseteq D
      /\ \A k \in D : k \in M <=> f[k] \in N
  <2>1. \A k \in D : vs[k] = us[f[k]] /\ f[k] \in D
    BY <1>5
  <2> QED  BY <1>4, <1>5, <1>8, <2>1 DEF Rows, Members
<1>10. g \in Injection(M, N)
  BY <1>5, <1>8, <1>9 DEF Injection, IsInjective
<1>11. g \in Surjection(M, N)
  <2>1. \A k \in M : g[k] \in N
    BY <1>8, <1>9
  <2>2. \A i \in N : \E k \in M : g[k] = i
    BY <1>7, <1>8, <1>9
  <2> QED  BY <1>8, <2>1, <2>2 DEF Surjection
<1>12. IsFiniteSet(N)
  BY <1>6, <1>9, FS_Subset
<1>13. Cardinality(M) = Cardinality(N)
  BY <1>10, <1>11, <1>12, FS_Injection
<1> QED  BY <1>4, <1>8, <1>13

(* Units that count nothing. *)
Countless(us) == \A i \in DOMAIN us : us[i].counts = NoCounts

(* Sorting leaves them so. *)
LEMMA InOrderCountless ==
  ASSUME NEW us \in Seq(UnitType), Countless(us)
  PROVE  Countless(InOrder(us))
<1>1. us \in [1..Len(us) -> UnitType] /\ DOMAIN us = 1..Len(us)
  BY LenProperties
<1>2. \A i \in DOMAIN us : us[i].key \in Nat /\ us[i].ct \in ChangeTypes
  BY <1>1, KeysAssumption DEF UnitType
<1>3. PICK f : Shuffle(us, InOrder(us), f)
  BY <1>2, InOrderHolds
<1> QED  BY <1>3 DEF Shuffle, Countless

(* A unit of a changeset that counts is the one of a full container. *)
LEMMA ClusteredCounts ==
  ASSUME Docs, NEW us \in Seq(UnitType), Countless(us),
         NEW i \in DOMAIN Clustered(us), Clustered(us)[i].counts # NoCounts
  PROVE  \E c \in Keys : Clustered(us)[i] = Struct(us, c)
<1>1. PICK z \in Seq(UnitType) : /\ Clustered(us) = InOrder(z)
                                /\ \E r, c, s, t : Unsorted(us, z, r, c, s, t)
  BY UnsortedHolds
<1>2. PICK r, c, s, t : Unsorted(us, z, r, c, s, t)
  BY <1>1
<1>3. z \in [1..Len(z) -> UnitType] /\ DOMAIN z = 1..Len(z)
  BY LenProperties
<1>4. \A k \in DOMAIN z : z[k].key \in Nat /\ z[k].ct \in ChangeTypes
  BY <1>3, KeysAssumption DEF UnitType
<1>5. PICK f : Shuffle(z, InOrder(z), f)
  BY <1>4, InOrderHolds
<1>6. PICK k \in DOMAIN z : Clustered(us)[i] = z[k]
  BY <1>1, <1>5 DEF Shuffle
<1>7. DOMAIN z = 1..(r + c) /\ r \in Nat /\ c \in Nat
  BY <1>2 DEF Unsorted
<1>8. CASE k <= r
  <2>1. k \in 1..r /\ z[k] = us[s[k]]
    BY <1>2, <1>7, <1>8 DEF Unsorted
  <2>2. s[k] \in DOMAIN us
    BY <1>2, <2>1 DEF Unsorted, Remaining
  <2> QED  BY <1>6, <2>1, <2>2 DEF Countless
<1>9. CASE ~(k <= r)
  <2>1. k - r \in 1..c /\ z[k] = Struct(us, t[k - r])
    BY <1>2, <1>7, <1>9 DEF Unsorted
  <2>2. t[k - r] \in Keys
    BY <1>2, <2>1 DEF Unsorted, Cascades
  <2> QED  BY <1>6, <2>1, <2>2
<1> QED  BY <1>8, <1>9

(* What it counts, of the rows added and removed. *)
LEMMA StructCounts ==
  ASSUME NEW us, NEW c
  PROVE  /\ Struct(us, c).key = c
         /\ Struct(us, c).counts.added = Cardinality(Rows(us, c, "added"))
         /\ Struct(us, c).counts.removed = Cardinality(Rows(us, c, "removed"))
BY Zenon DEF Struct, Rows

(* The changeset counts what the documents have. *)
LEMMA ClusteringBalances ==
  ASSUME Inv, Docs, Sides, Kinds, AllTold
  PROVE  Balanced(Clustered(InOrder(units)))
<1>1. PICK us, cs : us = InOrder(units) /\ cs = Clustered(us)
  OBVIOUS
<1>2. units \in Seq(UnitType) /\ Countless(units)
  BY UnitsTyped DEF Countless, Kinds, Kinded
<1>3. us \in Seq(UnitType) /\ Countless(us)
  BY <1>1, <1>2, InOrderKeeps, InOrderCountless
<1>4. ASSUME NEW i \in DOMAIN cs, NEW u, NEW k, u = cs[i], k = u.key,
             u.counts # NoCounts, Distinct(old), Distinct(new),
             OnlyContainer(old, k), OnlyContainer(new, k), KeepsItsRows(k)
      PROVE  u.counts.added - u.counts.removed
               = Cardinality(Children(new, k)) - Cardinality(Children(old, k))
  <2>1. PICK c \in Keys : u = Struct(us, c)
    BY <1>1, <1>3, <1>4, ClusteredCounts
  <2>2. /\ k = c
        /\ u.counts.added = Cardinality(Rows(us, c, "added"))
        /\ u.counts.removed = Cardinality(Rows(us, c, "removed"))
    BY <1>4, <2>1, StructCounts
  <2>3. /\ Cardinality(Rows(us, c, "added")) = Cardinality(Rows(units, c, "added"))
        /\ Cardinality(Rows(us, c, "removed")) = Cardinality(Rows(units, c, "removed"))
    BY <1>1, <1>2, InOrderCounts
  <2>4. Cardinality(Rows(units, c, "added")) - Cardinality(Rows(units, c, "removed"))
          = Cardinality(Children(new, c)) - Cardinality(Children(old, c))
    BY <1>4, <2>2, RowsBalance
  <2> QED  BY <2>2, <2>3, <2>4
<1>5. Balanced(cs)
  BY <1>4 DEF Balanced
<1> QED  BY <1>1, <1>5

(***************************************************************************)
(* The counts of a clustered table balance.  What the loops told of its    *)
(* rows is all there is to tell, when clustering counts it; and rows that  *)
(* are neither added nor removed go in pairs of the same table.            *)
(***************************************************************************)
THEOREM TablesBalance == Spec => []StructCountsBalance
<1>1. Init => StructCountsBalance
  <2>1. Init => DOMAIN changeset = {}
    BY DEF Init
  <2> QED  BY <2>1 DEF StructCountsBalance, Balanced
<1>2. ASSUME Inv, Docs, Sides, Kinds, StructCountsBalance, [Next]_vars
      PROVE  StructCountsBalance'
  <2>1. CASE ClusterCascades
    <3>1. /\ phase = "cluster" /\ changeset' = Clustered(InOrder(units))
          /\ UNCHANGED <<old, new>>
      BY <2>1 DEF ClusterCascades
    <3>2. PendingOld = {} /\ PendingNew = {} /\ phase # "done"
      BY <3>1 DEF PendingOld, PendingNew
    <3>3. /\ DOMAIN old \subseteq Told("oi") \cup OldUnchanged
          /\ DOMAIN new \subseteq Told("ni") \cup NewUnchanged
      BY <1>2, <3>2 DEF Inv, Core, Covered
    <3>4. AllTold
      BY <3>3 DEF AllTold, Told, OldUnchanged, NewUnchanged
    <3>5. PICK cs : cs = Clustered(InOrder(units))
      OBVIOUS
    <3>6. Balanced(cs)
      BY <1>2, <3>4, <3>5, ClusteringBalances
    <3>7. changeset' = cs
      BY <3>1, <3>5
    <3> QED  BY <3>1, <3>6, <3>7 DEF StructCountsBalance, Balanced, Distinct,
         OnlyContainer, KeepsItsRows, Children
  <2>2. CASE UNCHANGED <<old, new, changeset>>
    BY <1>2, <2>2 DEF StructCountsBalance, Balanced, Distinct, OnlyContainer,
       KeepsItsRows, Children
  <2>3. ClusterCascades \/ UNCHANGED <<old, new, changeset>>
    BY <1>2 DEF Next, vars, Align, Anchor, EndAnchors, Move, KeepResidual, EndSame,
       PairSimilar, SkipPair, EndSimilar, TellRemoved, EndRemoved, TellAdded, EndAdded
  <2> QED  BY <2>1, <2>2, <2>3
<1> QED  BY <1>1, <1>2, KindsHold, SidesHold, PTL DEF Spec
=============================================================================
