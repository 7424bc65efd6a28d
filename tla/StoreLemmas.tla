---------------------------- MODULE StoreLemmas -----------------------------
(***************************************************************************)
(* What the statements of SqliteStore do to a ring without a gap, for      *)
(* every ring size: the lemmas that the writers' and the readers' proofs   *)
(* share.                                                                  *)
(***************************************************************************)
EXTENDS VersionStore, FiniteSetTheorems, TLAPS

(* The revisions retained of n, when none is missing. *)
Youngest(n) == {r \in 0..(n - 1) : n <= r + RingN}

(* SELECT MAX(rev) finds the youngest revision. *)
LEMMA HeadOfYoungest ==
  ASSUME NEW n \in Nat, NEW rows, DOMAIN rows = Youngest(n)
  PROVE  HeadRev(rows) = n - 1
<1>1. CASE n = 0
  <2>1. Youngest(n) = {}
    BY <1>1 DEF Youngest
  <2> QED  BY <1>1, <2>1 DEF HeadRev, NoRev
<1>2. CASE n # 0
  <2>1. n - 1 \in Youngest(n) /\ \A r \in Youngest(n) : r \in Int /\ r <= n - 1
    BY <1>2, RingNAssumption DEF Youngest
  <2>2. \A r \in Youngest(n) :
          (\A q \in Youngest(n) : q <= r) <=> r = n - 1
    BY <2>1
  <2>3. HeadRev(rows) = CHOOSE r \in Youngest(n) : \A q \in Youngest(n) : q <= r
    BY <2>1 DEF HeadRev
  <2> QED  BY <2>1, <2>2, <2>3
<1> QED  BY <1>1, <1>2

(* A ring without a gap is listed from its oldest revision up. *)
LEMMA RetainedOfYoungest ==
  ASSUME NEW n \in Nat, NEW rows, DOMAIN rows = Youngest(n)
  PROVE  \E lo \in 0..n :
           /\ Youngest(n) = lo..(n - 1)
           /\ RetainedRevs(rows) = [i \in 1..(n - lo) |-> lo + i - 1]
<1>1. PICK lo \in 0..n : Youngest(n) = lo..(n - 1)
  <2>1. CASE n <= RingN
    <3>1. Youngest(n) = 0..(n - 1)
      BY <2>1, RingNAssumption DEF Youngest
    <3> QED  BY <3>1
  <2>2. CASE ~(n <= RingN)
    <3>1. n - RingN \in 0..n /\ Youngest(n) = (n - RingN)..(n - 1)
      BY <2>2, RingNAssumption DEF Youngest
    <3> QED  BY <3>1
  <2> QED  BY <2>1, <2>2
<1>2. Cardinality(lo..(n - 1)) = n - lo
  BY FS_Interval
<1>3. ASSUME NEW r \in lo..(n - 1)
      PROVE  Cardinality({q \in lo..(n - 1) : q <= r}) = r - lo + 1
  <2>1. {q \in lo..(n - 1) : q <= r} = lo..r
    OBVIOUS
  <2>2. Cardinality(lo..r) = IF lo > r THEN 0 ELSE r - lo + 1
    <3>1. lo \in Int /\ r \in Int
      OBVIOUS
    <3> QED  BY <3>1, FS_Interval
  <2>3. Cardinality(lo..r) = r - lo + 1
    BY <2>2
  <2> QED  BY <2>1, <2>3, Zenon
<1>4. ASSUME NEW i \in 1..(n - lo)
      PROVE  (CHOOSE r \in lo..(n - 1) : Cardinality({q \in lo..(n - 1) : q <= r}) = i) = lo + i - 1
  <2>1. lo + i - 1 \in lo..(n - 1)
    OBVIOUS
  <2>2. \A r \in lo..(n - 1) :
          Cardinality({q \in lo..(n - 1) : q <= r}) = i <=> r = lo + i - 1
    BY <1>3
  <2> QED  BY <2>1, <2>2
<1>5. RetainedRevs(rows) =
        [i \in 1..(n - lo) |->
           CHOOSE r \in lo..(n - 1) : Cardinality({q \in lo..(n - 1) : q <= r}) = i]
  BY <1>1, <1>2 DEF RetainedRevs
<1>6. RetainedRevs(rows) = [i \in 1..(n - lo) |-> lo + i - 1]
  BY <1>4, <1>5
<1> QED  BY <1>1, <1>6

(* The rows newer than r in a table whose rows above r are r+1 .. top.     *)
LEMMA NewerInRun ==
  ASSUME NEW rows, NEW r \in Int, NEW top \in Int, r <= top,
         {q \in DOMAIN rows : q > r} = (r + 1)..top
  PROVE  Cardinality(Newer(rows, r)) = top - r
<1>1. Newer(rows, r) = (r + 1)..top
  BY DEF Newer
<1>2. Cardinality((r + 1)..top) = IF r + 1 > top THEN 0 ELSE top - (r + 1) + 1
  <2>1. r + 1 \in Int
    OBVIOUS
  <2> QED  BY <2>1, FS_Interval
<1> QED  BY <1>1, <1>2

(* A ring with room has evicted nothing. *)
LEMMA YoungestIsFull ==
  ASSUME NEW n \in Nat, Cardinality(Youngest(n)) < RingN
  PROVE  n < RingN
<1>1. SUFFICES ASSUME n >= RingN PROVE FALSE
  BY RingNAssumption
<1>2. PICK lo \in Int, hi \in Int : lo = n - RingN /\ hi = n - 1
  BY RingNAssumption
<1>3. Youngest(n) = lo..hi
  BY <1>1, <1>2, RingNAssumption DEF Youngest
<1>4. Cardinality(lo..hi) = IF lo > hi THEN 0 ELSE hi - lo + 1
  BY FS_Interval
<1>5. Cardinality(Youngest(n)) = RingN
  BY <1>2, <1>3, <1>4, RingNAssumption
<1> QED  BY <1>5, RingNAssumption

(* A put of the next revision slides the window. *)
LEMMA PutSlides ==
  ASSUME NEW n \in Nat, NEW rows, DOMAIN rows = Youngest(n), NEW doc
  PROVE  PutRows(rows, n, doc) =
           [r \in Youngest(n + 1) |-> IF r = n THEN doc ELSE rows[r]]
<1> DEFINE up == Upsert(rows, n, doc)
<1>1. DOMAIN up = Youngest(n) \cup {n} /\ \A r \in DOMAIN up :
        up[r] = IF r = n THEN doc ELSE rows[r]
  BY DEF Upsert
<1>2. \A r \in DOMAIN up : r \in 0..n /\ {q \in DOMAIN up : q > r} = (r + 1)..n
  BY <1>1, RingNAssumption DEF Youngest
<1>3. \A r \in DOMAIN up : Cardinality(Newer(up, r)) = n - r
  BY <1>2, NewerInRun
<1>4. {r \in DOMAIN up : Cardinality(Newer(up, r)) < RingN} = Youngest(n + 1)
  BY <1>1, <1>2, <1>3, RingNAssumption DEF Youngest
<1> QED  BY <1>1, <1>4 DEF PutRows, EvictBeyondRing, Restrict
=============================================================================
