--------------------------- MODULE FetcherProofs ----------------------------
(***************************************************************************)
(* Theorems about Fetcher and CheckLoop, for every set of callers, hosts   *)
(* and requests, all robots.txt, every lifetime of the cache, every unit   *)
(* of time, and any list of targets with any fetches.  One part says that  *)
(* a robots.txt is taken at its word, whatever its lines.                  *)
(***************************************************************************)
EXTENDS CheckLoop, RobotsMeaning, DataLemmas

----------------------------------------------------------------------------
(* A pattern has a literal length. *)
LEMMA LiteralIsNat ==
  ASSUME NEW pat \in Patterns
  PROVE  LiteralLen(pat) \in Nat
<1> DEFINE N == Len(pat.segs)
           step == [x \in Nat \X Nat |-> IF x[1] \in 1..N THEN x[2] + Len(pat.segs[x[1]]) ELSE 0]
           Sums(f) == f = [n \in 0..N |-> IF n = 0 THEN 0 ELSE f[n - 1] + Len(pat.segs[n])]
<1>1. N \in Nat /\ \A i \in 1..N : Len(pat.segs[i]) \in Nat
  BY DEF Patterns
<1>2. step \in [Nat \X Nat -> Nat]
  BY <1>1
<1>3. ASSUME NEW f, f = [i \in 0..N |-> f[i]]
      PROVE  Sums(f) <=> /\ f[0] = 0
                         /\ \A i \in 1..N : f[i] = f[i - 1] + Len(pat.segs[i])
  <2>1. 0 \in 0..N /\ \A i \in 1..N : i \in 0..N /\ i # 0
    BY <1>1
  <2>2. \A i \in 0..N : i # 0 => i \in 1..N
    BY <1>1
  <2> HIDE DEF N
  <2> QED  BY <1>3, <2>1, <2>2
<1>4. \A x \in Nat : \A i \in 1..N : step[<<i, x>>] = x + Len(pat.segs[i])
  BY <1>1
<1>5. PICK g : RecursiveUpto(g, N, Nat, 0, step)
  <2> HIDE DEF N, step
  <2> QED  BY <1>1, <1>2, RecursionExists
<1>6. Sums(g)
  <2>1. g = [i \in 0..N |-> g[i]] /\ g[0] = 0
    BY <1>5 DEF RecursiveUpto
  <2>2. \A i \in 1..N : g[i - 1] \in Nat /\ g[i] = step[<<i, g[i - 1]>>]
    <3>1. \A i \in 1..N : i - 1 \in 0..N
      BY <1>1
    <3> HIDE DEF step, N
    <3> QED  BY <1>5, <3>1 DEF RecursiveUpto
  <2> HIDE DEF step, N, Sums
  <2> QED  BY <1>3, <1>4, <2>1, <2>2
<1>7. PICK f : f = CHOOSE h : Sums(h)
  OBVIOUS
<1>8. Sums(f)
  <2> HIDE DEF Sums
  <2> QED  BY <1>6, <1>7
<1>9. LiteralLen(pat) = f[N]
  BY <1>7, Zenon DEF LiteralLen
<1>10. RecursiveUpto(f, N, Nat, 0, step)
  <2>1. f = [i \in 0..N |-> f[i]]
    BY <1>8
  <2>2. f[0] = 0 /\ \A i \in 1..N : f[i] = f[i - 1] + Len(pat.segs[i])
    <3> HIDE DEF N, Sums
    <3> QED  BY <1>3, <1>8, <2>1
  <2>3. \A i \in 1..N : f[i - 1] \in Nat => f[i] = step[<<i, f[i - 1]>>]
    <3> HIDE DEF N, Sums, step
    <3> QED  BY <1>4, <2>2
  <2> HIDE DEF N, Sums, step
  <2> QED  BY <1>1, <1>2, <2>1, <2>2, <2>3, RecursionStays
<1> QED  BY <1>1, <1>9, <1>10 DEF RecursiveUpto

----------------------------------------------------------------------------
(* The matcher.  Where it stands after each segment. *)
Stands(pos, pat, path) ==
  /\ pos = [i \in DOMAIN pat.segs |-> pos[i]]
  /\ pos[1] = IF IsPrefix(pat.segs[1], path) THEN Len(pat.segs[1]) ELSE NoMatch
  /\ \A i \in 2..Len(pat.segs) :
       pos[i] = IF pos[i - 1] = NoMatch \/ pat.segs[i] = <<>> THEN pos[i - 1]
                ELSE FirstAfter(pat.segs[i], path, pos[i - 1])

LEMMA PatternIsSegments ==
  ASSUME NEW pat \in Patterns
  PROVE  /\ Len(pat.segs) \in Nat \ {0} /\ DOMAIN pat.segs = 1..Len(pat.segs)
         /\ \A i \in DOMAIN pat.segs : pat.segs[i] \in Seq(Chars) /\ Len(pat.segs[i]) \in Nat
         /\ Last(pat.segs) = pat.segs[Len(pat.segs)]
<1>1. PICK segs : segs = pat.segs
  OBVIOUS
<1>2. segs \in Seq(Seq(Chars)) /\ segs # <<>>
  BY <1>1 DEF Patterns
<1>3. Len(segs) \in Nat /\ DOMAIN segs = 1..Len(segs) /\ Len(segs) # 0
  BY <1>2
<1>4. \A i \in DOMAIN segs : segs[i] \in Seq(Chars)
  BY <1>2
<1>5. \A i \in DOMAIN segs : Len(segs[i]) \in Nat
  BY <1>4
<1> QED  BY <1>1, <1>3, <1>4, <1>5 DEF Last

LEMMA PositionsHold ==
  ASSUME NEW pat \in Patterns, NEW path
  PROVE  Stands(Positions(pat, path), pat, path)
<1> DEFINE N == Len(pat.segs)
           first == IF IsPrefix(pat.segs[1], path) THEN Len(pat.segs[1]) ELSE NoMatch
           next(i, p) == IF p = NoMatch \/ pat.segs[i] = <<>> THEN p
                         ELSE FirstAfter(pat.segs[i], path, p)
           Upto(f, n) == f = [i \in 1..n |-> IF i = 1 THEN first ELSE next(i, f[i - 1])]
           done == {n \in Nat : \E f : Upto(f, n)}
<1>1. 0 \in done
  <2>1. PICK f : f = [i \in 1..0 |-> 0]
    OBVIOUS
  <2>2. Upto(f, 0)
    BY <2>1
  <2> QED  BY <2>2
<1>2. ASSUME NEW n \in Nat, n \in done PROVE n + 1 \in done
  <2>1. PICK f : Upto(f, n)
    BY <1>2
  <2>2. PICK g : g = [i \in 1..(n + 1) |-> IF i # n + 1 THEN f[i]
                                           ELSE IF i = 1 THEN first ELSE next(i, f[i - 1])]
    OBVIOUS
  <2>3. ASSUME NEW i \in 1..(n + 1)
        PROVE  g[i] = IF i = 1 THEN first ELSE next(i, g[i - 1])
    <3>1. i # 1 => i - 1 \in 1..(n + 1) /\ i - 1 # n + 1
      OBVIOUS
    <3>2. i # 1 => g[i - 1] = f[i - 1]
      <4> HIDE DEF first, next, Upto
      <4> QED  BY <2>2, <3>1
    <3>3. CASE i = n + 1
      <4> HIDE DEF first, next, Upto
      <4> QED  BY <2>2, <3>2, <3>3
    <3>4. CASE i # n + 1
      <4>1. i \in 1..n
        BY <3>4
      <4>2. g[i] = f[i]
        BY <2>2, <3>4
      <4>3. f[i] = IF i = 1 THEN first ELSE next(i, f[i - 1])
        <5> HIDE DEF first, next
        <5> QED  BY <2>1, <4>1
      <4> HIDE DEF first, next, Upto
      <4> QED  BY <3>2, <4>2, <4>3
    <3> QED  BY <3>3, <3>4
  <2>4. g = [i \in 1..(n + 1) |-> g[i]]
    BY <2>2
  <2>5. Upto(g, n + 1)
    <3> HIDE DEF first, next
    <3> QED  BY <2>3, <2>4
  <2> HIDE DEF Upto
  <2> QED  BY <2>5
<1>3. N \in Nat /\ N > 0 /\ DOMAIN pat.segs = 1..N
  BY PatternIsSegments
<1>4. \E f : Upto(f, N)
  <2>1. N \in done
    <3> HIDE DEF done, N
    <3> QED  BY <1>1, <1>2, <1>3, Induction
  <2> QED  BY <2>1
<1>5. PICK f : f = CHOOSE h : Upto(h, N)
  OBVIOUS
<1>6. Upto(f, N)
  <2> HIDE DEF Upto, N
  <2> QED  BY <1>4, <1>5
<1>7. Positions(pat, path) = f
  <2>1. Positions(pat, path) =
          CHOOSE h : h = [i \in 1..N |-> IF i = 1 THEN first ELSE next(i, h[i - 1])]
    BY <1>3, Zenon DEF Positions
  <2> QED  BY <1>5, <2>1
<1>8. f = [i \in 1..N |-> f[i]]
  <2> HIDE DEF first, next
  <2> QED  BY <1>6
<1>9. f[1] = first /\ \A i \in 2..N : f[i] = next(i, f[i - 1])
  <2>1. 1 \in 1..N /\ \A i \in 2..N : i \in 1..N /\ i # 1
    BY <1>3
  <2> HIDE DEF first, next, N
  <2> QED  BY <1>6, <2>1
<1> QED  BY <1>3, <1>7, <1>8, <1>9 DEF Stands

(* find: the first place of a segment, or that it has none. *)
LEMMA FirstAfterHolds ==
  ASSUME NEW seg \in Seq(Chars), NEW path \in Seq(Chars), NEW pos \in 0..Len(path)
  PROVE  \/ /\ FirstAfter(seg, path, pos) = NoMatch
            /\ \A place \in pos..Len(path) : ~Occurs(seg, path, place)
         \/ \E place \in pos..Len(path) :
              /\ FirstAfter(seg, path, pos) = place + Len(seg)
              /\ Occurs(seg, path, place)
              /\ \A q \in pos..Len(path) : Occurs(seg, path, q) => place <= q
<1> DEFINE places == {place \in pos..(Len(path) - Len(seg)) : Occurs(seg, path, place)}
<1>1. Len(seg) \in Nat /\ Len(path) \in Nat
  OBVIOUS
<1>2. \A place \in pos..Len(path) : Occurs(seg, path, place) => place \in places
  BY <1>1 DEF Occurs
<1>3. CASE places = {}
  <2>1. FirstAfter(seg, path, pos) = NoMatch
    BY <1>3 DEF FirstAfter
  <2> QED  BY <1>2, <1>3, <2>1
<1>4. CASE places # {}
  <2>1. places \in SUBSET Nat
    BY <1>1
  <2>2. \E place \in places : \A q \in places : place <= q
    <3> HIDE DEF places
    <3> QED  BY <1>4, <2>1, LeastNumber
  <2>3. PICK place : place = CHOOSE m \in places : \A q \in places : m <= q
    OBVIOUS
  <2>4. place \in places /\ \A q \in places : place <= q
    <3> HIDE DEF places
    <3> QED  BY <2>2, <2>3
  <2>5. FirstAfter(seg, path, pos) = place + Len(seg)
    BY <1>4, <2>3, Zenon DEF FirstAfter
  <2>6. place \in pos..Len(path) /\ Occurs(seg, path, place)
    BY <1>1, <2>4
  <2>7. \A q \in pos..Len(path) : Occurs(seg, path, q) => place <= q
    <3> HIDE DEF places
    <3> QED  BY <1>2, <2>4
  <2> QED  BY <2>5, <2>6, <2>7
<1> QED  BY <1>3, <1>4

(* To begin with a segment is to have it at the beginning. *)
LEMMA PrefixOccurs ==
  ASSUME NEW seg \in Seq(Chars), NEW path \in Seq(Chars)
  PROVE  IsPrefix(seg, path) <=> Occurs(seg, path, 0)
<1>1. Len(seg) \in Nat /\ SubSeq(seg, 1, Len(seg)) = seg
  OBVIOUS
<1>2. 0 + Len(seg) = Len(seg) /\ 0 + 1 = 1
  BY <1>1
<1>3. IsPrefix(seg, path) <=> Len(seg) <= Len(path) /\ SubSeq(seg, 1, Len(seg)) = SubSeq(path, 1, Len(seg))
  BY Zenon DEF IsPrefix
<1>4. Occurs(seg, path, 0) <=> 0 + Len(seg) <= Len(path) /\ SubSeq(path, 0 + 1, 0 + Len(seg)) = seg
  BY Zenon DEF Occurs
<1> QED  BY <1>1, <1>2, <1>3, <1>4

(* The empty segment occurs everywhere. *)
LEMMA EmptyOccurs ==
  ASSUME NEW path \in Seq(Chars), NEW place \in 0..Len(path)
  PROVE  Occurs(<<>>, path, place)
<1>1. Len(<<>>) = 0 /\ place + 0 = place /\ place \in Nat /\ place <= Len(path)
  OBVIOUS
<1>2. SubSeq(path, place + 1, place) = <<>>
  BY <1>1
<1> QED  BY <1>1, <1>2 DEF Occurs

Reached(pos, pat, path, i) ==
  pos[i] # NoMatch =>
    /\ pos[i] \in 0..Len(path)
    /\ pos[i] >= Len(pat.segs[i])
    /\ Occurs(pat.segs[i], path, pos[i] - Len(pat.segs[i]))
    /\ i > 1 => pos[i - 1] # NoMatch /\ pos[i] - Len(pat.segs[i]) >= pos[i - 1]

(* Where the matcher stands, the segment has just occurred, and the segment
   before it ends no later than this one begins. *)
LEMMA ReachedHolds ==
  ASSUME NEW pat \in Patterns, NEW path \in Seq(Chars), NEW pos, Stands(pos, pat, path)
  PROVE  \A i \in 1..Len(pat.segs) : Reached(pos, pat, path, i)
<1> DEFINE N == Len(pat.segs)
           good == {i \in Nat : i \in 1..N => Reached(pos, pat, path, i)}
<1>1. N \in Nat \ {0} /\ DOMAIN pat.segs = 1..N /\ Len(path) \in Nat
  BY PatternIsSegments
<1>2. \A i \in 1..N : pat.segs[i] \in Seq(Chars) /\ Len(pat.segs[i]) \in Nat
  BY <1>1, PatternIsSegments
<1>3. 0 \in good
  OBVIOUS
<1>4. ASSUME NEW i \in Nat, i \in good PROVE i + 1 \in good
  <2>1. SUFFICES ASSUME i + 1 \in 1..N, pos[i + 1] # NoMatch
                 PROVE  Reached(pos, pat, path, i + 1)
    BY DEF Reached
  <2>2. PICK seg : seg = pat.segs[i + 1]
    OBVIOUS
  <2>3. seg \in Seq(Chars) /\ Len(seg) \in Nat
    BY <1>2, <2>1, <2>2
  <2>4. CASE i = 0
    <3>1. pos[1] = IF IsPrefix(seg, path) THEN Len(seg) ELSE NoMatch
      BY <2>2, <2>4 DEF Stands
    <3>2. IsPrefix(seg, path) /\ pos[1] = Len(seg)
      BY <2>1, <2>4, <3>1
    <3>3. Occurs(seg, path, 0)
      BY <2>3, <3>2, PrefixOccurs
    <3>4. Len(seg) <= Len(path)
      BY <2>3, <3>3 DEF Occurs
    <3>5. Len(seg) - Len(seg) = 0 /\ Len(seg) \in 0..Len(path) /\ ~(0 + 1 > 1)
      BY <1>1, <2>3, <3>4
    <3> QED  BY <2>2, <2>4, <3>2, <3>3, <3>5 DEF Reached
  <2>5. CASE i # 0
    <3>1. i + 1 \in 2..N /\ i \in 1..N /\ (i + 1) - 1 = i
      BY <1>1, <2>1, <2>5
    <3>2. pos[i + 1] = IF pos[i] = NoMatch \/ seg = <<>> THEN pos[i]
                       ELSE FirstAfter(seg, path, pos[i])
      BY <2>2, <3>1 DEF Stands
    <3>3. pos[i] # NoMatch
      BY <2>1, <3>2
    <3>4. pos[i] \in 0..Len(path)
      BY <1>4, <3>1, <3>3 DEF Reached
    <3>5. \E place \in pos[i]..Len(path) : pos[i + 1] = place + Len(seg) /\ Occurs(seg, path, place)
      <4>1. CASE seg = <<>>
        <5>1. pos[i + 1] = pos[i] /\ Len(seg) = 0
          BY <3>2, <4>1
        <5>2. Occurs(seg, path, pos[i])
          BY <3>4, <4>1, EmptyOccurs
        <5> QED  BY <1>1, <3>4, <5>1, <5>2
      <4>2. CASE seg # <<>>
        BY <2>1, <2>3, <3>2, <3>3, <3>4, <4>2, FirstAfterHolds
      <4> QED  BY <4>1, <4>2
    <3>6. PICK place \in pos[i]..Len(path) : pos[i + 1] = place + Len(seg) /\ Occurs(seg, path, place)
      BY <3>5
    <3>7. place + Len(seg) <= Len(path)
      BY <3>6 DEF Occurs
    <3>8. /\ place + Len(seg) \in 0..Len(path) /\ place + Len(seg) >= Len(seg)
          /\ (place + Len(seg)) - Len(seg) = place /\ place >= pos[i]
      BY <1>1, <2>3, <3>4, <3>6, <3>7
    <3> QED  BY <2>2, <3>1, <3>3, <3>6, <3>8 DEF Reached
  <2> QED  BY <2>4, <2>5
<1>5. \A i \in Nat : i \in good
  <2> HIDE DEF good
  <2> QED  BY <1>3, <1>4, Induction
<1> QED  BY <1>5

(* A layout of the segments of a pattern in a path. *)
LaidOut(start, pat, path) ==
  /\ start \in [DOMAIN pat.segs -> 0..Len(path)]
  /\ start[1] = 0
  /\ \A i \in DOMAIN pat.segs :
       /\ Occurs(pat.segs[i], path, start[i])
       /\ i > 1 => start[i] >= start[i - 1] + Len(pat.segs[i - 1])

(* The matcher is never behind a layout: taking the first place leaves the
   most room. *)
LEMMA FirstIsSoonest ==
  ASSUME NEW pat \in Patterns, NEW path \in Seq(Chars), NEW pos, Stands(pos, pat, path),
         NEW start, LaidOut(start, pat, path)
  PROVE  \A i \in 1..Len(pat.segs) : pos[i] # NoMatch /\ pos[i] <= start[i] + Len(pat.segs[i])
<1> DEFINE N == Len(pat.segs)
           good == {i \in Nat : i \in 1..N =>
                      pos[i] # NoMatch /\ pos[i] <= start[i] + Len(pat.segs[i])}
<1>1. N \in Nat \ {0} /\ DOMAIN pat.segs = 1..N /\ Len(path) \in Nat
  BY PatternIsSegments
<1>2. \A i \in 1..N : pat.segs[i] \in Seq(Chars) /\ Len(pat.segs[i]) \in Nat
  BY <1>1, PatternIsSegments
<1>3. \A i \in 1..N : start[i] \in 0..Len(path) /\ Occurs(pat.segs[i], path, start[i])
  BY <1>1 DEF LaidOut
<1>4. 0 \in good
  OBVIOUS
<1>5. ASSUME NEW i \in Nat, i \in good PROVE i + 1 \in good
  <2>1. SUFFICES ASSUME i + 1 \in 1..N
                 PROVE  pos[i + 1] # NoMatch /\ pos[i + 1] <= start[i + 1] + Len(pat.segs[i + 1])
    OBVIOUS
  <2>2. PICK seg : seg = pat.segs[i + 1]
    OBVIOUS
  <2>3. /\ seg \in Seq(Chars) /\ Len(seg) \in Nat
        /\ start[i + 1] \in 0..Len(path) /\ Occurs(seg, path, start[i + 1])
    BY <1>2, <1>3, <2>1, <2>2
  <2>4. CASE i = 0
    <3>1. pos[1] = IF IsPrefix(seg, path) THEN Len(seg) ELSE NoMatch
      BY <2>2, <2>4 DEF Stands
    <3>2. start[1] = 0
      BY DEF LaidOut
    <3>3. IsPrefix(seg, path)
      BY <2>3, <2>4, <3>2, PrefixOccurs
    <3> QED  BY <2>2, <2>3, <2>4, <3>1, <3>2, <3>3 DEF NoMatch
  <2>5. CASE i # 0
    <3>1. i + 1 \in 2..N /\ i \in 1..N /\ (i + 1) - 1 = i /\ i + 1 > 1
      BY <1>1, <2>1, <2>5
    <3>2. pos[i + 1] = IF pos[i] = NoMatch \/ seg = <<>> THEN pos[i]
                       ELSE FirstAfter(seg, path, pos[i])
      BY <2>2, <3>1 DEF Stands
    <3>3. pos[i] # NoMatch /\ pos[i] <= start[i] + Len(pat.segs[i])
      BY <1>5, <3>1
    <3>4. start[i + 1] >= start[i] + Len(pat.segs[i])
      BY <1>1, <3>1 DEF LaidOut
    <3>5. pos[i] \in 0..Len(path)
      BY <3>1, <3>3, ReachedHolds DEF Reached
    <3>6. start[i] \in Nat /\ Len(pat.segs[i]) \in Nat
      BY <1>2, <1>3, <3>1
    <3>7. start[i + 1] \in pos[i]..Len(path)
      BY <1>1, <2>3, <3>3, <3>4, <3>5, <3>6
    <3>8. CASE seg = <<>>
      <4>1. pos[i + 1] = pos[i] /\ Len(seg) = 0
        BY <3>2, <3>8
      <4> QED  BY <1>1, <2>2, <3>3, <3>5, <3>7, <4>1
    <3>9. CASE seg # <<>>
      <4>1. pos[i + 1] = FirstAfter(seg, path, pos[i])
        BY <3>2, <3>3, <3>9
      <4>2. PICK place \in pos[i]..Len(path) :
              pos[i + 1] = place + Len(seg) /\ place <= start[i + 1]
        BY <2>3, <3>5, <3>7, <4>1, FirstAfterHolds
      <4>3. place + Len(seg) # NoMatch /\ place + Len(seg) <= start[i + 1] + Len(seg)
        BY <1>1, <2>3, <3>5, <4>2 DEF NoMatch
      <4> QED  BY <2>2, <4>2, <4>3
    <3> QED  BY <3>8, <3>9
  <2> QED  BY <2>4, <2>5
<1>6. \A i \in Nat : i \in good
  <2> HIDE DEF good
  <2> QED  BY <1>4, <1>5, Induction
<1> QED  BY <1>6

(* If the matcher reaches the end of the pattern, it has made a layout. *)
LEMMA MatcherLaysOut ==
  ASSUME NEW pat \in Patterns, NEW path \in Seq(Chars), NEW pos, Stands(pos, pat, path),
         pos[Len(pat.segs)] # NoMatch
  PROVE  \E start : LaidOut(start, pat, path)
<1> DEFINE N == Len(pat.segs)
           back == {k \in Nat : k < N => pos[N - k] # NoMatch}
<1>1. N \in Nat \ {0} /\ DOMAIN pat.segs = 1..N /\ Len(path) \in Nat
  BY PatternIsSegments
<1>2. \A i \in 1..N : Len(pat.segs[i]) \in Nat
  BY <1>1, PatternIsSegments
<1>3. \A k \in Nat : k \in back
  <2>1. 0 \in back
    BY <1>1
  <2>2. ASSUME NEW k \in Nat, k \in back PROVE k + 1 \in back
    <3>1. SUFFICES ASSUME k + 1 < N PROVE pos[N - (k + 1)] # NoMatch
      OBVIOUS
    <3>2. N - k \in 1..N /\ N - k > 1 /\ (N - k) - 1 = N - (k + 1) /\ k < N
      BY <1>1, <3>1
    <3>3. pos[N - k] # NoMatch
      BY <2>2, <3>2
    <3> HIDE DEF N
    <3> QED  BY <3>2, <3>3, ReachedHolds DEF Reached, N
  <2> QED
    <3> HIDE DEF back
    <3> QED  BY <2>1, <2>2, Induction
<1>4. \A i \in 1..N : pos[i] # NoMatch
  <2>1. TAKE i \in 1..N
  <2>2. N - i \in Nat /\ N - i < N /\ N - (N - i) = i
    BY <1>1
  <2> QED  BY <1>3, <2>2
<1>5. \A i \in 1..N : /\ pos[i] \in 0..Len(path)
                      /\ pos[i] >= Len(pat.segs[i])
                      /\ Occurs(pat.segs[i], path, pos[i] - Len(pat.segs[i]))
                      /\ i > 1 => pos[i] - Len(pat.segs[i]) >= pos[i - 1]
  BY <1>4, ReachedHolds DEF Reached
<1>6. PICK start : start = [i \in 1..N |-> pos[i] - Len(pat.segs[i])]
  OBVIOUS
<1>7. \A i \in 1..N : pos[i] - Len(pat.segs[i]) \in 0..Len(path)
  BY <1>1, <1>2, <1>5
<1>8. start \in [DOMAIN pat.segs -> 0..Len(path)]
  BY <1>1, <1>6, <1>7
<1>9. start[1] = 0
  <2>1. pos[1] = Len(pat.segs[1]) /\ 1 \in 1..N
    <3>1. 1 \in 1..N
      BY <1>1
    <3>2. pos[1] # NoMatch
      BY <1>4, <3>1
    <3>3. pos[1] = IF IsPrefix(pat.segs[1], path) THEN Len(pat.segs[1]) ELSE NoMatch
      BY Zenon DEF Stands
    <3> QED  BY <3>1, <3>2, <3>3, Zenon
  <2> QED  BY <1>2, <1>6, <2>1
<1>10. ASSUME NEW i \in 1..N
       PROVE  /\ Occurs(pat.segs[i], path, start[i])
              /\ i > 1 => start[i] >= start[i - 1] + Len(pat.segs[i - 1])
  <2>1. Occurs(pat.segs[i], path, start[i])
    BY <1>5, <1>6
  <2>2. ASSUME i > 1 PROVE start[i] >= start[i - 1] + Len(pat.segs[i - 1])
    <3>1. i - 1 \in 1..N
      BY <1>1, <2>2
    <3>2. start[i] = pos[i] - Len(pat.segs[i])
      BY <1>6
    <3>3. start[i - 1] = pos[i - 1] - Len(pat.segs[i - 1])
      BY <1>6, <3>1
    <3>4. start[i] >= pos[i - 1]
      BY <1>5, <2>2, <3>2
    <3>5. (pos[i - 1] - Len(pat.segs[i - 1])) + Len(pat.segs[i - 1]) = pos[i - 1]
      BY <1>2, <1>5, <3>1
    <3> QED  BY <3>3, <3>4, <3>5
  <2> QED  BY <2>1, <2>2
<1> QED  BY <1>1, <1>8, <1>9, <1>10 DEF LaidOut

(* A pattern without both a `*' and a final `$'. *)
Simple(pat) == pat.anchored => Len(pat.segs) = 1

(* The matcher finds what fits, with the literal length of the pattern. *)
LEMMA MatcherIsRight ==
  ASSUME NEW pat \in Patterns, NEW path \in Seq(Chars), Simple(pat)
  PROVE  PatternMatchLen(pat, path) = IF Fits(pat, path) THEN LiteralLen(pat) ELSE NoMatch
<1> DEFINE N == Len(pat.segs)
<1>1. N \in Nat \ {0} /\ DOMAIN pat.segs = 1..N /\ Last(pat.segs) = pat.segs[N]
  BY PatternIsSegments
<1>2. PICK pos : pos = Positions(pat, path)
  OBVIOUS
<1>3. Stands(pos, pat, path)
  BY <1>2, PositionsHold
<1>4. Last(pos) = pos[N]
  <2>1. Len(pos) = N
    <3>1. \A i \in 1..N : pos[i] \in Int
      <4>1. \A i \in 1..N : Reached(pos, pat, path, i)
        BY <1>3, ReachedHolds
      <4> QED  BY <4>1 DEF Reached, NoMatch
    <3>2. pos = [i \in 1..N |-> pos[i]]
      BY <1>1, <1>3 DEF Stands
    <3>3. pos \in [1..N -> Int]
      <4>1. PICK g : g = [i \in 1..N |-> pos[i]]
        OBVIOUS
      <4>2. g \in [1..N -> Int]
        BY <3>1, <4>1
      <4> QED  BY <3>2, <4>1, <4>2
    <3>4. pos \in Seq(Int) /\ DOMAIN pos = 1..N
      <4> HIDE DEF N
      <4> QED  BY <1>1, <3>3
    <3> QED  BY <1>1, <3>4
  <2> QED  BY <2>1, Zenon DEF Last
<1>5. Fits(pat, path) <=>
        /\ pat # EmptyPattern
        /\ \E start : /\ LaidOut(start, pat, path)
                      /\ pat.anchored => \/ N > 1 /\ Last(pat.segs) = <<>>
                                         \/ start[N] + Len(Last(pat.segs)) = Len(path)
  BY Zenon DEF Fits, LaidOut
<1>6. ASSUME NEW start, LaidOut(start, pat, path), pat.anchored
      PROVE  N = 1 /\ start[N] + Len(pat.segs[N]) = pos[N]
  <2>1. N = 1
    BY <1>6 DEF Simple
  <2>2. start[1] = 0 /\ pos[1] # NoMatch
    <3>1. start[1] = 0
      BY <1>6, Zenon DEF LaidOut
    <3>2. 1 \in 1..N
      BY <1>1
    <3> QED  BY <1>3, <1>6, <3>1, <3>2, FirstIsSoonest
  <2>3. pos[1] = Len(pat.segs[1])
    <3>1. pos[1] = IF IsPrefix(pat.segs[1], path) THEN Len(pat.segs[1]) ELSE NoMatch
      BY <1>3, Zenon DEF Stands
    <3> QED  BY <2>2, <3>1, Zenon
  <2>4. Len(pat.segs[1]) \in Nat
    BY <1>1, PatternIsSegments
  <2> QED  BY <2>1, <2>2, <2>3, <2>4
<1>7. Fits(pat, path) <=>
        /\ pat # EmptyPattern /\ pos[N] # NoMatch
        /\ pat.anchored => pos[N] = Len(path)
  <2>1. ASSUME NEW start, LaidOut(start, pat, path) PROVE pos[N] # NoMatch
    BY <1>1, <1>3, <2>1, FirstIsSoonest
  <2>2. ASSUME pos[N] # NoMatch PROVE \E start : LaidOut(start, pat, path)
    BY <1>3, <2>2, MatcherLaysOut
  <2>3. ~(N = 1 /\ N > 1)
    BY <1>1
  <2> HIDE DEF N
  <2> QED  BY <1>1, <1>5, <1>6, <2>1, <2>2, <2>3
<1> QED  BY <1>2, <1>4, <1>7, Zenon DEF PatternMatchLen

----------------------------------------------------------------------------
(* The choice of a rule.  The best of the first rules, for any number. *)
BestUpto(best, n, rules, path) ==
  /\ best[0] = NoRule
  /\ \A i \in 1..n : best[i] = IF Better(rules[i], best[i - 1], path) THEN rules[i]
                               ELSE best[i - 1]

LEMMA BestClimbs ==
  ASSUME NEW R, NEW rules \in Seq(R), NEW path
  PROVE  \E best : BestUpto(best, Len(rules), rules, path) /\ Best(rules, path) = best[Len(rules)]
<1> DEFINE N == Len(rules)
           S == R \cup {NoRule}
           pick(i, b) == IF Better(rules[i], b, path) THEN rules[i] ELSE b
           step == [x \in Nat \X S |-> IF x[1] \in 1..N THEN pick(x[1], x[2]) ELSE NoRule]
           Climbs(f) == f = [n \in 0..N |-> IF n = 0 THEN NoRule ELSE pick(n, f[n - 1])]
<1>1. N \in Nat /\ \A i \in 1..N : rules[i] \in R
  OBVIOUS
<1>2. step \in [Nat \X S -> S] /\ NoRule \in S
  <2>1. \A x \in Nat \X S : (IF x[1] \in 1..N THEN pick(x[1], x[2]) ELSE NoRule) \in S
    <3>1. \A x \in Nat \X S : x[2] \in S
      OBVIOUS
    <3> HIDE DEF N
    <3> QED  BY <1>1, <3>1
  <2> HIDE DEF S, N, pick
  <2> QED  BY <2>1 DEF S
<1>3. ASSUME NEW f, f = [i \in 0..N |-> f[i]]
      PROVE  Climbs(f) <=> f[0] = NoRule /\ \A i \in 1..N : f[i] = pick(i, f[i - 1])
  <2>1. 0 \in 0..N /\ \A i \in 1..N : i \in 0..N /\ i # 0
    BY <1>1
  <2>2. \A i \in 0..N : i # 0 => i \in 1..N
    BY <1>1
  <2> HIDE DEF N, pick
  <2> QED  BY <1>3, <2>1, <2>2
<1>4. \A b \in S : \A i \in 1..N : step[<<i, b>>] = pick(i, b)
  <2>1. \A i \in 1..N : i \in Nat
    OBVIOUS
  <2> HIDE DEF S, N, pick
  <2> QED  BY <2>1
<1>5. PICK g : RecursiveUpto(g, N, S, NoRule, step)
  <2> HIDE DEF N, S, step
  <2> QED  BY <1>1, <1>2, RecursionExists
<1>6. Climbs(g)
  <2>1. g = [i \in 0..N |-> g[i]] /\ g[0] = NoRule
    BY <1>5 DEF RecursiveUpto
  <2>2. \A i \in 1..N : g[i - 1] \in S /\ g[i] = step[<<i, g[i - 1]>>]
    <3>1. \A i \in 1..N : i - 1 \in 0..N
      BY <1>1
    <3> HIDE DEF step, N, S
    <3> QED  BY <1>5, <3>1 DEF RecursiveUpto
  <2> HIDE DEF step, N, S, pick, Climbs
  <2> QED  BY <1>3, <1>4, <2>1, <2>2
<1>7. PICK f : f = CHOOSE h : Climbs(h)
  OBVIOUS
<1>8. Climbs(f)
  <2> HIDE DEF Climbs
  <2> QED  BY <1>6, <1>7
<1>9. Best(rules, path) = f[N]
  BY <1>7, Zenon DEF Best
<1>10. f[0] = NoRule /\ \A i \in 1..N : f[i] = pick(i, f[i - 1])
  <2>1. f = [i \in 0..N |-> f[i]]
    BY <1>8
  <2> HIDE DEF N, Climbs, pick
  <2> QED  BY <1>3, <1>8, <2>1
<1>11. BestUpto(f, N, rules, path)
  BY <1>10, Zenon DEF BestUpto
<1> QED  BY <1>9, <1>11

(* The judgement depends on the set of the rules alone: a Disallow that
   matches needs an Allow that matches and is no shorter. *)
LEMMA BestDecides ==
  ASSUME NEW R, NEW rules \in Seq(R), NEW path, NEW len,
         \A r \in R : /\ r.allow \in BOOLEAN
                      /\ len[r] = PatternMatchLen(r.pattern, path)
                      /\ len[r] = NoMatch \/ len[r] \in Nat
  PROVE  Best(rules, path).allow <=>
           \A d \in Range(rules) : ~d.allow /\ len[d] # NoMatch =>
             \E a \in Range(rules) : a.allow /\ len[a] # NoMatch /\ len[a] >= len[d]
<1> DEFINE N == Len(rules)
           size(r) == PatternMatchLen(r.pattern, path)
<1>1. N \in Nat /\ DOMAIN rules = 1..N /\ \A i \in 1..N : rules[i] \in R
  OBVIOUS
<1>2. PICK best : BestUpto(best, N, rules, path) /\ Best(rules, path) = best[N]
  BY BestClimbs
<1>3. NoRule.allow = TRUE /\ size(NoRule) = NoMatch
  <2>1. NoRule.allow = TRUE /\ NoRule.pattern = EmptyPattern
    BY DEF NoRule
  <2> QED  BY <2>1 DEF PatternMatchLen
<1>4. \A i \in 1..N : /\ size(rules[i]) = len[rules[i]] /\ rules[i].allow \in BOOLEAN
                      /\ size(rules[i]) = NoMatch \/ size(rules[i]) \in Nat
  BY <1>1
<1> DEFINE Top(n) == /\ \/ best[n] = NoRule
                        \/ \E i \in 1..n : best[n] = rules[i] /\ size(rules[i]) # NoMatch
                     /\ \A i \in 1..n : size(rules[i]) <= size(best[n])
                     /\ \A i \in 1..n : /\ size(rules[i]) = size(best[n])
                                        /\ size(rules[i]) # NoMatch /\ rules[i].allow
                                        => best[n].allow
           good == {n \in Nat : n <= N => Top(n)}
<1>5. 0 \in good
  BY <1>2 DEF BestUpto
<1>6. ASSUME NEW n \in Nat, n \in good PROVE n + 1 \in good
  <2>1. SUFFICES ASSUME n + 1 <= N PROVE Top(n + 1)
    OBVIOUS
  <2>2. n + 1 \in 1..N /\ (n + 1) - 1 = n /\ Top(n) /\ \A i \in 1..n : i \in 1..N
    BY <1>1, <1>6, <2>1
  <2>3. PICK r : r = rules[n + 1]
    OBVIOUS
  <2>4. best[n + 1] = IF Better(r, best[n], path) THEN r ELSE best[n]
    BY <1>2, <2>2, <2>3 DEF BestUpto
  <2>5. Better(r, best[n], path) <=>
          \/ size(r) > size(best[n])
          \/ size(r) = size(best[n]) /\ size(r) # NoMatch /\ r.allow /\ ~best[n].allow
    BY DEF Better
  <2>6. size(best[n]) = NoMatch \/ size(best[n]) \in Nat
    <3> HIDE DEF size
    <3> QED  BY <1>3, <1>4, <2>2
  <2>7. size(r) = NoMatch \/ size(r) \in Nat
    <3> HIDE DEF size
    <3> QED  BY <1>4, <2>2, <2>3
  <2>8. \A i \in 1..(n + 1) : i \in 1..n \/ i = n + 1
    OBVIOUS
  <2>9. \A i \in 1..n : i \in 1..(n + 1)
    OBVIOUS
  <2>10. n + 1 \in 1..(n + 1)
    OBVIOUS
  <2>11. \A i \in 1..n : size(rules[i]) \in Int
    <3> HIDE DEF size
    <3> QED  BY <1>4, <2>2 DEF NoMatch
  <2>12. CASE Better(r, best[n], path)
    <3>1. best[n + 1] = r /\ size(r) >= size(best[n]) /\ size(r) # NoMatch
      <4> HIDE DEF size
      <4> QED  BY <2>4, <2>5, <2>6, <2>7, <2>12 DEF NoMatch
    <3>2. \A i \in 1..n : size(rules[i]) <= size(r)
      <4> HIDE DEF size
      <4> QED  BY <2>2, <2>6, <2>7, <2>11, <3>1 DEF NoMatch
    <3>3. ASSUME NEW i \in 1..n, size(rules[i]) = size(r), rules[i].allow
          PROVE  r.allow
      <4>1. size(rules[i]) <= size(best[n])
        BY <2>2
      <4>2. size(r) = size(best[n])
        <5> HIDE DEF size
        <5> QED  BY <2>6, <2>7, <3>1, <3>3, <4>1 DEF NoMatch
      <4>3. ~(size(r) > size(best[n]))
        <5> HIDE DEF size
        <5> QED  BY <2>6, <2>7, <4>2 DEF NoMatch
      <4> QED  BY <2>5, <2>12, <4>3, Zenon
    <3>4. size(r) <= size(r)
      <4> HIDE DEF size
      <4> QED  BY <2>7 DEF NoMatch
    <3>5. \A i \in 1..(n + 1) : size(rules[i]) <= size(best[n + 1])
      <4> HIDE DEF size
      <4> QED  BY <2>3, <2>8, <3>1, <3>2, <3>4
    <3>6. \A i \in 1..(n + 1) : size(rules[i]) = size(best[n + 1]) /\ rules[i].allow
                                => best[n + 1].allow
      <4> HIDE DEF size
      <4> QED  BY <2>3, <2>8, <3>1, <3>3
    <3> HIDE DEF size
    <3> QED  BY <2>3, <2>10, <3>1, <3>5, <3>6
  <2>13. CASE ~Better(r, best[n], path)
    <3>1. best[n + 1] = best[n]
      BY <2>4, <2>13
    <3>2. size(r) <= size(best[n])
      <4> HIDE DEF size
      <4> QED  BY <2>5, <2>6, <2>7, <2>13 DEF NoMatch
    <3>3. size(r) = size(best[n]) /\ size(r) # NoMatch /\ r.allow => best[n].allow
      BY <2>5, <2>13, Zenon
    <3> HIDE DEF size
    <3> QED  BY <2>2, <2>3, <2>8, <2>9, <3>1, <3>2, <3>3
  <2> QED  BY <2>12, <2>13
<1>7. Top(N)
  <2>1. \A n \in Nat : n \in good
    <3> HIDE DEF good
    <3> QED  BY <1>5, <1>6, Induction
  <2> QED  BY <1>1, <2>1
<1>8. \A r \in Range(rules) : \E i \in 1..N : r = rules[i]
  BY <1>1 DEF Range
<1>9. \A i \in 1..N : rules[i] \in Range(rules)
  BY <1>1 DEF Range
<1>10. ASSUME best[N].allow, NEW i \in 1..N, ~rules[i].allow, len[rules[i]] # NoMatch
       PROVE  \E a \in Range(rules) : a.allow /\ len[a] # NoMatch /\ len[a] >= len[rules[i]]
  <2>1. best[N] # NoRule
    <3>1. size(rules[i]) <= size(best[N]) /\ size(rules[i]) \in Nat
      <4> HIDE DEF size
      <4> QED  BY <1>4, <1>7, <1>10
    <3>2. ~(size(rules[i]) <= NoMatch)
      <4> HIDE DEF size
      <4> QED  BY <3>1 DEF NoMatch
    <3> QED  BY <1>3, <3>1, <3>2, Zenon
  <2>2. PICK j \in 1..N : best[N] = rules[j] /\ size(rules[j]) # NoMatch
    BY <1>7, <2>1
  <2>3. size(rules[i]) <= size(rules[j])
    BY <1>7, <2>2
  <2>4. len[rules[j]] # NoMatch /\ len[rules[j]] >= len[rules[i]]
    <3> HIDE DEF size
    <3> QED  BY <1>4, <1>10, <2>2, <2>3
  <2> QED  BY <1>9, <1>10, <2>2, <2>4
<1>11. ASSUME ~best[N].allow
       PROVE  \E d \in Range(rules) : /\ ~d.allow /\ len[d] # NoMatch
                /\ \A a \in Range(rules) : a.allow /\ len[a] # NoMatch => ~(len[a] >= len[d])
  <2>1. PICK j \in 1..N : best[N] = rules[j] /\ size(rules[j]) # NoMatch
    BY <1>3, <1>7, <1>11
  <2>2. ASSUME NEW i \in 1..N, rules[i].allow, len[rules[i]] # NoMatch
        PROVE  ~(len[rules[i]] >= len[rules[j]])
    <3>1. size(rules[i]) <= size(rules[j])
      BY <1>7, <2>1
    <3>2. size(rules[i]) # size(rules[j])
      <4>1. size(rules[i]) # NoMatch
        <5> HIDE DEF size
        <5> QED  BY <1>4, <2>2
      <4> QED  BY <1>7, <1>11, <2>1, <2>2, <4>1
    <3> HIDE DEF size
    <3> QED  BY <1>4, <2>1, <2>2, <3>1, <3>2
  <2>3. len[rules[j]] # NoMatch
    <3> HIDE DEF size
    <3> QED  BY <1>4, <2>1
  <2>4. rules[j] \in Range(rules) /\ ~rules[j].allow
    BY <1>9, <1>11, <2>1
  <2>5. \A a \in Range(rules) : a.allow /\ len[a] # NoMatch => ~(len[a] >= len[rules[j]])
    BY <1>8, <2>2, Zenon
  <2> QED  BY <2>3, <2>4, <2>5, Zenon
<1> QED  BY <1>2, <1>8, <1>10, <1>11

----------------------------------------------------------------------------
(* The parser.  What it keeps of lines from L. *)
GroupsOf(L) ==
  [agents : Seq({l.agent : l \in L}),
   rules : Seq([allow : BOOLEAN, pattern : {l.pattern : l \in {m \in L : IsPathRule(m)}}]),
   delay : Nat \cup {NoDelay}]

StatesOf(L) ==
  [groups : Seq(GroupsOf(L)), cur : GroupsOf(L), open : BOOLEAN, ruled : BOOLEAN]

DelaysAreNumbers(L) ==
  \A l \in L : l.field = "crawl-delay" => l.secs \in Nat \cup {NoDelay}

RuleOf(line) == [allow |-> line.field = "allow", pattern |-> line.pattern]

LEMMA NoGroupType ==
  ASSUME NEW L
  PROVE  NoGroup \in GroupsOf(L) /\ Start \in StatesOf(L)
BY DEF NoGroup, Start, GroupsOf, StatesOf, NoDelay

(* The next state by the group it goes on with. *)
Named(st, cur) == [st EXCEPT !.cur = cur, !.open = TRUE]
Ruled(st, cur) == [st EXCEPT !.cur = cur, !.open = TRUE, !.ruled = TRUE]

Updated(new, st, cur, S) == new \in S /\ new.groups = st.groups /\ new.cur = cur /\ new.open = TRUE

LEMMA RecordUpdates ==
  ASSUME NEW S, NEW T, NEW st \in [groups : S, cur : T, open : BOOLEAN, ruled : BOOLEAN],
         NEW cur \in T
  PROVE  LET states == [groups : S, cur : T, open : BOOLEAN, ruled : BOOLEAN] IN
         /\ Updated(Named(st, cur), st, cur, states) /\ Named(st, cur).ruled = st.ruled
         /\ Updated(Ruled(st, cur), st, cur, states) /\ Ruled(st, cur).ruled = TRUE
<1>1. Named(st, cur) \in [groups : S, cur : T, open : BOOLEAN, ruled : BOOLEAN]
  BY DEF Named
<1>2. /\ Named(st, cur).groups = st.groups /\ Named(st, cur).cur = cur
      /\ Named(st, cur).open = TRUE /\ Named(st, cur).ruled = st.ruled
  BY DEF Named
<1>3. Ruled(st, cur) \in [groups : S, cur : T, open : BOOLEAN, ruled : BOOLEAN]
  BY DEF Ruled
<1>4. /\ Ruled(st, cur).groups = st.groups /\ Ruled(st, cur).cur = cur
      /\ Ruled(st, cur).open = TRUE /\ Ruled(st, cur).ruled = TRUE
  BY DEF Ruled
<1> QED  BY <1>1, <1>2, <1>3, <1>4, Zenon DEF Updated

LEMMA StateUpdates ==
  ASSUME NEW L, NEW st \in StatesOf(L), NEW cur \in GroupsOf(L)
  PROVE  /\ Updated(Named(st, cur), st, cur, StatesOf(L)) /\ Named(st, cur).ruled = st.ruled
         /\ Updated(Ruled(st, cur), st, cur, StatesOf(L)) /\ Ruled(st, cur).ruled = TRUE
<1>1. PICK S, T : S = Seq(GroupsOf(L)) /\ T = GroupsOf(L)
  OBVIOUS
<1>2. StatesOf(L) = [groups : S, cur : T, open : BOOLEAN, ruled : BOOLEAN]
  BY <1>1, Zenon DEF StatesOf
<1>3. st \in [groups : S, cur : T, open : BOOLEAN, ruled : BOOLEAN] /\ cur \in T
  BY <1>1, <1>2, Zenon
<1>4. LET states == [groups : S, cur : T, open : BOOLEAN, ruled : BOOLEAN] IN
      /\ Updated(Named(st, cur), st, cur, states) /\ Named(st, cur).ruled = st.ruled
      /\ Updated(Ruled(st, cur), st, cur, states) /\ Ruled(st, cur).ruled = TRUE
  BY <1>3, RecordUpdates
<1> QED  BY <1>2, <1>4, Zenon

LEMMA CloseType ==
  ASSUME NEW L, NEW st \in StatesOf(L)
  PROVE  /\ Close(st) \in StatesOf(L)
         /\ Close(st).groups = IF st.open THEN Append(st.groups, st.cur) ELSE st.groups
         /\ Close(st).cur = NoGroup /\ ~Close(st).open /\ ~Close(st).ruled
<1>1. PICK gs : gs = IF st.open THEN Append(st.groups, st.cur) ELSE st.groups
  OBVIOUS
<1>2. gs \in Seq(GroupsOf(L))
  <2>1. st.groups \in Seq(GroupsOf(L)) /\ st.cur \in GroupsOf(L)
    BY DEF StatesOf
  <2> QED  BY <1>1, <2>1
<1>3. Close(st) = [groups |-> gs, cur |-> NoGroup, open |-> FALSE, ruled |-> FALSE]
  <2>1. Close(st) = [st EXCEPT !.groups = gs, !.cur = NoGroup, !.open = FALSE, !.ruled = FALSE]
    BY <1>1, Zenon DEF Close
  <2>2. PICK S, T : st \in [groups : S, cur : T, open : BOOLEAN, ruled : BOOLEAN]
    BY DEF StatesOf
  <2> QED  BY <2>1, <2>2
<1> QED  BY <1>1, <1>2, <1>3, NoGroupType DEF StatesOf

(* A line that names an agent. *)
LEMMA AgentLineDoes ==
  ASSUME NEW L, NEW st \in StatesOf(L), NEW line \in L
  PROVE  LET new == AgentLine(st, line.agent) IN
         /\ new \in StatesOf(L) /\ new.open /\ ~new.ruled
         /\ st.ruled => /\ new.groups = Close(st).groups
                        /\ new.cur.agents = <<line.agent>> /\ new.cur.rules = <<>>
         /\ ~st.ruled => /\ new.groups = st.groups
                         /\ new.cur.agents = Append(st.cur.agents, line.agent)
                         /\ new.cur.rules = st.cur.rules
<1>1. PICK base : base = IF st.ruled THEN Close(st) ELSE st
  OBVIOUS
<1>2. base \in StatesOf(L) /\ ~base.ruled
  BY <1>1, CloseType DEF StatesOf
<1>3. PICK names : names = Append(base.cur.agents, line.agent)
  OBVIOUS
<1> DEFINE cur == [agents |-> names, rules |-> base.cur.rules, delay |-> base.cur.delay]
<1>4. cur \in GroupsOf(L)
  <2>1. base.cur \in GroupsOf(L)
    BY <1>2 DEF StatesOf
  <2>2. PICK A : A = {l.agent : l \in L}
    OBVIOUS
  <2>3. base.cur.agents \in Seq(A) /\ line.agent \in A
    BY <2>1, <2>2 DEF GroupsOf
  <2>4. Append(base.cur.agents, line.agent) \in Seq(A)
    BY <2>3
  <2> QED  BY <1>3, <2>1, <2>2, <2>4 DEF GroupsOf
<1>5. PICK new : new = AgentLine(st, line.agent)
  OBVIOUS
<1>10. /\ new \in StatesOf(L) /\ new.groups = base.groups /\ new.cur = cur
       /\ new.open /\ ~new.ruled
  <2>1. new = [base EXCEPT !.cur.agents = names, !.open = TRUE]
    BY <1>1, <1>3, <1>5, Zenon DEF AgentLine
  <2>2. PICK S, A, R, D :
          /\ StatesOf(L) = [groups : S, cur : GroupsOf(L), open : BOOLEAN, ruled : BOOLEAN]
          /\ GroupsOf(L) = [agents : A, rules : R, delay : D]
    BY Zenon DEF StatesOf, GroupsOf
  <2>3. [base.cur EXCEPT !.agents = names] = cur
    BY <1>2, <2>2
  <2>4. new = [base EXCEPT !.cur = [base.cur EXCEPT !.agents = names], !.open = TRUE]
    BY <1>2, <2>1, <2>2
  <2>5. PICK c : c = cur
    OBVIOUS
  <2>6. new = Named(base, c)
    <3> HIDE DEF cur
    <3> QED  BY <2>3, <2>4, <2>5 DEF Named
  <2>7. base.ruled = FALSE
    BY <1>2 DEF StatesOf
  <2>8. c \in GroupsOf(L)
    BY <1>4, <2>5, Zenon
  <2>9. Updated(new, base, c, StatesOf(L)) /\ new.ruled = FALSE
    <3>1. base \in StatesOf(L)
      BY <1>2
    <3>2. Updated(Named(base, c), base, c, StatesOf(L)) /\ Named(base, c).ruled = base.ruled
      BY <2>8, <3>1, StateUpdates, Zenon
    <3> QED  BY <2>6, <2>7, <3>2, Zenon
  <2> QED  BY <2>5, <2>9, Zenon DEF Updated
<1>6. st.ruled => base.cur.agents = <<>> /\ base.cur.rules = <<>>
  BY <1>1, CloseType DEF NoGroup
<1>7. Append(<<>>, line.agent) = <<line.agent>>
  OBVIOUS
<1>8. base.groups = IF st.ruled THEN Close(st).groups ELSE st.groups
  BY <1>1
<1>11. new.cur.agents = names /\ new.cur.rules = base.cur.rules
  BY <1>10
<1>13. st.ruled => names = <<line.agent>> /\ base.cur.rules = <<>>
  BY <1>3, <1>6, <1>7
<1>14. ~st.ruled => base = st /\ names = Append(st.cur.agents, line.agent)
  BY <1>1, <1>3
<1> QED  BY <1>5, <1>8, <1>10, <1>11, <1>13, <1>14, Zenon

(* A line with a rule, and one with a delay. *)
LEMMA RuleLineDoes ==
  ASSUME NEW L, NEW st \in StatesOf(L), NEW line \in L, IsPathRule(line)
  PROVE  LET new == RuleLine(st, RuleOf(line)) IN
         /\ new \in StatesOf(L) /\ new.open /\ new.ruled
         /\ new.groups = st.groups /\ new.cur.agents = st.cur.agents
         /\ new.cur.rules = Append(st.cur.rules, RuleOf(line))
<1>1. st.cur \in GroupsOf(L)
  BY DEF StatesOf
<1>2. PICK rules : rules = Append(st.cur.rules, RuleOf(line))
  OBVIOUS
<1> DEFINE cur == [agents |-> st.cur.agents, rules |-> rules, delay |-> st.cur.delay]
<1>3. cur \in GroupsOf(L)
  <2>1. PICK R : R = [allow : BOOLEAN, pattern : {l.pattern : l \in {m \in L : IsPathRule(m)}}]
    OBVIOUS
  <2>2. st.cur.rules \in Seq(R) /\ RuleOf(line) \in R
    BY <1>1, <2>1 DEF GroupsOf, RuleOf
  <2>3. Append(st.cur.rules, RuleOf(line)) \in Seq(R)
    BY <2>2
  <2> QED  BY <1>1, <1>2, <2>1, <2>3 DEF GroupsOf
<1>4. PICK new : new = RuleLine(st, RuleOf(line))
  OBVIOUS
<1>5. /\ new \in StatesOf(L) /\ new.groups = st.groups /\ new.cur = cur
      /\ new.open /\ new.ruled
  <2>1. new = [st EXCEPT !.cur.rules = rules, !.open = TRUE, !.ruled = TRUE]
    BY <1>2, <1>4, Zenon DEF RuleLine
  <2>2. PICK S, A, R, D :
          /\ StatesOf(L) = [groups : S, cur : GroupsOf(L), open : BOOLEAN, ruled : BOOLEAN]
          /\ GroupsOf(L) = [agents : A, rules : R, delay : D]
    BY Zenon DEF StatesOf, GroupsOf
  <2>3. [st.cur EXCEPT !.rules = rules] = cur
    BY <2>2
  <2>4. new = [st EXCEPT !.cur = [st.cur EXCEPT !.rules = rules], !.open = TRUE, !.ruled = TRUE]
    BY <2>1, <2>2
  <2>5. PICK c : c = cur
    OBVIOUS
  <2>6. new = Ruled(st, c)
    <3> HIDE DEF cur
    <3> QED  BY <2>3, <2>4, <2>5 DEF Ruled
  <2>8. c \in GroupsOf(L)
    BY <1>3, <2>5, Zenon
  <2>9. Updated(new, st, c, StatesOf(L)) /\ new.ruled = TRUE
    <3> HIDE DEF cur
    <3> QED  BY <2>6, <2>8, StateUpdates
  <2> QED  BY <2>5, <2>9, Zenon DEF Updated
<1>6. cur.agents = st.cur.agents /\ cur.rules = rules
  OBVIOUS
<1> QED  BY <1>2, <1>4, <1>5, <1>6, Zenon

LEMMA DelayLineDoes ==
  ASSUME NEW L, NEW st \in StatesOf(L), NEW secs \in Nat \cup {NoDelay}
  PROVE  LET new == DelayLine(st, secs) IN
         /\ new \in StatesOf(L) /\ new.open /\ new.ruled
         /\ new.groups = st.groups /\ new.cur.agents = st.cur.agents
         /\ new.cur.rules = st.cur.rules
<1>1. st.cur \in GroupsOf(L)
  BY DEF StatesOf
<1>2. PICK delay : delay = IF secs = NoDelay THEN st.cur.delay ELSE secs
  OBVIOUS
<1> DEFINE cur == [agents |-> st.cur.agents, rules |-> st.cur.rules, delay |-> delay]
<1>3. cur \in GroupsOf(L)
  BY <1>1, <1>2 DEF GroupsOf
<1>4. PICK new : new = DelayLine(st, secs)
  OBVIOUS
<1>5. /\ new \in StatesOf(L) /\ new.groups = st.groups /\ new.cur = cur
      /\ new.open /\ new.ruled
  <2>1. new = [st EXCEPT !.cur.delay = delay, !.open = TRUE, !.ruled = TRUE]
    BY <1>2, <1>4, Zenon DEF DelayLine
  <2>2. PICK S, A, R, D :
          /\ StatesOf(L) = [groups : S, cur : GroupsOf(L), open : BOOLEAN, ruled : BOOLEAN]
          /\ GroupsOf(L) = [agents : A, rules : R, delay : D]
    BY Zenon DEF StatesOf, GroupsOf
  <2>3. [st.cur EXCEPT !.delay = delay] = cur
    BY <2>2
  <2>4. new = [st EXCEPT !.cur = [st.cur EXCEPT !.delay = delay], !.open = TRUE, !.ruled = TRUE]
    BY <2>1, <2>2
  <2>5. PICK c : c = cur
    OBVIOUS
  <2>6. new = Ruled(st, c)
    <3> HIDE DEF cur
    <3> QED  BY <2>3, <2>4, <2>5 DEF Ruled
  <2>8. c \in GroupsOf(L)
    BY <1>3, <2>5, Zenon
  <2>9. Updated(new, st, c, StatesOf(L)) /\ new.ruled = TRUE
    <3> HIDE DEF cur
    <3> QED  BY <2>6, <2>8, StateUpdates
  <2> QED  BY <2>5, <2>9, Zenon DEF Updated
<1>6. cur.agents = st.cur.agents /\ cur.rules = st.cur.rules
  OBVIOUS
<1> QED  BY <1>2, <1>4, <1>5, <1>6, Zenon

(* What a line does. *)
Reads(st, line, new) ==
  /\ IsAgentLine(line) => new = AgentLine(st, line.agent)
  /\ IsPathRule(line) => new = RuleLine(st, RuleOf(line))
  /\ line.field = "crawl-delay" => new = DelayLine(st, line.secs)
  /\ ~IsAgentLine(line) /\ ~IsRule(line) => new = st

LEMMA ReadLineDoes ==
  ASSUME NEW L, DelaysAreNumbers(L), NEW st \in StatesOf(L), NEW line \in L
  PROVE  ReadLine(st, line) \in StatesOf(L) /\ Reads(st, line, ReadLine(st, line))
<1>1. Reads(st, line, ReadLine(st, line))
  <2>1. CASE IsAgentLine(line)
    <3>1. line.field = "user-agent"
      BY <2>1 DEF IsAgentLine
    <3>2. ReadLine(st, line) = AgentLine(st, line.agent)
      BY <3>1 DEF ReadLine
    <3> QED  BY <2>1, <3>1, <3>2 DEF Reads, IsRule, IsPathRule
  <2>2. CASE line.field = "allow"
    <3>1. ReadLine(st, line) = RuleLine(st, [allow |-> TRUE, pattern |-> line.pattern])
      BY <2>2 DEF ReadLine
    <3>2. RuleOf(line) = [allow |-> TRUE, pattern |-> line.pattern]
      BY <2>2 DEF RuleOf
    <3> QED  BY <2>2, <3>1, <3>2 DEF Reads, IsAgentLine, IsRule, IsPathRule
  <2>3. CASE line.field = "disallow"
    <3>1. ReadLine(st, line) = RuleLine(st, [allow |-> FALSE, pattern |-> line.pattern])
      BY <2>3 DEF ReadLine
    <3>2. RuleOf(line) = [allow |-> FALSE, pattern |-> line.pattern]
      BY <2>3 DEF RuleOf
    <3> QED  BY <2>3, <3>1, <3>2 DEF Reads, IsAgentLine, IsRule, IsPathRule
  <2>4. CASE line.field = "crawl-delay"
    <3>1. ReadLine(st, line) = DelayLine(st, line.secs)
      BY <2>4 DEF ReadLine
    <3> QED  BY <2>4, <3>1 DEF Reads, IsAgentLine, IsRule, IsPathRule
  <2>5. CASE ~IsAgentLine(line) /\ ~IsRule(line)
    <3>1. ReadLine(st, line) = st
      BY <2>5 DEF ReadLine, IsAgentLine, IsRule, IsPathRule
    <3> QED  BY <2>5, <3>1 DEF Reads, IsRule
  <2>6. \/ line.field = "allow" \/ line.field = "disallow" \/ line.field = "crawl-delay"
        \/ ~IsRule(line)
    BY DEF IsRule, IsPathRule
  <2> QED  BY <2>1, <2>2, <2>3, <2>4, <2>5, <2>6, Zenon
<1>2. ReadLine(st, line) \in StatesOf(L)
  <2>1. CASE IsAgentLine(line)
    BY <1>1, <2>1, AgentLineDoes DEF Reads
  <2>2. CASE IsPathRule(line)
    BY <1>1, <2>2, RuleLineDoes DEF Reads
  <2>3. CASE line.field = "crawl-delay"
    BY <1>1, <2>3, DelayLineDoes DEF Reads, DelaysAreNumbers
  <2>4. CASE ~IsAgentLine(line) /\ ~IsRule(line)
    BY <1>1, <2>4 DEF Reads
  <2> QED  BY <2>1, <2>2, <2>3, <2>4 DEF IsRule
<1> QED  BY <1>1, <1>2

(* The states of the parser after each line of a text. *)
ParseUpto(st, text, L) ==
  /\ st \in [0..Len(text) -> StatesOf(L)] /\ st[0] = Start
  /\ \A i \in 1..Len(text) : Reads(st[i - 1], text[i], st[i])

LEMMA ParseClimbs ==
  ASSUME NEW L, DelaysAreNumbers(L), NEW text \in Seq(L)
  PROVE  \E st : ParseUpto(st, text, L) /\ Parse(text) = Close(st[Len(text)]).groups
<1> DEFINE N == Len(text)
           S == StatesOf(L)
           step == [x \in Nat \X S |-> IF x[1] \in 1..N THEN ReadLine(x[2], text[x[1]]) ELSE Start]
           Climbs(f) == f = [n \in 0..N |-> IF n = 0 THEN Start ELSE ReadLine(f[n - 1], text[n])]
<1>1. N \in Nat /\ \A i \in 1..N : text[i] \in L
  OBVIOUS
<1>2. step \in [Nat \X S -> S] /\ Start \in S
  <2>1. \A x \in Nat \X S : (IF x[1] \in 1..N THEN ReadLine(x[2], text[x[1]]) ELSE Start) \in S
    <3>1. \A x \in Nat \X S : x[2] \in S
      OBVIOUS
    <3>2. Start \in S /\ \A b \in S : \A l \in L : ReadLine(b, l) \in S
      BY NoGroupType, ReadLineDoes
    <3> HIDE DEF N, S
    <3> QED  BY <1>1, <3>1, <3>2
  <2> HIDE DEF S, N
  <2> QED  BY <2>1, NoGroupType DEF S
<1>3. ASSUME NEW f, f = [i \in 0..N |-> f[i]]
      PROVE  Climbs(f) <=> f[0] = Start /\ \A i \in 1..N : f[i] = ReadLine(f[i - 1], text[i])
  <2>1. 0 \in 0..N /\ \A i \in 1..N : i \in 0..N /\ i # 0
    BY <1>1
  <2>2. \A i \in 0..N : i # 0 => i \in 1..N
    BY <1>1
  <2> HIDE DEF N
  <2> QED  BY <1>3, <2>1, <2>2
<1>4. \A b \in S : \A i \in 1..N : step[<<i, b>>] = ReadLine(b, text[i])
  <2>1. \A i \in 1..N : i \in Nat
    OBVIOUS
  <2> HIDE DEF S, N
  <2> QED  BY <2>1
<1>5. PICK g : RecursiveUpto(g, N, S, Start, step)
  <2> HIDE DEF N, S, step
  <2> QED  BY <1>1, <1>2, RecursionExists
<1>6. Climbs(g)
  <2>1. g = [i \in 0..N |-> g[i]] /\ g[0] = Start
    BY <1>5 DEF RecursiveUpto
  <2>2. \A i \in 1..N : g[i - 1] \in S /\ g[i] = step[<<i, g[i - 1]>>]
    <3>1. \A i \in 1..N : i - 1 \in 0..N
      BY <1>1
    <3> HIDE DEF step, N, S
    <3> QED  BY <1>5, <3>1 DEF RecursiveUpto
  <2> HIDE DEF step, N, S, Climbs
  <2> QED  BY <1>3, <1>4, <2>1, <2>2
<1>7. PICK f : f = CHOOSE h : Climbs(h)
  OBVIOUS
<1>8. Climbs(f)
  <2> HIDE DEF Climbs
  <2> QED  BY <1>6, <1>7
<1>9. Parse(text) = Close(f[N]).groups
  BY <1>7, Zenon DEF Parse
<1>10. f = [i \in 0..N |-> f[i]]
  BY <1>8
<1>11. f[0] = Start /\ \A i \in 1..N : f[i] = ReadLine(f[i - 1], text[i])
  <2> HIDE DEF N, Climbs
  <2> QED  BY <1>3, <1>8, <1>10
<1>12. RecursiveUpto(f, N, S, Start, step)
  <2>1. \A i \in 1..N : f[i - 1] \in S => f[i] = step[<<i, f[i - 1]>>]
    <3> HIDE DEF N, S, step, Climbs
    <3> QED  BY <1>4, <1>11
  <2> HIDE DEF N, S, step, Climbs
  <2> QED  BY <1>1, <1>2, <1>10, <1>11, <2>1, RecursionStays
<1>13. f \in [0..N -> S]
  BY <1>12, Zenon DEF RecursiveUpto
<1>14. \A i \in 1..N : Reads(f[i - 1], text[i], f[i])
  <2>1. TAKE i \in 1..N
  <2>2. i - 1 \in 0..N
    BY <1>1
  <2>3. f[i - 1] \in S
    <3> HIDE DEF N, S
    <3> QED  BY <1>13, <2>2
  <2> QED  BY <1>1, <1>11, <2>3, ReadLineDoes
<1>15. ParseUpto(f, text, L)
  <2> HIDE DEF Climbs, step
  <2> QED  BY <1>11, <1>13, <1>14, Zenon DEF ParseUpto
<1> QED  BY <1>9, <1>15

(* The group that is open after n lines, counted. *)
At(st, n) == Len(st[n].groups) + 1

(* A line opens a group if it names an agent after a rule. *)
LEMMA GroupSteps ==
  ASSUME NEW L, NEW text \in Seq(L), NEW st, ParseUpto(st, text, L), NEW n \in 1..Len(text)
  PROVE  /\ st[n - 1] \in StatesOf(L) /\ st[n] \in StatesOf(L)
         /\ At(st, n - 1) \in Nat \ {0}
         /\ At(st, n) = IF IsAgentLine(text[n]) /\ st[n - 1].ruled /\ st[n - 1].open
                        THEN At(st, n - 1) + 1 ELSE At(st, n - 1)
         /\ IsAgentLine(text[n]) => st[n].open /\ ~st[n].ruled
         /\ IsRule(text[n]) => st[n].open /\ st[n].ruled
         /\ ~IsAgentLine(text[n]) /\ ~IsRule(text[n]) => st[n] = st[n - 1]
<1>1. n - 1 \in 0..Len(text) /\ n \in 0..Len(text) /\ text[n] \in L
  OBVIOUS
<1>2. st[n - 1] \in StatesOf(L) /\ st[n] \in StatesOf(L)
  BY <1>1 DEF ParseUpto
<1>3. Reads(st[n - 1], text[n], st[n])
  BY DEF ParseUpto
<1>4. PICK old, new, line : old = st[n - 1] /\ new = st[n] /\ line = text[n]
  OBVIOUS
<1>5. old \in StatesOf(L) /\ new \in StatesOf(L) /\ line \in L /\ Reads(old, line, new)
  BY <1>1, <1>2, <1>3, <1>4
<1>6. old.groups \in Seq(GroupsOf(L)) /\ old.cur \in GroupsOf(L)
  BY <1>5 DEF StatesOf
<1>7. Len(old.groups) \in Nat /\ Len(Append(old.groups, old.cur)) = Len(old.groups) + 1
  BY <1>6
<1>8. CASE IsAgentLine(line)
  <2>1. new = AgentLine(old, line.agent)
    BY <1>5, <1>8 DEF Reads
  <2>2. /\ new.open /\ ~new.ruled
        /\ old.ruled => new.groups = Close(old).groups
        /\ ~old.ruled => new.groups = old.groups
    BY <1>5, <2>1, AgentLineDoes
  <2>3. Close(old).groups = IF old.open THEN Append(old.groups, old.cur) ELSE old.groups
    BY <1>5, CloseType
  <2>4. ~IsRule(line)
    BY <1>8 DEF IsAgentLine, IsRule, IsPathRule
  <2>5. Len(new.groups) = IF old.ruled /\ old.open THEN Len(old.groups) + 1 ELSE Len(old.groups)
    BY <1>7, <2>2, <2>3
  <2> QED  BY <1>4, <1>5, <1>7, <1>8, <2>2, <2>4, <2>5 DEF At
<1>9. CASE IsRule(line)
  <2>1. new.open /\ new.ruled /\ new.groups = old.groups
    <3>1. CASE IsPathRule(line)
      BY <1>5, <3>1, RuleLineDoes DEF Reads
    <3>2. CASE line.field = "crawl-delay"
      <4>1. new = DelayLine(old, line.secs)
        BY <1>5, <3>2 DEF Reads
      <4> QED  BY <4>1 DEF DelayLine, StatesOf
    <3> QED  BY <1>9, <3>1, <3>2 DEF IsRule
  <2>2. ~IsAgentLine(line)
    BY <1>9 DEF IsAgentLine, IsRule, IsPathRule
  <2> QED  BY <1>4, <1>5, <1>7, <1>9, <2>1, <2>2 DEF At
<1>10. CASE ~IsAgentLine(line) /\ ~IsRule(line)
  <2>1. new = old
    BY <1>5, <1>10 DEF Reads
  <2> QED  BY <1>4, <1>5, <1>7, <1>10, <2>1 DEF At
<1> QED  BY <1>8, <1>9, <1>10

(* What the flags say: a group is open once a line has been read that is of
   one, and the last line of the open group is a rule or names an agent. *)
Flagged(st, text, n) ==
  /\ st[n].ruled => st[n].open
  /\ ~st[n].open => /\ st[n].groups = <<>>
                    /\ \A j \in 1..n : ~IsAgentLine(text[j]) /\ ~IsRule(text[j])
  /\ \A j \in 0..n : At(st, j) <= At(st, n)
  /\ \A j \in 1..n : IsRule(text[j]) /\ At(st, j) = At(st, n) => st[n].ruled

LEMMA FlagsHold ==
  ASSUME NEW L, NEW text \in Seq(L), NEW st, ParseUpto(st, text, L)
  PROVE  \A n \in 0..Len(text) : At(st, n) \in Nat \ {0} /\ Flagged(st, text, n)
<1> DEFINE N == Len(text)
           Holds(n) == At(st, n) \in Nat \ {0} /\ Flagged(st, text, n)
           good == {n \in Nat : n <= N => Holds(n)}
<1>1. N \in Nat
  OBVIOUS
<1>2. 0 \in good
  <2>1. st[0].groups = <<>> /\ ~st[0].ruled
    BY DEF ParseUpto, Start
  <2>2. At(st, 0) = 1 /\ \A j \in 0..0 : j = 0
    BY <2>1 DEF At
  <2>3. Flagged(st, text, 0)
    BY <2>1, <2>2 DEF Flagged
  <2> QED  BY <2>2, <2>3
<1>3. ASSUME NEW m \in Nat, m \in good PROVE m + 1 \in good
  <2>1. SUFFICES ASSUME m + 1 <= N PROVE Holds(m + 1)
    OBVIOUS
  <2>2. PICK n : n = m + 1
    OBVIOUS
  <2>3. n \in 1..N /\ n - 1 = m /\ \A j \in 0..n : j \in 0..m \/ j = n
    BY <2>1, <2>2
  <2>4. \A j \in 1..n : j \in 1..m \/ j = n
    BY <2>2
  <2>5. At(st, m) \in Nat \ {0} /\ Flagged(st, text, m)
    BY <1>3, <2>1
  <2>6. /\ At(st, n) = IF IsAgentLine(text[n]) /\ st[m].ruled /\ st[m].open
                       THEN At(st, m) + 1 ELSE At(st, m)
        /\ IsAgentLine(text[n]) => st[n].open /\ ~st[n].ruled
        /\ IsRule(text[n]) => st[n].open /\ st[n].ruled
        /\ ~IsAgentLine(text[n]) /\ ~IsRule(text[n]) => st[n] = st[m]
    BY <2>3, GroupSteps
  <2>7. At(st, n) \in Nat \ {0} /\ At(st, m) <= At(st, n)
    BY <2>5, <2>6
  <2>8. \A j \in 0..m : At(st, j) \in Int
    <3>1. \A j \in 0..m : j \in 0..N
      BY <1>1, <2>1
    <3>2. \A j \in 0..N : Len(st[j].groups) \in Nat
      <4>1. \A j \in 0..N : st[j].groups \in Seq(GroupsOf(L))
        BY DEF ParseUpto, StatesOf
      <4> QED  BY <4>1
    <3> QED  BY <3>1, <3>2 DEF At
  <2>9. \A j \in 0..n : At(st, j) <= At(st, n)
    <3>1. \A j \in 0..m : At(st, j) <= At(st, m)
      BY <2>5 DEF Flagged
    <3>2. \A j \in 0..m : At(st, j) <= At(st, n)
      BY <2>5, <2>7, <2>8, <3>1
    <3> QED  BY <2>3, <2>7, <3>2
  <2>10. st[n].ruled => st[n].open
    BY <2>5, <2>6, Zenon DEF Flagged
  <2>11. ~st[n].open => /\ st[n].groups = <<>>
                        /\ \A j \in 1..n : ~IsAgentLine(text[j]) /\ ~IsRule(text[j])
    BY <2>4, <2>5, <2>6, Zenon DEF Flagged
  <2>12. ASSUME NEW j \in 1..n, IsRule(text[j]), At(st, j) = At(st, n) PROVE st[n].ruled
    <3>1. CASE j = n
      BY <2>6, <2>12, <3>1
    <3>2. CASE j # n
      <4>1. j \in 1..m /\ j \in 0..m
        BY <2>4, <3>2
      <4>2. At(st, j) <= At(st, m)
        BY <2>5, <4>1 DEF Flagged
      <4>3. At(st, j) = At(st, m)
        BY <2>5, <2>7, <2>8, <2>12, <4>1, <4>2
      <4>4. st[m].ruled /\ st[m].open
        BY <2>5, <2>12, <4>1, <4>3 DEF Flagged
      <4>5. ~IsAgentLine(text[n])
        BY <2>5, <2>6, <2>12, <4>3, <4>4
      <4> QED  BY <2>6, <4>4, <4>5, Zenon
    <3> QED  BY <3>1, <3>2
  <2>13. Flagged(st, text, n)
    BY <2>9, <2>10, <2>11, <2>12, Zenon DEF Flagged
  <2> QED  BY <2>2, <2>7, <2>13
<1>4. \A n \in Nat : n \in good
  <2> HIDE DEF good
  <2> QED  BY <1>2, <1>3, Induction
<1> QED  BY <1>4

(* Two lines are of one group unless a rule and then an agent stand between:
   a line that names an agent opens the group of the lines below it. *)
Together(st, text, a, n) ==
  /\ At(st, n) = At(st, a) <=> ~Apart(text, a, n)
  /\ ~Apart(text, a, n) => (st[n].ruled <=> \E r \in a..n : IsRule(text[r]))

LEMMA TogetherHolds ==
  ASSUME NEW L, NEW text \in Seq(L), NEW st, ParseUpto(st, text, L),
         NEW a \in 1..Len(text), IsAgentLine(text[a])
  PROVE  \A n \in a..Len(text) : Together(st, text, a, n)
<1> DEFINE N == Len(text)
           good == {k \in Nat : a + k <= N => Together(st, text, a, a + k)}
<1>1. N \in Nat /\ a \in Nat
  OBVIOUS
<1>2. ~IsRule(text[a])
  BY DEF IsAgentLine, IsRule, IsPathRule
<1>3. 0 \in good
  <2>1. a + 0 = a /\ \A r \in a..a : r = a
    BY <1>1
  <2>2. \A k \in a..a : \A r \in a..(k - 1) : FALSE
    BY <1>1
  <2>3. ~Apart(text, a, a)
    BY <2>2, Zenon DEF Apart
  <2>4. ~st[a].ruled
    BY GroupSteps
  <2>5. Together(st, text, a, a)
    BY <1>2, <2>1, <2>3, <2>4, Zenon DEF Together
  <2> QED  BY <2>1, <2>5
<1>4. ASSUME NEW k \in Nat, k \in good PROVE k + 1 \in good
  <2>1. SUFFICES ASSUME a + (k + 1) <= N PROVE Together(st, text, a, a + (k + 1))
    OBVIOUS
  <2>2. PICK m, n : m = a + k /\ n = a + (k + 1)
    OBVIOUS
  <2>3. /\ n \in 1..N /\ n - 1 = m /\ m \in 1..N /\ m \in 0..N /\ a \in 0..m /\ n \in a..n
        /\ n \in 0..N /\ m \in 0..n
    BY <1>1, <2>1, <2>2
  <2>4. /\ \A j \in a..n : j \in a..m \/ j = n
        /\ \A j \in a..m : j \in a..n
    BY <1>1, <2>2
  <2>5. Together(st, text, a, m)
    BY <1>1, <1>4, <2>1, <2>2
  <2>6. /\ At(st, m) \in Nat \ {0}
        /\ At(st, n) = IF IsAgentLine(text[n]) /\ st[m].ruled /\ st[m].open
                       THEN At(st, m) + 1 ELSE At(st, m)
        /\ IsAgentLine(text[n]) => ~st[n].ruled
        /\ IsRule(text[n]) => st[n].ruled
        /\ ~IsAgentLine(text[n]) /\ ~IsRule(text[n]) => st[n] = st[m]
    BY <2>3, GroupSteps
  <2>7. st[m].ruled => st[m].open
    BY <2>3, FlagsHold DEF Flagged
  <2>8. At(st, a) <= At(st, m) /\ At(st, a) \in Nat
    BY <2>3, FlagsHold DEF Flagged
  <2>9. Apart(text, a, n) <=>
          Apart(text, a, m) \/ (IsAgentLine(text[n]) /\ \E r \in a..m : IsRule(text[r]))
    BY <2>3, <2>4, Zenon DEF Apart
  <2>10. IsAgentLine(text[n]) => ~IsRule(text[n])
    BY DEF IsAgentLine, IsRule, IsPathRule
  <2>11. CASE Apart(text, a, m)
    <3>1. At(st, m) # At(st, a)
      BY <2>5, <2>11, Zenon DEF Together
    <3>2. At(st, n) # At(st, a)
      BY <2>6, <2>8, <3>1
    <3> QED  BY <2>2, <2>9, <2>11, <3>2, Zenon DEF Together
  <2>12. CASE ~Apart(text, a, m)
    <3>1. At(st, m) = At(st, a) /\ (st[m].ruled <=> \E r \in a..m : IsRule(text[r]))
      BY <2>5, <2>12, Zenon DEF Together
    <3>2. At(st, n) = At(st, a) <=> ~(IsAgentLine(text[n]) /\ st[m].ruled)
      BY <2>6, <2>7, <2>8, <3>1
    <3>3. At(st, n) = At(st, a) <=> ~Apart(text, a, n)
      BY <2>9, <2>12, <3>1, <3>2, Zenon
    <3>4. (\E r \in a..n : IsRule(text[r])) <=>
            (\E r \in a..m : IsRule(text[r])) \/ IsRule(text[n])
      BY <2>3, <2>4, Zenon
    <3>5. ~Apart(text, a, n) => (st[n].ruled <=> \E r \in a..n : IsRule(text[r]))
      BY <2>6, <2>9, <2>10, <3>1, <3>4, Zenon
    <3> QED  BY <2>2, <3>3, <3>5, Zenon DEF Together
  <2> QED  BY <2>11, <2>12
<1>5. \A k \in Nat : k \in good
  <2> HIDE DEF good
  <2> QED  BY <1>3, <1>4, Induction
<1>6. TAKE n \in a..Len(text)
<1>7. n - a \in Nat /\ a + (n - a) = n /\ n <= N
  BY <1>1
<1> QED  BY <1>5, <1>7

(* A rule is never of the group of a line below it that names an agent. *)
LEMMA RulesAreBelow ==
  ASSUME NEW L, NEW text \in Seq(L), NEW st, ParseUpto(st, text, L),
         NEW a \in 1..Len(text), IsAgentLine(text[a]),
         NEW r \in 1..Len(text), IsRule(text[r]), At(st, r) = At(st, a)
  PROVE  a < r
<1>1. SUFFICES ASSUME r <= a PROVE FALSE
  OBVIOUS
<1>2. r \in 1..a /\ a \in 0..Len(text)
  BY <1>1
<1>3. st[a].ruled
  BY <1>2, FlagsHold DEF Flagged
<1>4. ~st[a].ruled
  BY GroupSteps
<1> QED  BY <1>3, <1>4

(* The groups after n lines, the open one last, and what should be in the
   group i: what the lines of it say. *)
All(st, n) == Append(st[n].groups, st[n].cur)

AgentsIn(st, text, n, i) ==
  {text[j].agent : j \in {k \in 1..n : IsAgentLine(text[k]) /\ At(st, k) = i}}
RulesIn(st, text, n, i) ==
  {RuleOf(text[j]) : j \in {k \in 1..n : IsPathRule(text[k]) /\ At(st, k) = i}}

LEMMA AppendRange ==
  ASSUME NEW S, NEW s \in Seq(S), NEW e \in S
  PROVE  Range(Append(s, e)) = Range(s) \cup {e}
<1>1. PICK t : t = Append(s, e)
  OBVIOUS
<1>2. /\ t \in Seq(S) /\ Len(t) = Len(s) + 1 /\ Len(s) \in Nat
      /\ \A i \in 1..Len(s) : t[i] = s[i]
      /\ t[Len(s) + 1] = e
  BY <1>1
<1>3. Range(t) = {t[i] : i \in 1..Len(t)} /\ Range(s) = {s[i] : i \in 1..Len(s)}
  BY <1>2 DEF Range
<1>4. \A i \in 1..Len(t) : i \in 1..Len(s) \/ i = Len(s) + 1
  BY <1>2
<1>5. Len(s) + 1 \in 1..Len(t) /\ \A i \in 1..Len(s) : i \in 1..Len(t)
  BY <1>2
<1>6. Range(t) \subseteq Range(s) \cup {e}
  BY <1>2, <1>3, <1>4, Zenon
<1>7. Range(s) \cup {e} \subseteq Range(t)
  BY <1>2, <1>3, <1>5, Zenon
<1> QED  BY <1>1, <1>6, <1>7

(* What a line adds to the open group. *)
Adds(old, line, new) ==
  /\ Range(new.agents) = Range(old.agents) \cup (IF IsAgentLine(line) THEN {line.agent} ELSE {})
  /\ Range(new.rules) = Range(old.rules) \cup (IF IsPathRule(line) THEN {RuleOf(line)} ELSE {})

LEMMA LineAdds ==
  ASSUME NEW L, DelaysAreNumbers(L), NEW old \in StatesOf(L), NEW line \in L, NEW new,
         Reads(old, line, new), old.ruled => old.open
  PROVE  \/ /\ new.groups = old.groups
            /\ Adds(old.cur, line, new.cur)
         \/ /\ IsAgentLine(line) /\ old.ruled
            /\ new.groups = Append(old.groups, old.cur)
            /\ Adds(NoGroup, line, new.cur)
<1> DEFINE A == {l.agent : l \in L}
           R == [allow : BOOLEAN, pattern : {l.pattern : l \in {m \in L : IsPathRule(m)}}]
<1>1. old.cur.agents \in Seq(A) /\ old.cur.rules \in Seq(R)
  <2>1. old.cur \in GroupsOf(L)
    BY DEF StatesOf
  <2> HIDE DEF A, R
  <2> QED  BY <2>1 DEF GroupsOf, A, R
<1>2. Range(<<>>) = {}
  BY DEF Range
<1>3. NoGroup.agents = <<>> /\ NoGroup.rules = <<>>
  BY DEF NoGroup
<1>4. CASE IsAgentLine(line)
  <2>1. new = AgentLine(old, line.agent) /\ ~IsPathRule(line)
    BY <1>4 DEF Reads, IsAgentLine, IsPathRule
  <2>2. CASE old.ruled
    <3>1. /\ new.groups = Close(old).groups
          /\ new.cur.agents = <<line.agent>> /\ new.cur.rules = <<>>
      BY <2>1, <2>2, AgentLineDoes
    <3>2. Close(old).groups = Append(old.groups, old.cur)
      BY <2>2, CloseType
    <3>3. Range(<<line.agent>>) = {line.agent}
      BY DEF Range
    <3> QED  BY <1>2, <1>3, <1>4, <2>1, <2>2, <3>1, <3>2, <3>3, Zenon DEF Adds
  <2>3. CASE ~old.ruled
    <3>1. /\ new.groups = old.groups
          /\ new.cur.agents = Append(old.cur.agents, line.agent)
          /\ new.cur.rules = old.cur.rules
      BY <2>1, <2>3, AgentLineDoes
    <3>2. Range(new.cur.agents) = Range(old.cur.agents) \cup {line.agent}
      <4>1. line.agent \in A
        OBVIOUS
      <4> HIDE DEF A
      <4> QED  BY <1>1, <3>1, <4>1, AppendRange
    <3> QED  BY <1>4, <2>1, <3>1, <3>2 DEF Adds
  <2> QED  BY <2>2, <2>3
<1>5. CASE IsPathRule(line)
  <2>1. /\ new.groups = old.groups /\ new.cur.agents = old.cur.agents
        /\ new.cur.rules = Append(old.cur.rules, RuleOf(line))
    BY <1>5, RuleLineDoes DEF Reads
  <2>2. Range(new.cur.rules) = Range(old.cur.rules) \cup {RuleOf(line)}
    <3>1. RuleOf(line) \in R
      BY <1>5 DEF RuleOf
    <3> HIDE DEF R
    <3> QED  BY <1>1, <2>1, <3>1, AppendRange
  <2>3. ~IsAgentLine(line)
    BY <1>5 DEF IsAgentLine, IsPathRule
  <2> QED  BY <1>5, <2>1, <2>2, <2>3 DEF Adds
<1>6. CASE line.field = "crawl-delay"
  <2>1. /\ new.groups = old.groups /\ new.cur.agents = old.cur.agents
        /\ new.cur.rules = old.cur.rules
    <3>1. new = DelayLine(old, line.secs) /\ line.secs \in Nat \cup {NoDelay}
      BY <1>6 DEF Reads, DelaysAreNumbers
    <3> QED  BY <3>1, DelayLineDoes
  <2>2. ~IsAgentLine(line) /\ ~IsPathRule(line)
    BY <1>6 DEF IsAgentLine, IsPathRule
  <2> QED  BY <2>1, <2>2 DEF Adds
<1>7. CASE ~IsAgentLine(line) /\ ~IsRule(line)
  <2>1. new = old /\ ~IsPathRule(line)
    BY <1>7 DEF Reads, IsRule
  <2> QED  BY <1>7, <2>1 DEF Adds
<1> QED  BY <1>4, <1>5, <1>6, <1>7 DEF IsRule

(* Every group is what its lines say. *)
Holding(st, text, n) ==
  \A i \in 1..At(st, n) : /\ Range(All(st, n)[i].agents) = AgentsIn(st, text, n, i)
                          /\ Range(All(st, n)[i].rules) = RulesIn(st, text, n, i)

LEMMA AllHolds ==
  ASSUME NEW L, NEW text \in Seq(L), NEW st, ParseUpto(st, text, L), NEW n \in 0..Len(text)
  PROVE  /\ All(st, n) \in Seq(GroupsOf(L)) /\ Len(All(st, n)) = At(st, n)
         /\ \A i \in 1..Len(st[n].groups) : All(st, n)[i] = st[n].groups[i]
         /\ All(st, n)[At(st, n)] = st[n].cur
<1>1. PICK gs, cur : gs = st[n].groups /\ cur = st[n].cur
  OBVIOUS
<1>2. gs \in Seq(GroupsOf(L)) /\ cur \in GroupsOf(L)
  BY <1>1 DEF ParseUpto, StatesOf
<1>3. /\ Append(gs, cur) \in Seq(GroupsOf(L)) /\ Len(Append(gs, cur)) = Len(gs) + 1
      /\ \A i \in 1..Len(gs) : Append(gs, cur)[i] = gs[i]
      /\ Append(gs, cur)[Len(gs) + 1] = cur
  BY <1>2
<1> QED  BY <1>1, <1>3, Zenon DEF All, At

LEMMA GroupsHold ==
  ASSUME NEW L, DelaysAreNumbers(L), NEW text \in Seq(L), NEW st, ParseUpto(st, text, L)
  PROVE  \A n \in 0..Len(text) : Holding(st, text, n)
<1> DEFINE N == Len(text)
           good == {n \in Nat : n <= N => Holding(st, text, n)}
<1>1. N \in Nat
  OBVIOUS
<1>2. 0 \in good
  <2>1. st[0].groups = <<>> /\ st[0].cur = NoGroup
    BY DEF ParseUpto, Start
  <2>2. At(st, 0) = 1 /\ \A i \in 1..1 : i = 1
    BY <2>1 DEF At
  <2>3. All(st, 0)[1] = NoGroup
    BY <2>1, <2>2, AllHolds
  <2>4. Range(NoGroup.agents) = {} /\ Range(NoGroup.rules) = {}
    BY DEF NoGroup, Range
  <2>5. \A i : AgentsIn(st, text, 0, i) = {} /\ RulesIn(st, text, 0, i) = {}
    BY DEF AgentsIn, RulesIn
  <2>6. Holding(st, text, 0)
    BY <2>2, <2>3, <2>4, <2>5, Zenon DEF Holding
  <2> QED  BY <2>6
<1>3. ASSUME NEW m \in Nat, m \in good PROVE m + 1 \in good
  <2>1. SUFFICES ASSUME m + 1 <= N PROVE Holding(st, text, m + 1)
    OBVIOUS
  <2>2. PICK n : n = m + 1
    OBVIOUS
  <2>3. n \in 1..N /\ n - 1 = m /\ m \in 0..N /\ n \in 0..N /\ text[n] \in L
    BY <2>1, <2>2
  <2>4. \A j \in 1..n : j \in 1..m \/ j = n
    BY <2>2
  <2>5. n \in 1..n /\ \A j \in 1..m : j \in 1..n
    BY <2>2
  <2>6. Holding(st, text, m)
    BY <1>3, <2>1
  <2>7. PICK line, old, new : line = text[n] /\ old = st[m] /\ new = st[n]
    OBVIOUS
  <2>8. old \in StatesOf(L) /\ Reads(old, line, new) /\ line \in L /\ (old.ruled => old.open)
    <3>1. st[m] \in StatesOf(L) /\ Reads(st[m], text[n], st[n])
      BY <2>3 DEF ParseUpto
    <3>2. st[m].ruled => st[m].open
      BY <2>3, FlagsHold DEF Flagged
    <3> QED  BY <2>3, <2>7, <3>1, <3>2
  <2>9. At(st, m) \in Nat \ {0} /\ At(st, n) \in Nat \ {0} /\ At(st, m) = Len(old.groups) + 1
        /\ At(st, n) = Len(new.groups) + 1
    BY <2>3, <2>7, FlagsHold DEF At
  <2>10. ASSUME NEW i
         PROVE  /\ AgentsIn(st, text, n, i) = AgentsIn(st, text, m, i) \cup
                     (IF IsAgentLine(line) /\ At(st, n) = i THEN {line.agent} ELSE {})
                /\ RulesIn(st, text, n, i) = RulesIn(st, text, m, i) \cup
                     (IF IsPathRule(line) /\ At(st, n) = i THEN {RuleOf(line)} ELSE {})
    <3>1. AgentsIn(st, text, n, i) = AgentsIn(st, text, m, i) \cup
            (IF IsAgentLine(line) /\ At(st, n) = i THEN {line.agent} ELSE {})
      BY <2>4, <2>5, <2>7 DEF AgentsIn
    <3>2. RulesIn(st, text, n, i) = RulesIn(st, text, m, i) \cup
            (IF IsPathRule(line) /\ At(st, n) = i THEN {RuleOf(line)} ELSE {})
      BY <2>4, <2>5, <2>7 DEF RulesIn
    <3> QED  BY <3>1, <3>2
  <2>11. Len(old.groups) \in Nat
    BY <2>8 DEF StatesOf
  <2>12. /\ \A i \in 1..Len(old.groups) : All(st, m)[i] = old.groups[i]
         /\ All(st, m)[At(st, m)] = old.cur
         /\ \A i \in 1..Len(new.groups) : All(st, n)[i] = new.groups[i]
         /\ All(st, n)[At(st, n)] = new.cur
    BY <2>3, <2>7, AllHolds
  <2>13. CASE new.groups = old.groups /\ Adds(old.cur, line, new.cur)
    <3>1. At(st, n) = At(st, m)
      BY <2>9, <2>13
    <3>2. SUFFICES ASSUME NEW i \in 1..At(st, m + 1)
                   PROVE  /\ Range(All(st, m + 1)[i].agents) = AgentsIn(st, text, m + 1, i)
                          /\ Range(All(st, m + 1)[i].rules) = RulesIn(st, text, m + 1, i)
      BY DEF Holding
    <3>3. i \in 1..At(st, m) /\ (i = At(st, n) \/ i \in 1..Len(old.groups))
      BY <2>2, <2>9, <2>11, <3>1
    <3>4. /\ Range(All(st, m)[i].agents) = AgentsIn(st, text, m, i)
          /\ Range(All(st, m)[i].rules) = RulesIn(st, text, m, i)
      BY <2>6, <3>3 DEF Holding
    <3>5. CASE i = At(st, n)
      <4>1. All(st, m)[i] = old.cur /\ All(st, n)[i] = new.cur
        BY <2>12, <3>1, <3>5, Zenon
      <4> QED  BY <2>2, <2>10, <2>13, <3>4, <3>5, <4>1, Zenon DEF Adds
    <3>6. CASE i # At(st, n)
      <4>1. All(st, n)[i] = All(st, m)[i]
        BY <2>12, <2>13, <3>3, <3>6
      <4>2. AgentsIn(st, text, n, i) = AgentsIn(st, text, m, i)
            /\ RulesIn(st, text, n, i) = RulesIn(st, text, m, i)
        BY <2>10, <3>6
      <4> QED  BY <2>2, <3>4, <4>1, <4>2, Zenon
    <3> QED  BY <3>5, <3>6
  <2>14. CASE new.groups = Append(old.groups, old.cur) /\ Adds(NoGroup, line, new.cur)
    <3>1. /\ Len(new.groups) = At(st, m)
          /\ \A i \in 1..Len(old.groups) : new.groups[i] = old.groups[i]
          /\ new.groups[At(st, m)] = old.cur
      <4>1. PICK gs, cur : gs = old.groups /\ cur = old.cur
        OBVIOUS
      <4>2. gs \in Seq(GroupsOf(L)) /\ cur \in GroupsOf(L)
        BY <2>8, <4>1 DEF StatesOf
      <4>3. /\ Len(Append(gs, cur)) = Len(gs) + 1
            /\ \A i \in 1..Len(gs) : Append(gs, cur)[i] = gs[i]
            /\ Append(gs, cur)[Len(gs) + 1] = cur
        BY <4>2
      <4> QED  BY <2>9, <2>14, <4>1, <4>3, Zenon
    <3>2. At(st, n) = At(st, m) + 1
      BY <2>9, <3>1
    <3>3. SUFFICES ASSUME NEW i \in 1..At(st, m + 1)
                   PROVE  /\ Range(All(st, m + 1)[i].agents) = AgentsIn(st, text, m + 1, i)
                          /\ Range(All(st, m + 1)[i].rules) = RulesIn(st, text, m + 1, i)
      BY DEF Holding
    <3>4. CASE i = At(st, n)
      <4>1. AgentsIn(st, text, m, i) = {} /\ RulesIn(st, text, m, i) = {}
        <5>1. \A j \in 1..m : At(st, j) # i
          <6>1. \A j \in 1..m : j \in 0..m /\ j \in 0..N
            BY <2>1, <1>1
          <6>2. \A j \in 1..m : At(st, j) \in Nat /\ At(st, j) <= At(st, m)
            BY <2>3, <6>1, FlagsHold DEF Flagged
          <6> QED  BY <2>9, <3>2, <3>4, <6>2
        <5> QED  BY <5>1 DEF AgentsIn, RulesIn
      <4>2. Range(NoGroup.agents) = {} /\ Range(NoGroup.rules) = {}
        BY DEF NoGroup, Range
      <4>3. All(st, n)[i] = new.cur
        BY <2>12, <3>4
      <4> QED  BY <2>2, <2>10, <2>14, <3>4, <4>1, <4>2, <4>3, Zenon DEF Adds
    <3>5. CASE i # At(st, n)
      <4>1. i \in 1..At(st, m) /\ i \in 1..Len(new.groups)
            /\ (i = At(st, m) \/ i \in 1..Len(old.groups))
        BY <2>2, <2>9, <2>11, <3>1, <3>2, <3>5
      <4>2. All(st, n)[i] = All(st, m)[i]
        BY <2>12, <3>1, <4>1, Zenon
      <4>3. /\ Range(All(st, m)[i].agents) = AgentsIn(st, text, m, i)
            /\ Range(All(st, m)[i].rules) = RulesIn(st, text, m, i)
        BY <2>6, <4>1 DEF Holding
      <4>4. AgentsIn(st, text, n, i) = AgentsIn(st, text, m, i)
            /\ RulesIn(st, text, n, i) = RulesIn(st, text, m, i)
        BY <2>10, <3>5
      <4> QED  BY <2>2, <4>2, <4>3, <4>4, Zenon
    <3> QED  BY <3>4, <3>5
  <2>15. Holding(st, text, m + 1)
    <3>1. \/ new.groups = old.groups /\ Adds(old.cur, line, new.cur)
          \/ new.groups = Append(old.groups, old.cur) /\ Adds(NoGroup, line, new.cur)
      BY <2>8, LineAdds
    <3> QED  BY <2>13, <2>14, <3>1 DEF Holding
  <2> QED  BY <2>15
<1>4. \A n \in Nat : n \in good
  <2> HIDE DEF good
  <2> QED  BY <1>2, <1>3, Induction
<1> QED  BY <1>4

----------------------------------------------------------------------------
(* The choice of a group.  The groups of a text are those that its lines
   open, and an agent is named by the groups of the lines that name it. *)
Groups(text, st, L) ==
  /\ ParseUpto(st, text, L)
  /\ Parse(text) \in Seq(GroupsOf(L))
  /\ \A j \in DOMAIN text : IsAgentLine(text[j]) => At(st, j) \in DOMAIN Parse(text)
  /\ \A i \in DOMAIN Parse(text) :
       /\ Range(Parse(text)[i].agents) = AgentsIn(st, text, Len(text), i)
       /\ Range(Parse(text)[i].rules) = RulesIn(st, text, Len(text), i)

LEMMA ParseHolds ==
  ASSUME NEW L, DelaysAreNumbers(L), NEW text \in Seq(L)
  PROVE  \E st : Groups(text, st, L)
<1> DEFINE N == Len(text)
<1>1. N \in Nat /\ N \in 0..N /\ DOMAIN text = 1..N /\ \A j \in 1..N : j \in 0..N
  OBVIOUS
<1>2. PICK st : ParseUpto(st, text, L) /\ Parse(text) = Close(st[N]).groups
  BY ParseClimbs
<1>3. st[N] \in StatesOf(L)
  BY <1>1, <1>2 DEF ParseUpto
<1>4. Parse(text) = IF st[N].open THEN All(st, N) ELSE st[N].groups
  BY <1>2, <1>3, CloseType DEF All
<1>5. /\ ~st[N].open => /\ st[N].groups = <<>>
                        /\ \A j \in 1..N : ~IsAgentLine(text[j])
      /\ \A j \in 1..N : At(st, j) <= At(st, N)
      /\ \A j \in 0..N : At(st, j) \in Nat \ {0}
  <2> HIDE DEF N
  <2> QED  BY <1>1, <1>2, FlagsHold DEF Flagged, N
<1>6. CASE ~st[N].open
  <2>1. Parse(text) = <<>> /\ \A j \in 1..N : ~IsAgentLine(text[j])
    BY <1>4, <1>5, <1>6
  <2>2. Parse(text) \in Seq(GroupsOf(L)) /\ DOMAIN Parse(text) = {}
    BY <2>1
  <2> QED  BY <1>1, <1>2, <2>1, <2>2, Zenon DEF Groups
<1>7. CASE st[N].open
  <2>1. Parse(text) = All(st, N)
    BY <1>4, <1>7
  <2>2. PICK gs : gs = All(st, N)
    OBVIOUS
  <2>3. gs \in Seq(GroupsOf(L)) /\ Len(gs) = At(st, N)
    BY <1>1, <1>2, <2>2, AllHolds
  <2>4. DOMAIN gs = 1..At(st, N)
    BY <2>3
  <2>5. \A j \in 1..N : At(st, j) \in 1..At(st, N)
    BY <1>1, <1>5
  <2>6. Holding(st, text, N)
    BY <1>1, <1>2, GroupsHold
  <2> QED  BY <1>1, <1>2, <2>1, <2>2, <2>3, <2>4, <2>5, <2>6, Zenon DEF Groups, Holding
<1> QED  BY <1>6, <1>7

LEMMA NamingHolds ==
  ASSUME NEW L, NEW text \in Seq(L), NEW st, Groups(text, st, L), NEW names
  PROVE  Naming(Parse(text), names) = {At(st, a) : a \in AgentLines(text, names)}
<1>1. DOMAIN text = 1..Len(text)
  OBVIOUS
<1>2. ASSUME NEW i \in Naming(Parse(text), names)
      PROVE  \E a \in AgentLines(text, names) : i = At(st, a)
  <2>1. i \in DOMAIN Parse(text) /\ Range(Parse(text)[i].agents) \cap names # {}
    BY Zenon DEF Naming
  <2>2. Range(Parse(text)[i].agents) = AgentsIn(st, text, Len(text), i)
    BY <2>1 DEF Groups
  <2>3. PICK x \in AgentsIn(st, text, Len(text), i) : x \in names
    BY <2>1, <2>2
  <2>4. PICK a \in 1..Len(text) : IsAgentLine(text[a]) /\ At(st, a) = i /\ text[a].agent = x
    BY <2>3 DEF AgentsIn
  <2> QED  BY <1>1, <2>3, <2>4 DEF AgentLines
<1>3. ASSUME NEW a \in AgentLines(text, names) PROVE At(st, a) \in Naming(Parse(text), names)
  <2>1. a \in 1..Len(text) /\ a \in DOMAIN text /\ IsAgentLine(text[a]) /\ text[a].agent \in names
    BY <1>1 DEF AgentLines
  <2>2. At(st, a) \in DOMAIN Parse(text)
    BY <2>1 DEF Groups
  <2>3. Range(Parse(text)[At(st, a)].agents) = AgentsIn(st, text, Len(text), At(st, a))
    BY <2>2 DEF Groups
  <2>4. text[a].agent \in AgentsIn(st, text, Len(text), At(st, a))
    BY <2>1, Zenon DEF AgentsIn
  <2>5. Range(Parse(text)[At(st, a)].agents) \cap names # {}
    BY <2>1, <2>3, <2>4, Zenon
  <2> QED  BY <2>2, <2>5, Zenon DEF Naming
<1> QED  BY <1>2, <1>3

(* The rules of the group of the only line that names one of some agents are
   those that are for these agents. *)
LEMMA RulesOfLine ==
  ASSUME NEW L, NEW text \in Seq(L), NEW st, Groups(text, st, L), NEW names,
         NEW a \in AgentLines(text, names), \A b \in AgentLines(text, names) : b = a
  PROVE  RulesIn(st, text, Len(text), At(st, a)) = {RuleOf(l) : l \in RulesFor(text, names)}
<1> DEFINE N == Len(text)
           below == {n \in DOMAIN text : IsPathRule(text[n]) /\ a < n /\ ~Apart(text, a, n)}
           inside == {n \in 1..N : IsPathRule(text[n]) /\ At(st, n) = At(st, a)}
<1>1. DOMAIN text = 1..N /\ N \in Nat /\ a \in 1..N /\ IsAgentLine(text[a]) /\ ParseUpto(st, text, L)
  BY DEF AgentLines, Groups
<1>2. ASSUME NEW n \in 1..N, IsPathRule(text[n])
      PROVE  At(st, n) = At(st, a) <=> a < n /\ ~Apart(text, a, n)
  <2>1. IsRule(text[n])
    BY <1>2 DEF IsRule
  <2>2. At(st, n) = At(st, a) => a < n
    BY <1>1, <2>1, RulesAreBelow
  <2>3. ASSUME a < n PROVE At(st, n) = At(st, a) <=> ~Apart(text, a, n)
    <3>1. n \in a..N
      BY <1>1, <2>3
    <3>2. Together(st, text, a, n)
      BY <1>1, <3>1, TogetherHolds
    <3> QED  BY <3>2, Zenon DEF Together
  <2> QED  BY <2>2, <2>3, Zenon
<1>3. inside = below
  BY <1>1, <1>2
<1>4. RulesFor(text, names) = {text[i] : i \in below}
  <2>1. \A n \in DOMAIN text : (\E b \in AgentLines(text, names) : b < n /\ ~Apart(text, b, n))
                               <=> (a < n /\ ~Apart(text, a, n))
    BY Zenon
  <2>2. {n \in DOMAIN text : IsPathRule(text[n]) /\
           \E b \in AgentLines(text, names) : b < n /\ ~Apart(text, b, n)} = below
    BY <2>1, Zenon
  <2> QED  BY <2>2, Zenon DEF RulesFor
<1>5. RulesIn(st, text, N, At(st, a)) = {RuleOf(text[j]) : j \in inside}
  BY Zenon DEF RulesIn
<1> HIDE DEF inside, below
<1>6. {RuleOf(text[j]) : j \in below} = {RuleOf(l) : l \in {text[i] : i \in below}}
  OBVIOUS
<1> QED  BY <1>3, <1>4, <1>5, <1>6, Zenon

(* Whose rules are asked. *)
Addressed(text) == IF AgentLines(text, OwnTokens) # {} THEN OwnTokens ELSE {AnyAgent}

LEMMA GroupIsRight ==
  ASSUME NEW L, DelaysAreNumbers(L), NEW text \in Seq(L),
         \A names \in {OwnTokens, {AnyAgent}} : \A i, j \in AgentLines(text, names) : i = j
  PROVE  /\ GroupFor(Parse(text)) \in GroupsOf(L)
         /\ Range(GroupFor(Parse(text)).rules) = {RuleOf(l) : l \in RulesFor(text, Addressed(text))}
<1>1. PICK st : Groups(text, st, L)
  BY ParseHolds
<1>2. PICK gs : gs = Parse(text)
  OBVIOUS
<1>3. \A names : Naming(gs, names) = {At(st, a) : a \in AgentLines(text, names)}
  BY <1>1, <1>2, NamingHolds
<1>4. ASSUME NEW names \in {OwnTokens, {AnyAgent}}, NEW a \in AgentLines(text, names)
      PROVE  /\ Naming(gs, names) = {At(st, a)}
             /\ gs[At(st, a)] \in GroupsOf(L)
             /\ Range(gs[At(st, a)].rules) = {RuleOf(l) : l \in RulesFor(text, names)}
  <2>1. \A b \in AgentLines(text, names) : b = a
    OBVIOUS
  <2>2. Naming(gs, names) = {At(st, a)}
    BY <1>3, <2>1
  <2>3. At(st, a) \in DOMAIN gs
    BY <1>1, <1>2 DEF Groups, AgentLines
  <2>4. gs[At(st, a)] \in GroupsOf(L)
    <3>1. gs \in Seq(GroupsOf(L))
      BY <1>1, <1>2 DEF Groups
    <3> QED  BY <2>3, <3>1
  <2>5. Range(gs[At(st, a)].rules) = RulesIn(st, text, Len(text), At(st, a))
    BY <1>1, <1>2, <2>3, Zenon DEF Groups
  <2>6. RulesIn(st, text, Len(text), At(st, a)) = {RuleOf(l) : l \in RulesFor(text, names)}
    BY <1>1, <2>1, RulesOfLine
  <2> QED  BY <2>2, <2>4, <2>5, <2>6, Zenon
<1>5. \A a : At(st, a) <= At(st, a) => (CHOOSE i \in {At(st, a)} : \A j \in {At(st, a)} : i <= j) = At(st, a)
  OBVIOUS
<1>6. \A a : At(st, a) >= At(st, a) => (CHOOSE i \in {At(st, a)} : \A j \in {At(st, a)} : i >= j) = At(st, a)
  OBVIOUS
<1>7. \A names : \A a \in AgentLines(text, names) : At(st, a) \in Nat
  <2>1. \A names : AgentLines(text, names) \subseteq 0..Len(text)
    BY DEF AgentLines
  <2> QED  BY <1>1, <2>1, FlagsHold DEF Groups
<1>8. CASE AgentLines(text, OwnTokens) # {}
  <2>1. PICK a \in AgentLines(text, OwnTokens) : TRUE
    BY <1>8
  <2>2. Naming(gs, OwnTokens) = {At(st, a)} /\ At(st, a) <= At(st, a)
    BY <1>4, <1>7
  <2>3. GroupFor(gs) = gs[CHOOSE i \in {At(st, a)} : \A j \in {At(st, a)} : i <= j]
    <3>1. {At(st, a)} # {}
      OBVIOUS
    <3> QED  BY <2>2, <3>1, Zenon DEF GroupFor
  <2>4. GroupFor(gs) = gs[At(st, a)]
    BY <1>5, <2>2, <2>3, Zenon
  <2> QED  BY <1>2, <1>4, <1>8, <2>4, Zenon DEF Addressed
<1>9. CASE AgentLines(text, OwnTokens) = {} /\ AgentLines(text, {AnyAgent}) # {}
  <2>1. PICK a \in AgentLines(text, {AnyAgent}) : TRUE
    BY <1>9
  <2>2. Naming(gs, {AnyAgent}) = {At(st, a)} /\ At(st, a) >= At(st, a) /\ Naming(gs, OwnTokens) = {}
    <3>1. Naming(gs, {AnyAgent}) = {At(st, a)}
      BY <1>4, Zenon
    <3>3. At(st, a) >= At(st, a)
      <4>1. At(st, a) \in Nat
        BY <1>7, Zenon
      <4> QED  BY <4>1
    <3>2. Naming(gs, OwnTokens) = {}
      BY <1>3, <1>9
    <3> QED  BY <3>1, <3>2, <3>3, Zenon
  <2>3. GroupFor(gs) = gs[CHOOSE i \in {At(st, a)} : \A j \in {At(st, a)} : i >= j]
    <3>1. {At(st, a)} # {}
      OBVIOUS
    <3> QED  BY <2>2, <3>1, Zenon DEF GroupFor
  <2>4. GroupFor(gs) = gs[At(st, a)]
    BY <1>6, <2>2, <2>3, Zenon
  <2> QED  BY <1>2, <1>4, <1>9, <2>4, Zenon DEF Addressed
<1>10. CASE AgentLines(text, OwnTokens) = {} /\ AgentLines(text, {AnyAgent}) = {}
  <2>1. Naming(gs, {AnyAgent}) = {} /\ Naming(gs, OwnTokens) = {}
    BY <1>3, <1>10
  <2>2. GroupFor(gs) = NoGroup
    BY <2>1, Zenon DEF GroupFor
  <2>3. Range(NoGroup.rules) = {}
    BY DEF NoGroup, Range
  <2>4. RulesFor(text, Addressed(text)) = {}
    BY <1>10 DEF RulesFor, Addressed
  <2> QED  BY <1>2, <2>2, <2>3, <2>4, NoGroupType
<1> QED  BY <1>8, <1>9, <1>10

(***************************************************************************)
(* For every text of typed lines, every path and every pattern without     *)
(* both a `*' and a final `$', the code judges as the file means.          *)
(***************************************************************************)
LEMMA JudgedRight ==
  ASSUME NEW text \in Seq(DraftLines), OneGroupEach(text), EndsAreWhole(text),
         NEW path \in Paths
  PROVE  Allowed(Parse(text), path) = MeansAllowed(text, path)
<1> DEFINE lines == RulesFor(text, Addressed(text))
           R == [allow : BOOLEAN, pattern : {l.pattern : l \in {m \in DraftLines : IsPathRule(m)}}]
           size(pat) == IF Fits(pat, path) THEN LiteralLen(pat) ELSE NoMatch
<1>1. path \in Seq(Chars) /\ DelaysAreNumbers(DraftLines)
  BY DraftAssumption DEF DelaysAreNumbers
<1>2. PICK rules : rules = GroupFor(Parse(text)).rules
  OBVIOUS
<1>3. rules \in Seq(R) /\ Range(rules) = {RuleOf(l) : l \in lines}
  <2>1. /\ GroupFor(Parse(text)) \in GroupsOf(DraftLines)
        /\ Range(GroupFor(Parse(text)).rules) = {RuleOf(l) : l \in lines}
    BY <1>1, GroupIsRight, Zenon DEF OneGroupEach
  <2> HIDE DEF R, lines
  <2> QED  BY <1>2, <2>1 DEF GroupsOf, R
<1>4. ASSUME NEW l \in lines
      PROVE  /\ l.field = "allow" \/ l.field = "disallow"
             /\ PatternMatchLen(l.pattern, path) = size(l.pattern) /\ LiteralLen(l.pattern) \in Nat
             /\ RuleOf(l).pattern = l.pattern
             /\ RuleOf(l).allow <=> l.field = "allow"
  <2>1. PICK n \in DOMAIN text : l = text[n] /\ IsPathRule(text[n])
    BY <1>4 DEF RulesFor
  <2>2. l \in DraftLines
    BY <2>1
  <2>3. l.pattern \in Patterns
    BY <2>1, <2>2, DraftAssumption
  <2>4. Simple(l.pattern)
    BY <2>1, Zenon DEF EndsAreWhole, Simple
  <2>5. PatternMatchLen(l.pattern, path) = size(l.pattern) /\ LiteralLen(l.pattern) \in Nat
    BY <1>1, <2>3, <2>4, MatcherIsRight, LiteralIsNat, Zenon
  <2>6. l.field = "allow" \/ l.field = "disallow"
    BY <2>1 DEF IsPathRule
  <2>7. RuleOf(l).pattern = l.pattern /\ (RuleOf(l).allow <=> l.field = "allow")
    BY DEF RuleOf
  <2> QED  BY <2>5, <2>6, <2>7, Zenon
<1> DEFINE T == {RuleOf(l) : l \in lines}
<1>5. PICK len : len = [r \in T |-> PatternMatchLen(r.pattern, path)]
  OBVIOUS
<1>6. rules \in Seq(T)
  <2>1. rules \in Seq(Range(rules))
    <3> HIDE DEF R, lines
    <3> QED  BY <1>3, SeqOfRange
  <2> QED  BY <1>3, <2>1, Zenon
<1>7. \A l \in lines : len[RuleOf(l)] = size(l.pattern)
  <2>1. \A l \in lines : RuleOf(l) \in T
    OBVIOUS
  <2>2. \A l \in lines : len[RuleOf(l)] = PatternMatchLen(RuleOf(l).pattern, path)
    <3> HIDE DEF T, lines
    <3> QED  BY <1>5, <2>1
  <2> HIDE DEF T, lines, size
  <2> QED  BY <1>4, <2>2
<1>8. \A r \in T : /\ r.allow \in BOOLEAN
                   /\ len[r] = PatternMatchLen(r.pattern, path)
                   /\ len[r] = NoMatch \/ len[r] \in Nat
  <2>1. TAKE r \in T
  <2>2. PICK l \in lines : r = RuleOf(l)
    OBVIOUS
  <2>3. r.allow \in BOOLEAN
    BY <2>2 DEF RuleOf
  <2>4. len[r] = PatternMatchLen(r.pattern, path)
    <3> HIDE DEF T
    <3> QED  BY <1>5
  <2>5. len[r] = size(l.pattern)
    BY <1>7, <2>2
  <2>6. size(l.pattern) = NoMatch \/ size(l.pattern) \in Nat
    BY <1>4, Zenon
  <2> QED  BY <2>3, <2>4, <2>5, <2>6, Zenon
<1>9. Best(rules, path).allow <=>
        \A d \in T : ~d.allow /\ len[d] # NoMatch =>
          \E a \in T : a.allow /\ len[a] # NoMatch /\ len[a] >= len[d]
  <2>1. Range(rules) = T
    BY <1>3
  <2> HIDE DEF T
  <2> QED  BY <1>6, <1>8, <2>1, BestDecides
<1>10. \A l \in lines : len[RuleOf(l)] # NoMatch <=> Fits(l.pattern, path)
  <2>1. \A l \in lines : LiteralLen(l.pattern) # NoMatch
    BY <1>4 DEF NoMatch
  <2> QED  BY <1>7, <2>1, Zenon
<1>11. \A l \in lines : Fits(l.pattern, path) => len[RuleOf(l)] = LiteralLen(l.pattern)
  BY <1>7, Zenon
<1>12. Best(rules, path).allow <=>
         \A d \in lines : d.field = "disallow" /\ Fits(d.pattern, path) =>
           \E a \in lines : /\ a.field = "allow" /\ Fits(a.pattern, path)
                            /\ LiteralLen(a.pattern) >= LiteralLen(d.pattern)
  <2>1. Best(rules, path).allow <=>
          \A d \in lines : ~RuleOf(d).allow /\ len[RuleOf(d)] # NoMatch =>
            \E a \in lines : /\ RuleOf(a).allow /\ len[RuleOf(a)] # NoMatch
                             /\ len[RuleOf(a)] >= len[RuleOf(d)]
    <3>1. \A r : r \in T <=> \E l \in lines : r = RuleOf(l)
      BY Zenon
    <3> HIDE DEF T, lines
    <3> QED  BY <1>9, <3>1, Zenon
  <2>2. \A l \in lines : RuleOf(l).allow <=> l.field = "allow"
    BY <1>4, Zenon
  <2>3. \A l \in lines : ~RuleOf(l).allow <=> l.field = "disallow"
    <3>1. "allow" # "disallow"
      OBVIOUS
    <3> QED  BY <1>4, <3>1, Zenon
  <2> HIDE DEF T, lines, size, R
  <2> QED  BY <1>10, <1>11, <2>1, <2>2, <2>3, Zenon
<1>13. Allowed(Parse(text), path) = Best(rules, path).allow
  BY <1>2, Zenon DEF Allowed
<1>14. MeansAllowed(text, path) <=>
         \A d \in lines : d.field = "disallow" /\ Fits(d.pattern, path) =>
           \E a \in lines : /\ a.field = "allow" /\ Fits(a.pattern, path)
                            /\ LiteralLen(a.pattern) >= LiteralLen(d.pattern)
  <2> DEFINE lens(field) == {LiteralLen(r.pattern) :
                               r \in {q \in lines : q.field = field /\ Fits(q.pattern, path)}}
  <2>1. PICK D, A : D = lens("disallow") /\ A = lens("allow")
    OBVIOUS
  <2>2. MeansAllowed(text, path) <=> \A d \in D : \E a \in A : a >= d
    BY <2>1, Zenon DEF MeansAllowed, Addressed
  <2>3. \A n : n \in D <=>
          \E r \in lines : r.field = "disallow" /\ Fits(r.pattern, path) /\ n = LiteralLen(r.pattern)
    <3> HIDE DEF lines
    <3> QED  BY <2>1
  <2>4. \A n : n \in A <=>
          \E r \in lines : r.field = "allow" /\ Fits(r.pattern, path) /\ n = LiteralLen(r.pattern)
    <3> HIDE DEF lines
    <3> QED  BY <2>1
  <2> HIDE DEF lens, lines
  <2>5. ASSUME NEW m
        PROVE  (\E a \in A : a >= m) <=>
                 \E a \in lines : /\ a.field = "allow" /\ Fits(a.pattern, path)
                                  /\ LiteralLen(a.pattern) >= m
    BY <2>4
  <2>6. (\A d \in D : \E a \in A : a >= d) <=>
          \A d \in lines : d.field = "disallow" /\ Fits(d.pattern, path) =>
            \E a \in A : a >= LiteralLen(d.pattern)
    BY <2>3
  <2> QED  BY <2>2, <2>5, <2>6, Zenon
<1>15. Best(rules, path).allow \in BOOLEAN /\ MeansAllowed(text, path) \in BOOLEAN
  <2>1. Best(rules, path) \in T \cup {NoRule}
    <3>1. PICK best : BestUpto(best, Len(rules), rules, path) /\ Best(rules, path) = best[Len(rules)]
      BY <1>6, BestClimbs
    <3> DEFINE in == {n \in Nat : n <= Len(rules) => best[n] \in T \cup {NoRule}}
    <3>2. Len(rules) \in Nat /\ \A i \in 1..Len(rules) : rules[i] \in T
      <4> HIDE DEF T
      <4> QED  BY <1>6
    <3>3. 0 \in in
      BY <3>1, Zenon DEF BestUpto
    <3>4. ASSUME NEW n \in Nat, n \in in PROVE n + 1 \in in
      <4>1. SUFFICES ASSUME n + 1 <= Len(rules) PROVE best[n + 1] \in T \cup {NoRule}
        OBVIOUS
      <4>2. n + 1 \in 1..Len(rules) /\ (n + 1) - 1 = n /\ best[n] \in T \cup {NoRule}
        <5> HIDE DEF T
        <5> QED  BY <3>2, <3>4, <4>1
      <4>3. best[n + 1] = rules[n + 1] \/ best[n + 1] = best[n]
        <5>1. best[n + 1] = IF Better(rules[n + 1], best[(n + 1) - 1], path) THEN rules[n + 1]
                            ELSE best[(n + 1) - 1]
          BY <3>1, <4>2, Zenon DEF BestUpto
        <5> QED  BY <4>2, <5>1
      <4> HIDE DEF T
      <4> QED  BY <3>2, <4>2, <4>3
    <3>5. Len(rules) \in in
      <4> HIDE DEF in
      <4> QED  BY <3>2, <3>3, <3>4, Induction
    <3> QED  BY <3>1, <3>2, <3>5
  <2>2. NoRule.allow \in BOOLEAN
    BY DEF NoRule
  <2>3. Best(rules, path).allow \in BOOLEAN
    <3> HIDE DEF T
    <3> QED  BY <1>8, <2>1, <2>2
  <2> QED  BY <2>3 DEF MeansAllowed
<1> QED  BY <1>12, <1>13, <1>14, <1>15, Zenon

(* `JudgesAsMeant': whatever lines the author writes, robots.txt is judged as
   it means (Robots::parse, group_for, allowed and pattern_match_len). *)
THEOREM RobotsAreUnderstood == AuthorSpec => []JudgesAsMeant
<1>1. AuthorInit => draft \in Seq(DraftLines)
  BY DEF AuthorInit
<1>2. draft \in Seq(DraftLines) /\ [AuthorNext]_draft => (draft \in Seq(DraftLines))'
  BY DEF AuthorNext, WriteLine
<1>3. draft \in Seq(DraftLines) => JudgesAsMeant
  BY JudgedRight DEF JudgesAsMeant, JudgedAsMeant
<1> QED  BY <1>1, <1>2, <1>3, PTL DEF AuthorSpec

----------------------------------------------------------------------------
(* A crawl delay is a number of seconds or none. *)
LEMMA GroupType ==
  ASSUME NEW L, NEW gs \in Seq(GroupsOf(L))
  PROVE  GroupFor(gs) \in GroupsOf(L)
<1>1. DOMAIN gs = 1..Len(gs) /\ Len(gs) \in Nat /\ \A i \in DOMAIN gs : gs[i] \in GroupsOf(L)
  OBVIOUS
<1>2. PICK own, star : own = Naming(gs, OwnTokens) /\ star = Naming(gs, {AnyAgent})
  OBVIOUS
<1>3. /\ own \subseteq DOMAIN gs /\ star \subseteq DOMAIN gs
      /\ own \in SUBSET Nat /\ star \in SUBSET Nat /\ \A i \in star : i <= Len(gs)
  BY <1>1, <1>2 DEF Naming
<1>4. CASE own # {}
  <2>1. PICK i : i = CHOOSE m \in own : \A j \in own : m <= j
    OBVIOUS
  <2>2. i \in own
    BY <1>3, <1>4, <2>1, LeastNumber
  <2>3. GroupFor(gs) = gs[i]
    BY <1>2, <1>4, <2>1, Zenon DEF GroupFor
  <2> QED  BY <1>1, <1>3, <2>2, <2>3
<1>5. CASE own = {} /\ star # {}
  <2>1. PICK i : i = CHOOSE m \in star : \A j \in star : m >= j
    OBVIOUS
  <2>2. \E m \in star : \A j \in star : m >= j
    <3>1. PICK m \in star : \A j \in star : j <= m
      BY <1>1, <1>3, <1>5, GreatestNumber
    <3>2. \A j \in star : m >= j
      BY <1>3, <3>1
    <3> QED  BY <3>2
  <2>3. i \in star
    BY <2>1, <2>2
  <2>4. GroupFor(gs) = gs[i]
    BY <1>2, <1>5, <2>1, Zenon DEF GroupFor
  <2> QED  BY <1>1, <1>3, <2>3, <2>4
<1>6. CASE own = {} /\ star = {}
  <2>1. GroupFor(gs) = NoGroup
    BY <1>2, <1>6, Zenon DEF GroupFor
  <2> QED  BY <2>1, NoGroupType
<1> QED  BY <1>4, <1>5, <1>6

LEMMA DelayType == \A t \in AnyText : DelaySecs[t] \in Nat \cup {NoDelay}
<1>1. \A t \in AnyText : DelaySecs[t] = CrawlDelaySecs(RobotsOf[t])
  BY DEF DelaySecs
<1>2. \A t \in AnyText : RobotsOf[t] = IF t = Missing THEN AllowAll ELSE Parse(Lines[t])
  BY DEF RobotsOf
<1>3. ASSUME NEW L, NEW gs \in Seq(GroupsOf(L))
      PROVE  CrawlDelaySecs(gs) \in Nat \cup {NoDelay}
  <2>1. GroupFor(gs) \in GroupsOf(L)
    BY <1>3, GroupType
  <2> QED  BY <2>1 DEF CrawlDelaySecs, GroupsOf
<1>4. CrawlDelaySecs(AllowAll) \in Nat \cup {NoDelay}
  <2>1. AllowAll \in Seq(GroupsOf({}))
    BY DEF AllowAll
  <2> QED  BY <1>3, <2>1
<1>5. ASSUME NEW t \in Texts PROVE CrawlDelaySecs(Parse(Lines[t])) \in Nat \cup {NoDelay}
  <2>1. PICK text, L : text = Lines[t] /\ L = Range(text)
    OBVIOUS
  <2>2. text \in Seq(L) /\ DelaysAreNumbers(L)
    BY <2>1, LinesAssumption DEF DelaysAreNumbers
  <2>3. PICK st : Groups(text, st, L)
    BY <2>2, ParseHolds
  <2>4. Parse(text) \in Seq(GroupsOf(L))
    BY <2>3, Zenon DEF Groups
  <2> QED  BY <1>3, <2>1, <2>4
<1> QED  BY <1>1, <1>2, <1>4, <1>5 DEF AnyText

(* A product of natural numbers is one. *)
LEMMA Products == \A a, b \in Nat : a * b \in Nat
OBVIOUS

(* What is rounded up to whole seconds is no less than before. *)
LEMMA RoundsUp ==
  ASSUME NEW a \in Nat, NEW b \in Nat \ {0}
  PROVE  /\ (a + b - 1) \div b \in Nat
         /\ ((a + b - 1) \div b) * b >= a
<1> DEFINE n == a + b - 1
<1>1. n \in Nat /\ b \in Nat /\ b > 0
  OBVIOUS
<1>2. n \div b \in Int /\ n % b \in Int /\ n % b < b /\ n = b * (n \div b) + (n % b)
  BY <1>1
<1>3. n \div b \in Nat
  BY <1>1
<1>4. b * (n \div b) = (n \div b) * b
  BY <1>1, <1>3
<1>5. (n \div b) * b \in Nat
  BY <1>1, <1>3, Products
<1> QED  BY <1>1, <1>2, <1>3, <1>4, <1>5

----------------------------------------------------------------------------
(* Type correctness. *)

(* A caller in flight is on its way to a host, and returning is too. *)
LEMMA DelayIsNat ==
  ASSUME TypeOK, NEW c \in Callers, HasDelay(c)
  PROVE  Delay(c) \in Nat
<1>1. held[c] \in AnyText
  BY DEF TypeOK
<1>2. DelaySecs[held[c]] \in Nat
  BY <1>1, DelayType DEF HasDelay
<1>3. TicksPerSec \in Nat
  BY TimeAssumption
<1> QED  BY <1>2, <1>3, Products DEF Delay

(* The wait that a refused caller is told is a number of seconds, and ends
   no earlier than the delay does. *)
LEMMA RetryCoversDelay ==
  ASSUME TypeOK, NEW c \in Callers, pc[c] = "gate", TooSoon(c)
  PROVE  /\ RetryAfter(c) \in Nat
         /\ RetryAfter(c) * TicksPerSec \in Nat
         /\ asked[c] + RetryAfter(c) * TicksPerSec >= cache[Host(c)].last + Delay(c)
<1>1. Delay(c) \in Nat
  BY DelayIsNat DEF TypeOK
<1>2. Host(c) \in Hosts
  BY DEF TypeOK
<1>3. cache[Host(c)].last \in Int /\ asked[c] \in Nat
  BY <1>2, TimeAssumption DEF TypeOK, Entries, Times, Never
<1>4. Elapsed(c) = asked[c] - cache[Host(c)].last /\ Elapsed(c) < Delay(c)
  BY DEF Elapsed, TooSoon
<1>5. PICK a \in Nat : a = Delay(c) - Elapsed(c)
  BY <1>1, <1>3, <1>4
<1>6. RetryAfter(c) = (a + TicksPerSec - 1) \div TicksPerSec
  BY <1>5 DEF RetryAfter
<1>7. RetryAfter(c) \in Nat /\ RetryAfter(c) * TicksPerSec >= a
  BY <1>6, RoundsUp, TimeAssumption
<1>8. RetryAfter(c) * TicksPerSec \in Nat
  BY <1>7, Products, TimeAssumption
<1> QED  BY <1>1, <1>3, <1>4, <1>5, <1>7, <1>8

(* The types at the start. *)
LEMMA TypeInit == Init => TypeOK
BY TimeAssumption DEF Init, TypeOK, AnyText, Modes, Entries, NoEntry, Never, Places, NoRequest,
   Outcomes, Ended, NoRetry, NoReply, NoDelay, Times

(* What the parts of TypeOK say of a caller that returns. *)
LEMMA ReturnType ==
  ASSUME TypeOK, NEW c \in Callers, NEW r \in Outcomes, Return(c, r)
  PROVE  /\ pc' \in [Callers -> Places]
         /\ req' \in [Callers -> Requests \cup {NoRequest}]
         /\ \A d \in Callers : pc'[d] # "idle" => d # c /\ pc[d] # "idle" /\ Host(d)' = Host(d)
         /\ now' \in [Callers -> 0..clock] /\ asked' \in [Callers -> 0..clock]
         /\ held' \in [Callers -> AnyText]
         /\ \A d \in Callers : pc'[d] = "gate" => HasDelay(d)'
         /\ outcome' \in [Callers -> Outcomes]
BY DEF TypeOK, Return, Goto, DropRobots, Places, AnyText, Host, HasDelay, Times

(* The same of a caller that goes on to the GET. *)
LEMMA LetGoTypes ==
  ASSUME TypeOK, NEW c \in Callers, Goto(c, "get"), DropRobots(c)
  PROVE  /\ now' \in [Callers -> 0..clock] /\ asked' \in [Callers -> 0..clock]
         /\ held' \in [Callers -> AnyText]
         /\ \A d \in Callers : pc'[d] = "gate" => HasDelay(d)'
         /\ pc' \in [Callers -> Places]
BY TimeAssumption DEF TypeOK, Goto, DropRobots, Places, AnyText, HasDelay, Times

(* Every step keeps the types. *)
LEMMA TypeStep == TypeOK /\ [Next]_fetchVars => TypeOK'
<1> SUFFICES ASSUME TypeOK, [Next]_fetchVars PROVE TypeOK'
  OBVIOUS
<1>1. CASE Tick
  <2>1. clock \in Nat /\ clock' \in Times /\ 0..clock \subseteq 0..clock' /\ clock <= clock'
    BY <1>1, TimeAssumption DEF Tick, TypeOK, Times
  <2>2. now' \in [Callers -> 0..clock'] /\ asked' \in [Callers -> 0..clock']
    BY <1>1, <2>1 DEF Tick, TypeOK, callVars
  <2>3. lastLet' \in [Hosts -> 0..clock' \cup {Never}]
    BY <1>1, <2>1 DEF Tick, TypeOK, gateVars
  <2>4. inForce' \in [Hosts -> [AnyText -> 0..clock' \cup {Never}]]
    <3>1. \A h \in Hosts : inForce[h] \in [AnyText -> 0..clock' \cup {Never}]
      BY <2>1 DEF TypeOK
    <3> QED  BY <1>1, <3>1 DEF Tick, TypeOK
  <2>5. \A h \in Hosts : cache'[h].at <= clock' /\ cache'[h].last <= clock'
    <3>1. \A h \in Hosts : cache[h].at \in Int /\ cache[h].last \in Int
      BY TimeAssumption DEF TypeOK, Entries, Times, Never
    <3> QED  BY <1>1, <2>1, <3>1 DEF Tick, TypeOK, gateVars
  <2> QED  BY <1>1, <2>1, <2>2, <2>3, <2>4, <2>5
           DEF Tick, TypeOK, callVars, gateVars, Host, HasDelay
<1>2. ASSUME NEW h \in Hosts, NEW t \in AnyText, PublishRobots(h, t) PROVE TypeOK'
  BY <1>2 DEF PublishRobots, TypeOK, Times, callVars, gateVars, Host, HasDelay
<1>3. ASSUME NEW c \in Callers, NEW q \in Requests, Begin(c, q) PROVE TypeOK'
  <2>0. UNCHANGED <<netVars, gateVars, mode>>
    BY <1>3 DEF Begin
  <2>1. CASE \E r \in Outcomes : Return(c, r)
    BY <2>0, <2>1, ReturnType DEF TypeOK, netVars, gateVars
  <2>2. ASSUME q.url.host # NoHost, pc' = [pc EXCEPT ![c] = pc'[c]],
               pc'[c] \in Places \ {"gate"},
               req' = [req EXCEPT ![c] = q],
               outcome' = [outcome EXCEPT ![c] = Ended("none")], UNCHANGED <<now, asked, held>>
        PROVE  TypeOK'
    <3>1. q.url.host \in Hosts
      BY <2>2, SitesAssumption
    <3>2. outcome' \in [Callers -> Outcomes]
      BY <2>2 DEF TypeOK, Outcomes, Ended, NoRetry
    <3>3. pc' \in [Callers -> Places] /\ req' \in [Callers -> Requests \cup {NoRequest}]
      BY <2>2 DEF TypeOK
    <3>4. \A d \in Callers : pc'[d] # "idle" => Host(d)' \in Hosts
      BY <2>2, <3>1 DEF TypeOK, Host
    <3>5. \A d \in Callers : pc'[d] = "gate" => HasDelay(d)'
      BY <2>2 DEF TypeOK, HasDelay
    <3> QED  BY <2>0, <2>2, <3>2, <3>3, <3>4, <3>5 DEF TypeOK, netVars, gateVars
  <2>3. Ended("RenderNeeded") \in Outcomes /\ Ended("SoftFetch") \in Outcomes
    BY DEF Ended, Outcomes, NoRetry
  <2> QED  BY <1>3, <2>1, <2>2, <2>3 DEF Begin, Goto, Places, TypeOK
<1>4. ASSUME NEW c \in Callers, FindRobots(c) PROVE TypeOK'
  <2>1. now' \in [Callers -> 0..clock]
    BY <1>4, TimeAssumption DEF FindRobots, TypeOK, Times
  <2>2. held' \in [Callers -> AnyText]
    <3>1. Host(c) \in Hosts
      BY <1>4 DEF FindRobots, TypeOK
    <3>2. cache[Host(c)].robots \in AnyText
      BY <3>1 DEF TypeOK, Entries
    <3> QED  BY <1>4, <3>2 DEF FindRobots, TypeOK
  <2>0. /\ pc \in [Callers -> Places] /\ pc[c] = "robots"
        /\ \E place \in {"judge", "ask"} : pc' = [pc EXCEPT ![c] = place]
    BY <1>4 DEF FindRobots, TypeOK, Goto
  <2>3. pc' \in [Callers -> Places]
    BY <2>0 DEF Places
  <2>4. \A d \in Callers : pc'[d] # "idle" => pc[d] # "idle"
    BY <2>0
  <2>5. \A d \in Callers : pc'[d] = "gate" => HasDelay(d)'
    <3>1. ASSUME NEW d \in Callers, pc'[d] = "gate" PROVE d # c /\ held'[d] = held[d] /\ pc[d] = "gate"
      BY <1>4, <2>0, <3>1 DEF FindRobots, TypeOK
    <3> QED  BY <3>1 DEF TypeOK, HasDelay
  <2> QED  BY <1>4, <2>1, <2>2, <2>3, <2>4, <2>5 DEF FindRobots, TypeOK, Host, netVars, gateVars
<1>5. ASSUME NEW c \in Callers, NEW t \in AnyText, RobotsArrive(c, t) PROVE TypeOK'
  BY <1>5, TimeAssumption
  DEF RobotsArrive, TypeOK, Goto, Host, HasDelay, Places, Entries, Times, NoReply, Never
<1>6. ASSUME NEW c \in Callers, NEW r \in Outcomes, Return(c, r),
             UNCHANGED <<netVars, gateVars, mode>>
      PROVE  TypeOK'
  BY <1>6, ReturnType DEF TypeOK, netVars, gateVars
<1>7. ASSUME NEW c \in Callers, Disallow(c) PROVE TypeOK'
  <2>1. Ended("Robots") \in Outcomes
    BY DEF Ended, Outcomes, NoRetry
  <2> QED  BY <1>6, <1>7, <2>1 DEF Disallow
<1>8. ASSUME NEW c \in Callers, Refuse(c) PROVE TypeOK'
  <2>1. /\ RetryAfter(c) \in Nat /\ RetryAfter(c) * TicksPerSec \in Nat /\ Delay(c) \in Nat
    BY <1>8, RetryCoversDelay, DelayIsNat DEF Refuse, TypeOK
  <2>2. [kind |-> "RateLimit", retry |-> RetryAfter(c)] \in Outcomes
    BY <2>1 DEF Outcomes
  <2>3. told' \in [Hosts -> [until : Nat \cup {Never}, delay : Nat \cup {NoDelay}]]
    <3>1. asked[c] + RetryAfter(c) * TicksPerSec \in Nat
      BY <2>1, TimeAssumption DEF TypeOK, Times
    <3> QED  BY <1>8, <2>1, <3>1 DEF Refuse, TypeOK
  <2> QED  BY <1>8, <2>2, <2>3, ReturnType DEF Refuse, TypeOK, netVars
<1>9. ASSUME NEW c \in Callers, LetThrough(c) PROVE TypeOK'
  <2>1. /\ now' \in [Callers -> 0..clock] /\ asked' \in [Callers -> 0..clock]
        /\ held' \in [Callers -> AnyText]
        /\ \A d \in Callers : pc'[d] = "gate" => HasDelay(d)'
        /\ pc' \in [Callers -> Places]
    BY <1>9, LetGoTypes DEF LetThrough
  <2>2. \A d \in Callers : pc'[d] # "idle" => pc[d] # "idle"
    BY <1>9 DEF LetThrough, TypeOK, Goto
  <2> QED  BY <1>9, <2>1, <2>2 DEF LetThrough, TypeOK, Host, netVars, gateVars
<1>10. ASSUME NEW c \in Callers, PassGate(c) PROVE TypeOK'
  <2>1. /\ now' \in [Callers -> 0..clock] /\ asked' \in [Callers -> 0..clock]
        /\ held' \in [Callers -> AnyText]
        /\ \A d \in Callers : pc'[d] = "gate" => HasDelay(d)'
        /\ pc' \in [Callers -> Places]
    BY <1>10, LetGoTypes DEF PassGate
  <2>2. \A d \in Callers : pc'[d] # "idle" => pc[d] # "idle"
    BY <1>10 DEF PassGate, TypeOK, Goto
  <2>3. PICK a : a = asked[c] /\ a \in Times /\ a \in 0..clock /\ a <= clock
    BY TimeAssumption DEF TypeOK, Times
  <2>4. cache' \in [Hosts -> Entries]
    <3>1. ASSUME NEW h \in Hosts PROVE [cache[h] EXCEPT !.last = a] \in Entries
      <4>1. cache[h] \in Entries
        BY DEF TypeOK
      <4> QED  BY <2>3, <4>1 DEF Entries
    <3> QED  BY <1>10, <2>3, <3>1 DEF PassGate, TypeOK
  <2>5. \A h \in Hosts : cache'[h].at <= clock /\ cache'[h].last <= clock
    <3>1. \A h \in Hosts : cache[h] = [robots |-> cache[h].robots, at |-> cache[h].at, last |-> cache[h].last]
      BY DEF TypeOK, Entries
    <3>2. \A h \in Hosts : cache'[h] = IF h = Host(c) THEN [cache[h] EXCEPT !.last = a] ELSE cache[h]
      BY <1>10, <2>3 DEF PassGate, TypeOK
    <3>3. \A h \in Hosts : cache'[h].at = cache[h].at /\ cache'[h].last \in {cache[h].last, a}
      BY <3>1, <3>2
    <3> QED  BY <2>3, <3>3 DEF TypeOK
  <2>6. told' \in [Hosts -> [until : Nat \cup {Never}, delay : Nat \cup {NoDelay}]]
    BY <1>10 DEF PassGate, TypeOK, NoReply
  <2>7. lastLet' \in [Hosts -> 0..clock \cup {Never}] /\ sameEntry' \in [Hosts -> BOOLEAN]
    BY <1>10, <2>3 DEF PassGate, TypeOK
  <2> QED  BY <1>10, <2>1, <2>2, <2>4, <2>5, <2>6, <2>7 DEF PassGate, TypeOK, Host, netVars
<1>15. ASSUME NEW c \in Callers, EnterGate(c) PROVE TypeOK'
  <2>1. pc' \in [Callers -> Places] /\ \A d \in Callers : pc'[d] # "idle" => pc[d] # "idle"
    BY <1>15 DEF EnterGate, Goto, TypeOK, Places
  <2>2. asked' \in [Callers -> 0..clock]
    BY <1>15, TimeAssumption DEF EnterGate, TypeOK, Times
  <2>3. \A d \in Callers : pc'[d] = "gate" => HasDelay(d)'
    BY <1>15 DEF EnterGate, Goto, TypeOK, HasDelay
  <2> QED  BY <1>15, <2>1, <2>2, <2>3 DEF EnterGate, TypeOK, Host, netVars, gateVars
<1>11. ASSUME NEW c \in Callers, NEW s \in Statuses, Reply(c, s) PROVE TypeOK'
  <2>1. \A k \in {"NotModified", "Auth", "RateLimit", "SoftFetch"} : Ended(k) \in Outcomes
    BY DEF Ended, Outcomes, NoRetry
  <2> QED  BY <1>6, <1>11, <2>1 DEF Reply
<1>12. ASSUME NEW c \in Callers, NEW b \in Bodies \cup {TooBig}, ReplyBody(c, b) PROVE TypeOK'
  <2>1. \A k \in {"Body", "RenderNeeded", "SoftFetch"} : Ended(k) \in Outcomes
    BY DEF Ended, Outcomes, NoRetry
  <2> QED  BY <1>6, <1>12, <2>1 DEF ReplyBody
<1>13. ASSUME NEW c \in Callers, TransportError(c) PROVE TypeOK'
  <2>1. Ended("SoftFetch") \in Outcomes
    BY DEF Ended, Outcomes, NoRetry
  <2> QED  BY <1>6, <1>13, <2>1 DEF TransportError
<1>14. CASE UNCHANGED fetchVars
  BY <1>14 DEF TypeOK, fetchVars, netVars, callVars, gateVars, Host, HasDelay
<1> QED  BY <1>1, <1>2, <1>3, <1>4, <1>5, <1>7, <1>8, <1>9, <1>10, <1>11, <1>12, <1>13, <1>14, <1>15
         DEF Next, World, FetchStep

(* Every variable keeps its type: no caller in flight without a host, no
   time that is not past, no wait that is not a number. *)
THEOREM TypeCorrect == Spec => []TypeOK
BY TypeInit, TypeStep, PTL DEF Spec

----------------------------------------------------------------------------
(***************************************************************************)
(* The inductive invariant.  What an entry of the cache says was in force  *)
(* when it was asked for or later; what a caller goes by was no older than *)
(* the Ttl when it looked, and its host has an entry; a caller at the gate *)
(* is allowed to go on; the stamp on an entry is when the last one came    *)
(* that the gate let through since the entry was made; and a wait that was *)
(* told ends after the delay on that stamp.                                *)
(***************************************************************************)
EntriesInForce ==
  \A h \in Hosts : cache[h] # NoEntry =>
    /\ cache[h].at # Never
    /\ InForceSince(h, cache[h].robots, cache[h].at)

HoldsRobots(c) == pc[c] \in {"judge", "gate"}

HeldInForce ==
  \A c \in Callers : HoldsRobots(c) =>
    /\ cache[Host(c)] # NoEntry
    /\ InForceSince(Host(c), held[c], now[c] - Ttl + 1)

GateIsAllowed ==
  \A c \in Callers : pc[c] = "gate" => Allowed(RobotsOf[held[c]], req[c].url.path)

StampsAreLast ==
  \A h \in Hosts : sameEntry[h] => lastLet[h] # Never /\ cache[h].last = lastLet[h]

WaitsCoverDelays ==
  \A h \in Hosts : told[h] # NoReply =>
    /\ cache[h].last # Never
    /\ told[h].delay \in Nat
    /\ told[h].until >= cache[h].last + told[h].delay

FInv ==
  /\ TypeOK /\ EntriesInForce /\ HeldInForce /\ GateIsAllowed
  /\ StampsAreLast /\ WaitsCoverDelays

(* A text that was in force at some time, or failed to arrive, goes on to
   have been. *)
LEMMA InForceLasts ==
  ASSUME TypeOK, [Next]_fetchVars, NEW h \in Hosts, NEW t \in AnyText,
         NEW from \in Int, from <= clock, InForceSince(h, t, from)
  PROVE  served'[h] = t \/ inForce'[h][t] >= from
<1>1. clock \in Nat /\ inForce[h][t] \in Int /\ inForce[h][t] <= clock
  BY TimeAssumption DEF TypeOK, Times, Never
<1>2. CASE UNCHANGED <<served, inForce>>
  BY <1>2 DEF InForceSince
<1>3. ASSUME NEW g \in Hosts, NEW u \in AnyText, PublishRobots(g, u)
      PROVE  served'[h] = t \/ inForce'[h][t] >= from
  BY <1>1, <1>3 DEF PublishRobots, TypeOK, InForceSince
<1>4. ASSUME NEW c \in Callers, NEW u \in AnyText, RobotsArrive(c, u)
      PROVE  served'[h] = t \/ inForce'[h][t] >= from
  BY <1>1, <1>4 DEF RobotsArrive, TypeOK, InForceSince
<1> QED  BY <1>2, <1>3, <1>4
         DEF Next, World, FetchStep, Tick, Begin, FindRobots, Disallow, LetThrough, EnterGate, Refuse, PassGate,
             Reply, ReplyBody, TransportError, fetchVars, netVars

(* The same for what a caller goes by, and for the entries of the cache. *)
LEMMA HeldLasts ==
  ASSUME FInv, [Next]_fetchVars, NEW c \in Callers, HoldsRobots(c),
         req'[c] = req[c], held'[c] = held[c], now'[c] = now[c]
  PROVE  InForceSince(Host(c), held[c], now[c] - Ttl + 1)'
<1>1. Host(c) \in Hosts /\ held[c] \in AnyText /\ now[c] \in Nat /\ now[c] <= clock /\ clock \in Nat
  BY TimeAssumption DEF HoldsRobots, FInv, TypeOK, Times
<1>2. PICK from \in Int : from = now[c] - Ttl + 1
  BY <1>1, TimeAssumption
<1>3. from <= clock /\ InForceSince(Host(c), held[c], from)
  BY <1>1, <1>2, TimeAssumption DEF FInv, HeldInForce
<1>4. PICK h \in Hosts : h = Host(c)
  BY <1>1
<1>5. PICK t \in AnyText : t = held[c]
  BY <1>1
<1>6. served'[h] = t \/ inForce'[h][t] >= from
  BY <1>3, <1>4, <1>5, InForceLasts DEF FInv
<1>7. Host(c)' = h /\ held'[c] = t /\ now'[c] - Ttl + 1 = from
  BY <1>2, <1>4, <1>5 DEF Host
<1> QED  BY <1>6, <1>7 DEF InForceSince

(* What an entry holds stays in force from its stamp on, whatever the site does. *)
LEMMA EntriesLast ==
  ASSUME FInv, [Next]_fetchVars, NEW h \in Hosts, cache[h] # NoEntry,
         cache'[h].robots = cache[h].robots, cache'[h].at = cache[h].at
  PROVE  /\ cache'[h].at # Never
         /\ InForceSince(h, cache[h].robots, cache[h].at)'
<1>1. cache[h].robots \in AnyText /\ cache[h].at \in Int /\ cache[h].at <= clock
  BY TimeAssumption DEF FInv, TypeOK, Entries, Times, Never
<1>2. PICK t \in AnyText : t = cache[h].robots
  BY <1>1
<1>3. PICK from \in Int : from = cache[h].at
  BY <1>1
<1>4. served'[h] = t \/ inForce'[h][t] >= from
  BY <1>1, <1>2, <1>3, InForceLasts DEF FInv, EntriesInForce
<1> QED  BY <1>2, <1>3, <1>4 DEF InForceSince, FInv, EntriesInForce

(* The invariant holds of an empty cache and idle callers. *)
LEMMA FetchInit == Init => FInv
BY TypeInit
DEF Init, FInv, EntriesInForce, HeldInForce, HoldsRobots, GateIsAllowed, StampsAreLast,
    WaitsCoverDelays, NoEntry

(* A step that leaves the hosts' part alone and moves one caller, which comes
   to hold no robots, keeps the invariant. *)
LEMMA CallerMoves ==
  ASSUME FInv, [Next]_fetchVars, NEW c \in Callers,
         UNCHANGED gateVars, ~HoldsRobots(c)',
         \A d \in Callers : d # c =>
           pc'[d] = pc[d] /\ req'[d] = req[d] /\ held'[d] = held[d] /\ now'[d] = now[d]
  PROVE  FInv'
<1>1. TypeOK'
  BY TypeStep DEF FInv
<1>2. EntriesInForce'
  <2>1. ASSUME NEW h \in Hosts, cache[h] # NoEntry
        PROVE  cache'[h].at # Never /\ InForceSince(h, cache[h].robots, cache[h].at)'
    BY <2>1, EntriesLast DEF gateVars
  <2> QED  BY <2>1 DEF EntriesInForce, gateVars
<1>3. HeldInForce'
  <2>1. ASSUME NEW d \in Callers, HoldsRobots(d)'
        PROVE  cache'[Host(d)'] # NoEntry /\ InForceSince(Host(d), held[d], now[d] - Ttl + 1)'
    <3>1. d # c
      BY <2>1
    <3>2. HoldsRobots(d)
      BY <2>1, <3>1 DEF HoldsRobots
    <3>3. InForceSince(Host(d), held[d], now[d] - Ttl + 1)'
      BY <3>1, <3>2, HeldLasts
    <3> QED  BY <3>1, <3>2, <3>3 DEF FInv, HeldInForce, Host, gateVars
  <2> QED  BY <2>1 DEF HeldInForce
<1>4. StampsAreLast' /\ WaitsCoverDelays'
  BY DEF FInv, StampsAreLast, WaitsCoverDelays, gateVars
<1>5. GateIsAllowed'
  BY DEF FInv, GateIsAllowed, HoldsRobots
<1> QED  BY <1>1, <1>2, <1>3, <1>4, <1>5 DEF FInv

(* What a caller finds fresh was in force less than the Ttl before. *)
LEMMA FreshIsInForce ==
  ASSUME FInv, NEW h \in Hosts, Fresh(cache[h])
  PROVE  InForceSince(h, cache[h].robots, clock - Ttl + 1)
<1>1. /\ cache[h] # NoEntry /\ cache[h].at \in Int /\ clock \in Nat
      /\ cache[h].robots \in AnyText /\ clock - cache[h].at < Ttl
  BY TimeAssumption DEF Fresh, FInv, TypeOK, Entries, Times, Never
<1>2. InForceSince(h, cache[h].robots, cache[h].at)
  BY <1>1 DEF FInv, EntriesInForce
<1>3. inForce[h][cache[h].robots] \in Int
  BY <1>1 DEF FInv, TypeOK, Never
<1> QED  BY <1>1, <1>2, <1>3, TimeAssumption DEF InForceSince

(* Every step of a caller, of the clock and of the sites keeps it. *)
LEMMA FetchStepKeeps == FInv /\ [Next]_fetchVars => FInv'
<1> SUFFICES ASSUME FInv, [Next]_fetchVars PROVE FInv'
  OBVIOUS
<1>0. TypeOK /\ TypeOK'
  BY TypeStep DEF FInv
<1>1. ASSUME UNCHANGED <<gateVars, req, held, now>>,
             \A c \in Callers : HoldsRobots(c)' => HoldsRobots(c),
             \A c \in Callers : pc'[c] = "gate" =>
               pc[c] = "gate" \/ Allowed(RobotsOf[held[c]], req[c].url.path)
      PROVE  FInv'
  <2>1. EntriesInForce'
    <3>1. ASSUME NEW h \in Hosts, cache[h] # NoEntry
          PROVE  cache'[h].at # Never /\ InForceSince(h, cache[h].robots, cache[h].at)'
      BY <1>1, <3>1, EntriesLast DEF gateVars
    <3> QED  BY <1>1, <3>1 DEF EntriesInForce, gateVars
  <2>2. HeldInForce'
    <3>1. ASSUME NEW d \in Callers, HoldsRobots(d)
          PROVE  InForceSince(Host(d), held[d], now[d] - Ttl + 1)'
      BY <1>1, <3>1, HeldLasts
    <3>2. \A d \in Callers : HoldsRobots(d) => cache'[Host(d)'] # NoEntry
      BY <1>1 DEF FInv, HeldInForce, Host, gateVars
    <3> QED  BY <1>1, <3>1, <3>2 DEF HeldInForce
  <2>3. StampsAreLast' /\ WaitsCoverDelays'
    BY <1>1 DEF FInv, StampsAreLast, WaitsCoverDelays, gateVars
  <2>4. GateIsAllowed'
    BY <1>1 DEF FInv, GateIsAllowed
  <2> QED  BY <1>0, <2>1, <2>2, <2>3, <2>4 DEF FInv
<1>2. ASSUME NEW c \in Callers, NEW q \in Requests, Begin(c, q) PROVE FInv'
  <2>1. UNCHANGED gateVars /\ ~HoldsRobots(c)'
    BY <1>0, <1>2 DEF Begin, Return, Goto, TypeOK, HoldsRobots
  <2>2. \A d \in Callers : d # c =>
          pc'[d] = pc[d] /\ req'[d] = req[d] /\ held'[d] = held[d] /\ now'[d] = now[d]
    BY <1>0, <1>2 DEF Begin, Return, Goto, DropRobots, TypeOK
  <2> QED  BY <2>1, <2>2, CallerMoves
<1>3. ASSUME NEW c \in Callers, NEW r, Return(c, r), UNCHANGED gateVars PROVE FInv'
  <2>1. ~HoldsRobots(c)'
    BY <1>0, <1>3 DEF Return, Goto, TypeOK, HoldsRobots
  <2>2. \A d \in Callers : d # c =>
          pc'[d] = pc[d] /\ req'[d] = req[d] /\ held'[d] = held[d] /\ now'[d] = now[d]
    BY <1>0, <1>3 DEF Return, Goto, DropRobots, TypeOK
  <2> QED  BY <1>3, <2>1, <2>2, CallerMoves
<1>4. ASSUME NEW c \in Callers, LetThrough(c) PROVE FInv'
  <2>1. UNCHANGED gateVars /\ ~HoldsRobots(c)'
    BY <1>0, <1>4 DEF LetThrough, Goto, TypeOK, HoldsRobots
  <2>2. \A d \in Callers : d # c =>
          pc'[d] = pc[d] /\ req'[d] = req[d] /\ held'[d] = held[d] /\ now'[d] = now[d]
    BY <1>0, <1>4 DEF LetThrough, Goto, DropRobots, TypeOK
  <2> QED  BY <2>1, <2>2, CallerMoves
<1>5. ASSUME NEW c \in Callers, FindRobots(c) PROVE FInv'
  <2>1. CASE Fresh(cache[Host(c)])
    <3>1. /\ pc' = [pc EXCEPT ![c] = "judge"] /\ now' = [now EXCEPT ![c] = clock]
          /\ held' = [held EXCEPT ![c] = cache[Host(c)].robots]
          /\ UNCHANGED <<netVars, req, gateVars>>
      BY <1>5, <2>1 DEF FindRobots, Goto
    <3>2. Host(c) \in Hosts /\ Host(c)' = Host(c)
      BY <1>0, <1>5, <3>1 DEF FindRobots, TypeOK, Host
    <3>3. InForceSince(Host(c), cache[Host(c)].robots, clock - Ttl + 1)
      BY <2>1, <3>2, FreshIsInForce
    <3>4. HeldInForce'
      <4>1. /\ cache'[Host(c)'] # NoEntry
            /\ InForceSince(Host(c), held[c], now[c] - Ttl + 1)'
        BY <1>0, <2>1, <3>1, <3>2, <3>3 DEF InForceSince, Fresh, TypeOK, netVars, gateVars
      <4>2. ASSUME NEW d \in Callers, d # c, HoldsRobots(d)'
            PROVE  cache'[Host(d)'] # NoEntry /\ InForceSince(Host(d), held[d], now[d] - Ttl + 1)'
        BY <1>0, <3>1, <4>2
        DEF HoldsRobots, InForceSince, FInv, HeldInForce, Host, TypeOK, netVars, gateVars
      <4> QED  BY <4>1, <4>2 DEF HeldInForce
    <3>5. EntriesInForce' /\ StampsAreLast' /\ WaitsCoverDelays'
      BY <3>1 DEF FInv, EntriesInForce, StampsAreLast, WaitsCoverDelays, InForceSince, netVars, gateVars
    <3>6. GateIsAllowed'
      BY <1>0, <3>1 DEF FInv, GateIsAllowed, TypeOK
    <3> QED  BY <1>0, <3>4, <3>5, <3>6 DEF FInv
  <2>2. CASE ~Fresh(cache[Host(c)])
    <3>1. UNCHANGED gateVars /\ ~HoldsRobots(c)'
      BY <1>0, <1>5, <2>2 DEF FindRobots, Goto, TypeOK, HoldsRobots
    <3>2. \A d \in Callers : d # c =>
            pc'[d] = pc[d] /\ req'[d] = req[d] /\ held'[d] = held[d] /\ now'[d] = now[d]
      BY <1>0, <1>5, <2>2 DEF FindRobots, Goto, TypeOK
    <3> QED  BY <3>1, <3>2, CallerMoves
  <2> QED  BY <2>1, <2>2
<1>6. ASSUME NEW c \in Callers, NEW t \in AnyText, RobotsArrive(c, t) PROVE FInv'
  <2>1. PICK h \in Hosts : h = Host(c)
    BY <1>0, <1>6 DEF RobotsArrive, TypeOK
  <2>2. /\ now[c] \in Nat /\ now[c] <= clock /\ clock \in Nat
    BY <1>0, TimeAssumption DEF TypeOK, Times
  <2>3. /\ cache'[h] = [robots |-> t, at |-> now[c], last |-> Never]
        /\ \A g \in Hosts : g # h =>
             cache'[g] = cache[g] /\ sameEntry'[g] = sameEntry[g] /\ told'[g] = told[g]
        /\ inForce'[h][t] = clock /\ ~sameEntry'[h] /\ told'[h] = NoReply
        /\ lastLet' = lastLet /\ clock' = clock
    BY <1>0, <1>6, <2>1 DEF RobotsArrive, TypeOK
  <2>4. EntriesInForce'
    <3>1. cache'[h].at # Never /\ InForceSince(h, cache[h].robots, cache[h].at)'
      BY <2>2, <2>3 DEF InForceSince, Never
    <3>2. ASSUME NEW g \in Hosts, g # h, cache[g] # NoEntry
          PROVE  cache'[g].at # Never /\ InForceSince(g, cache[g].robots, cache[g].at)'
      BY <2>3, <3>2, EntriesLast
    <3> QED  BY <2>3, <3>1, <3>2 DEF EntriesInForce
  <2>5. HeldInForce'
    <3>1. /\ pc' = [pc EXCEPT ![c] = "judge"] /\ held' = [held EXCEPT ![c] = t]
          /\ UNCHANGED <<req, now>>
      BY <1>6 DEF RobotsArrive, Goto
    <3>2. cache'[h] # NoEntry
      BY <2>2, <2>3 DEF NoEntry, Never
    <3>3. InForceSince(Host(c), held[c], now[c] - Ttl + 1)'
      <4>1. Host(c)' = h /\ held'[c] = t /\ now'[c] = now[c]
        BY <1>0, <2>1, <3>1 DEF Host, TypeOK
      <4>2. clock >= now[c] - Ttl + 1
        BY <2>2, TimeAssumption
      <4> QED  BY <2>3, <4>1, <4>2 DEF InForceSince
    <3>4. ASSUME NEW d \in Callers, d # c, HoldsRobots(d)'
          PROVE  cache'[Host(d)'] # NoEntry /\ InForceSince(Host(d), held[d], now[d] - Ttl + 1)'
      <4>1. HoldsRobots(d) /\ held'[d] = held[d] /\ req'[d] = req[d] /\ now'[d] = now[d]
        BY <1>0, <3>1, <3>4 DEF TypeOK, HoldsRobots
      <4>2. InForceSince(Host(d), held[d], now[d] - Ttl + 1)'
        BY <4>1, HeldLasts
      <4>3. Host(d)' = Host(d) /\ Host(d) \in Hosts /\ cache[Host(d)] # NoEntry
        BY <1>0, <4>1 DEF HoldsRobots, Host, TypeOK, FInv, HeldInForce
      <4> QED  BY <2>3, <3>2, <4>2, <4>3
    <3> QED  BY <2>1, <3>1, <3>2, <3>3, <3>4 DEF HeldInForce, Host
  <2>6. StampsAreLast' /\ WaitsCoverDelays'
    BY <2>3 DEF FInv, StampsAreLast, WaitsCoverDelays
  <2>7. GateIsAllowed'
    BY <1>0, <1>6 DEF RobotsArrive, Goto, FInv, GateIsAllowed, TypeOK
  <2> QED  BY <1>0, <2>4, <2>5, <2>6, <2>7 DEF FInv
<1>7. ASSUME NEW c \in Callers, Refuse(c) PROVE FInv'
  <2>1. /\ UNCHANGED <<netVars, cache, lastLet, sameEntry>>
        /\ \A d \in Callers : HoldsRobots(d)' =>
             pc'[d] = pc[d] /\ req'[d] = req[d] /\ held'[d] = held[d] /\ now'[d] = now[d]
    BY <1>0, <1>7 DEF Refuse, Return, Goto, DropRobots, TypeOK, HoldsRobots
  <2>2. EntriesInForce' /\ StampsAreLast'
    BY <2>1 DEF FInv, EntriesInForce, StampsAreLast, InForceSince, netVars
  <2>3. HeldInForce'
    BY <2>1 DEF FInv, HeldInForce, HoldsRobots, InForceSince, Host, netVars
  <2>5. GateIsAllowed'
    BY <2>1 DEF FInv, GateIsAllowed, HoldsRobots
  <2>4. WaitsCoverDelays'
    <3>1. PICK h \in Hosts : h = Host(c)
      BY <1>0, <1>7 DEF Refuse, TypeOK
    <3>2. /\ told'[h] = [until |-> asked[c] + RetryAfter(c) * TicksPerSec, delay |-> Delay(c)]
          /\ \A g \in Hosts : g # h => told'[g] = told[g]
      BY <1>0, <1>7, <3>1 DEF Refuse, TypeOK
    <3>3. cache[h].last # Never /\ Delay(c) \in Nat
          /\ asked[c] + RetryAfter(c) * TicksPerSec >= cache[h].last + Delay(c)
      BY <1>0, <1>7, <3>1, RetryCoversDelay, DelayIsNat DEF Refuse, TooSoon, TypeOK
    <3> QED  BY <2>1, <3>2, <3>3 DEF FInv, WaitsCoverDelays
  <2> QED  BY <1>0, <2>2, <2>3, <2>4, <2>5 DEF FInv
<1>8. ASSUME NEW c \in Callers, PassGate(c) PROVE FInv'
  <2>1. PICK h \in Hosts : h = Host(c)
    BY <1>0, <1>8 DEF PassGate, TypeOK
  <2>9. PICK a : a = asked[c] /\ a \in Nat
    BY <1>0, TimeAssumption DEF TypeOK, Times
  <2>2. /\ cache' = [cache EXCEPT ![h].last = a]
        /\ lastLet'[h] = a /\ \A g \in Hosts : g # h =>
             lastLet'[g] = lastLet[g] /\ sameEntry'[g] = sameEntry[g] /\ told'[g] = told[g]
        /\ told'[h] = NoReply /\ UNCHANGED netVars
    BY <1>0, <1>8, <2>1, <2>9 DEF PassGate, TypeOK
  <2>3. /\ \A g \in Hosts : cache'[g].robots = cache[g].robots /\ cache'[g].at = cache[g].at
        /\ cache'[h].last = a /\ \A g \in Hosts : g # h => cache'[g] = cache[g]
    <3>1. \A g \in Hosts :
            cache[g] = [robots |-> cache[g].robots, at |-> cache[g].at, last |-> cache[g].last]
      BY <1>0 DEF TypeOK, Entries
    <3>2. \A g \in Hosts : cache'[g] = IF g = h THEN [cache[g] EXCEPT !.last = a] ELSE cache[g]
      BY <1>0, <2>2 DEF TypeOK
    <3> QED  BY <3>1, <3>2
  <2>4. cache[h] # NoEntry /\ cache[h].at # Never
    BY <1>8, <2>1 DEF PassGate, FInv, HeldInForce, HoldsRobots, EntriesInForce
  <2>5. EntriesInForce'
    BY <2>2, <2>3, <2>4 DEF FInv, EntriesInForce, InForceSince, netVars
  <2>6. HeldInForce'
    <3>1. \A d \in Callers : HoldsRobots(d)' =>
             HoldsRobots(d) /\ req'[d] = req[d] /\ held'[d] = held[d] /\ now'[d] = now[d]
      BY <1>0, <1>8 DEF PassGate, Goto, DropRobots, TypeOK, HoldsRobots
    <3>2. \A g \in Hosts : cache[g] # NoEntry => cache'[g] # NoEntry
      BY <2>3, <2>4 DEF FInv, EntriesInForce, NoEntry
    <3>3. \A d \in Callers : HoldsRobots(d) => Host(d) \in Hosts
      BY <1>0 DEF TypeOK, HoldsRobots
    <3> QED  BY <2>2, <3>1, <3>2, <3>3 DEF FInv, HeldInForce, InForceSince, Host, netVars
  <2>7. a # Never
    BY <2>9 DEF Never
  <2>10. GateIsAllowed'
    BY <1>0, <1>8 DEF PassGate, Goto, DropRobots, FInv, GateIsAllowed, TypeOK
  <2>8. StampsAreLast' /\ WaitsCoverDelays'
    BY <2>2, <2>3, <2>7 DEF FInv, StampsAreLast, WaitsCoverDelays
  <2> QED  BY <1>0, <2>5, <2>6, <2>8, <2>10 DEF FInv
<1>9. CASE World
  <2>1. UNCHANGED <<gateVars, callVars>>
    BY <1>9 DEF World, Tick, PublishRobots
  <2> QED  BY <1>1, <2>1 DEF callVars, HoldsRobots
<1>12. ASSUME NEW c \in Callers, EnterGate(c) PROVE FInv'
  <2>1. /\ pc[c] = "judge" /\ pc' = [pc EXCEPT ![c] = "gate"] /\ UNCHANGED <<gateVars, req, held, now>>
        /\ Allowed(RobotsOf[held[c]], req[c].url.path)
    BY <1>12 DEF EnterGate, Goto
  <2> QED  BY <1>0, <1>1, <2>1 DEF HoldsRobots, TypeOK
<1>10. ASSUME NEW c \in Callers, FetchStep(c) PROVE FInv'
  BY <1>3, <1>4, <1>5, <1>6, <1>7, <1>8, <1>10, <1>12
  DEF FetchStep, Disallow, Reply, ReplyBody, TransportError
<1>11. CASE UNCHANGED fetchVars
  BY <1>1, <1>11 DEF fetchVars, callVars, HoldsRobots
<1> QED  BY <1>2, <1>9, <1>10, <1>11 DEF Next

(* So it always holds. *)
LEMMA FetchInvariant == Spec => []FInv
BY FetchInit, FetchStepKeeps, PTL DEF Spec

----------------------------------------------------------------------------
(* The properties.  Only two actions let a caller go on to the GET, and one
   refuses it. *)
LEMMA WhoLets ==
  ASSUME FInv, [Next]_fetchVars, NEW c \in Callers, Lets(c)
  PROVE  LetThrough(c) \/ PassGate(c)
<1>0. pc[c] \in {"judge", "gate"} /\ pc'[c] = "get" /\ pc \in [Callers -> Places]
  BY DEF Lets, FInv, TypeOK
<1>1. ~World /\ ~UNCHANGED fetchVars
  BY <1>0 DEF World, Tick, PublishRobots, callVars, fetchVars
<1>2. ASSUME NEW d \in Callers, NEW q \in Requests, Begin(d, q) PROVE FALSE
  BY <1>0, <1>2 DEF Begin, Return, Goto
<1>3. PICK d \in Callers : FetchStep(d)
  BY <1>1, <1>2 DEF Next
<1>4. d = c
  BY <1>0, <1>3
  DEF FetchStep, FindRobots, RobotsArrive, Disallow, LetThrough, EnterGate, Refuse, PassGate, Reply, ReplyBody,
      TransportError, Return, Goto
<1> QED
  BY <1>0, <1>3, <1>4
  DEF FetchStep, FindRobots, RobotsArrive, Disallow, EnterGate, Refuse, Reply, ReplyBody,
      TransportError, Return, Goto

(* Only the gate answers that it is too soon. *)
LEMMA WhoRefuses ==
  ASSUME FInv, [Next]_fetchVars, NEW c \in Callers, Refuses(c)
  PROVE  Refuse(c)
<1>0. /\ pc[c] = "gate" /\ pc'[c] = "idle" /\ outcome'[c].kind = "RateLimit"
      /\ pc \in [Callers -> Places] /\ outcome \in [Callers -> Outcomes]
  BY DEF Refuses, FInv, TypeOK
<1>1. ~World /\ ~UNCHANGED fetchVars
  BY <1>0 DEF World, Tick, PublishRobots, callVars, fetchVars
<1>2. ASSUME NEW d \in Callers, NEW q \in Requests, Begin(d, q) PROVE FALSE
  BY <1>0, <1>2 DEF Begin, Return, Goto
<1>3. PICK d \in Callers : FetchStep(d)
  BY <1>1, <1>2 DEF Next
<1>4. d = c
  BY <1>0, <1>3
  DEF FetchStep, FindRobots, RobotsArrive, Disallow, LetThrough, EnterGate, Refuse, PassGate, Reply, ReplyBody,
      TransportError, Return, Goto
<1> QED
  BY <1>0, <1>3, <1>4
  DEF FetchStep, FindRobots, RobotsArrive, Disallow, LetThrough, EnterGate, PassGate, Reply, ReplyBody, TransportError,
      Goto

(***************************************************************************)
(* No request goes out but to a path allowed by a robots.txt that was in   *)
(* force, or could not be had, less than the Ttl before its caller looked: *)
(* whatever other callers refresh and the site replaces in the meantime.   *)
(***************************************************************************)
THEOREM RobotsAreObeyed == Spec => RobotsObeyed
<1>1. ASSUME FInv, [Next]_fetchVars, NEW c \in Callers, Lets(c)
      PROVE  \E t \in AnyText :
               /\ InForceSince(Host(c), t, now[c] - Ttl + 1)
               /\ Allowed(RobotsOf[t], req[c].url.path)
  <2>1. held[c] \in AnyText /\ Allowed(RobotsOf[held[c]], req[c].url.path)
    BY <1>1, WhoLets DEF LetThrough, PassGate, FInv, TypeOK, GateIsAllowed
  <2>2. InForceSince(Host(c), held[c], now[c] - Ttl + 1)
    BY <1>1 DEF Lets, FInv, HeldInForce, HoldsRobots
  <2> QED  BY <2>1, <2>2
<1>2. FInv /\ [Next]_fetchVars =>
        [\A c \in Callers : Lets(c) =>
           \E t \in AnyText :
             /\ InForceSince(Host(c), t, now[c] - Ttl + 1)
             /\ Allowed(RobotsOf[t], req[c].url.path)]_fetchVars
  BY <1>1
<1> QED  BY <1>2, FetchInvariant, PTL DEF Spec, RobotsObeyed

(***************************************************************************)
(* Between two requests that the gate lets through to a host under one     *)
(* entry of the cache lies the crawl delay, by the time they came to it.   *)
(***************************************************************************)
THEOREM GateSpaces == Spec => GateSpacesRequests
<1>1. ASSUME FInv, [Next]_fetchVars, NEW c \in Callers, Lets(c), HasDelay(c), sameEntry[Host(c)]
      PROVE  asked[c] >= lastLet[Host(c)] + Delay(c)
  <2>1. PassGate(c)
    BY <1>1, WhoLets DEF LetThrough
  <2>2. PICK h \in Hosts : h = Host(c)
    BY <1>1, <2>1 DEF PassGate, FInv, TypeOK
  <2>3. /\ cache[h].last # Never /\ cache[h].last = lastLet[h]
        /\ cache[h].last \in Int /\ asked[c] \in Nat /\ Delay(c) \in Nat
    BY <1>1, <2>2, DelayIsNat, TimeAssumption
    DEF FInv, StampsAreLast, TypeOK, Entries, Times, Never
  <2>4. ~(asked[c] - cache[h].last < Delay(c))
    BY <2>1, <2>2, <2>3 DEF PassGate, TooSoon, Elapsed
  <2> QED  BY <2>2, <2>3, <2>4
<1>2. FInv /\ [Next]_fetchVars =>
        [\A c \in Callers : Lets(c) /\ HasDelay(c) /\ sameEntry[Host(c)] =>
           asked[c] >= lastLet[Host(c)] + Delay(c)]_fetchVars
  BY <1>1
<1> QED  BY <1>2, FetchInvariant, PTL DEF Spec, GateSpacesRequests

(***************************************************************************)
(* A caller that comes back when it was told to is not refused again,      *)
(* unless somebody else has passed, or the site asks for a longer delay.   *)
(***************************************************************************)
THEOREM WaitingHelps == Spec => WaitSuffices
<1> DEFINE Early(c, reply) == reply = NoReply \/ reply.delay < Delay(c) \/ asked[c] < reply.until
<1>1. ASSUME FInv, [Next]_fetchVars, NEW c \in Callers, Refuses(c)
      PROVE  Early(c, told[Host(c)])
  <2>1. HasDelay(c) /\ TooSoon(c) /\ pc[c] = "gate"
    BY <1>1, WhoRefuses DEF Refuse, FInv, TypeOK
  <2>2. PICK h \in Hosts : h = Host(c)
    BY <2>1, <1>1 DEF FInv, TypeOK
  <2>3. /\ cache[h].last \in Int /\ asked[c] \in Nat /\ Delay(c) \in Nat
        /\ told[h].until \in Int
    BY <1>1, <2>1, <2>2, DelayIsNat, TimeAssumption DEF FInv, TypeOK, Entries, Times, Never
  <2>4. asked[c] - cache[h].last < Delay(c)
    BY <2>1, <2>2, <2>3 DEF TooSoon, Elapsed
  <2>5. told[h] # NoReply =>
          told[h].delay \in Nat /\ told[h].until >= cache[h].last + told[h].delay
    BY <1>1, <2>2 DEF FInv, WaitsCoverDelays
  <2> QED  BY <2>2, <2>3, <2>4, <2>5
<1>2. FInv /\ [Next]_fetchVars =>
        [\A c \in Callers : Refuses(c) =>
           LET reply == told[Host(c)] IN
           \/ reply = NoReply
           \/ reply.delay < Delay(c)
           \/ asked[c] < reply.until]_fetchVars
  BY <1>1
<1> QED  BY <1>2, FetchInvariant, PTL DEF Spec, WaitSuffices

----------------------------------------------------------------------------
(* worse_of. *)

(* The rank of a code is its place in the ranking. *)
LEMMA Ranks ==
  /\ DOMAIN Ranking = 1..11
  /\ \A i \in 1..11 : Rank(Ranking[i]) = i
<1>1. DOMAIN Ranking = 1..11
  BY DEF Ranking
<1>2. \A i, j \in 1..11 : Ranking[i] = Ranking[j] => i = j
  BY DEF Ranking
<1>3. ASSUME NEW i \in 1..11 PROVE Rank(Ranking[i]) = i
  BY <1>1, <1>2 DEF Rank
<1> QED  BY <1>1, <1>3

(* What an observation may come to ranks below every failure, and a change
   above the rest of what it may come to. *)
LEMMA RankTable ==
  /\ \A code \in ExitCodes : Rank(code) \in 1..11
  /\ \A code \in ExitCodes : Rank(code) = 1 <=> code = "NoChange"
  /\ Rank("Change") = 4 /\ "Change" \in ExitCodes
  /\ \A code \in ExitCodes : Rank(code) >= 4 => code \in {"Change"} \cup Failures
  /\ \A code \in ExitCodes : code \in Failures <=> Rank(code) >= 5
  /\ "NoChange" \in ExitCodes /\ {"Usage", "NotFound"} \subseteq Failures
<1>1. ExitCodes = {Ranking[i] : i \in 1..11}
  BY Ranks DEF ExitCodes, Range
<1>2. /\ Ranking[1] = "NoChange" /\ Ranking[2] = "FirstObs" /\ Ranking[3] = "SubThreshold"
      /\ Ranking[4] = "Change" /\ Ranking[5] = "SoftFetch" /\ Ranking[6] = "RateLimit"
      /\ Ranking[7] = "Robots" /\ Ranking[8] = "Auth" /\ Ranking[9] = "RenderNeeded"
      /\ Ranking[10] = "NotFound" /\ Ranking[11] = "Usage"
  BY DEF Ranking
<1>3. \A i \in 1..11 : Ranking[i] \in ExitCodes /\ Rank(Ranking[i]) = i
  BY <1>1, Ranks
<1>4. \A code \in ExitCodes : \E i \in 1..11 : code = Ranking[i]
  BY <1>1
<1>5. \A code \in ExitCodes : Rank(code) \in 1..11 /\ code = Ranking[Rank(code)]
  BY <1>3, <1>4
<1>6. \A i \in 1..11 : Ranking[i] \in Observed <=> i <= 4
  BY <1>2 DEF Observed
<1>7. \A code \in ExitCodes : code \in Failures <=> Rank(code) >= 5
  BY <1>5, <1>6 DEF Failures
<1>8. \A code \in ExitCodes : Rank(code) = 1 <=> code = "NoChange"
  BY <1>2, <1>3, <1>5
<1>9. Rank("Change") = 4 /\ "Change" \in ExitCodes /\ "NoChange" \in ExitCodes
  BY <1>2, <1>3
<1>10. \A code \in ExitCodes : Rank(code) = 4 => code = "Change"
  BY <1>2, <1>5
<1>11. {"Usage", "NotFound"} \subseteq Failures
  BY <1>2, <1>3, <1>7
<1> QED  BY <1>5, <1>7, <1>8, <1>9, <1>10, <1>11

(* The worse of two codes is one of them, and no better than either. *)
LEMMA WorseIsWorse ==
  ASSUME NEW a \in ExitCodes, NEW b \in ExitCodes
  PROVE  /\ WorseOf(a, b) \in ExitCodes
         /\ Rank(WorseOf(a, b)) >= Rank(a) /\ Rank(WorseOf(a, b)) >= Rank(b)
<1>1. Rank(a) \in 1..11 /\ Rank(b) \in 1..11
  BY RankTable
<1> QED  BY <1>1 DEF WorseOf

----------------------------------------------------------------------------
(***************************************************************************)
(* The inductive invariant: no target's code is worse than `worst', a      *)
(* target is at hand while it is being checked, and an exit is an error of *)
(* the invocation, or `worst' once no target is left.                      *)
(***************************************************************************)
LoopTypeOK ==
  /\ TypeOK
  /\ todo \in Seq(DOMAIN UrlOf \cup {Unknown})
  /\ codes \in Seq(ExitCodes) /\ worst \in ExitCodes
  /\ at \in {"list", "fetch", "observe", "end"}

AtHand == at \in {"fetch", "observe"} => todo # <<>> /\ Head(todo) # Unknown

NoneIsWorse == \A i \in DOMAIN codes : Rank(codes[i]) <= Rank(worst)

ExitIsWorst ==
  exit # NoExit =>
    /\ at = "end"
    /\ exit \in {"Usage", "NotFound"} \/ (exit = worst /\ todo = <<>>)

LInv == LoopTypeOK /\ AtHand /\ NoneIsWorse /\ ExitIsWorst

(* Nothing is recorded and no exit taken at first. *)
LEMMA LoopInitially == LoopInit => LInv
<1>1. Init => TypeOK
  BY TypeInit
<1> QED  BY <1>1, RankTable, ListsAssumption
         DEF LoopInit, LInv, LoopTypeOK, AtHand, NoneIsWorse, ExitIsWorst

(* A code that is recorded is in `worst' from then on. *)
LEMMA RecordKeeps ==
  ASSUME LInv, TypeOK', todo # <<>>, at # "end", NEW code \in ExitCodes, Record(code)
  PROVE  LInv'
<1>1. worst' \in ExitCodes /\ Rank(worst') >= Rank(worst) /\ Rank(worst') >= Rank(code)
  BY WorseIsWorse DEF Record, LInv, LoopTypeOK
<1>2. codes' \in Seq(ExitCodes) /\ todo' \in Seq(DOMAIN UrlOf \cup {Unknown})
  BY DEF Record, LInv, LoopTypeOK
<1>3. NoneIsWorse'
  <2>1. DOMAIN codes' = 1..(Len(codes) + 1) /\ Len(codes) \in Nat /\ DOMAIN codes = 1..Len(codes)
    BY DEF Record, LInv, LoopTypeOK
  <2>2. \A i \in DOMAIN codes' : codes'[i] = IF i = Len(codes) + 1 THEN code ELSE codes[i]
    BY <2>1 DEF Record, LInv, LoopTypeOK
  <2>3. \A i \in DOMAIN codes : codes[i] \in ExitCodes
    BY <2>1 DEF LInv, LoopTypeOK
  <2>4. ASSUME NEW i \in DOMAIN codes' PROVE Rank(codes'[i]) <= Rank(worst')
    <3>1. CASE i = Len(codes) + 1
      BY <1>1, <2>2, <3>1, RankTable
    <3>2. CASE i # Len(codes) + 1
      <4>1. i \in DOMAIN codes /\ codes'[i] = codes[i]
        BY <2>1, <2>2, <3>2
      <4>2. Rank(codes[i]) <= Rank(worst) /\ Rank(codes[i]) \in Nat /\ Rank(worst) \in Nat
        <5>1. codes[i] \in ExitCodes /\ worst \in ExitCodes
          BY <2>3, <4>1 DEF LInv, LoopTypeOK
        <5>2. Rank(codes[i]) \in 1..11 /\ Rank(worst) \in 1..11
          BY <5>1, RankTable
        <5>3. Rank(codes[i]) <= Rank(worst)
          BY <4>1 DEF LInv, NoneIsWorse
        <5> QED  BY <5>2, <5>3
      <4>3. Rank(worst') \in Nat
        BY <1>1, RankTable
      <4> QED  BY <1>1, <4>1, <4>2, <4>3
    <3> QED  BY <3>1, <3>2
  <2> QED  BY <2>4 DEF NoneIsWorse
<1> QED  BY <1>1, <1>2, <1>3 DEF Record, LInv, LoopTypeOK, AtHand, ExitIsWorst

(* The errors that end the loop are errors of the invocation. *)
LEMMA AbortKeeps ==
  ASSUME LInv, TypeOK', NEW code \in {"Usage", "NotFound"}, AbortWith(code)
  PROVE  LInv'
BY DEF AbortWith, LInv, LoopTypeOK, AtHand, NoneIsWorse, ExitIsWorst

(* A fetch that yields no body comes to an exit code. *)
LEMMA CodesOfOutcomes ==
  ASSUME LInv, outcome[Self].kind \notin {"none", "Body"}
  PROVE  CodeOf(outcome[Self].kind) \in ExitCodes
<1>1. outcome[Self] \in Outcomes
  BY SelfAssumption DEF LInv, LoopTypeOK, TypeOK
<1>2. outcome[Self].kind \in {"NotModified", "Robots", "Auth", "RateLimit", "SoftFetch", "RenderNeeded"}
  BY <1>1 DEF Outcomes
<1>3. \A i \in 1..11 : Ranking[i] \in ExitCodes
  BY Ranks DEF ExitCodes, Range
<1>4. {"NoChange", "SoftFetch", "RateLimit", "Robots", "Auth", "RenderNeeded", "Usage"} \subseteq ExitCodes
  <2>1. /\ Ranking[1] = "NoChange" /\ Ranking[5] = "SoftFetch" /\ Ranking[6] = "RateLimit"
        /\ Ranking[7] = "Robots" /\ Ranking[8] = "Auth" /\ Ranking[9] = "RenderNeeded"
        /\ Ranking[11] = "Usage"
    BY DEF Ranking
  <2>2. {1, 5, 6, 7, 8, 9, 11} \subseteq 1..11
    OBVIOUS
  <2> QED  BY <1>3, <2>1, <2>2
<1>5. CASE outcome[Self].kind = "NotModified"
  BY <1>4, <1>5 DEF CodeOf
<1>6. CASE outcome[Self].kind = "SoftFetch"
  BY <1>4, <1>6 DEF CodeOf
<1>7. CASE outcome[Self].kind \in {"Robots", "Auth", "RateLimit", "RenderNeeded"}
  BY <1>4, <1>7 DEF CodeOf
<1> QED  BY <1>2, <1>5, <1>6, <1>7

(* Every step of the loop, of its fetchers and of the world keeps the invariant. *)
LEMMA LoopStepKeeps == LInv /\ [LoopNext]_vars => LInv'
<1> SUFFICES ASSUME LInv, [LoopNext]_vars PROVE LInv'
  OBVIOUS
<1>0. TypeOK /\ Self \in Callers
  BY SelfAssumption DEF LInv, LoopTypeOK
<1>1. ASSUME [Next]_fetchVars, UNCHANGED loopVars PROVE LInv'
  <2>1. TypeOK'
    BY <1>0, <1>1, TypeStep
  <2> QED  BY <1>1, <2>1 DEF LInv, LoopTypeOK, AtHand, NoneIsWorse, ExitIsWorst, loopVars
<1>2. ASSUME UNCHANGED fetchVars PROVE TypeOK'
  BY <1>0, <1>2, TypeStep
<1>3. CASE TakeUnknown
  BY <1>2, <1>3, AbortKeeps DEF TakeUnknown
<1>4. CASE TakeChromium
  <2>1. "RenderNeeded" \in ExitCodes
    <3>1. Ranking[9] = "RenderNeeded" /\ 9 \in 1..11
      BY DEF Ranking
    <3> QED  BY <3>1, Ranks DEF ExitCodes, Range
  <2> QED  BY <1>2, <1>4, <2>1, RecordKeeps DEF TakeChromium, Take
<1>5. ASSUME NEW r \in {"auto", "never"}, TakeTarget(r) PROVE LInv'
  <2>1. /\ mode' \in Modes /\ sameEntry' \in [Hosts -> BOOLEAN]
        /\ told' \in [Hosts -> [until : Nat \cup {Never}, delay : Nat \cup {NoDelay}]]
    BY <1>0, <1>5 DEF TakeTarget, TypeOK, Modes, NoReply
  <2>2. cache' \in [Hosts -> Entries] /\ \A h \in Hosts : cache'[h].at <= clock /\ cache'[h].last <= clock
    BY <1>0, <1>5, TimeAssumption DEF TakeTarget, TypeOK, Entries, NoEntry, Never, Times, AnyText
  <2>3. outcome' \in [Callers -> Outcomes]
    BY <1>0, <1>5 DEF TakeTarget, TypeOK, Outcomes, Ended, NoRetry
  <2>4. TypeOK'
    BY <1>0, <1>5, <2>1, <2>2, <2>3 DEF TakeTarget, TypeOK, netVars, Host, HasDelay
  <2> QED  BY <1>5, <2>4
           DEF TakeTarget, Take, LInv, LoopTypeOK, AtHand, NoneIsWorse, ExitIsWorst
<1>6. CASE SendRequest
  <2>1. Head(todo) \in DOMAIN UrlOf
    BY <1>6 DEF SendRequest, Fetching, LInv, LoopTypeOK, AtHand
  <2>2. [url |-> UrlOf[Head(todo)], cond |-> FALSE] \in Requests
    BY <2>1, ListsAssumption
  <2> QED  BY <1>0, <1>1, <1>6, <2>2 DEF SendRequest, Next
<1>7. CASE NoFetcher
  BY <1>2, <1>7, AbortKeeps DEF NoFetcher
<1>8. CASE FetchEnds
  BY <1>2, <1>8, RecordKeeps, CodesOfOutcomes DEF FetchEnds, Fetching, LInv, AtHand
<1>9. CASE FetchYieldsBody
  BY <1>2, <1>9
  DEF FetchYieldsBody, Fetching, LInv, LoopTypeOK, AtHand, NoneIsWorse, ExitIsWorst
<1>10. CASE Fails
  BY <1>2, <1>10, AbortKeeps DEF Fails
<1>11. ASSUME NEW code \in ExitCodes, ObserveBody(code) PROVE LInv'
  BY <1>2, <1>11, RecordKeeps DEF ObserveBody, LInv, AtHand
<1>12. CASE End
  BY <1>2, <1>12 DEF End, LInv, LoopTypeOK, AtHand, NoneIsWorse, ExitIsWorst
<1>13. CASE UNCHANGED vars
  BY <1>1, <1>13 DEF vars
<1>14. CASE World /\ UNCHANGED loopVars
  BY <1>1, <1>14 DEF Next
<1>15. CASE FetchStep(Self) /\ UNCHANGED loopVars
  BY <1>0, <1>1, <1>15 DEF Next
<1> QED  BY <1>3, <1>4, <1>5, <1>6, <1>7, <1>8, <1>9, <1>10, <1>11, <1>12, <1>13, <1>14, <1>15
         DEF LoopNext, LoopStep

(***************************************************************************)
(* The exit code of cf check hides no failure behind a milder code, no     *)
(* change behind an unchanged target, and no target that was never tried.  *)
(***************************************************************************)
THEOREM ExitIsHonest == LoopSpec => []ExitTellsTheWorst
<1>1. LInv => ExitTellsTheWorst
  <2> SUFFICES ASSUME LInv, exit # NoExit
               PROVE  /\ todo # <<>> => exit \in {"Usage", "NotFound"}
                      /\ exit = "NoChange" => Range(codes) \subseteq {"NoChange"}
                      /\ Range(codes) \cap Failures # {} => exit \in Failures
                      /\ "Change" \in Range(codes) => exit \in {"Change"} \cup Failures
    BY DEF ExitTellsTheWorst
  <2>1. exit \in {"Usage", "NotFound"} \/ (exit = worst /\ todo = <<>>)
    BY DEF LInv, ExitIsWorst
  <2>2. CASE exit \in {"Usage", "NotFound"}
    BY <2>2, RankTable
  <2>3. CASE exit = worst /\ todo = <<>>
    <3>1. \A code \in Range(codes) : code \in ExitCodes /\ Rank(code) <= Rank(worst)
      BY DEF LInv, LoopTypeOK, NoneIsWorse, Range
    <3>2. worst \in ExitCodes
      BY DEF LInv, LoopTypeOK
    <3>3. exit = "NoChange" => Range(codes) \subseteq {"NoChange"}
      <4>1. ASSUME exit = "NoChange", NEW code \in Range(codes) PROVE code = "NoChange"
        <5>1. Rank(worst) = 1 /\ code \in ExitCodes /\ Rank(code) <= 1
          BY <2>3, <3>1, <3>2, <4>1, RankTable
        <5>2. Rank(code) \in 1..11
          BY <5>1, RankTable
        <5> QED  BY <5>1, <5>2, RankTable
      <4> QED  BY <4>1
    <3>4. Range(codes) \cap Failures # {} => exit \in Failures
      BY <2>3, <3>1, <3>2, RankTable
    <3>5. "Change" \in Range(codes) => exit \in {"Change"} \cup Failures
      BY <2>3, <3>1, <3>2, RankTable
    <3> QED  BY <2>3, <3>3, <3>4, <3>5
  <2> QED  BY <2>1, <2>2, <2>3
<1> QED  BY <1>1, LoopInitially, LoopStepKeeps, PTL DEF LoopSpec
=============================================================================
