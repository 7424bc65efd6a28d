-------------------------- MODULE CanonicalProofs ---------------------------
(***************************************************************************)
(* Theorems about Canonical, for every site, profile, edit and vocabulary. *)
(***************************************************************************)
EXTENDS Canonical, DataLemmas

----------------------------------------------------------------------------
(* The sequences that Picked makes on its way along one. *)
PicksUpto(f, n, s, S) ==
  f = [i \in 0 .. n |->
         IF i = 0 THEN <<>> ELSE IF i \in S THEN Append(f[i - 1], s[i]) ELSE f[i - 1]]

(* It gets to the end. *)
LEMMA PickedClimbs ==
  ASSUME NEW s, Len(s) \in Nat, NEW S
  PROVE  \E f : PicksUpto(f, Len(s), s, S) /\ Picked(s, S) = f[Len(s)]
<1> DEFINE done == {n \in Nat : \E f : PicksUpto(f, n, s, S)}
<1>1. 0 \in done
  <2>1. PicksUpto([i \in 0 .. 0 |-> <<>>], 0, s, S)
    BY DEF PicksUpto
  <2> QED  BY <2>1
<1>2. ASSUME NEW n \in Nat, n \in done
      PROVE  n + 1 \in done
  <2>1. PICK f : PicksUpto(f, n, s, S)
    BY <1>2
  <2>2. PICK x : x = IF n + 1 \in S THEN Append(f[n], s[n + 1]) ELSE f[n]
    OBVIOUS
  <2>3. PICK g : g = [i \in 0 .. n + 1 |-> IF i = n + 1 THEN x ELSE f[i]]
    OBVIOUS
  <2>4. ASSUME NEW i \in 0 .. n + 1
        PROVE  g[i] = IF i = 0 THEN <<>>
                      ELSE IF i \in S THEN Append(g[i - 1], s[i]) ELSE g[i - 1]
    <3>1. CASE i = n + 1
      <4>1. i # 0 /\ i - 1 = n /\ n \in 0 .. n + 1 /\ n # n + 1
        BY <3>1
      <4>2. g[i - 1] = f[n] /\ g[i] = x
        BY <2>3, <3>1, <4>1
      <4> QED  BY <2>2, <3>1, <4>1, <4>2
    <3>2. CASE i # n + 1
      <4>1. i \in 0 .. n /\ (i # 0 => i - 1 \in 0 .. n + 1 /\ i - 1 # n + 1)
        BY <3>2
      <4>2. g[i] = f[i] /\ (i # 0 => g[i - 1] = f[i - 1])
        BY <2>3, <3>2, <4>1
      <4>3. f[i] = IF i = 0 THEN <<>>
                   ELSE IF i \in S THEN Append(f[i - 1], s[i]) ELSE f[i - 1]
        BY <2>1, <4>1, Zenon DEF PicksUpto
      <4> QED  BY <4>2, <4>3
    <3> QED  BY <3>1, <3>2
  <2>5. PicksUpto(g, n + 1, s, S)
    BY <2>3, <2>4 DEF PicksUpto
  <2> QED  BY <2>5
<1>3. Len(s) \in done
  <2> HIDE DEF done
  <2> QED  BY <1>1, <1>2, Induction
<1>4. PICK f : f = CHOOSE g : PicksUpto(g, Len(s), s, S)
  OBVIOUS
<1>5. PicksUpto(f, Len(s), s, S)
  BY <1>3, <1>4
<1>6. Picked(s, S) = f[Len(s)]
  BY <1>4, Zenon DEF Picked, PicksUpto
<1> QED  BY <1>5, <1>6

(* What is picked are items of the sequence. *)
LEMMA PickedType ==
  ASSUME NEW X, NEW s \in Seq(X), NEW S
  PROVE  Picked(s, S) \in Seq(X)
<1>1. PICK N : N = Len(s) /\ N \in Nat /\ DOMAIN s = 1 .. N
  BY LenProperties
<1>2. PICK f : PicksUpto(f, N, s, S) /\ Picked(s, S) = f[N]
  BY <1>1, PickedClimbs
<1>3. /\ f[0] = <<>>
      /\ \A i \in 1 .. N : f[i] = IF i \in S THEN Append(f[i - 1], s[i]) ELSE f[i - 1]
  <2>1. 0 \in 0 .. N /\ \A i \in 1 .. N : i \in 0 .. N /\ i # 0
    BY <1>1
  <2> QED  BY <1>2, <2>1, Zenon DEF PicksUpto
<1> DEFINE done == {n \in Nat : n <= N => f[n] \in Seq(X)}
<1>4. 0 \in done
  <2>1. <<>> \in Seq(X)
    BY EmptySeq
  <2> QED  BY <1>3, <2>1
<1>5. ASSUME NEW n \in Nat, n \in done
      PROVE  n + 1 \in done
  <2>1. SUFFICES ASSUME n + 1 <= N PROVE f[n + 1] \in Seq(X)
    OBVIOUS
  <2>2. PICK t, x : t = f[n] /\ x = s[n + 1]
    OBVIOUS
  <2>3. n + 1 \in 1 .. N /\ (n + 1) - 1 = n /\ t \in Seq(X)
    BY <1>1, <1>5, <2>1, <2>2
  <2>4. x \in X
    BY <1>1, <2>2, <2>3
  <2>5. Append(t, x) \in Seq(X)
    BY <2>3, <2>4, AppendProperties
  <2> QED  BY <1>3, <2>2, <2>3, <2>5
<1>6. N \in done
  <2> HIDE DEF done
  <2> QED  BY <1>1, <1>4, <1>5, Induction
<1> QED  BY <1>1, <1>2, <1>6

(* A sequence that goes up. *)
Rising(s) == \A i, j \in DOMAIN s : i < j => s[i] < s[j]

(* The places of a tree that are in a set come once each, in their order. *)
LEMMA InOrderHolds ==
  ASSUME NEW dom, Len(dom) \in Nat, DOMAIN dom = 1 .. Len(dom), NEW S
  PROVE  InOrder(dom, S) \in Seq(S \cap DOMAIN dom) /\ Rising(InOrder(dom, S))
<1>1. PICK s, N, X : s = [i \in DOMAIN dom |-> i] /\ N = Len(dom) /\ X = S \cap DOMAIN dom
  OBVIOUS
<1>2. N \in Nat /\ DOMAIN dom = 1 .. N /\ Len(s) = N
  BY <1>1
<1>3. PICK f : PicksUpto(f, N, s, S) /\ InOrder(dom, S) = f[N]
  BY <1>1, <1>2, PickedClimbs DEF InOrder
<1>4. /\ f[0] = <<>>
      /\ \A i \in 1 .. N : f[i] = IF i \in S THEN Append(f[i - 1], i) ELSE f[i - 1]
  <2>1. 0 \in 0 .. N /\ \A i \in 1 .. N : i \in 0 .. N /\ i # 0 /\ s[i] = i
    BY <1>1, <1>2
  <2> QED  BY <1>3, <2>1, Zenon DEF PicksUpto
<1> DEFINE done == {n \in Nat : n <= N =>
                      /\ f[n] \in Seq(X) /\ Rising(f[n])
                      /\ \A k \in DOMAIN f[n] : f[n][k] <= n}
<1>5. 0 \in done
  <2>1. <<>> \in Seq(X) /\ DOMAIN <<>> = {}
    BY EmptySeq
  <2> QED  BY <1>4, <2>1 DEF Rising
<1>6. ASSUME NEW n \in Nat, n \in done
      PROVE  n + 1 \in done
  <2>1. SUFFICES ASSUME n + 1 <= N
                 PROVE  /\ f[n + 1] \in Seq(X) /\ Rising(f[n + 1])
                        /\ \A k \in DOMAIN f[n + 1] : f[n + 1][k] <= n + 1
    OBVIOUS
  <2>2. PICK t : t = f[n]
    OBVIOUS
  <2>3. /\ n + 1 \in 1 .. N /\ (n + 1) - 1 = n
        /\ t \in Seq(X) /\ Rising(t) /\ \A k \in DOMAIN t : t[k] <= n
    BY <1>2, <1>6, <2>1, <2>2
  <2>4. \A k \in DOMAIN t : t[k] \in Nat
    <3>1. \A k \in DOMAIN t : t[k] \in X
      BY <2>3
    <3> QED  BY <1>1, <1>2, <3>1
  <2>5. CASE n + 1 \in S
    <3>1. PICK u : u = Append(t, n + 1)
      OBVIOUS
    <3>2. n + 1 \in X
      BY <1>1, <1>2, <2>3, <2>5
    <3>3. /\ u \in Seq(X) /\ Len(u) = Len(t) + 1 /\ u[Len(t) + 1] = n + 1
          /\ \A k \in 1 .. Len(t) : u[k] = t[k]
      BY <2>3, <3>1, <3>2, AppendProperties
    <3>4. PICK l : l = Len(t) /\ l \in Nat /\ DOMAIN t = 1 .. l /\ DOMAIN u = 1 .. l + 1
      BY <2>3, <3>3, LenProperties
    <3>5. \A k \in DOMAIN u : u[k] <= n + 1
      <4>1. \A k \in 1 .. l : u[k] <= n /\ u[k] \in Nat
        BY <2>3, <2>4, <3>3, <3>4
      <4>2. u[l + 1] = n + 1
        BY <3>3, <3>4
      <4> QED  BY <3>4, <4>1, <4>2
    <3>6. Rising(u)
      <4>1. SUFFICES ASSUME NEW i \in 1 .. l + 1, NEW j \in 1 .. l + 1, i < j
                     PROVE  u[i] < u[j]
        BY <3>4 DEF Rising
      <4>2. i \in 1 .. l /\ u[i] = t[i] /\ t[i] <= n /\ t[i] \in Nat
        <5>1. i \in 1 .. l
          BY <3>4, <4>1
        <5> QED  BY <2>3, <2>4, <3>3, <3>4, <5>1
      <4>3. CASE j = l + 1
        BY <3>3, <3>4, <4>2, <4>3
      <4>4. CASE j # l + 1
        <5>1. j \in 1 .. l /\ u[j] = t[j]
          BY <3>3, <3>4, <4>4
        <5> QED  BY <2>3, <3>4, <4>1, <4>2, <5>1 DEF Rising
      <4> QED  BY <4>3, <4>4
    <3>7. f[n + 1] = u
      BY <1>4, <2>2, <2>3, <2>5, <3>1
    <3> QED  BY <3>3, <3>5, <3>6, <3>7
  <2>6. CASE n + 1 \notin S
    <3>1. f[n + 1] = t
      BY <1>4, <2>2, <2>3, <2>6
    <3>2. \A k \in DOMAIN t : t[k] <= n + 1
      BY <2>3, <2>4
    <3> QED  BY <2>3, <3>1, <3>2
  <2> QED  BY <2>5, <2>6
<1>7. N \in done
  <2> HIDE DEF done
  <2> QED  BY <1>2, <1>5, <1>6, Induction
<1> QED  BY <1>1, <1>2, <1>3, <1>7

----------------------------------------------------------------------------
(* What stands below a node follows it without a gap. *)
LEMMA BelowHolds ==
  ASSUME NEW dom, Len(dom) \in Nat, NEW i \in 1 .. Len(dom)
  PROVE  \E e \in i .. Len(dom) : Below(dom, i) = i + 1 .. e
<1>1. PICK past : past = {j \in i + 1 .. Len(dom) : dom[j].depth <= dom[i].depth}
  OBVIOUS
<1>2. CASE past = {}
  BY <1>1, <1>2 DEF Below
<1>3. CASE past # {}
  <2>1. past \in SUBSET Nat
    BY <1>1
  <2>2. PICK f : f = CHOOSE j \in past : \A k \in past : j <= k
    OBVIOUS
  <2>3. \E j \in past : \A k \in past : j <= k
    BY <1>3, <2>1, LeastNumber
  <2>4. f \in past
    BY <2>2, <2>3
  <2>5. Below(dom, i) = i + 1 .. f - 1
    BY <1>1, <1>3, <2>2 DEF Below
  <2>6. f - 1 \in i .. Len(dom)
    BY <1>1, <2>4
  <2> QED  BY <2>5, <2>6
<1> QED  BY <1>2, <1>3

(* And LastBelow is the last of it. *)
LEMMA LastBelowHolds ==
  ASSUME NEW dom, Len(dom) \in Nat, NEW i \in 1 .. Len(dom)
  PROVE  /\ LastBelow(dom, i) \in i .. Len(dom)
         /\ Below(dom, i) = i + 1 .. LastBelow(dom, i)
<1>1. PICK e \in i .. Len(dom) : Below(dom, i) = i + 1 .. e
  BY BelowHolds
<1>2. Cardinality(i + 1 .. e) = e - i
  <2>1. i + 1 \in Int /\ e \in Int /\ i \in Int /\ i <= e
    OBVIOUS
  <2>2. Cardinality(i + 1 .. e) = IF i + 1 > e THEN 0 ELSE e - (i + 1) + 1
    BY <2>1, FS_Interval
  <2> QED  BY <2>1, <2>2
<1>3. LastBelow(dom, i) = e
  BY <1>1, <1>2 DEF LastBelow
<1> QED  BY <1>1, <1>3

----------------------------------------------------------------------------
(* A sequence of whatever. *)
IsSeq(s) == \E X : s \in Seq(X)

(* The blocks of a document, rows included. *)
AllOf(blocks) == {BlockAt(blocks, p) : p \in Places(blocks)}

(* A block b put at the end of s makes t. *)
Ended(s, b, t) ==
  /\ IsSeq(t) /\ Len(s) \in Nat /\ DOMAIN s = 1 .. Len(s) /\ Len(t) = Len(s) + 1
  /\ Places(t) = Places(s) \cup {<<Len(s) + 1, m>> : m \in 0 .. Len(b.children)}
  /\ \A p \in Places(s) : BlockAt(t, p) = BlockAt(s, p) /\ p[1] \in 1 .. Len(s)
  /\ BlockAt(t, <<Len(s) + 1, 0>>) = b
  /\ \A m \in 1 .. Len(b.children) : BlockAt(t, <<Len(s) + 1, m>>) = b.children[m]

(* Appending is that. *)
LEMMA AppendEnds ==
  ASSUME NEW s, IsSeq(s), NEW b
  PROVE  Ended(s, b, Append(s, b))
<1>1. PICK X : s \in Seq(X)
  BY DEF IsSeq
<1>2. PICK t, l, Y : t = Append(s, b) /\ l = Len(s) /\ Y = X \cup {b}
  OBVIOUS
<1>3. s \in Seq(Y) /\ b \in Y
  BY <1>1, <1>2, SeqMonotonic
<1>4. /\ t \in Seq(Y) /\ Len(t) = l + 1 /\ t[l + 1] = b
      /\ \A k \in 1 .. l : t[k] = s[k]
  BY <1>2, <1>3, AppendProperties
<1>5. l \in Nat /\ DOMAIN s = 1 .. l /\ DOMAIN t = 1 .. l + 1
  BY <1>1, <1>2, <1>4, LenProperties
<1>6. \A p \in Places(s) :
        \E n \in 1 .. l : \E m : /\ p = <<n, m>> /\ m \in 0 .. Len(s[n].children)
                                 /\ p[1] = n /\ p[2] = m
  BY <1>5 DEF Places
<1>7. Places(t) = Places(s) \cup {<<l + 1, m>> : m \in 0 .. Len(b.children)}
  <2>1. ASSUME NEW p \in Places(t)
        PROVE  p \in Places(s) \cup {<<l + 1, m>> : m \in 0 .. Len(b.children)}
    <3>1. PICK n \in 1 .. l + 1 : p \in {n} \X (0 .. Len(t[n].children))
      BY <1>5 DEF Places
    <3>2. CASE n = l + 1
      BY <1>4, <3>1, <3>2
    <3>3. CASE n # l + 1
      <4>1. n \in 1 .. l /\ t[n] = s[n]
        BY <1>4, <1>5, <3>3
      <4> QED  BY <1>5, <3>1, <4>1 DEF Places
    <3> QED  BY <3>2, <3>3
  <2>2. ASSUME NEW p \in Places(s)
        PROVE  p \in Places(t)
    <3>1. PICK n \in 1 .. l : p \in {n} \X (0 .. Len(s[n].children))
      BY <1>5 DEF Places
    <3>2. n \in 1 .. l + 1 /\ t[n] = s[n]
      BY <1>4, <1>5
    <3> QED  BY <1>5, <3>1, <3>2 DEF Places
  <2>3. ASSUME NEW m \in 0 .. Len(b.children)
        PROVE  <<l + 1, m>> \in Places(t)
    <3>1. l + 1 \in 1 .. l + 1
      BY <1>5
    <3> QED  BY <1>4, <1>5, <3>1 DEF Places
  <2> QED  BY <2>1, <2>2, <2>3
<1>8. \A p \in Places(s) : BlockAt(t, p) = BlockAt(s, p) /\ p[1] \in 1 .. l
  BY <1>4, <1>6 DEF BlockAt
<1>9. BlockAt(t, <<l + 1, 0>>) = b
  BY <1>4 DEF BlockAt
<1>10. \A m \in 1 .. Len(b.children) : BlockAt(t, <<l + 1, m>>) = b.children[m]
  <2>1. \A m \in 1 .. Len(b.children) : m # 0
    OBVIOUS
  <2> QED  BY <1>4, <2>1 DEF BlockAt
<1>11. IsSeq(t)
  BY <1>4 DEF IsSeq
<1> QED  BY <1>2, <1>4, <1>5, <1>7, <1>8, <1>9, <1>10, <1>11 DEF Ended

(* So the blocks are those there were, the new one and its rows. *)
LEMMA EndedAll ==
  ASSUME NEW s, NEW b, NEW t, Ended(s, b, t), Len(b.children) \in Nat
  PROVE  /\ AllOf(t) = AllOf(s) \cup {b} \cup {b.children[m] : m \in 1 .. Len(b.children)}
         /\ HeadingsTell(t) => HeadingsTell(s)
<1>1. PICK l, w : l = Len(s) + 1 /\ w = Len(b.children)
  OBVIOUS
<1>2. /\ Places(t) = Places(s) \cup {<<l, m>> : m \in 0 .. w}
      /\ \A p \in Places(s) : BlockAt(t, p) = BlockAt(s, p)
      /\ BlockAt(t, <<l, 0>>) = b
      /\ \A m \in 1 .. w : BlockAt(t, <<l, m>>) = b.children[m]
  BY <1>1 DEF Ended
<1>3. 0 .. w = {0} \cup (1 .. w)
  BY <1>1
<1>4. AllOf(t) = AllOf(s) \cup {b} \cup {b.children[m] : m \in 1 .. w}
  <2>1. ASSUME NEW x \in AllOf(t)
        PROVE  x \in AllOf(s) \cup {b} \cup {b.children[m] : m \in 1 .. w}
    <3>1. PICK p \in Places(t) : x = BlockAt(t, p)
      BY DEF AllOf
    <3>2. CASE p \in Places(s)
      BY <1>2, <3>1, <3>2 DEF AllOf
    <3>3. CASE p \notin Places(s)
      <4>1. PICK m \in 0 .. w : p = <<l, m>>
        BY <1>2, <3>1, <3>3
      <4> QED  BY <1>2, <1>3, <3>1, <4>1
    <3> QED  BY <3>2, <3>3
  <2>2. ASSUME NEW x \in AllOf(s) PROVE x \in AllOf(t)
    BY <1>2 DEF AllOf
  <2>3. b \in AllOf(t)
    <3>1. <<l, 0>> \in Places(t)
      BY <1>2, <1>3
    <3> QED  BY <1>2, <3>1 DEF AllOf
  <2>4. ASSUME NEW m \in 1 .. w PROVE b.children[m] \in AllOf(t)
    <3>1. <<l, m>> \in Places(t)
      BY <1>2, <1>3
    <3> QED  BY <1>2, <3>1 DEF AllOf
  <2> QED  BY <2>1, <2>2, <2>3, <2>4
<1>5. HeadingsTell(t) => HeadingsTell(s)
  BY <1>2 DEF HeadingsTell
<1> QED  BY <1>1, <1>4, <1>5

----------------------------------------------------------------------------
(* The last heading of a path of headings is text, from after the place m. *)
EndsAt(crumb, text, l, m) ==
  /\ Len(crumb) = m + l /\ l # 0 /\ (m # 0 => crumb[m] = Joint)
  /\ \A x \in 1 .. l : crumb[m + x] = text[x] /\ text[x] # Joint

Ends(crumb, text) == IsSeq(text) /\ \E m \in Nat : EndsAt(crumb, text, Len(text), m)

(* A path leads to none or to one of the headings told. *)
Led(crumb, B) == crumb = <<>> \/ \E h \in B : h.ty = "Heading" /\ Ends(crumb, h.text)

(* No two of the blocks have the same key, and the next of any type gets a new
   one: in its section the ordinals told are below the counter, and other
   sections have other paths. *)
Keys(B, counts, crumb) ==
  /\ \A ty \in DOMAIN counts : counts[ty] \in Nat
  /\ \A b \in B : b.slot.anchor = "" =>
       /\ b.slot.ord \in Nat
       /\ b.slot.crumb = crumb => b.slot.ord < Ordinal(counts, b.slot.ty)
       /\ Led(b.slot.crumb, B)
  /\ Led(crumb, B)
  /\ \A b, c \in B : b.slot = c.slot => b.at = c.at

(* A path ends in one text, and the empty one in none. *)
LEMMA EndsOnce ==
  /\ \A crumb, t, u : Ends(crumb, t) /\ Ends(crumb, u) => t = u
  /\ \A t : ~Ends(<<>>, t)
<1>1. ASSUME NEW t, IsSeq(t)
      PROVE  \E l \in Nat : l = Len(t) /\ t = [k \in 1 .. l |-> t[k]]
  <2>1. PICK X : t \in Seq(X)
    BY <1>1 DEF IsSeq
  <2>2. Len(t) \in Nat /\ t \in [1 .. Len(t) -> X]
    BY <2>1, LenProperties
  <2> QED  BY <2>2
<1>2. ASSUME NEW crumb, NEW t, NEW u, NEW m \in Nat, NEW n \in Nat, NEW l \in Nat, NEW k \in Nat,
             EndsAt(crumb, t, l, m), EndsAt(crumb, u, k, n)
      PROVE  ~(m < n)
  <2>1. SUFFICES ASSUME m < n PROVE FALSE
    OBVIOUS
  <2>2. m + l = n + k /\ k # 0 /\ (n # 0 => crumb[n] = Joint)
    BY <1>2 DEF EndsAt
  <2>3. PICK x \in 1 .. l : m + x = n /\ n # 0
    <3>1. n - m \in 1 .. l /\ m + (n - m) = n /\ n # 0
      BY <2>1, <2>2
    <3> QED  BY <3>1
  <2>4. crumb[n] = t[x] /\ t[x] # Joint
    BY <1>2, <2>3 DEF EndsAt
  <2> QED  BY <2>2, <2>3, <2>4
<1>3. ASSUME NEW crumb, NEW t, NEW u, Ends(crumb, t), Ends(crumb, u)
      PROVE  t = u
  <2>1. PICK l \in Nat : l = Len(t) /\ t = [x \in 1 .. l |-> t[x]]
    BY <1>1, <1>3 DEF Ends
  <2>2. PICK k \in Nat : k = Len(u) /\ u = [x \in 1 .. k |-> u[x]]
    BY <1>1, <1>3 DEF Ends
  <2>3. PICK m \in Nat : EndsAt(crumb, t, l, m)
    BY <1>3, <2>1 DEF Ends
  <2>4. PICK n \in Nat : EndsAt(crumb, u, k, n)
    BY <1>3, <2>2 DEF Ends
  <2>5. ~(m < n)
    BY <1>2, <2>3, <2>4
  <2>6. ~(n < m)
    BY <1>2, <2>3, <2>4
  <2>7. m = n /\ l = k
    BY <2>3, <2>4, <2>5, <2>6 DEF EndsAt
  <2>8. \A x \in 1 .. l : t[x] = u[x]
    BY <2>3, <2>4, <2>7 DEF EndsAt
  <2> QED  BY <2>1, <2>2, <2>7, <2>8
<1>4. ASSUME NEW t, Ends(<<>>, t)
      PROVE  FALSE
  <2>1. PICK l \in Nat : l = Len(t)
    BY <1>1, <1>4 DEF Ends
  <2>2. PICK m \in Nat : Len(<<>>) = m + l /\ l # 0
    BY <1>4, <2>1 DEF Ends, EndsAt
  <2>3. Len(<<>>) = 0
    OBVIOUS
  <2> QED  BY <2>2, <2>3
<1> QED  BY <1>3, <1>4

(* Texts of a page, and paths of headings with such. *)
Phrases == Seq(Words \X BOOLEAN)
IsPath(path) == \E X : path \in Seq(X) /\ \A x \in X : x.text \in Phrases

(* The path of a section ends in its heading. *)
LEMMA CrumbEnds ==
  ASSUME NEW path, IsPath(path), NEW h, h.text \in Phrases
  PROVE  /\ IsPath(Append(path, h))
         /\ Tells(h.text) => Ends(Breadcrumb(Append(path, h)), h.text)
<1>1. PICK X : path \in Seq(X) /\ \A x \in X : x.text \in Phrases
  BY DEF IsPath
<1>2. PICK n, q, Y : n = Len(path) /\ q = Append(path, h) /\ Y = X \cup {h}
  OBVIOUS
<1>3. path \in Seq(Y) /\ h \in Y /\ \A x \in Y : x.text \in Phrases
  BY <1>1, <1>2, SeqMonotonic
<1>4. q \in Seq(Y) /\ Len(q) = n + 1 /\ q[n + 1] = h
  BY <1>2, <1>3, AppendProperties
<1>5. n \in Nat /\ DOMAIN q = 1 .. n + 1 /\ \A k \in 1 .. n + 1 : q[k] \in Y
  BY <1>1, <1>2, <1>4, LenProperties
<1>6. IsPath(q)
  BY <1>3, <1>4 DEF IsPath
<1>7. PICK Z, text : Z = (Words \X BOOLEAN) \cup {Joint} /\ text = h.text
  OBVIOUS
<1>8. /\ <<Joint>> \in Seq(Z) /\ Len(<<Joint>>) = 1 /\ <<Joint>>[1] = Joint
      /\ \A k \in 1 .. n + 1 : q[k].text \in Seq(Z)
  <2>1. <<Joint>> \in Seq(Z)
    BY <1>7
  <2>2. ASSUME NEW k \in 1 .. n + 1 PROVE q[k].text \in Seq(Z)
    <3>1. q[k].text \in Seq(Words \X BOOLEAN)
      BY <1>3, <1>5 DEF Phrases
    <3> QED  BY <1>7, <3>1, SeqMonotonic
  <2> QED  BY <2>1, <2>2
<1>9. PICK seqs : seqs = [k \in DOMAIN q |->
                            IF k = 1 THEN q[k].text ELSE <<Joint>> \o q[k].text]
  OBVIOUS
<1>10. /\ DOMAIN seqs = 1 .. n + 1
       /\ \A k \in 1 .. n + 1 :
            seqs[k] = IF k = 1 THEN q[k].text ELSE <<Joint>> \o q[k].text
  BY <1>5, <1>9
<1>11. \A k \in 1 .. n + 1 : seqs[k] \in Seq(Z)
  <2>1. ASSUME NEW k \in 1 .. n + 1 PROVE seqs[k] \in Seq(Z)
    <3>1. PICK s : s = q[k].text /\ s \in Seq(Z)
      BY <1>8
    <3>2. <<Joint>> \o s \in Seq(Z)
      BY <1>8, <3>1, ConcatProperties
    <3> QED  BY <1>10, <3>1, <3>2
  <2> QED  BY <2>1
<1>12. Len(seqs) = n + 1
  <2>1. seqs \in [1 .. n + 1 -> Seq(Z)]
    <3>1. seqs = [k \in 1 .. n + 1 |-> seqs[k]]
      BY <1>5, <1>9
    <3> QED  BY <1>11, <3>1
  <2>2. seqs \in Seq(Seq(Z)) /\ n + 1 \in Nat
    BY <1>5, <2>1, SeqDef
  <2>3. DOMAIN seqs = 1 .. Len(seqs) /\ Len(seqs) \in Nat
    BY <2>2, LenProperties
  <2> QED  BY <1>5, <1>10, <2>3
<1>13. PICK f : FlatUpto(f, n + 1, seqs) /\ FlattenSeq(seqs) = f[n + 1]
  <2>1. n + 1 \in Nat \ {0}
    BY <1>5
  <2> QED  BY <1>12, <2>1, FlatClimbs
<1>14. \A k \in 1 .. n + 1 : f[k] \in Seq(Z)
  <2>1. n + 1 \in Nat
    BY <1>5
  <2> QED  BY <1>11, <1>13, <2>1, FlatType
<1>15. Breadcrumb(q) = f[n + 1]
  BY <1>9, <1>13 DEF Breadcrumb
<1>16. \A k \in 1 .. n + 1 : f[k] = IF k = 1 THEN seqs[k] ELSE f[k - 1] \o seqs[k]
  BY <1>13, Zenon DEF FlatUpto
<1>17. PICK l : l = Len(text) /\ l \in Nat /\ DOMAIN text = 1 .. l /\ IsSeq(text)
  <2>1. text \in Seq(Words \X BOOLEAN)
    BY <1>7 DEF Phrases
  <2> QED  BY <2>1, LenProperties DEF IsSeq
<1>18. PICK crumb : crumb = Breadcrumb(q)
  OBVIOUS
<1>19. \E m \in Nat : /\ Len(crumb) = m + l
                      /\ \A k \in 1 .. l : crumb[m + k] = text[k]
                      /\ m # 0 => crumb[m] = Joint
  <2>1. n + 1 \in 1 .. n + 1
    BY <1>5
  <2>2. CASE n = 0
    <3>1. crumb = text
      BY <1>4, <1>7, <1>10, <1>15, <1>16, <1>18, <2>1, <2>2
    <3> WITNESS 0 \in Nat
    <3> QED  BY <1>17, <3>1
  <2>3. CASE n # 0
    <3>1. n \in 1 .. n + 1 /\ n + 1 # 1 /\ (n + 1) - 1 = n
      BY <1>5, <2>3
    <3>2. PICK a, s : a = f[n] /\ s = <<Joint>> \o text
      OBVIOUS
    <3>3. crumb = a \o s /\ a \in Seq(Z) /\ text \in Seq(Z)
      BY <1>4, <1>7, <1>8, <1>10, <1>14, <1>15, <1>16, <1>18, <2>1, <3>1, <3>2
    <3>4. /\ s \in Seq(Z) /\ Len(s) = 1 + l
          /\ \A k \in 1 .. 1 + l : s[k] = IF k <= 1 THEN <<Joint>>[k] ELSE text[k - 1]
      BY <1>8, <1>17, <3>2, <3>3, ConcatProperties
    <3>5. PICK b : b = Len(a) /\ b \in Nat
      BY <3>3, LenProperties
    <3>6. /\ Len(crumb) = b + (1 + l)
          /\ \A k \in 1 .. b + (1 + l) : crumb[k] = IF k <= b THEN a[k] ELSE s[k - b]
      BY <3>3, <3>4, <3>5, ConcatProperties
    <3>7. Len(crumb) = (b + 1) + l
      BY <1>17, <3>5, <3>6
    <3>8. crumb[b + 1] = Joint
      <4>1. b + 1 \in 1 .. b + (1 + l) /\ ~(b + 1 <= b) /\ (b + 1) - b = 1 /\ 1 \in 1 .. 1 + l
        BY <1>17, <3>5
      <4> QED  BY <1>8, <3>4, <3>6, <4>1
    <3>9. ASSUME NEW k \in 1 .. l PROVE crumb[(b + 1) + k] = text[k]
      <4>1. /\ (b + 1) + k \in 1 .. b + (1 + l) /\ ~((b + 1) + k <= b)
            /\ ((b + 1) + k) - b = k + 1 /\ k + 1 \in 1 .. 1 + l /\ ~(k + 1 <= 1)
            /\ (k + 1) - 1 = k
        BY <1>17, <3>5
      <4> QED  BY <3>4, <3>6, <4>1
    <3>10. b + 1 \in Nat
      BY <3>5
    <3> QED  BY <3>7, <3>8, <3>9, <3>10
  <2> QED  BY <2>2, <2>3
<1>20. ASSUME Tells(text) PROVE Ends(crumb, text)
  <2>1. \A k \in 1 .. l : text[k] # Joint
    BY <1>17, <1>20 DEF Tells
  <2>2. l # 0
    <3>1. SUFFICES ASSUME l = 0 PROVE text = <<>>
      BY <1>20 DEF Tells
    <3>2. text \in Seq(Words \X BOOLEAN)
      BY <1>7 DEF Phrases
    <3> QED  BY <1>17, <3>1, <3>2, EmptySeq
  <2> QED  BY <1>17, <1>19, <2>1, <2>2 DEF Ends, EndsAt
<1> QED  BY <1>2, <1>6, <1>7, <1>18, <1>20

(* The root has none. *)
LEMMA NoCrumb == Breadcrumb(<<>>) = <<>>
<1>1. PICK X : X = {0}
  OBVIOUS
<1>2. PICK e : e = <<>> /\ e \in Seq(X) /\ Len(e) = 0 /\ DOMAIN e = 1 .. 0
  BY EmptySeq, LenProperties
<1>3. PICK seqs : seqs = [k \in DOMAIN e |->
                            IF k = 1 THEN e[k].text ELSE <<Joint>> \o e[k].text]
  OBVIOUS
<1>4. seqs = e
  <2>1. DOMAIN e = {} /\ e \in [DOMAIN e -> X]
    BY <1>2, LenProperties
  <2> QED  BY <1>3, <2>1
<1>5. FlattenSeq(e) = e
  BY <1>2, Zenon DEF FlattenSeq
<1> QED  BY <1>2, <1>3, <1>4, <1>5 DEF Breadcrumb

(* The texts of a forest. *)
Worded(F) ==
  Len(F) \in Nat /\ DOMAIN F = 1 .. Len(F) /\ \A k \in DOMAIN F : F[k].text \in AnyText

(* They are made of words, as are those below a node. *)
LEMMA SubtreeTextType ==
  ASSUME NEW F, Worded(F), NEW i
  PROVE  SubtreeText(F, i) \in Phrases
<1>1. PICK S, texts : /\ S = {j \in Below(F, i) : IsText(F[j])} /\ texts = InOrder(F, S)
  OBVIOUS
<1>2. texts \in Seq(S \cap DOMAIN F)
  BY <1>1, InOrderHolds DEF Worded
<1>3. PICK w : w = Len(texts) /\ w \in Nat /\ DOMAIN texts = 1 .. w
  BY <1>2, LenProperties
<1>4. PICK seqs : seqs = [n \in DOMAIN texts |-> Spelled(F[texts[n]].text)]
  OBVIOUS
<1>5. ASSUME NEW n \in 1 .. w PROVE seqs[n] \in Phrases
  <2>1. texts[n] \in DOMAIN F
    BY <1>2, <1>3
  <2>2. PICK text : text = F[texts[n]].text /\ text \in AnyText
    BY <2>1 DEF Worded
  <2>3. text.words \in Seq(Words) /\ text.spaced \in BOOLEAN
    BY <2>2 DEF AnyText
  <2>4. PICK l : l \in Nat /\ DOMAIN text.words = 1 .. l /\ \A k \in 1 .. l : text.words[k] \in Words
    BY <2>3, LenProperties
  <2>5. seqs[n] = [k \in 1 .. l |-> <<text.words[k], text.spaced>>]
    BY <1>3, <1>4, <2>2, <2>4 DEF Spelled
  <2>6. seqs[n] \in [1 .. l -> Words \X BOOLEAN]
    BY <2>3, <2>4, <2>5
  <2> QED  BY <2>4, <2>6, SeqDef DEF Phrases
<1>6. FlattenSeq(seqs) \in Seq(Words \X BOOLEAN)
  <2>1. seqs = [n \in 1 .. w |-> seqs[n]]
    BY <1>3, <1>4
  <2> QED  BY <1>3, <1>5, <2>1, FlattenType DEF Phrases
<1> QED  BY <1>1, <1>4, <1>6 DEF SubtreeText, Phrases

(* What counts is counted. *)
LEMMA CountingHolds ==
  ASSUME NEW counts, \A t \in DOMAIN counts : counts[t] \in Nat, NEW ty
  PROVE  /\ \A t \in DOMAIN Counting(counts, ty) : Counting(counts, ty)[t] \in Nat
         /\ \A t : Ordinal(counts, t) \in Nat
         /\ \A t : Ordinal(counts, t) <= Ordinal(Counting(counts, ty), t)
         /\ Ordinal(counts, ty) < Ordinal(Counting(counts, ty), ty)
<1>1. \A t : Ordinal(counts, t) \in Nat
  BY DEF Ordinal
<1>2. PICK more : more = Counting(counts, ty)
  OBVIOUS
<1>3. /\ DOMAIN more = DOMAIN counts \cup {ty}
      /\ \A t \in DOMAIN more : more[t] = IF t = ty THEN Ordinal(counts, ty) + 1 ELSE counts[t]
  BY <1>2 DEF Counting
<1>4. \A t \in DOMAIN more : more[t] \in Nat
  BY <1>1, <1>3
<1>5. Ordinal(more, ty) = Ordinal(counts, ty) + 1
  BY <1>3 DEF Ordinal
<1>6. \A t : t # ty => Ordinal(more, t) = Ordinal(counts, t)
  BY <1>3 DEF Ordinal
<1>7. \A t : Ordinal(counts, t) <= Ordinal(more, t)
  BY <1>1, <1>5, <1>6
<1> QED  BY <1>1, <1>2, <1>4, <1>5, <1>7

(* The key of a block of type ty in the section with this path. *)
KeyOf(id, ty, counts, crumb) ==
  IF id # "" THEN [anchor |-> id, crumb |-> <<>>, ty |-> "", ord |-> 0]
  ELSE [anchor |-> "", crumb |-> crumb, ty |-> ty, ord |-> Ordinal(counts, ty)]

CountsAfter(id, ty, counts) == IF id = "" THEN Counting(counts, ty) ELSE counts

(* What is told of the nodes told. *)
Stands(F, N, b) == \E j \in N : b.at = F[j].at /\ b.slot.anchor = F[j].id

(* A block of a node that was not told yet has a new key. *)
LEMMA EmitKeys ==
  ASSUME NEW F, IdsDiffer(F), NEW N \in SUBSET DOMAIN F, NEW j \in DOMAIN F, j \notin N,
         NEW B, NEW counts, NEW crumb, Keys(B, counts, crumb),
         \A c \in B : Stands(F, N, c),
         NEW b, NEW ty, b.slot = KeyOf(F[j].id, ty, counts, crumb)
  PROVE  /\ Keys(B \cup {b}, CountsAfter(F[j].id, ty, counts), crumb)
         /\ \A c \in B \cup {b} : c.slot.anchor = "" => Led(c.slot.crumb, B)
<1>1. PICK more, id : more = CountsAfter(id, ty, counts) /\ id = F[j].id
  OBVIOUS
<1>2. /\ \A t \in DOMAIN counts : counts[t] \in Nat
      /\ \A c \in B : c.slot.anchor = "" =>
           /\ c.slot.ord \in Nat /\ Led(c.slot.crumb, B)
           /\ c.slot.crumb = crumb => c.slot.ord < Ordinal(counts, c.slot.ty)
      /\ Led(crumb, B)
      /\ \A c, d \in B : c.slot = d.slot => c.at = d.at
  BY DEF Keys
<1>3. /\ \A t \in DOMAIN more : more[t] \in Nat
      /\ \A t : Ordinal(counts, t) \in Nat /\ Ordinal(more, t) \in Nat
      /\ \A t : Ordinal(counts, t) <= Ordinal(more, t)
      /\ id = "" => Ordinal(counts, ty) < Ordinal(more, ty)
  <2>1. CASE id = ""
    <3>1. more = Counting(counts, ty)
      BY <1>1, <2>1 DEF CountsAfter
    <3>2. /\ \A t \in DOMAIN more : more[t] \in Nat
          /\ \A t : Ordinal(counts, t) \in Nat
          /\ \A t : Ordinal(counts, t) <= Ordinal(more, t)
          /\ Ordinal(counts, ty) < Ordinal(more, ty)
      BY <1>2, <3>1, CountingHolds
    <3>3. \A t : Ordinal(more, t) \in Nat
      BY <3>2 DEF Ordinal
    <3> QED  BY <3>2, <3>3
  <2>2. CASE id # ""
    <3>1. more = counts
      BY <1>1, <2>2 DEF CountsAfter
    <3>2. \A t : Ordinal(counts, t) \in Nat
      BY <1>2 DEF Ordinal
    <3>3. \A t : Ordinal(counts, t) <= Ordinal(counts, t)
      <4>1. \A x \in Nat : x <= x
        OBVIOUS
      <4> QED  BY <3>2, <4>1
    <3> QED  BY <1>2, <2>2, <3>1, <3>2, <3>3
  <2> QED  BY <2>1, <2>2
<1>4. /\ id # "" => b.slot.anchor = id
      /\ id = "" => /\ b.slot.anchor = "" /\ b.slot.crumb = crumb
                    /\ b.slot.ty = ty /\ b.slot.ord = Ordinal(counts, ty)
  <2>1. PICK key, ord : key = b.slot /\ ord = Ordinal(counts, ty)
    OBVIOUS
  <2>2. key = KeyOf(id, ty, counts, crumb)
    BY <1>1, <2>1
  <2>3. ASSUME id # "" PROVE key.anchor = id
    <3>1. key = [anchor |-> id, crumb |-> <<>>, ty |-> "", ord |-> 0]
      BY <2>2, <2>3 DEF KeyOf
    <3> QED  BY <3>1
  <2>4. ASSUME id = ""
        PROVE  key.anchor = "" /\ key.crumb = crumb /\ key.ty = ty /\ key.ord = ord
    <3>1. key = [anchor |-> "", crumb |-> crumb, ty |-> ty, ord |-> ord]
      BY <2>1, <2>2, <2>4 DEF KeyOf
    <3> QED  BY <3>1
  <2> QED  BY <2>1, <2>3, <2>4
<1>5. \A g : \A c : Led(c, B) => Led(c, B \cup {g})
  BY DEF Led
<1>6. \A c \in B \cup {b} : c.slot.anchor = "" => Led(c.slot.crumb, B)
  BY <1>2, <1>4
<1>7. \A c \in B \cup {b} : c.slot.anchor = "" =>
        /\ c.slot.ord \in Nat
        /\ c.slot.crumb = crumb => c.slot.ord < Ordinal(more, c.slot.ty)
        /\ Led(c.slot.crumb, B \cup {b})
  <2>1. ASSUME NEW c \in B, c.slot.anchor = ""
        PROVE  /\ c.slot.ord \in Nat
               /\ c.slot.crumb = crumb => c.slot.ord < Ordinal(more, c.slot.ty)
    <3>1. PICK o, x, y : /\ o = c.slot.ord /\ x = Ordinal(counts, c.slot.ty)
                         /\ y = Ordinal(more, c.slot.ty)
      OBVIOUS
    <3>2. o \in Nat /\ x \in Nat /\ y \in Nat /\ x <= y /\ (c.slot.crumb = crumb => o < x)
      BY <1>2, <1>3, <2>1, <3>1
    <3>3. c.slot.crumb = crumb => o < y
      BY <3>2
    <3> QED  BY <3>1, <3>2, <3>3
  <2>2. b.slot.anchor = "" => /\ b.slot.ord \in Nat
                              /\ b.slot.ord < Ordinal(more, b.slot.ty)
    BY <1>3, <1>4
  <2> QED  BY <1>5, <1>6, <2>1, <2>2
<1>8. ASSUME NEW c \in B, c.slot = b.slot
      PROVE  FALSE
  <2>1. PICK k \in N : c.slot.anchor = F[k].id
    BY DEF Stands
  <2>2. CASE id # ""
    <3>1. F[k].id = F[j].id /\ F[j].id # "" /\ k \in DOMAIN F
      BY <1>1, <1>4, <1>8, <2>1, <2>2
    <3>2. k = j
      BY <3>1 DEF IdsDiffer
    <3> QED  BY <3>2
  <2>3. CASE id = ""
    <3>1. /\ c.slot.anchor = "" /\ c.slot.crumb = crumb
          /\ c.slot.ty = ty /\ c.slot.ord = Ordinal(counts, ty)
      BY <1>4, <1>8, <2>3
    <3>2. PICK x \in Nat : x = Ordinal(counts, ty)
      BY <1>3
    <3>3. x < x
      BY <1>2, <3>1, <3>2
    <3> QED  BY <3>3
  <2> QED  BY <2>2, <2>3
<1>9. \A c, d \in B \cup {b} : c.slot = d.slot => c.at = d.at
  BY <1>2, <1>8
<1>10. Keys(B \cup {b}, more, crumb)
  BY <1>2, <1>3, <1>5, <1>7, <1>9 DEF Keys
<1> QED  BY <1>1, <1>6, <1>10

(* A heading of another text than those before opens a section of its own. *)
LEMMA HeadingKeys ==
  ASSUME NEW F, IdsDiffer(F), NEW N \in SUBSET DOMAIN F, NEW j \in DOMAIN F, j \notin N,
         NEW B, NEW counts, NEW crumb, Keys(B, counts, crumb),
         \A c \in B : Stands(F, N, c),
         NEW b, b.slot = KeyOf(F[j].id, "Heading", counts, crumb), b.ty = "Heading",
         \A g \in B : g.ty = "Heading" => g.text # b.text,
         NEW opened, Ends(opened, b.text)
  PROVE  Keys(B \cup {b}, NoOrdinals, opened)
<1>1. /\ Keys(B \cup {b}, CountsAfter(F[j].id, "Heading", counts), crumb)
      /\ \A c \in B \cup {b} : c.slot.anchor = "" => Led(c.slot.crumb, B)
  BY EmitKeys
<1>2. \A c \in B \cup {b} : c.slot.anchor = "" => c.slot.crumb # opened
  <2>1. SUFFICES ASSUME Led(opened, B) PROVE FALSE
    BY <1>1
  <2>2. opened # <<>>
    BY EndsOnce
  <2>3. PICK h \in B : h.ty = "Heading" /\ Ends(opened, h.text)
    BY <2>1, <2>2 DEF Led
  <2>4. h.text = b.text
    BY <2>3, EndsOnce
  <2> QED  BY <2>3, <2>4
<1>3. DOMAIN NoOrdinals = {}
  BY DEF NoOrdinals
<1>4. Led(opened, B \cup {b})
  BY DEF Led
<1> QED  BY <1>1, <1>2, <1>3, <1>4 DEF Keys

----------------------------------------------------------------------------
(* A context of the walk. *)
Context(c) ==
  c = [blocks |-> c.blocks, next |-> c.next, path |-> c.path, counts |-> c.counts,
       inside |-> c.inside]

(* What the emission of a block does to one. *)
LEMMA EmitHolds ==
  ASSUME NEW c, Context(c), NEW F, NEW j, NEW ty, NEW level, NEW children
  PROVE  /\ Context(Emit(c, F, j, ty, level, children))
         /\ Emit(c, F, j, ty, level, children).blocks
              = Append(c.blocks, MakeBlock(c, F, j, ty, level, children))
         /\ Emit(c, F, j, ty, level, children).path = c.path
         /\ Emit(c, F, j, ty, level, children).inside = c.inside
         /\ Emit(c, F, j, ty, level, children).counts = CountsAfter(F[j].id, ty, c.counts)
<1>1. PICK b, more : /\ b = MakeBlock(c, F, j, ty, level, children)
                     /\ more = CountsAfter(F[j].id, ty, c.counts)
  OBVIOUS
<1>2. PICK m : m = [blocks |-> c.blocks, next |-> c.next + 1, path |-> c.path,
                    counts |-> more, inside |-> c.inside]
  OBVIOUS
<1>3. Numbered(c, F, j, ty) = m
  <2>1. (IF F[j].id = "" THEN Counting(c.counts, ty) ELSE c.counts) = more
    BY <1>1 DEF CountsAfter
  <2>2. Numbered(c, F, j, ty) = [c EXCEPT !.next = c.next + 1, !.counts = more]
    BY <2>1, Zenon DEF Numbered
  <2> QED  BY <1>2, <2>2 DEF Context
<1>4. Emit(c, F, j, ty, level, children) = [m EXCEPT !.blocks = Append(c.blocks, b)]
  <2>1. m.blocks = c.blocks
    BY <1>2
  <2> QED  BY <1>1, <1>3, <2>1 DEF Emit
<1>5. PICK s : s = Append(c.blocks, b)
  OBVIOUS
<1>6. PICK d : d = Emit(c, F, j, ty, level, children)
  OBVIOUS
<1>7. d = [blocks |-> s, next |-> c.next + 1, path |-> c.path, counts |-> more,
           inside |-> c.inside]
  BY <1>2, <1>4, <1>5, <1>6
<1>8. /\ Context(d) /\ d.blocks = s /\ d.path = c.path /\ d.inside = c.inside
      /\ d.counts = more
  BY <1>7 DEF Context
<1> QED  BY <1>1, <1>5, <1>6, <1>8

(* What it says of a node. *)
LEMMA MadeHolds ==
  ASSUME NEW c, NEW F, NEW j, NEW ty, NEW level, NEW children
  PROVE  LET b == MakeBlock(c, F, j, ty, level, children)
         IN  /\ b.slot = KeyOf(F[j].id, ty, c.counts, Breadcrumb(c.path))
             /\ b.ty = ty /\ b.at = F[j].at /\ b.children = children
             /\ b.text = SubtreeText(F, j) /\ b.slot.anchor = F[j].id
<1>1. PICK key : key = SlotKey(c, F[j], ty)
  OBVIOUS
<1>2. key = KeyOf(F[j].id, ty, c.counts, Breadcrumb(c.path))
  BY <1>1 DEF SlotKey, KeyOf
<1>3. key.anchor = F[j].id
  <2>1. PICK id, crumb, ord : /\ id = F[j].id /\ crumb = Breadcrumb(c.path)
                              /\ ord = Ordinal(c.counts, ty)
    OBVIOUS
  <2>2. CASE id # ""
    <3>1. key = [anchor |-> id, crumb |-> <<>>, ty |-> "", ord |-> 0]
      BY <1>2, <2>1, <2>2 DEF KeyOf
    <3>2. key.anchor = id
      BY <3>1
    <3> QED  BY <2>1, <3>2
  <2>3. CASE id = ""
    <3>1. key = [anchor |-> "", crumb |-> crumb, ty |-> ty, ord |-> ord]
      BY <1>2, <2>1, <2>3 DEF KeyOf
    <3>2. key.anchor = ""
      BY <3>1
    <3> QED  BY <2>1, <2>3, <3>2
  <2> QED  BY <2>2, <2>3
<1>4. PICK b : b = MakeBlock(c, F, j, ty, level, children)
  OBVIOUS
<1>5. PICK text, value, sig, next, depth, at :
        /\ text = SubtreeText(F, j) /\ value = TypedValue(F, j, ty)
        /\ sig = RestyleSig(F, j) /\ next = c.next /\ depth = F[j].depth /\ at = F[j].at
  OBVIOUS
<1>6. b = [slot |-> key, ty |-> ty, level |-> level, text |-> text, value |-> value,
           restyle |-> sig, children |-> children, preorder |-> next, depth |-> depth, at |-> at]
  BY <1>1, <1>4, <1>5 DEF MakeBlock
<1>7. b.slot = key /\ b.ty = ty /\ b.at = at /\ b.children = children /\ b.text = text
  BY <1>6
<1> QED  BY <1>2, <1>3, <1>4, <1>5, <1>7

(* No node of the page is told twice. *)
Apart(blocks) ==
  \A p, q \in Places(blocks) : BlockAt(blocks, p).at = BlockAt(blocks, q).at => p = q

(* A block and its rows are of other nodes than the blocks before. *)
OfOthers(s, b, w) ==
  /\ \A x \in AllOf(s) : x.at # b.at /\ \A m \in 1 .. w : x.at # b.children[m].at
  /\ \A m \in 1 .. w : b.children[m].at # b.at
  /\ \A m, n \in 1 .. w : b.children[m].at = b.children[n].at => m = n

(* Nor is one when a block and its rows of other nodes come after. *)
LEMMA EndedApart ==
  ASSUME NEW s, NEW b, NEW t, Ended(s, b, t), Apart(s), NEW w \in Nat, w = Len(b.children),
         OfOthers(s, b, w)
  PROVE  Apart(t)
<1>0. /\ \A x \in AllOf(s) : x.at # b.at /\ \A m \in 1 .. w : x.at # b.children[m].at
      /\ \A m \in 1 .. w : b.children[m].at # b.at
      /\ \A m, n \in 1 .. w : b.children[m].at = b.children[n].at => m = n
  BY DEF OfOthers
<1>1. PICK l : l = Len(s) + 1
  OBVIOUS
<1>2. /\ Places(t) = Places(s) \cup {<<l, m>> : m \in 0 .. w}
      /\ \A p \in Places(s) : BlockAt(t, p) = BlockAt(s, p)
      /\ BlockAt(t, <<l, 0>>) = b
      /\ \A m \in 1 .. w : BlockAt(t, <<l, m>>) = b.children[m]
  BY <1>1 DEF Ended
<1>3. \A m \in 0 .. w : m = 0 \/ m \in 1 .. w
  OBVIOUS
<1>4. ASSUME NEW p \in Places(s), NEW m \in 0 .. w,
             BlockAt(t, p).at = BlockAt(t, <<l, m>>).at
      PROVE  FALSE
  <2>1. PICK x \in AllOf(s) : x = BlockAt(t, p)
    BY <1>2 DEF AllOf
  <2>2. CASE m = 0
    BY <1>0, <1>2, <1>4, <2>1, <2>2
  <2>3. CASE m \in 1 .. w
    BY <1>0, <1>2, <1>4, <2>1, <2>3
  <2> QED  BY <1>3, <2>2, <2>3
<1>5. ASSUME NEW m \in 0 .. w, NEW n \in 0 .. w,
             BlockAt(t, <<l, m>>).at = BlockAt(t, <<l, n>>).at
      PROVE  m = n
  <2>1. CASE m = 0 /\ n = 0
    BY <2>1
  <2>2. CASE m = 0 /\ n \in 1 .. w
    BY <1>0, <1>2, <1>5, <2>2
  <2>3. CASE m \in 1 .. w /\ n = 0
    BY <1>0, <1>2, <1>5, <2>3
  <2>4. CASE m \in 1 .. w /\ n \in 1 .. w
    BY <1>0, <1>2, <1>5, <2>4
  <2> QED  BY <1>3, <2>1, <2>2, <2>3, <2>4
<1>6. ASSUME NEW p \in Places(t), NEW q \in Places(t), BlockAt(t, p).at = BlockAt(t, q).at
      PROVE  p = q
  <2>1. CASE p \in Places(s) /\ q \in Places(s)
    BY <1>2, <1>6, <2>1 DEF Apart
  <2>2. CASE p \in Places(s) /\ q \notin Places(s)
    <3>1. PICK m \in 0 .. w : q = <<l, m>>
      BY <1>2, <1>6, <2>2
    <3> QED  BY <1>4, <1>6, <2>2, <3>1
  <2>3. CASE p \notin Places(s) /\ q \in Places(s)
    <3>1. PICK m \in 0 .. w : p = <<l, m>>
      BY <1>2, <1>6, <2>3
    <3> QED  BY <1>4, <1>6, <2>3, <3>1
  <2>4. CASE p \notin Places(s) /\ q \notin Places(s)
    <3>1. PICK m \in 0 .. w, n \in 0 .. w : p = <<l, m>> /\ q = <<l, n>>
      BY <1>2, <1>6, <2>4
    <3> QED  BY <1>5, <1>6, <3>1
  <2> QED  BY <2>1, <2>2, <2>3, <2>4
<1> QED  BY <1>6 DEF Apart

----------------------------------------------------------------------------
AtsDiffer(F) == \A j, k \in DOMAIN F : F[j].at = F[k].at => j = k

(* A context after the nodes in N were told. *)
Structure(F, c, N) ==
  /\ Context(c) /\ IsSeq(c.blocks) /\ IsPath(c.path) /\ N \subseteq DOMAIN F
  /\ \A b \in AllOf(c.blocks) : Stands(F, N, b)
  /\ Apart(c.blocks)

Keyed(c) ==
  HeadingsTell(c.blocks) => Keys(AllOf(c.blocks), c.counts, Breadcrumb(c.path))

(* The blocks of the rows r, which are not told yet. *)
Rowed(F, N, j, r, w, children) ==
  /\ w \in Nat /\ Len(children) = w
  /\ \A m \in 1 .. w : /\ r[m] \in DOMAIN F /\ r[m] \notin N /\ r[m] # j
                       /\ children[m].at = F[r[m]].at
                       /\ children[m].slot.anchor = F[r[m]].id
  /\ \A m, n \in 1 .. w : r[m] = r[n] => m = n

Items(s, w) == {s[m] : m \in 1 .. w}

(* A node that is not told yet, with such rows; what its emission leads to. *)
BlockFits(F, c, N, j, r, w, children) ==
  /\ Structure(F, c, N) /\ j \in DOMAIN F /\ j \notin N
  /\ Rowed(F, N, j, r, w, children)

BlockTold(F, c, N, j, r, w, children, b, d) ==
  /\ Structure(F, d, N \cup {j} \cup Items(r, w))
  /\ Ended(c.blocks, b, d.blocks)
  /\ AllOf(d.blocks) = AllOf(c.blocks) \cup {b} \cup Items(children, w)
  /\ HeadingsTell(d.blocks) => HeadingsTell(c.blocks)

(* The emission of a block and its rows. *)
LEMMA EmitStructure ==
  ASSUME NEW F, AtsDiffer(F), NEW c, NEW N, NEW j, NEW r, NEW w, NEW children,
         BlockFits(F, c, N, j, r, w, children), NEW ty, NEW level, NEW b, NEW d,
         b = MakeBlock(c, F, j, ty, level, children),
         d = Emit(c, F, j, ty, level, children)
  PROVE  BlockTold(F, c, N, j, r, w, children, b, d)
<1>0. /\ Structure(F, c, N) /\ j \in DOMAIN F /\ j \notin N
      /\ Rowed(F, N, j, r, w, children)
  BY DEF BlockFits
<1>1. Context(d) /\ d.blocks = Append(c.blocks, b) /\ d.path = c.path
  BY <1>0, EmitHolds DEF Structure
<1>2. b.at = F[j].at /\ b.children = children /\ b.slot.anchor = F[j].id
  BY <1>0, MadeHolds
<1>3. PICK s, t : s = c.blocks /\ t = d.blocks
  OBVIOUS
<1>4. Ended(s, b, t)
  BY <1>0, <1>1, <1>3, AppendEnds DEF Structure
<1>5. w \in Nat /\ w = Len(b.children)
  BY <1>0, <1>2 DEF Rowed
<1>6. /\ AllOf(t) = AllOf(s) \cup {b} \cup Items(children, w)
      /\ HeadingsTell(t) => HeadingsTell(s)
  BY <1>2, <1>4, <1>5, EndedAll DEF Items
<1>7. /\ N \subseteq DOMAIN F /\ Apart(s) /\ IsPath(c.path)
      /\ \A x \in AllOf(s) : \E k \in N : x.at = F[k].at /\ x.slot.anchor = F[k].id
  BY <1>0, <1>3 DEF Structure, Stands
<1>8. Apart(t)
  <2>1. \A m \in 1 .. w : /\ r[m] \in DOMAIN F /\ r[m] \notin N /\ r[m] # j
                          /\ b.children[m].at = F[r[m]].at
    BY <1>0, <1>2 DEF Rowed
  <2>2. \A k, l \in DOMAIN F : F[k].at = F[l].at => k = l
    BY DEF AtsDiffer
  <2>3. \A x \in AllOf(s) : x.at # b.at /\ \A m \in 1 .. w : x.at # b.children[m].at
    BY <1>0, <1>2, <1>7, <2>1, <2>2
  <2>4. \A m \in 1 .. w : b.children[m].at # b.at
    BY <1>0, <1>2, <2>1, <2>2
  <2>5. \A m, n \in 1 .. w : b.children[m].at = b.children[n].at => m = n
    BY <1>0, <2>1, <2>2 DEF Rowed
  <2>6. OfOthers(s, b, w)
    BY <2>3, <2>4, <2>5 DEF OfOthers
  <2> QED  BY <1>4, <1>5, <1>7, <2>6, EndedApart
<1>9. PICK M : M = N \cup {j} \cup Items(r, w)
  OBVIOUS
<1>10. \A x \in AllOf(t) : Stands(F, M, x)
  <2>1. ASSUME NEW x \in AllOf(s) PROVE Stands(F, M, x)
    BY <1>7, <1>9 DEF Stands
  <2>2. Stands(F, M, b)
    BY <1>0, <1>2, <1>9 DEF Stands
  <2>3. ASSUME NEW m \in 1 .. w PROVE Stands(F, M, children[m])
    <3>1. r[m] \in M /\ children[m].at = F[r[m]].at /\ children[m].slot.anchor = F[r[m]].id
      BY <1>0, <1>9 DEF Rowed, Items
    <3> QED  BY <3>1 DEF Stands
  <2> QED  BY <1>6, <2>1, <2>2, <2>3 DEF Items
<1>11. M \subseteq DOMAIN F
  BY <1>0, <1>7, <1>9 DEF Rowed, Items
<1>12. IsSeq(t) /\ IsPath(d.path)
  BY <1>1, <1>4, <1>7 DEF Ended
<1>13. Structure(F, d, M)
  BY <1>1, <1>3, <1>8, <1>10, <1>11, <1>12 DEF Structure
<1> QED  BY <1>3, <1>4, <1>6, <1>9, <1>13 DEF BlockTold

(* A block without rows. *)
LEMMA LeafSound ==
  ASSUME NEW F, AtsDiffer(F), IdsDiffer(F), NEW c, NEW N, Structure(F, c, N), Keyed(c),
         NEW j \in DOMAIN F, j \notin N, NEW ty, NEW level, NEW d,
         d = Emit(c, F, j, ty, level, <<>>)
  PROVE  Structure(F, d, N \cup {j}) /\ Keyed(d)
<1>1. PICK b : b = MakeBlock(c, F, j, ty, level, <<>>)
  OBVIOUS
<1>2. PICK none : none = <<>>
  OBVIOUS
<1>3. /\ Rowed(F, N, j, none, 0, none) /\ b = MakeBlock(c, F, j, ty, level, none)
      /\ d = Emit(c, F, j, ty, level, none)
  <2>1. 1 .. 0 = {} /\ Len(none) = 0 /\ 0 \in Nat
    BY <1>2, EmptySeq
  <2>2. Rowed(F, N, j, none, 0, none)
    BY <2>1 DEF Rowed
  <2> QED  BY <1>1, <1>2, <2>2
<1>4. /\ Structure(F, d, N \cup {j} \cup Items(none, 0))
      /\ AllOf(d.blocks) = AllOf(c.blocks) \cup {b} \cup Items(none, 0)
      /\ HeadingsTell(d.blocks) => HeadingsTell(c.blocks)
  <2>1. BlockFits(F, c, N, j, none, 0, none)
    BY <1>3 DEF BlockFits
  <2>2. BlockTold(F, c, N, j, none, 0, none, b, d)
    BY <1>3, <2>1, EmitStructure
  <2> QED  BY <2>2 DEF BlockTold
<1>5. Items(none, 0) = {}
  BY DEF Items
<1>6. /\ d.path = c.path /\ d.counts = CountsAfter(F[j].id, ty, c.counts)
      /\ b.slot = KeyOf(F[j].id, ty, c.counts, Breadcrumb(c.path))
  BY <1>1, EmitHolds, MadeHolds DEF Structure
<1>7. ASSUME HeadingsTell(d.blocks)
      PROVE  Keys(AllOf(d.blocks), d.counts, Breadcrumb(d.path))
  <2>1. Keys(AllOf(c.blocks), c.counts, Breadcrumb(c.path))
    BY <1>4, <1>7 DEF Keyed
  <2>2. N \in SUBSET DOMAIN F /\ \A x \in AllOf(c.blocks) : Stands(F, N, x)
    BY DEF Structure
  <2>3. PICK B, counts, crumb, more :
          /\ B = AllOf(c.blocks) /\ counts = c.counts /\ crumb = Breadcrumb(c.path)
          /\ more = CountsAfter(F[j].id, ty, counts)
    OBVIOUS
  <2>4. Keys(B \cup {b}, more, crumb)
    BY <1>6, <2>1, <2>2, <2>3, EmitKeys
  <2> QED  BY <1>4, <1>5, <1>6, <2>3, <2>4
<1> QED  BY <1>4, <1>5, <1>7 DEF Keyed

(* A heading opens a section of its own. *)
LEMMA OpenedHolds ==
  ASSUME NEW c, Context(c), IsPath(c.path), NEW text \in Phrases, NEW level, NEW d,
         d = Opened(c, text, level)
  PROVE  /\ Context(d) /\ d.blocks = c.blocks /\ d.inside = c.inside
         /\ d.counts = NoOrdinals /\ IsPath(d.path)
         /\ Tells(text) => Ends(Breadcrumb(d.path), text)
<1>1. PICK X : c.path \in Seq(X) /\ \A x \in X : x.text \in Phrases
  BY DEF IsPath
<1>2. PICK p, h : p = Above(c.path, level) /\ h = [level |-> level, text |-> text]
  OBVIOUS
<1>3. IsPath(p)
  <2>1. p \in Seq(X)
    BY <1>1, <1>2, PickedType DEF Above
  <2> QED  BY <1>1, <2>1 DEF IsPath
<1>4. PICK q : q = Append(p, h)
  OBVIOUS
<1>5. h.text = text
  BY <1>2
<1>6. IsPath(q) /\ (Tells(text) => Ends(Breadcrumb(q), text))
  BY <1>3, <1>4, <1>5, CrumbEnds
<1>7. d = [blocks |-> c.blocks, next |-> c.next, path |-> q, counts |-> NoOrdinals,
           inside |-> c.inside]
  <2>1. d = [c EXCEPT !.path = q, !.counts = NoOrdinals]
    BY <1>2, <1>4 DEF Opened
  <2> QED  BY <2>1 DEF Context
<1>8. /\ Context(d) /\ d.blocks = c.blocks /\ d.inside = c.inside /\ d.path = q
      /\ d.counts = NoOrdinals
  BY <1>7 DEF Context
<1> QED  BY <1>6, <1>8

(* A heading, told in the section it ends. *)
LEMMA HeadingSound ==
  ASSUME NEW F, Worded(F), AtsDiffer(F), IdsDiffer(F),
         NEW c, NEW N, Structure(F, c, N), Keyed(c),
         NEW j \in DOMAIN F, j \notin N, NEW d, d = Heading(c, F, j)
  PROVE  Structure(F, d, N \cup {j}) /\ Keyed(d) /\ d.inside = c.inside
<1>1. PICK level, text, e, b : /\ level = HeadingLevel[F[j].tag] /\ text = SubtreeText(F, j)
                               /\ e = Emit(c, F, j, "Heading", level, <<>>)
                               /\ b = MakeBlock(c, F, j, "Heading", level, <<>>)
  OBVIOUS
<1>2. d = Opened(e, text, level)
  BY <1>1 DEF Heading
<1>3. PICK none : none = <<>> /\ Items(none, 0) = {}
  BY DEF Items
<1>4. /\ Rowed(F, N, j, none, 0, none) /\ b = MakeBlock(c, F, j, "Heading", level, none)
      /\ e = Emit(c, F, j, "Heading", level, none)
  <2>1. 1 .. 0 = {} /\ Len(none) = 0 /\ 0 \in Nat
    BY <1>3, EmptySeq
  <2>2. Rowed(F, N, j, none, 0, none)
    BY <2>1 DEF Rowed
  <2> QED  BY <1>1, <1>3, <2>2
<1>5. /\ Structure(F, e, N \cup {j} \cup Items(none, 0))
      /\ Ended(c.blocks, b, e.blocks)
      /\ AllOf(e.blocks) = AllOf(c.blocks) \cup {b} \cup Items(none, 0)
      /\ HeadingsTell(e.blocks) => HeadingsTell(c.blocks)
  <2>1. BlockFits(F, c, N, j, none, 0, none)
    BY <1>4 DEF BlockFits
  <2>2. BlockTold(F, c, N, j, none, 0, none, b, e)
    BY <1>4, <2>1, EmitStructure
  <2> QED  BY <2>2 DEF BlockTold
<1>6. /\ e.inside = c.inside
      /\ b.slot = KeyOf(F[j].id, "Heading", c.counts, Breadcrumb(c.path))
      /\ b.ty = "Heading" /\ b.text = text /\ b.children = <<>>
  BY <1>1, EmitHolds, MadeHolds DEF Structure
<1>7. /\ Context(d) /\ d.blocks = e.blocks /\ d.inside = e.inside
      /\ d.counts = NoOrdinals /\ IsPath(d.path)
      /\ Tells(text) => Ends(Breadcrumb(d.path), text)
  <2>1. text \in Phrases
    BY <1>1, SubtreeTextType
  <2> QED  BY <1>2, <1>5, <2>1, OpenedHolds DEF Structure
<1>8. Structure(F, d, N \cup {j})
  BY <1>3, <1>5, <1>7 DEF Structure
<1>9. ASSUME HeadingsTell(d.blocks)
      PROVE  Keys(AllOf(d.blocks), d.counts, Breadcrumb(d.path))
  <2>1. Keys(AllOf(c.blocks), c.counts, Breadcrumb(c.path))
    BY <1>5, <1>7, <1>9 DEF Keyed
  <2>2. N \in SUBSET DOMAIN F /\ \A x \in AllOf(c.blocks) : Stands(F, N, x)
    BY DEF Structure
  <2>3. PICK s, t, l : s = c.blocks /\ t = e.blocks /\ l = Len(s) + 1
    OBVIOUS
  <2>9. <<l, 0>> \in Places(t) /\ BlockAt(t, <<l, 0>>) = b
    <3>1. 0 \in 0 .. Len(b.children)
      BY <1>6, EmptySeq
    <3> QED  BY <1>5, <2>3, <3>1 DEF Ended
  <2>10. Tells(text)
    BY <1>6, <1>7, <1>9, <2>3, <2>9 DEF HeadingsTell
  <2>4. ASSUME NEW g \in AllOf(s), g.ty = "Heading", g.text = text
        PROVE  FALSE
    <3>1. PICK p \in Places(s) : g = BlockAt(s, p)
      BY DEF AllOf
    <3>2. /\ p \in Places(t) /\ BlockAt(t, p) = g /\ p[1] \in 1 .. Len(s) /\ Len(s) \in Nat
      BY <1>5, <2>3, <3>1 DEF Ended
    <3>3. p = <<l, 0>>
      BY <1>6, <1>7, <1>9, <2>3, <2>4, <2>9, <3>2 DEF HeadingsTell
    <3> QED  BY <2>3, <3>2, <3>3
  <2>5. PICK B, counts, crumb, opened :
          /\ B = AllOf(c.blocks) /\ counts = c.counts /\ crumb = Breadcrumb(c.path)
          /\ opened = Breadcrumb(d.path)
    OBVIOUS
  <2>6. \A g \in B : g.ty = "Heading" => g.text # b.text
    BY <1>6, <2>3, <2>4, <2>5
  <2>7. Keys(B, counts, crumb) /\ b.slot = KeyOf(F[j].id, "Heading", counts, crumb)
        /\ Ends(opened, b.text) /\ \A x \in B : Stands(F, N, x)
    BY <1>6, <1>7, <2>1, <2>2, <2>5, <2>10
  <2>8. Keys(B \cup {b}, NoOrdinals, opened)
    BY <1>6, <2>2, <2>6, <2>7, HeadingKeys
  <2> QED  BY <1>3, <1>5, <1>7, <2>5, <2>8
<1> QED  BY <1>6, <1>7, <1>8, <1>9 DEF Keyed

----------------------------------------------------------------------------
(* The contexts that a table goes through, row by row. *)
RowsUpto(f, n, c, F, rows) ==
  f = [i \in 0 .. n |->
         IF i = 0 THEN [c EXCEPT !.blocks = <<>>]
         ELSE Emit(f[i - 1], F, rows[i], "TableRow", 0, <<>>)]

(* A table is what the last of them gives. *)
LEMMA TableClimbs ==
  ASSUME NEW c, NEW F, NEW j, NEW rows, rows = Rows(F, j), Len(rows) \in Nat
  PROVE  \E f : /\ RowsUpto(f, Len(rows), c, F, rows)
                /\ Table(c, F, j) = Emit([f[Len(rows)] EXCEPT !.blocks = c.blocks], F, j,
                                         "Table", 0, f[Len(rows)].blocks)
<1> DEFINE done == {n \in Nat : \E f : RowsUpto(f, n, c, F, rows)}
<1>1. 0 \in done
  <2>1. RowsUpto([i \in 0 .. 0 |-> [c EXCEPT !.blocks = <<>>]], 0, c, F, rows)
    BY DEF RowsUpto
  <2> QED  BY <2>1
<1>2. ASSUME NEW n \in Nat, n \in done
      PROVE  n + 1 \in done
  <2>1. PICK f : RowsUpto(f, n, c, F, rows)
    BY <1>2
  <2>2. PICK x : x = Emit(f[n], F, rows[n + 1], "TableRow", 0, <<>>)
    OBVIOUS
  <2>3. PICK g : g = [i \in 0 .. n + 1 |-> IF i = n + 1 THEN x ELSE f[i]]
    OBVIOUS
  <2>4. ASSUME NEW i \in 0 .. n + 1
        PROVE  g[i] = IF i = 0 THEN [c EXCEPT !.blocks = <<>>]
                      ELSE Emit(g[i - 1], F, rows[i], "TableRow", 0, <<>>)
    <3>1. CASE i = n + 1
      <4>1. i # 0 /\ i - 1 = n /\ n \in 0 .. n + 1 /\ n # n + 1
        BY <3>1
      <4>2. g[i - 1] = f[n] /\ g[i] = x
        BY <2>3, <3>1, <4>1
      <4> QED  BY <2>2, <3>1, <4>1, <4>2
    <3>2. CASE i # n + 1
      <4>1. i \in 0 .. n /\ (i # 0 => i - 1 \in 0 .. n + 1 /\ i - 1 # n + 1)
        BY <3>2
      <4>2. g[i] = f[i] /\ (i # 0 => g[i - 1] = f[i - 1])
        BY <2>3, <3>2, <4>1
      <4>3. f[i] = IF i = 0 THEN [c EXCEPT !.blocks = <<>>]
                   ELSE Emit(f[i - 1], F, rows[i], "TableRow", 0, <<>>)
        BY <2>1, <4>1, Zenon DEF RowsUpto
      <4> QED  BY <4>2, <4>3
    <3> QED  BY <3>1, <3>2
  <2>5. RowsUpto(g, n + 1, c, F, rows)
    BY <2>3, <2>4, Zenon DEF RowsUpto
  <2> QED  BY <2>5
<1>3. Len(rows) \in done
  <2> HIDE DEF done
  <2> QED  BY <1>1, <1>2, Induction
<1>4. PICK f : f = CHOOSE g : RowsUpto(g, Len(rows), c, F, rows)
  OBVIOUS
<1>5. RowsUpto(f, Len(rows), c, F, rows)
  BY <1>3, <1>4
<1>6. Table(c, F, j) = Emit([f[Len(rows)] EXCEPT !.blocks = c.blocks], F, j,
                            "Table", 0, f[Len(rows)].blocks)
  BY <1>4, Zenon DEF Table, RowsUpto
<1> QED  BY <1>5, <1>6

(* Nodes, j not among them, that have not been told. *)
Untold(F, N, j, rows) ==
  /\ Len(rows) \in Nat
  /\ \A m \in 1 .. Len(rows) : rows[m] \in DOMAIN F /\ rows[m] \notin N /\ rows[m] # j
  /\ \A m, n \in 1 .. Len(rows) : rows[m] = rows[n] => m = n

(* The context e after k rows of the table that begins in c. *)
RowsTold(F, c, rows, k, e) ==
  /\ Context(e) /\ e.path = c.path /\ e.inside = c.inside
  /\ IsSeq(e.blocks) /\ Len(e.blocks) = k
  /\ \A m \in 1 .. k : /\ e.blocks[m].at = F[rows[m]].at
                       /\ e.blocks[m].slot.anchor = F[rows[m]].id
  /\ Keys(AllOf(c.blocks), c.counts, Breadcrumb(c.path)) =>
       Keys(AllOf(c.blocks) \cup Items(e.blocks, k), e.counts, Breadcrumb(c.path))

(* The next row keeps that up. *)
LEMMA RowTold ==
  ASSUME NEW F, IdsDiffer(F), NEW c, NEW N, Structure(F, c, N),
         NEW j, NEW rows, Untold(F, N, j, rows), NEW k \in Nat, k + 1 <= Len(rows),
         NEW e, RowsTold(F, c, rows, k, e),
         NEW d, d = Emit(e, F, rows[k + 1], "TableRow", 0, <<>>)
  PROVE  RowsTold(F, c, rows, k + 1, d)
<1>1. PICK i, b, s, t : /\ i = rows[k + 1] /\ b = MakeBlock(e, F, i, "TableRow", 0, <<>>)
                        /\ s = e.blocks /\ t = d.blocks
  OBVIOUS
<1>2. /\ Context(d) /\ t = Append(s, b) /\ d.path = e.path /\ d.inside = e.inside
      /\ d.counts = CountsAfter(F[i].id, "TableRow", e.counts)
  BY <1>1, EmitHolds DEF RowsTold
<1>3. /\ b.slot = KeyOf(F[i].id, "TableRow", e.counts, Breadcrumb(e.path))
      /\ b.at = F[i].at /\ b.slot.anchor = F[i].id
  BY <1>1, MadeHolds
<1>4. /\ e.path = c.path /\ e.inside = c.inside /\ IsSeq(s) /\ Len(s) = k
      /\ \A m \in 1 .. k : s[m].at = F[rows[m]].at /\ s[m].slot.anchor = F[rows[m]].id
  BY <1>1 DEF RowsTold
<1>5. PICK X : s \in Seq(X)
  BY <1>4 DEF IsSeq
<1>6. PICK Y : Y = X \cup {b}
  OBVIOUS
<1>7. s \in Seq(Y) /\ b \in Y
  BY <1>5, <1>6, SeqMonotonic
<1>8. t \in Seq(Y) /\ Len(t) = k + 1 /\ t[k + 1] = b /\ \A m \in 1 .. k : t[m] = s[m]
  BY <1>2, <1>4, <1>7, AppendProperties
<1>9. \A m \in 1 .. k + 1 : m \in 1 .. k \/ m = k + 1
  OBVIOUS
<1>10. \A m \in 1 .. k + 1 : t[m].at = F[rows[m]].at /\ t[m].slot.anchor = F[rows[m]].id
  <2>1. ASSUME NEW m \in 1 .. k PROVE t[m].at = F[rows[m]].at /\ t[m].slot.anchor = F[rows[m]].id
    BY <1>4, <1>8
  <2>2. t[k + 1].at = F[rows[k + 1]].at /\ t[k + 1].slot.anchor = F[rows[k + 1]].id
    BY <1>1, <1>3, <1>8
  <2> QED  BY <1>9, <2>1, <2>2
<1>11. Items(t, k + 1) = Items(s, k) \cup {b}
  <2>1. 1 .. k + 1 = (1 .. k) \cup {k + 1}
    OBVIOUS
  <2>2. {t[m] : m \in 1 .. k} = {s[m] : m \in 1 .. k}
    BY <1>8
  <2> QED  BY <1>8, <2>1, <2>2 DEF Items
<1>12. ASSUME Keys(AllOf(c.blocks), c.counts, Breadcrumb(c.path))
       PROVE  Keys(AllOf(c.blocks) \cup Items(t, k + 1), d.counts, Breadcrumb(c.path))
  <2>1. PICK B, counts, crumb, M :
          /\ B = AllOf(c.blocks) \cup Items(s, k) /\ counts = e.counts
          /\ crumb = Breadcrumb(c.path) /\ M = N \cup Items(rows, k)
    OBVIOUS
  <2>2. Keys(B, counts, crumb)
    BY <1>1, <1>12, <2>1 DEF RowsTold
  <2>3. /\ N \subseteq DOMAIN F /\ \A x \in AllOf(c.blocks) : Stands(F, N, x)
        /\ \A m \in 1 .. Len(rows) : rows[m] \in DOMAIN F /\ rows[m] \notin N
        /\ \A m, n \in 1 .. Len(rows) : rows[m] = rows[n] => m = n
        /\ Len(rows) \in Nat
    BY DEF Structure, Untold
  <2>4. k + 1 \in 1 .. Len(rows) /\ \A m \in 1 .. k : m \in 1 .. Len(rows) /\ m # k + 1
    BY <2>3
  <2>5. M \in SUBSET DOMAIN F /\ i \in DOMAIN F /\ i \notin M
    BY <1>1, <2>1, <2>3, <2>4 DEF Items
  <2>6. \A x \in B : Stands(F, M, x)
    <3>1. ASSUME NEW x \in AllOf(c.blocks) PROVE Stands(F, M, x)
      BY <2>1, <2>3 DEF Stands
    <3>2. ASSUME NEW m \in 1 .. k PROVE Stands(F, M, s[m])
      <4>1. rows[m] \in M
        BY <2>1 DEF Items
      <4> QED  BY <1>4, <4>1 DEF Stands
    <3> QED  BY <2>1, <3>1, <3>2 DEF Items
  <2>7. b.slot = KeyOf(F[i].id, "TableRow", counts, crumb)
    BY <1>3, <1>4, <2>1
  <2>8. Keys(B \cup {b}, CountsAfter(F[i].id, "TableRow", counts), crumb)
    BY <2>2, <2>5, <2>6, <2>7, EmitKeys
  <2> QED  BY <1>2, <1>11, <2>1, <2>8
<1>13. IsSeq(t)
  BY <1>8 DEF IsSeq
<1> QED  BY <1>1, <1>2, <1>4, <1>8, <1>10, <1>12, <1>13 DEF RowsTold

(* A table that has not been told and its rows; what it leads to. *)
TableFits(F, c, N, j, rows) ==
  /\ Structure(F, c, N) /\ Keyed(c)
  /\ j \in DOMAIN F /\ j \notin N /\ rows = Rows(F, j) /\ Untold(F, N, j, rows)

TableTold(F, c, N, j, rows, d) ==
  /\ Structure(F, d, N \cup {j} \cup Items(rows, Len(rows))) /\ Keyed(d)
  /\ d.inside = c.inside

(* A table, told after its rows. *)
LEMMA TableSound ==
  ASSUME NEW F, AtsDiffer(F), IdsDiffer(F), NEW c, NEW N, NEW j, NEW rows,
         TableFits(F, c, N, j, rows), NEW d, d = Table(c, F, j)
  PROVE  TableTold(F, c, N, j, rows, d)
<1>0. /\ Structure(F, c, N) /\ Keyed(c)
      /\ j \in DOMAIN F /\ j \notin N /\ rows = Rows(F, j) /\ Untold(F, N, j, rows)
  BY DEF TableFits
<1>1. PICK w : w = Len(rows) /\ w \in Nat
  BY <1>0 DEF Untold
<1>2. PICK f : /\ RowsUpto(f, w, c, F, rows)
               /\ d = Emit([f[w] EXCEPT !.blocks = c.blocks], F, j, "Table", 0, f[w].blocks)
  BY <1>0, <1>1, TableClimbs
<1>3. /\ f[0] = [c EXCEPT !.blocks = <<>>]
      /\ \A n \in 1 .. w : f[n] = Emit(f[n - 1], F, rows[n], "TableRow", 0, <<>>)
  <2>1. 0 \in 0 .. w /\ \A n \in 1 .. w : n \in 0 .. w /\ n # 0
    BY <1>1
  <2> QED  BY <1>2, <2>1, Zenon DEF RowsUpto
<1> DEFINE told == {n \in Nat : n <= w => RowsTold(F, c, rows, n, f[n])}
<1>4. 0 \in told
  <2>1. PICK e : e = f[0]
    OBVIOUS
  <2>2. e = [blocks |-> <<>>, next |-> c.next, path |-> c.path, counts |-> c.counts,
             inside |-> c.inside]
    BY <1>0, <1>3, <2>1 DEF Structure, Context
  <2>3. /\ Context(e) /\ e.path = c.path /\ e.inside = c.inside /\ e.blocks = <<>>
        /\ e.counts = c.counts
    BY <2>2 DEF Context
  <2>4. IsSeq(e.blocks) /\ Len(e.blocks) = 0
    BY <2>3, EmptySeq DEF IsSeq
  <2>5. 1 .. 0 = {} /\ Items(e.blocks, 0) = {}
    BY DEF Items
  <2>6. RowsTold(F, c, rows, 0, e)
    BY <2>3, <2>4, <2>5 DEF RowsTold
  <2> QED  BY <2>1, <2>6
<1>5. ASSUME NEW n \in Nat, n \in told
      PROVE  n + 1 \in told
  <2>1. SUFFICES ASSUME n + 1 <= w PROVE RowsTold(F, c, rows, n + 1, f[n + 1])
    OBVIOUS
  <2>2. n + 1 \in 1 .. w /\ (n + 1) - 1 = n /\ n <= w
    BY <1>1, <2>1
  <2>3. PICK e, g : e = f[n] /\ g = f[n + 1]
    OBVIOUS
  <2>4. RowsTold(F, c, rows, n, e) /\ g = Emit(e, F, rows[n + 1], "TableRow", 0, <<>>)
    BY <1>3, <1>5, <2>2, <2>3
  <2> QED  BY <1>0, <1>1, <2>1, <2>3, <2>4, RowTold
<1>6. PICK e : e = f[w] /\ RowsTold(F, c, rows, w, e)
  <2>1. w \in told
    <3> HIDE DEF told
    <3> QED  BY <1>1, <1>4, <1>5, Induction
  <2> QED  BY <1>1, <2>1
<1>7. PICK a, children : a = [e EXCEPT !.blocks = c.blocks] /\ children = e.blocks
  OBVIOUS
<1>8. /\ Context(e) /\ e.path = c.path /\ e.inside = c.inside
      /\ IsSeq(children) /\ Len(children) = w
      /\ \A m \in 1 .. w : /\ children[m].at = F[rows[m]].at
                           /\ children[m].slot.anchor = F[rows[m]].id
      /\ Keys(AllOf(c.blocks), c.counts, Breadcrumb(c.path)) =>
           Keys(AllOf(c.blocks) \cup Items(children, w), e.counts, Breadcrumb(c.path))
  BY <1>6, <1>7 DEF RowsTold
<1>9. a = [blocks |-> c.blocks, next |-> e.next, path |-> c.path, counts |-> e.counts,
           inside |-> c.inside]
  BY <1>7, <1>8 DEF Context
<1>10. /\ Context(a) /\ a.blocks = c.blocks /\ a.path = c.path /\ a.counts = e.counts
       /\ a.inside = c.inside
  BY <1>9 DEF Context
<1>11. Structure(F, a, N)
  BY <1>0, <1>10 DEF Structure
<1>12. Rowed(F, N, j, rows, w, children)
  BY <1>0, <1>1, <1>8 DEF Rowed, Untold
<1>13. PICK b : b = MakeBlock(a, F, j, "Table", 0, children)
  OBVIOUS
<1>14. d = Emit(a, F, j, "Table", 0, children)
  BY <1>2, <1>6, <1>7
<1>15. /\ Structure(F, d, N \cup {j} \cup Items(rows, w))
       /\ AllOf(d.blocks) = AllOf(c.blocks) \cup {b} \cup Items(children, w)
       /\ HeadingsTell(d.blocks) => HeadingsTell(c.blocks)
  <2>1. BlockFits(F, a, N, j, rows, w, children)
    BY <1>0, <1>11, <1>12 DEF BlockFits
  <2>2. BlockTold(F, a, N, j, rows, w, children, b, d)
    BY <1>13, <1>14, <2>1, EmitStructure
  <2> QED  BY <1>10, <2>2 DEF BlockTold
<1>16. /\ d.path = c.path /\ d.inside = c.inside
       /\ d.counts = CountsAfter(F[j].id, "Table", e.counts)
       /\ b.slot = KeyOf(F[j].id, "Table", e.counts, Breadcrumb(c.path))
  BY <1>0, <1>10, <1>13, <1>14, EmitHolds, MadeHolds
<1>17. ASSUME HeadingsTell(d.blocks)
       PROVE  Keys(AllOf(d.blocks), d.counts, Breadcrumb(d.path))
  <2>1. PICK B, counts, crumb, M :
          /\ B = AllOf(c.blocks) \cup Items(children, w) /\ counts = e.counts
          /\ crumb = Breadcrumb(c.path) /\ M = N \cup Items(rows, w)
    OBVIOUS
  <2>2. Keys(B, counts, crumb)
    BY <1>0, <1>8, <1>15, <1>17, <2>1 DEF Keyed
  <2>3. /\ N \subseteq DOMAIN F /\ \A x \in AllOf(c.blocks) : Stands(F, N, x)
        /\ \A m \in 1 .. w : rows[m] \in DOMAIN F /\ rows[m] # j
    BY <1>0, <1>1 DEF Structure, Untold
  <2>4. M \in SUBSET DOMAIN F /\ j \notin M
    BY <1>0, <2>1, <2>3 DEF Items
  <2>5. \A x \in B : Stands(F, M, x)
    <3>1. ASSUME NEW x \in AllOf(c.blocks) PROVE Stands(F, M, x)
      BY <2>1, <2>3 DEF Stands
    <3>2. ASSUME NEW m \in 1 .. w PROVE Stands(F, M, children[m])
      <4>1. rows[m] \in M
        BY <2>1 DEF Items
      <4> QED  BY <1>8, <4>1 DEF Stands
    <3> QED  BY <2>1, <3>1, <3>2 DEF Items
  <2>6. Keys(B \cup {b}, CountsAfter(F[j].id, "Table", counts), crumb)
    BY <1>0, <1>16, <2>1, <2>2, <2>4, <2>5, EmitKeys
  <2>7. B \cup {b} = AllOf(d.blocks)
    BY <1>15, <2>1
  <2> QED  BY <1>16, <2>1, <2>6, <2>7
<1> QED  BY <1>1, <1>15, <1>16, <1>17 DEF Keyed, TableTold

----------------------------------------------------------------------------
(* The walk after the first i nodes, N those it has told. *)
WalkedTo(F, c, i, N) ==
  /\ c.inside \in Nat /\ Structure(F, c, N) /\ Keyed(c)
  /\ \A k \in N : k <= i \/ k <= c.inside

Walked(F, c, i) == \E N : WalkedTo(F, c, i, N)

(* A context that has dealt with an element. *)
Passed(c, F, j) == [c EXCEPT !.inside = LastBelow(F, j)]

(* What the walk does at a node. *)
LEMMA VisitCases ==
  ASSUME NEW c, NEW F, NEW j, NEW prof
  PROVE  \/ Visit(c, F, j, prof) = c
         \/ /\ ~(j <= c.inside)
            /\ \/ Visit(c, F, j, prof) = Heading(Passed(c, F, j), F, j)
               \/ Visit(c, F, j, prof) = Table(Passed(c, F, j), F, j)
               \/ Visit(c, F, j, prof) = Leaf(Passed(c, F, j), F, j, prof)
<1>1. PICK role : role = Role(F[j].tag)
  OBVIOUS
<1>2. role \in {"heading", "table", "leaf", "transparent"}
  BY <1>1 DEF Role
<1>3. CASE j <= c.inside \/ IsText(F[j])
  BY <1>3 DEF Visit
<1>4. CASE ~(j <= c.inside \/ IsText(F[j]))
  <2>1. Visit(c, F, j, prof) =
          CASE role = "transparent" -> c
            [] role = "heading" -> Heading(Passed(c, F, j), F, j)
            [] role = "table"   -> Table(Passed(c, F, j), F, j)
            [] role = "leaf"    -> Leaf(Passed(c, F, j), F, j, prof)
    BY <1>1, <1>4 DEF Visit, Passed
  <2> QED  BY <1>2, <1>4, <2>1
<1> QED  BY <1>3, <1>4

(* So the visit of the next node keeps up what holds of the walk. *)
LEMMA VisitSound ==
  ASSUME NEW F, Worded(F), AtsDiffer(F), IdsDiffer(F),
         NEW i \in Nat, NEW j, j = i + 1, j \in 1 .. Len(F), NEW c, Walked(F, c, i),
         NEW prof
  PROVE  Walked(F, Visit(c, F, j, prof), j)
<1>0. Len(F) \in Nat /\ DOMAIN F = 1 .. Len(F)
  BY DEF Worded
<1>1. PICK N : WalkedTo(F, c, i, N)
  BY DEF Walked
<1>2. /\ c.inside \in Nat /\ Structure(F, c, N) /\ Keyed(c) /\ N \subseteq 1 .. Len(F)
      /\ \A k \in N : k <= i \/ k <= c.inside
  BY <1>1 DEF WalkedTo, Structure
<1>3. Walked(F, c, j)
  <2>1. \A k \in N : k <= j \/ k <= c.inside
    BY <1>2
  <2> QED  BY <1>2, <2>1 DEF Walked, WalkedTo
<1>4. PICK last : last = LastBelow(F, j) /\ last \in j .. Len(F) /\ Below(F, j) = j + 1 .. last
  BY <1>0, LastBelowHolds
<1>5. PICK a : a = [c EXCEPT !.inside = last]
  OBVIOUS
<1>6. a = [blocks |-> c.blocks, next |-> c.next, path |-> c.path, counts |-> c.counts,
           inside |-> last]
  BY <1>2, <1>5 DEF Structure, Context
<1>7. /\ Context(a) /\ a.blocks = c.blocks /\ a.path = c.path /\ a.counts = c.counts
      /\ a.inside = last
  BY <1>6 DEF Context
<1>8. Structure(F, a, N) /\ Keyed(a)
  BY <1>2, <1>7 DEF Structure, Keyed
<1>9. ASSUME NEW M, M \subseteq N \cup (j .. last), NEW d, d.inside = last,
             Structure(F, d, M), Keyed(d), ~(j <= c.inside)
      PROVE  Walked(F, d, j)
  <2>1. \A k \in M : k <= j \/ k <= last
    BY <1>0, <1>2, <1>4, <1>9
  <2>2. last \in Nat
    BY <1>0, <1>4
  <2> QED  BY <1>9, <2>1, <2>2 DEF Walked, WalkedTo
<1>10. PICK d : d = Visit(c, F, j, prof)
  OBVIOUS
<1>11. ASSUME ~(j <= c.inside) PROVE j \notin N
  BY <1>2, <1>11
<1>12. CASE d = c
  BY <1>3, <1>10, <1>12
<1>13. CASE ~(j <= c.inside) /\ d = Heading(a, F, j)
  <2>1. Structure(F, d, N \cup {j}) /\ Keyed(d) /\ d.inside = a.inside
    <3>1. j \in DOMAIN F /\ j \notin N
      BY <1>0, <1>11, <1>13
    <3> QED  BY <1>8, <1>13, <3>1, HeadingSound
  <2>2. N \cup {j} \subseteq N \cup (j .. last)
    BY <1>4
  <2> QED  BY <1>7, <1>9, <1>10, <1>13, <2>1, <2>2
<1>14. CASE ~(j <= c.inside) /\ d = Table(a, F, j)
  <2>1. PICK rows : rows = Rows(F, j)
    OBVIOUS
  <2>2. PICK S : S \subseteq Below(F, j) /\ rows = InOrder(F, S)
    BY <2>1 DEF Rows
  <2>3. rows \in Seq(S \cap DOMAIN F) /\ Rising(rows)
    BY <1>0, <2>2, InOrderHolds
  <2>4. Len(rows) \in Nat /\ DOMAIN rows = 1 .. Len(rows)
    BY <2>3, LenProperties
  <2>5. \A m \in 1 .. Len(rows) : rows[m] \in S \cap DOMAIN F
    BY <2>3
  <2>6. \A m \in 1 .. Len(rows) : rows[m] \in DOMAIN F /\ rows[m] \in j + 1 .. last
    BY <1>0, <1>4, <2>2, <2>5
  <2>7. \A m, n \in 1 .. Len(rows) : rows[m] = rows[n] => m = n
    <3>1. ASSUME NEW m \in 1 .. Len(rows), NEW n \in 1 .. Len(rows), rows[m] = rows[n], m # n
          PROVE  FALSE
      <4>1. m < n \/ n < m
        BY <3>1
      <4>2. rows[m] < rows[n] \/ rows[n] < rows[m]
        BY <2>3, <2>4, <4>1 DEF Rising
      <4> QED  BY <1>0, <2>6, <3>1, <4>2
    <3> QED  BY <3>1
  <2>8. Untold(F, N, j, rows)
    <3>1. \A m \in 1 .. Len(rows) : rows[m] \notin N /\ rows[m] # j
      BY <1>0, <1>2, <1>14, <2>6
    <3> QED  BY <2>4, <2>6, <2>7, <3>1 DEF Untold
  <2>9. /\ Structure(F, d, N \cup {j} \cup Items(rows, Len(rows))) /\ Keyed(d)
        /\ d.inside = a.inside
    <3>1. j \in DOMAIN F /\ j \notin N /\ d = Table(a, F, j)
      BY <1>0, <1>11, <1>14
    <3>2. Structure(F, a, N) /\ Keyed(a)
      BY <1>8
    <3>3. TableFits(F, a, N, j, rows)
      BY <2>1, <2>8, <3>1, <3>2 DEF TableFits
    <3>4. TableTold(F, a, N, j, rows, d)
      BY <3>1, <3>3, TableSound
    <3> QED  BY <3>4 DEF TableTold
  <2>10. N \cup {j} \cup Items(rows, Len(rows)) \subseteq N \cup (j .. last)
    BY <1>4, <2>6 DEF Items
  <2> QED  BY <1>7, <1>9, <1>10, <1>14, <2>9, <2>10
<1>15. CASE ~(j <= c.inside) /\ d = Leaf(a, F, j, prof)
  <2>1. PICK ty : d = IF SubtreeText(F, j) = <<>> THEN a ELSE Emit(a, F, j, ty, 0, <<>>)
    BY <1>15 DEF Leaf
  <2>2. CASE d = a
    <3>1. N \subseteq N \cup (j .. last)
      OBVIOUS
    <3> QED  BY <1>7, <1>8, <1>9, <1>10, <1>15, <2>2, <3>1
  <2>3. CASE d = Emit(a, F, j, ty, 0, <<>>)
    <3>1. Structure(F, d, N \cup {j}) /\ Keyed(d)
      BY <1>0, <1>8, <1>11, <1>15, <2>3, LeafSound
    <3>2. d.inside = a.inside
      BY <1>7, <2>3, EmitHolds
    <3>3. N \cup {j} \subseteq N \cup (j .. last)
      BY <1>4
    <3> QED  BY <1>7, <1>9, <1>10, <1>15, <3>1, <3>2, <3>3
  <2> QED  BY <2>1, <2>2, <2>3
<1>16. \/ d = c
       \/ /\ ~(j <= c.inside)
          /\ d = Heading(a, F, j) \/ d = Table(a, F, j) \/ d = Leaf(a, F, j, prof)
  <2>1. a = Passed(c, F, j)
    BY <1>4, <1>5 DEF Passed
  <2>2. \/ Visit(c, F, j, prof) = c
        \/ /\ ~(j <= c.inside)
           /\ \/ Visit(c, F, j, prof) = Heading(a, F, j)
              \/ Visit(c, F, j, prof) = Table(a, F, j)
              \/ Visit(c, F, j, prof) = Leaf(a, F, j, prof)
    BY <2>1, VisitCases
  <2> QED  BY <1>10, <2>2, Zenon
<1> QED  BY <1>10, <1>12, <1>13, <1>14, <1>15, <1>16

(* The contexts of the walk. *)
WalkUpto(f, n, F, prof) ==
  f = [i \in 0 .. n |-> IF i = 0 THEN Start ELSE Visit(f[i - 1], F, i, prof)]

(* The segmentation is what the last of them tells. *)
LEMMA WalkClimbs ==
  ASSUME NEW F, Len(F) \in Nat, NEW prof
  PROVE  \E f : WalkUpto(f, Len(F), F, prof) /\ Segment(F, prof) = f[Len(F)].blocks
<1> DEFINE done == {n \in Nat : \E f : WalkUpto(f, n, F, prof)}
<1>1. 0 \in done
  <2>1. WalkUpto([i \in 0 .. 0 |-> Start], 0, F, prof)
    BY DEF WalkUpto
  <2> QED  BY <2>1
<1>2. ASSUME NEW n \in Nat, n \in done
      PROVE  n + 1 \in done
  <2>1. PICK f : WalkUpto(f, n, F, prof)
    BY <1>2
  <2>2. PICK x : x = Visit(f[n], F, n + 1, prof)
    OBVIOUS
  <2>3. PICK g : g = [i \in 0 .. n + 1 |-> IF i = n + 1 THEN x ELSE f[i]]
    OBVIOUS
  <2>4. ASSUME NEW i \in 0 .. n + 1
        PROVE  g[i] = IF i = 0 THEN Start ELSE Visit(g[i - 1], F, i, prof)
    <3>1. CASE i = n + 1
      <4>1. i # 0 /\ i - 1 = n /\ n \in 0 .. n + 1 /\ n # n + 1
        BY <3>1
      <4>2. g[i - 1] = f[n] /\ g[i] = x
        BY <2>3, <3>1, <4>1
      <4> QED  BY <2>2, <3>1, <4>1, <4>2
    <3>2. CASE i # n + 1
      <4>1. i \in 0 .. n /\ (i # 0 => i - 1 \in 0 .. n + 1 /\ i - 1 # n + 1)
        BY <3>2
      <4>2. g[i] = f[i] /\ (i # 0 => g[i - 1] = f[i - 1])
        BY <2>3, <3>2, <4>1
      <4>3. f[i] = IF i = 0 THEN Start ELSE Visit(f[i - 1], F, i, prof)
        BY <2>1, <4>1, Zenon DEF WalkUpto
      <4> QED  BY <4>2, <4>3
    <3> QED  BY <3>1, <3>2
  <2>5. WalkUpto(g, n + 1, F, prof)
    BY <2>3, <2>4, Zenon DEF WalkUpto
  <2> QED  BY <2>5
<1>3. Len(F) \in done
  <2> HIDE DEF done
  <2> QED  BY <1>1, <1>2, Induction
<1>4. PICK f : f = CHOOSE g : WalkUpto(g, Len(F), F, prof)
  OBVIOUS
<1>5. WalkUpto(f, Len(F), F, prof)
  BY <1>3, <1>4
<1>6. Segment(F, prof) = f[Len(F)].blocks
  BY <1>4, Zenon DEF Segment, WalkUpto
<1> QED  BY <1>5, <1>6

(* The blocks of a forest: no node is told twice, no two have the same key. *)
LEMMA SegmentHolds ==
  ASSUME NEW F, Worded(F), AtsDiffer(F), IdsDiffer(F),
         NEW prof, NEW blocks, blocks = Segment(F, prof), HeadingsTell(blocks)
  PROVE  \A p, q \in Places(blocks) : BlockAt(blocks, p).slot = BlockAt(blocks, q).slot => p = q
<1>1. PICK N : N = Len(F) /\ N \in Nat
  BY DEF Worded
<1>2. PICK f : WalkUpto(f, N, F, prof) /\ blocks = f[N].blocks
  BY <1>1, WalkClimbs
<1>3. f[0] = Start /\ \A n \in 1 .. N : f[n] = Visit(f[n - 1], F, n, prof)
  <2>1. 0 \in 0 .. N /\ \A n \in 1 .. N : n \in 0 .. N /\ n # 0
    BY <1>1
  <2> QED  BY <1>2, <2>1, Zenon DEF WalkUpto
<1> DEFINE walked == {n \in Nat : n <= N => Walked(F, f[n], n)}
<1>4. 0 \in walked
  <2>1. PICK e : e = f[0]
    OBVIOUS
  <2>2. e = [blocks |-> <<>>, next |-> 0, path |-> <<>>, counts |-> NoOrdinals, inside |-> 0]
    BY <1>3, <2>1 DEF Start
  <2>3. /\ Context(e) /\ e.path = <<>> /\ e.inside = 0 /\ e.blocks = <<>>
        /\ e.counts = NoOrdinals
    BY <2>2 DEF Context
  <2>4. IsSeq(e.blocks) /\ IsSeq(e.path) /\ DOMAIN e.blocks = {} /\ DOMAIN e.path = {}
    BY <2>3, EmptySeq DEF IsSeq
  <2>5. Places(e.blocks) = {}
    BY <2>4 DEF Places
  <2>6. AllOf(e.blocks) = {} /\ Apart(e.blocks)
    BY <2>5 DEF AllOf, Apart
  <2>7. Structure(F, e, {})
    <3>1. IsPath(e.path)
      <4>1. PICK X, q : X = {} /\ q = e.path /\ q \in Seq(X)
        BY <2>3, EmptySeq
      <4>2. q \in Seq(X) /\ \A x \in X : x.text \in Phrases
        BY <4>1
      <4>3. IsPath(q)
        BY <4>2, Zenon DEF IsPath
      <4> QED  BY <4>1, <4>3
    <3> QED  BY <2>3, <2>4, <2>6, <3>1 DEF Structure
  <2>8. Breadcrumb(e.path) = <<>>
    BY <2>3, NoCrumb
  <2>9. DOMAIN NoOrdinals = {}
    BY DEF NoOrdinals
  <2>10. Keyed(e)
    BY <2>3, <2>6, <2>8, <2>9 DEF Keyed, Keys, Led
  <2>11. Walked(F, e, 0)
    BY <2>3, <2>7, <2>10 DEF Walked, WalkedTo
  <2> QED  BY <2>1, <2>11
<1>5. ASSUME NEW n \in Nat, n \in walked
      PROVE  n + 1 \in walked
  <2>1. SUFFICES ASSUME n + 1 <= N PROVE Walked(F, f[n + 1], n + 1)
    OBVIOUS
  <2>2. PICK j, c : j = n + 1 /\ c = f[n]
    OBVIOUS
  <2>3. j \in 1 .. N /\ j - 1 = n /\ n <= N
    BY <1>1, <2>1, <2>2
  <2>4. Walked(F, c, n) /\ f[j] = Visit(c, F, j, prof)
    BY <1>3, <1>5, <2>2, <2>3
  <2> QED  BY <1>1, <2>2, <2>3, <2>4, VisitSound
<1>6. Walked(F, f[N], N)
  <2>1. N \in walked
    <3> HIDE DEF walked
    <3> QED  BY <1>1, <1>4, <1>5, Induction
  <2> QED  BY <1>1, <2>1
<1>7. PICK c : c = f[N]
  OBVIOUS
<1>8. Apart(blocks) /\ Keys(AllOf(blocks), c.counts, Breadcrumb(c.path))
  BY <1>2, <1>6, <1>7 DEF Walked, WalkedTo, Structure, Keyed
<1>9. ASSUME NEW p \in Places(blocks), NEW q \in Places(blocks),
             BlockAt(blocks, p).slot = BlockAt(blocks, q).slot
      PROVE  p = q
  <2>1. PICK b \in AllOf(blocks), d \in AllOf(blocks) :
          b = BlockAt(blocks, p) /\ d = BlockAt(blocks, q)
    BY DEF AllOf
  <2>2. b.at = d.at
    BY <1>8, <1>9, <2>1 DEF Keys
  <2> QED  BY <1>8, <2>1, <2>2 DEF Apart
<1> QED  BY <1>9

----------------------------------------------------------------------------
Shaped(x) ==
  /\ x = [depth |-> x.depth, tag |-> x.tag, class |-> x.class, id |-> x.id, href |-> x.href,
          text |-> x.text, at |-> x.at]
  /\ x.text \in AnyText

(* Nodes from the places in S of a page, in its order. *)
FromPage(dom, P, S) ==
  /\ IsSeq(P)
  /\ \A n \in 1 .. Len(P) :
       Shaped(P[n]) /\ P[n].at \in S /\ P[n].id = dom[P[n].at].id
  /\ \A m, n \in 1 .. Len(P) : m < n => P[m].at < P[n].at


(* A function on the numbers to n is a sequence, and written out the same one. *)
LEMMA WrittenOutHolds ==
  ASSUME NEW n \in Nat, NEW s, ListOf(s, n)
  PROVE  /\ IsSeq(s) /\ Len(s) = n
         /\ IsSeq(WrittenOut(s)) /\ Len(WrittenOut(s)) = n
         /\ \A i \in 1 .. n : WrittenOut(s)[i] = s[i]
<1>1. PICK X : X = {s[i] : i \in 1 .. n}
  OBVIOUS
<1>2. s \in [1 .. n -> X]
  BY <1>1 DEF ListOf
<1>3. s \in Seq(X)
  BY <1>2, SeqDef
<1>4. Len(s) = n
  <2>1. DOMAIN s = 1 .. n /\ DOMAIN s = 1 .. Len(s) /\ Len(s) \in Nat
    BY <1>2, <1>3, LenProperties
  <2> QED  BY <2>1
<1>5. PICK e : e = <<>> /\ e \in Seq(X) /\ Len(e) = 0
  BY EmptySeq
<1>6. WrittenOut(s) = s \o e
  BY <1>5 DEF WrittenOut
<1>7. s \o e = s
  BY <1>3, <1>5, ConcatEmptySeq
<1> QED  BY <1>3, <1>4, <1>6, <1>7 DEF IsSeq

(* What is kept of a subtree. *)
LEMMA PruneHolds ==
  ASSUME NEW dom \in Seq(Node), NEW i
  PROVE  FromPage(dom, Prune(dom, i), Subtree(dom, i) \cap DOMAIN dom)
<1>1. Len(dom) \in Nat /\ DOMAIN dom = 1 .. Len(dom) /\ \A k \in DOMAIN dom : dom[k] \in Node
  BY LenProperties
<1>2. PICK K, kept, S : /\ K = Kept(dom, i) /\ kept = InOrder(dom, K)
                        /\ S = Subtree(dom, i) \cap DOMAIN dom
  OBVIOUS
<1>3. kept \in Seq(K \cap DOMAIN dom) /\ Rising(kept)
  BY <1>1, <1>2, InOrderHolds
<1>4. PICK w : w = Len(kept) /\ w \in Nat /\ DOMAIN kept = 1 .. w
  BY <1>3, LenProperties
<1>5. K \cap DOMAIN dom \subseteq S
  BY <1>2 DEF Kept
<1>6. \A n \in 1 .. w : kept[n] \in S /\ kept[n] \in DOMAIN dom
  <2>1. \A n \in 1 .. w : kept[n] \in K \cap DOMAIN dom
    BY <1>3, <1>4
  <2> QED  BY <1>5, <2>1
<1>7. PICK s : s = [n \in DOMAIN kept |->
                      [dom[kept[n]] EXCEPT !.depth = @ - dom[i].depth, !.at = kept[n]]]
  OBVIOUS
<1>8. ASSUME NEW n \in 1 .. w
      PROVE  Shaped(s[n]) /\ s[n].at = kept[n] /\ s[n].id = dom[kept[n]].id
  <2>1. PICK x, y, depth, k : /\ x = dom[kept[n]] /\ y = s[n] /\ k = kept[n]
                              /\ depth = x.depth - dom[i].depth
    OBVIOUS
  <2>2. x \in Node
    BY <1>1, <1>6, <2>1
  <2>3. y = [x EXCEPT !.depth = depth, !.at = k]
    BY <1>4, <1>7, <2>1
  <2>4. y = [depth |-> depth, tag |-> x.tag, class |-> x.class, id |-> x.id, href |-> x.href,
             text |-> x.text, at |-> k]
    BY <2>2, <2>3 DEF Node
  <2>5. y.at = k /\ y.id = x.id /\ Shaped(y)
    BY <2>2, <2>4 DEF Shaped, Node
  <2> QED  BY <2>1, <2>5
<1>9. ListOf(s, w)
  BY <1>4, <1>7 DEF ListOf
<1>10. PICK P : P = Prune(dom, i)
  OBVIOUS
<1>11. P = WrittenOut(s)
  BY <1>2, <1>7, <1>10 DEF Prune
<1>12. IsSeq(P) /\ Len(P) = w /\ \A n \in 1 .. w : P[n] = s[n]
  BY <1>4, <1>9, <1>11, WrittenOutHolds
<1>13. ASSUME NEW n \in 1 .. w
       PROVE  Shaped(P[n]) /\ P[n].at = kept[n] /\ P[n].id = dom[P[n].at].id
  <2>1. P[n] = s[n]
    BY <1>12
  <2> QED  BY <1>8, <2>1
<1>14. ASSUME NEW m \in 1 .. w, NEW n \in 1 .. w, m < n
       PROVE  P[m].at < P[n].at
  <2>1. kept[m] < kept[n]
    BY <1>3, <1>4, <1>14 DEF Rising
  <2> QED  BY <1>13, <2>1
<1>15. \A n \in 1 .. w : P[n].at \in S
  BY <1>6, <1>13
<1>16. FromPage(dom, P, S)
  BY <1>12, <1>13, <1>14, <1>15 DEF FromPage
<1> QED  BY <1>2, <1>10, <1>16

(* What comes from before another part of the page may stand before it. *)
LEMMA JoinHolds ==
  ASSUME NEW dom, NEW S, NEW T, NEW P, NEW Q, FromPage(dom, P, S), FromPage(dom, Q, T),
         \A k \in S, l \in T : k < l
  PROVE  FromPage(dom, P \o Q, S \cup T)
<1>1. PICK X, Y : P \in Seq(X) /\ Q \in Seq(Y)
  BY DEF FromPage, IsSeq
<1>2. PICK Z : Z = X \cup Y
  OBVIOUS
<1>3. P \in Seq(Z) /\ Q \in Seq(Z)
  BY <1>1, <1>2, SeqMonotonic
<1>4. PICK R, p, q : R = P \o Q /\ p = Len(P) /\ q = Len(Q)
  OBVIOUS
<1>5. /\ R \in Seq(Z) /\ Len(R) = p + q /\ p \in Nat /\ q \in Nat
      /\ \A n \in 1 .. p + q : R[n] = IF n <= p THEN P[n] ELSE Q[n - p]
  BY <1>3, <1>4, ConcatProperties, LenProperties
<1>6. \A n \in 1 .. p + q : \/ n \in 1 .. p /\ R[n] = P[n]
                            \/ n > p /\ n - p \in 1 .. q /\ R[n] = Q[n - p]
  BY <1>5
<1>7. /\ \A n \in 1 .. p : Shaped(P[n]) /\ P[n].at \in S /\ P[n].id = dom[P[n].at].id
      /\ \A m, n \in 1 .. p : m < n => P[m].at < P[n].at
      /\ \A n \in 1 .. q : Shaped(Q[n]) /\ Q[n].at \in T /\ Q[n].id = dom[Q[n].at].id
      /\ \A m, n \in 1 .. q : m < n => Q[m].at < Q[n].at
  BY <1>4 DEF FromPage
<1>8. \A n \in 1 .. p + q : Shaped(R[n]) /\ R[n].at \in S \cup T /\ R[n].id = dom[R[n].at].id
  BY <1>6, <1>7
<1>9. ASSUME NEW m \in 1 .. p + q, NEW n \in 1 .. p + q, m < n
      PROVE  R[m].at < R[n].at
  <2>1. CASE n \in 1 .. p /\ R[n] = P[n]
    <3>1. m \in 1 .. p /\ R[m] = P[m]
      BY <1>5, <1>6, <1>9, <2>1
    <3> QED  BY <1>7, <1>9, <2>1, <3>1
  <2>2. CASE n > p /\ n - p \in 1 .. q /\ R[n] = Q[n - p]
    <3>1. CASE m \in 1 .. p /\ R[m] = P[m]
      <4>1. R[m].at \in S /\ R[n].at \in T
        BY <1>7, <2>2, <3>1
      <4> QED  BY <4>1
    <3>2. CASE m > p /\ m - p \in 1 .. q /\ R[m] = Q[m - p]
      <4>1. m - p < n - p
        BY <1>5, <1>9
      <4> QED  BY <1>7, <2>2, <3>2, <4>1
    <3> QED  BY <1>6, <3>1, <3>2
  <2> QED  BY <1>6, <2>1, <2>2
<1>10. IsSeq(R)
  BY <1>5 DEF IsSeq
<1>11. FromPage(dom, R, S \cup T)
  BY <1>5, <1>8, <1>9, <1>10 DEF FromPage
<1> QED  BY <1>4, <1>11

(* The places ahead of the roots after the first n. *)
Ahead(dom, roots, n) ==
  {k \in DOMAIN dom : \A m \in n + 1 .. Len(roots) : k < roots[m]}

(* Roots that are apart give a forest in the order of the page. *)
LEMMA SelectedHolds ==
  ASSUME NEW dom \in Seq(Node), NEW selector,
         \A i, j \in Matching(dom, selector) : j \notin Below(dom, i),
         NEW roots, roots = Selected(dom, selector)
  PROVE  FromPage(dom, FlattenSeq([n \in DOMAIN roots |-> Prune(dom, roots[n])]), DOMAIN dom)
<1>1. Len(dom) \in Nat /\ DOMAIN dom = 1 .. Len(dom)
  BY LenProperties
<1>2. PICK M : M = Matching(dom, selector) /\ roots = InOrder(dom, M)
  BY DEF Selected
<1>3. roots \in Seq(M \cap DOMAIN dom) /\ Rising(roots)
  BY <1>1, <1>2, InOrderHolds
<1>4. PICK w : w = Len(roots) /\ w \in Nat /\ DOMAIN roots = 1 .. w
  BY <1>3, LenProperties
<1>5. \A n \in 1 .. w : roots[n] \in M /\ roots[n] \in 1 .. Len(dom)
  <2>1. \A n \in 1 .. w : roots[n] \in M \cap DOMAIN dom
    BY <1>3, <1>4
  <2> QED  BY <1>1, <2>1
<1>6. PICK seqs : seqs = [n \in DOMAIN roots |-> Prune(dom, roots[n])]
  OBVIOUS
<1>7. IsSeq(seqs) /\ Len(seqs) = w /\ \A n \in 1 .. w : seqs[n] = Prune(dom, roots[n])
  <2>1. ListOf(seqs, w)
    BY <1>4, <1>6 DEF ListOf
  <2> QED  BY <1>4, <1>6, <2>1, WrittenOutHolds
<1>8. ASSUME NEW n \in 1 .. w
      PROVE  /\ FromPage(dom, seqs[n], Subtree(dom, roots[n]) \cap DOMAIN dom)
             /\ \A k \in Subtree(dom, roots[n]) \cap DOMAIN dom :
                  roots[n] <= k /\ \A m \in n + 1 .. w : k < roots[m]
  <2>1. FromPage(dom, seqs[n], Subtree(dom, roots[n]) \cap DOMAIN dom)
    BY <1>7, PruneHolds
  <2>2. PICK r : r = roots[n] /\ r \in 1 .. Len(dom) /\ r \in M
    BY <1>5
  <2>3. PICK e \in r .. Len(dom) : Below(dom, r) = r + 1 .. e
    BY <1>1, <2>2, BelowHolds
  <2>4. ASSUME NEW m \in n + 1 .. w
        PROVE  e < roots[m]
    <3>1. m \in 1 .. w /\ n < m
      BY <1>4
    <3>2. roots[m] \in M /\ roots[m] \in 1 .. Len(dom) /\ r < roots[m]
      BY <1>3, <1>4, <1>5, <2>2, <3>1 DEF Rising
    <3>3. roots[m] \notin r + 1 .. e
      BY <1>2, <2>2, <2>3, <3>2
    <3> QED  BY <1>1, <2>2, <2>3, <3>2, <3>3
  <2>5. ASSUME NEW k \in Subtree(dom, r) \cap DOMAIN dom
        PROVE  r <= k /\ \A m \in n + 1 .. w : k < roots[m]
    <3>1. k \in r .. e
      BY <2>2, <2>3 DEF Subtree
    <3>2. \A m \in n + 1 .. w : e < roots[m] /\ roots[m] \in Nat
      <4>1. \A m \in n + 1 .. w : m \in 1 .. w
        BY <1>4
      <4> QED  BY <1>5, <2>4, <4>1
    <3> QED  BY <2>2, <2>3, <3>1, <3>2
  <2> QED  BY <2>1, <2>2, <2>5
<1>9. CASE w = 0
  <2>1. FlattenSeq(seqs) = seqs
    BY <1>7, <1>9, Zenon DEF FlattenSeq
  <2>2. 1 .. Len(seqs) = {}
    BY <1>7, <1>9
  <2> QED  BY <1>6, <1>7, <2>1, <2>2 DEF FromPage
<1>10. CASE w # 0
  <2>1. PICK f : FlatUpto(f, w, seqs) /\ FlattenSeq(seqs) = f[w]
    BY <1>4, <1>7, <1>10, FlatClimbs
  <2>2. \A n \in 1 .. w : f[n] = IF n = 1 THEN seqs[n] ELSE f[n - 1] \o seqs[n]
    BY <2>1, Zenon DEF FlatUpto
  <2> DEFINE done == {n \in Nat : n \in 1 .. w => FromPage(dom, f[n], Ahead(dom, roots, n))}
  <2>3. 0 \in done
    OBVIOUS
  <2>4. ASSUME NEW n \in Nat, n \in done
        PROVE  n + 1 \in done
    <3>1. SUFFICES ASSUME n + 1 \in 1 .. w
                   PROVE  FromPage(dom, f[n + 1], Ahead(dom, roots, n + 1))
      OBVIOUS
    <3>2. PICK i, T, Q : /\ i = n + 1 /\ Q = seqs[i]
                         /\ T = Subtree(dom, roots[i]) \cap DOMAIN dom
      OBVIOUS
    <3>3. i \in 1 .. w /\ FromPage(dom, Q, T) /\ T \subseteq Ahead(dom, roots, i)
      BY <1>4, <1>8, <3>1, <3>2 DEF Ahead
    <3>4. CASE n = 0
      <4>1. f[i] = Q
        BY <2>2, <3>2, <3>3, <3>4
      <4> QED  BY <3>2, <3>3, <4>1 DEF FromPage
    <3>5. CASE n # 0
      <4>1. n \in 1 .. w /\ i - 1 = n /\ i # 1
        BY <1>4, <3>1, <3>2, <3>5
      <4>2. PICK P, S : P = f[n] /\ S = Ahead(dom, roots, n)
        OBVIOUS
      <4>3. f[i] = P \o Q /\ FromPage(dom, P, S)
        BY <2>2, <2>4, <3>2, <3>3, <4>1, <4>2
      <4>4. \A k \in S : k < roots[i] /\ k \in Nat
        <5>1. i \in n + 1 .. w
          BY <1>4, <3>2, <3>3
        <5> QED  BY <1>1, <1>4, <4>2, <5>1 DEF Ahead
      <4>5. \A k \in S, l \in T : k < l
        <5>1. \A l \in T : roots[i] <= l
          BY <1>8, <3>2, <3>3
        <5>2. \A l \in T : l \in Nat
          BY <1>1, <3>2
        <5>3. roots[i] \in Nat
          BY <1>1, <1>5, <3>3
        <5> QED  BY <4>4, <5>1, <5>2, <5>3
      <4>6. FromPage(dom, P \o Q, S \cup T)
        BY <3>3, <4>3, <4>5, JoinHolds
      <4>7. S \cup T \subseteq Ahead(dom, roots, i)
        <5>1. \A m \in i + 1 .. w : m \in n + 1 .. w
          BY <1>4, <3>2
        <5> QED  BY <1>4, <3>3, <4>2, <5>1 DEF Ahead
      <4> QED  BY <3>2, <4>3, <4>6, <4>7 DEF FromPage
    <3> QED  BY <3>4, <3>5
  <2>5. w \in done
    <3> HIDE DEF done
    <3> QED  BY <1>4, <2>3, <2>4, Induction
  <2>6. FromPage(dom, f[w], Ahead(dom, roots, w))
    <3>1. w \in 1 .. w
      BY <1>4, <1>10
    <3> QED  BY <2>5, <3>1
  <2>7. Ahead(dom, roots, w) \subseteq DOMAIN dom
    BY DEF Ahead
  <2> QED  BY <1>6, <2>1, <2>6, <2>7 DEF FromPage
<1> QED  BY <1>9, <1>10

Strategies == {"full", "readability", "selector"}

(* Whatever the strategy, nodes of the page in its order. *)
LEMMA ExtractHolds ==
  ASSUME NEW dom \in Seq(Node), NEW prof, prof.strategy \in Strategies, RootsApart(dom, prof)
  PROVE  FromPage(dom, Extract(dom, prof), DOMAIN dom)
<1>1. \A i : FromPage(dom, Prune(dom, i), DOMAIN dom)
  <2>1. ASSUME NEW i PROVE FromPage(dom, Prune(dom, i), DOMAIN dom)
    <3>1. FromPage(dom, Prune(dom, i), Subtree(dom, i) \cap DOMAIN dom)
      BY PruneHolds
    <3> QED  BY <3>1 DEF FromPage
  <2> QED  BY <2>1
<1>2. CASE prof.strategy = "full"
  <2>1. Extract(dom, prof) = Prune(dom, 1)
    BY <1>2 DEF Extract
  <2> QED  BY <1>1, <2>1
<1>3. CASE prof.strategy = "readability"
  <2>1. Extract(dom, prof) = Prune(dom, Readable(dom))
    BY <1>3 DEF Extract
  <2> QED  BY <1>1, <2>1
<1>4. CASE prof.strategy = "selector"
  <2>1. PICK roots : roots = Selected(dom, prof.root)
    OBVIOUS
  <2>2. Extract(dom, prof) = FlattenSeq([n \in DOMAIN roots |-> Prune(dom, roots[n])])
    BY <1>4, <2>1 DEF Extract
  <2>3. \A i, j \in Matching(dom, prof.root) : j \notin Below(dom, i)
    BY <1>4 DEF RootsApart
  <2> QED  BY <2>1, <2>2, <2>3, SelectedHolds
<1> QED  BY <1>2, <1>3, <1>4 DEF Strategies

(* Normalization makes texts of texts. *)
LEMMA NormalTextType ==
  ASSUME NEW text \in AnyText, NEW inCode
  PROVE  NormalText(text, inCode) \in AnyText
<1>1. CASE inCode
  BY <1>1 DEF NormalText
<1>2. CASE ~inCode
  <2>1. PICK s, words : /\ s = text.words
                        /\ words = [k \in DOMAIN text.words |-> Steady(text.words[k])]
    OBVIOUS
  <2>2. PICK n : n = Len(s) /\ n \in Nat /\ DOMAIN s = 1 .. n /\ \A k \in 1 .. n : s[k] \in Words
    BY <2>1, LenProperties DEF AnyText
  <2>3. \A k \in 1 .. n : Steady(s[k]) \in Words
    BY <2>2, RelativeAssumption DEF Steady
  <2>4. words \in [1 .. n -> Words]
    BY <2>1, <2>2, <2>3
  <2>5. words \in Seq(Words)
    BY <2>2, <2>4, SeqDef
  <2>6. NormalText(text, inCode) = [words |-> words, spaced |-> FALSE]
    BY <1>2, <2>1 DEF NormalText
  <2> QED  BY <2>5, <2>6 DEF AnyText
<1> QED  BY <1>1, <1>2

(* And so the forest that is segmented: its nodes are of different places, and
   have different ids if those of the page do. *)
LEMMA ForestHolds ==
  ASSUME NEW dom \in Seq(Node), NEW prof, prof.strategy \in Strategies, RootsApart(dom, prof),
         NEW F, F = Forest(dom, prof)
  PROVE  /\ Worded(F) /\ AtsDiffer(F)
         /\ IdsDiffer(dom) => IdsDiffer(F)
<1>1. PICK E, base : E = Extract(dom, prof) /\ base = BaseOf(E)
  OBVIOUS
<1>2. FromPage(dom, E, DOMAIN dom)
  BY <1>1, ExtractHolds
<1>3. PICK w : w = Len(E) /\ w \in Nat /\ DOMAIN E = 1 .. w
  BY <1>2, LenProperties DEF FromPage, IsSeq
<1>4. PICK s : s = [i \in DOMAIN E |-> NormalNode(E, i, base, prof)]
  OBVIOUS
<1>5. F = WrittenOut(s)
  BY <1>1, <1>4 DEF Forest, Normalize
<1>6. IsSeq(F) /\ Len(F) = w /\ \A i \in 1 .. w : F[i] = NormalNode(E, i, base, prof)
  <2>1. ListOf(s, w)
    BY <1>3, <1>4 DEF ListOf
  <2>2. \A i \in 1 .. w : s[i] = NormalNode(E, i, base, prof)
    BY <1>3, <1>4
  <2> QED  BY <1>3, <1>5, <2>1, <2>2, WrittenOutHolds
<1>7. ASSUME NEW i \in 1 .. w
      PROVE  F[i].at = E[i].at /\ F[i].id \in {"", E[i].id} /\ F[i].text \in AnyText
  <2>1. PICK x, y : x = E[i] /\ y = F[i] /\ Shaped(x)
    BY <1>2, <1>3 DEF FromPage
  <2>2. PICK id, class, href, text :
          /\ id = StableId(x.id, prof)
          /\ class = IF "class" \in prof.stripAttrs THEN "" ELSE x.class
          /\ href = IF "href" \in prof.stripAttrs THEN NoUrl ELSE CanonicalUrl(x.href, base)
          /\ text = NormalText(x.text, InCode(E, i))
    OBVIOUS
  <2>3. y = [x EXCEPT !.id = id, !.class = class, !.href = href, !.text = text]
    BY <1>6, <2>1, <2>2, Zenon DEF NormalNode
  <2>4. y = [depth |-> x.depth, tag |-> x.tag, class |-> class, id |-> id, href |-> href,
             text |-> text, at |-> x.at]
    BY <2>1, <2>3 DEF Shaped
  <2>5. y.at = x.at /\ y.id = id /\ y.text = text
    BY <2>4
  <2>6. id \in {"", x.id}
    BY <2>2 DEF StableId
  <2>7. text \in AnyText
    BY <2>1, <2>2, NormalTextType DEF Shaped
  <2> QED  BY <2>1, <2>5, <2>6, <2>7
<1>8. \A i \in 1 .. w : E[i].at \in DOMAIN dom /\ E[i].id = dom[E[i].at].id
  BY <1>2, <1>3 DEF FromPage
<1>9. \A i, j \in 1 .. w : E[i].at = E[j].at => i = j
  <2>1. ASSUME NEW i \in 1 .. w, NEW j \in 1 .. w, E[i].at = E[j].at, i # j
        PROVE  FALSE
    <3>1. E[i].at < E[j].at \/ E[j].at < E[i].at
      BY <1>2, <1>3, <2>1 DEF FromPage
    <3>2. E[i].at \in Nat
      <4>1. DOMAIN dom = 1 .. Len(dom) /\ Len(dom) \in Nat
        BY LenProperties
      <4> QED  BY <1>8, <4>1
    <3> QED  BY <2>1, <3>1, <3>2
  <2> QED  BY <2>1
<1>10. DOMAIN F = 1 .. w
  BY <1>6, LenProperties DEF IsSeq
<1>11. AtsDiffer(F)
  <2>1. ASSUME NEW i \in 1 .. w, NEW j \in 1 .. w, F[i].at = F[j].at
        PROVE  i = j
    <3>1. E[i].at = E[j].at
      BY <1>7, <2>1
    <3> QED  BY <1>9, <3>1
  <2> QED  BY <1>10, <2>1 DEF AtsDiffer
<1>12. ASSUME IdsDiffer(dom) PROVE IdsDiffer(F)
  <2>1. ASSUME NEW i \in 1 .. w, NEW j \in 1 .. w, F[i].id = F[j].id, F[i].id # ""
        PROVE  i = j
    <3>1. E[i].id = E[j].id /\ E[i].id # ""
      BY <1>7, <2>1
    <3>2. E[i].at = E[j].at
      BY <1>8, <1>12, <3>1 DEF IdsDiffer
    <3> QED  BY <1>9, <3>2
  <2> QED  BY <1>10, <2>1 DEF IdsDiffer
<1>13. Worded(F)
  BY <1>3, <1>6, <1>7, <1>10 DEF Worded
<1> QED  BY <1>11, <1>12, <1>13

----------------------------------------------------------------------------
(* One more to be joined comes last. *)
LEMMA FlattenAppend ==
  ASSUME NEW X, NEW seqs \in Seq(Seq(X)), NEW q \in Seq(X)
  PROVE  FlattenSeq(Append(seqs, q)) = FlattenSeq(seqs) \o q
<1>1. PICK w, more : w = Len(seqs) /\ more = Append(seqs, q)
  OBVIOUS
<1>2. PICK Y : Y = Seq(X)
  OBVIOUS
<1>3. /\ w \in Nat /\ DOMAIN seqs = 1 .. w /\ DOMAIN more = 1 .. w + 1
      /\ more[w + 1] = q /\ \A n \in 1 .. w : more[n] = seqs[n] /\ seqs[n] \in Y
      /\ more \in Seq(Y) /\ seqs \in Seq(Y) /\ Len(more) = w + 1
  BY <1>1, <1>2, AppendProperties, LenProperties
<1>4. PICK b : b = [n \in Nat |-> IF n \in 1 .. w + 1 THEN more[n] ELSE <<>>]
  OBVIOUS
<1>5. Joinable(b, X)
  <2>1. <<>> \in Y /\ \A n \in 1 .. w + 1 : more[n] \in Y
    BY <1>2, <1>3, EmptySeq
  <2>2. b \in [Nat -> Y]
    BY <1>4, <2>1
  <2> QED  BY <1>2, <2>2 DEF Joinable
<1>6. FlattenSeq(seqs) = Joined(b)[w]
  <2>1. ListOf(seqs, w)
    BY <1>3 DEF ListOf
  <2>2. EqualOn(seqs, b, 1 .. w)
    <3>1. \A n \in 1 .. w : n \in Nat /\ n \in 1 .. w + 1
      BY <1>3
    <3> QED  BY <1>3, <1>4, <3>1 DEF EqualOn
  <2> QED  BY <1>3, <1>5, <2>1, <2>2, FlattenJoined
<1>7. FlattenSeq(more) = Joined(b)[w + 1] /\ b[w + 1] = q
  <2>1. ListOf(more, w + 1)
    BY <1>3 DEF ListOf
  <2>2. \A n \in 1 .. w + 1 : n \in Nat
    BY <1>3
  <2>3. EqualOn(more, b, 1 .. w + 1)
    BY <1>4, <2>2 DEF EqualOn
  <2>4. w + 1 \in Nat /\ w + 1 \in 1 .. w + 1
    BY <1>3
  <2>5. FlattenSeq(more) = Joined(b)[w + 1]
    BY <1>5, <2>1, <2>3, <2>4, FlattenJoined
  <2> QED  BY <1>3, <1>4, <2>4, <2>5
<1>8. Joined(b)[w + 1] = Joined(b)[w] \o b[w + 1]
  BY <1>3, <1>5, JoinedHolds DEF Joinable
<1> QED  BY <1>1, <1>6, <1>7, <1>8, Zenon

----------------------------------------------------------------------------
(* What the places of a forest in a set tell, place by place; and in all. *)
Telling(F, S) == [j \in Nat |-> IF j \in S \cap DOMAIN F THEN Spelled(F[j].text) ELSE <<>>]

Spells(F, texts) == [n \in DOMAIN texts |-> Spelled(F[texts[n]].text)]
TextsOf(F, S) == FlattenSeq(Spells(F, InOrder(F, S)))

(* What is spelled are words. *)
LEMMA SpelledType ==
  ASSUME NEW text \in AnyText
  PROVE  Spelled(text) \in Phrases
<1>1. text.words \in Seq(Words) /\ text.spaced \in BOOLEAN
  BY DEF AnyText
<1>2. PICK l : l \in Nat /\ DOMAIN text.words = 1 .. l /\ \A k \in 1 .. l : text.words[k] \in Words
  BY <1>1, LenProperties
<1>3. Spelled(text) = [k \in 1 .. l |-> <<text.words[k], text.spaced>>]
  BY <1>2 DEF Spelled
<1>4. Spelled(text) \in [1 .. l -> Words \X BOOLEAN]
  BY <1>1, <1>2, <1>3
<1> QED  BY <1>2, <1>4, SeqDef DEF Phrases

LEMMA TellingType ==
  ASSUME NEW F, Worded(F), NEW S
  PROVE  Joinable(Telling(F, S), Words \X BOOLEAN)
<1>1. PICK b : b = Telling(F, S)
  OBVIOUS
<1>2. <<>> \in Phrases
  BY EmptySeq DEF Phrases
<1>3. \A j \in DOMAIN F : Spelled(F[j].text) \in Phrases
  BY SpelledType DEF Worded
<1>4. b \in [Nat -> Phrases]
  BY <1>1, <1>2, <1>3 DEF Telling
<1> QED  BY <1>1, <1>4 DEF Joinable, Phrases

(* Along the way of InOrder: t is what was picked up to a place, told is
   what that tells. *)
TellsSoFar(F, t, told) == FlattenSeq(Spells(F, t)) = told

LEMMA TextsOfJoined ==
  ASSUME NEW F, Worded(F), NEW S
  PROVE  TextsOf(F, S) = Joined(Telling(F, S))[Len(F)]
<1>1. PICK s, N, X, j, b : /\ s = [i \in DOMAIN F |-> i] /\ N = Len(F) /\ X = S \cap DOMAIN F
                           /\ b = Telling(F, S) /\ j = Joined(b)
  OBVIOUS
<1>2. N \in Nat /\ DOMAIN F = 1 .. N /\ Len(s) = N
  BY <1>1 DEF Worded
<1>3. PICK f : PicksUpto(f, N, s, S) /\ InOrder(F, S) = f[N]
  BY <1>1, <1>2, PickedClimbs DEF InOrder
<1>4. /\ f[0] = <<>>
      /\ \A i \in 1 .. N : f[i] = IF i \in S THEN Append(f[i - 1], i) ELSE f[i - 1]
  <2>1. 0 \in 0 .. N /\ \A i \in 1 .. N : i \in 0 .. N /\ i # 0 /\ s[i] = i
    BY <1>1, <1>2
  <2> QED  BY <1>3, <2>1, Zenon DEF PicksUpto
<1>5. Joinable(b, Words \X BOOLEAN)
  BY <1>1, TellingType
<1>6. /\ \A n \in Nat : j[n] \in Phrases
      /\ j[0] = <<>> /\ \A n \in Nat : j[n + 1] = j[n] \o b[n + 1]
  BY <1>1, <1>5, JoinedHolds DEF Joinable, Phrases
<1> DEFINE done == {n \in Nat : n <= N => f[n] \in Seq(X) /\ TellsSoFar(F, f[n], j[n])}
<1>7. 0 \in done
  <2>1. PICK e : e = <<>> /\ e \in Seq(X) /\ Len(e) = 0 /\ DOMAIN e = {}
    <3>1. PICK e : e = <<>> /\ e \in Seq(X) /\ Len(e) = 0
      BY EmptySeq
    <3>2. DOMAIN e = 1 .. 0 /\ 1 .. 0 = {}
      BY <3>1, LenProperties
    <3> QED  BY <3>1, <3>2
  <2>2. Spells(F, e) = e
    <3>1. e \in [DOMAIN e -> X]
      BY <2>1
    <3> QED  BY <2>1, <3>1 DEF Spells
  <2>3. FlattenSeq(e) = e
    BY <2>1, Zenon DEF FlattenSeq
  <2>4. TellsSoFar(F, e, e)
    BY <2>2, <2>3, Zenon DEF TellsSoFar
  <2> QED  BY <1>4, <1>6, <2>1, <2>4
<1>8. ASSUME NEW n \in Nat, n \in done
      PROVE  n + 1 \in done
  <2>1. SUFFICES ASSUME n + 1 <= N
                 PROVE  f[n + 1] \in Seq(X) /\ TellsSoFar(F, f[n + 1], j[n + 1])
    OBVIOUS
  <2>2. PICK t, i, told, q : t = f[n] /\ i = n + 1 /\ told = j[n] /\ q = b[i]
    OBVIOUS
  <2>3. i \in 1 .. N /\ i - 1 = n /\ i \in Nat /\ t \in Seq(X) /\ TellsSoFar(F, t, told)
        /\ told \in Phrases
    BY <1>2, <1>6, <1>8, <2>1, <2>2
  <2>4. j[i] = told \o q
    BY <1>6, <2>2, Zenon
  <2>5. CASE i \in S
    <3>1. i \in X /\ q = Spelled(F[i].text) /\ q \in Phrases
      <4>1. i \in DOMAIN F /\ i \in X
        BY <1>1, <1>2, <2>3, <2>5
      <4>2. q = Spelled(F[i].text)
        BY <1>1, <2>2, <2>3, <4>1 DEF Telling
      <4>3. F[i].text \in AnyText
        BY <4>1 DEF Worded
      <4> QED  BY <4>1, <4>2, <4>3, SpelledType
    <3>2. PICK u, sp, sq : u = Append(t, i) /\ sp = Spells(F, t) /\ sq = Spells(F, u)
      OBVIOUS
    <3>3. f[i] = u
      BY <1>4, <2>2, <2>3, <2>5, <3>2
    <3>4. PICK w : /\ w = Len(t) /\ w \in Nat /\ DOMAIN t = 1 .. w
                   /\ u \in Seq(X) /\ DOMAIN u = 1 .. w + 1 /\ u[w + 1] = i
                   /\ \A k \in 1 .. w : u[k] = t[k] /\ t[k] \in X
      <4>1. t \in Seq(X) /\ i \in X
        BY <2>3, <3>1
      <4> QED  BY <3>2, <4>1, AppendProperties, LenProperties
    <3>5. PICK P : P = Phrases
      OBVIOUS
    <3>6. sp \in [1 .. w -> P] /\ sq \in [1 .. w + 1 -> P]
      <4>1. \A x \in X : Spelled(F[x].text) \in P
        BY <1>1, <3>5, SpelledType DEF Worded
      <4>2. \A k \in 1 .. w + 1 : u[k] \in X
        BY <3>4
      <4> QED  BY <3>2, <3>4, <4>1, <4>2 DEF Spells
    <3>7. /\ sq[w + 1] = q
          /\ \A k \in 1 .. w : sq[k] = sp[k]
      <4>1. w + 1 \in DOMAIN u /\ \A k \in 1 .. w : k \in DOMAIN t /\ k \in DOMAIN u
        BY <3>4
      <4> QED  BY <3>1, <3>2, <3>4, <4>1 DEF Spells
    <3>8. sp \in Seq(P) /\ sq \in Seq(P) /\ Len(sp) = w /\ q \in P
      BY <3>1, <3>4, <3>5, <3>6, SeqDef, LenProperties
    <3>9. sq = Append(sp, q)
      <4>1. PICK a : a = Append(sp, q)
        OBVIOUS
      <4>2. a \in Seq(P) /\ Len(a) = w + 1 /\ a[w + 1] = q /\ \A k \in 1 .. w : a[k] = sp[k]
        BY <3>8, <4>1, AppendProperties
      <4>3. a \in [1 .. w + 1 -> P]
        BY <4>2, LenProperties
      <4>4. \A k \in 1 .. w + 1 : a[k] = sq[k]
        BY <3>4, <3>7, <4>2
      <4>5. PICK I : I = 1 .. w + 1
        OBVIOUS
      <4>6. a \in [I -> P] /\ sq \in [I -> P] /\ \A k \in I : a[k] = sq[k]
        BY <3>6, <4>3, <4>4, <4>5
      <4>7. a = sq
        BY <4>6
      <4> QED  BY <4>1, <4>7
    <3>10. FlattenSeq(sq) = FlattenSeq(sp) \o q
      <4>1. sp \in Seq(Seq(Words \X BOOLEAN)) /\ q \in Seq(Words \X BOOLEAN)
        BY <3>5, <3>8 DEF Phrases
      <4> QED  BY <3>9, <4>1, FlattenAppend
    <3>11. TellsSoFar(F, u, j[i])
      BY <2>3, <2>4, <3>2, <3>10, Zenon DEF TellsSoFar
    <3> QED  BY <2>2, <3>3, <3>4, <3>11
  <2>6. CASE i \notin S
    <3>1. q = <<>>
      BY <1>1, <2>2, <2>3, <2>6 DEF Telling
    <3>2. told \o <<>> = told
      <4>1. told \in Seq(Words \X BOOLEAN)
        BY <2>3 DEF Phrases
      <4> QED  BY <4>1, Concatenates, Zenon DEF Neutral
    <3>3. f[i] = t /\ j[i] = told
      <4>1. f[i] = t
        BY <1>4, <2>2, <2>3, <2>6
      <4> QED  BY <2>4, <3>1, <3>2, <4>1, Zenon
    <3> QED  BY <2>2, <2>3, <3>3
  <2> QED  BY <2>5, <2>6
<1>9. N \in done
  <2> HIDE DEF done
  <2> QED  BY <1>2, <1>7, <1>8, Induction
<1>10. TellsSoFar(F, f[N], j[N])
  BY <1>2, <1>9
<1> QED  BY <1>1, <1>3, <1>10, Zenon DEF TellsSoFar, TextsOf

----------------------------------------------------------------------------
(* Nodes with texts and depths, however many roots there are. *)
IsForest(F) == Worded(F) /\ \A k \in DOMAIN F : F[k].depth \in Int

(* What is below node i ends at e: the next node is not as deep as those. *)
EndsBelow(F, i, e) ==
  /\ e \in i .. Len(F) /\ Below(F, i) = i + 1 .. e
  /\ \A k \in i + 1 .. e : F[k].depth > F[i].depth
  /\ e < Len(F) => F[e + 1].depth <= F[i].depth

LEMMA LastBelowEnds ==
  ASSUME NEW F, IsForest(F), NEW i \in 1 .. Len(F)
  PROVE  EndsBelow(F, i, LastBelow(F, i))
<1>1. Len(F) \in Nat /\ DOMAIN F = 1 .. Len(F) /\ \A k \in 1 .. Len(F) : F[k].depth \in Int
  BY DEF IsForest, Worded
<1>2. PICK past, N, B : /\ past = {j \in i + 1 .. Len(F) : F[j].depth <= F[i].depth}
                        /\ N = Len(F) /\ B = Below(F, i)
  OBVIOUS
<1>3. \A k \in i + 1 .. N : k \notin past => F[k].depth > F[i].depth
  <2>1. \A k \in i + 1 .. N : F[k].depth \in Int /\ F[i].depth \in Int
    BY <1>1, <1>2
  <2> QED  BY <1>2, <2>1
<1>4. \E e \in i .. N : /\ B = i + 1 .. e
                        /\ \A k \in i + 1 .. e : F[k].depth > F[i].depth
                        /\ e < N => F[e + 1].depth <= F[i].depth
  <2>1. CASE past = {}
    <3>1. B = i + 1 .. N
      BY <1>2, <2>1 DEF Below
    <3> QED  BY <1>1, <1>2, <1>3, <2>1, <3>1
  <2>2. CASE past # {}
    <3>1. past \in SUBSET Nat
      BY <1>1, <1>2
    <3>2. PICK f : f = CHOOSE j \in past : \A k \in past : j <= k
      OBVIOUS
    <3>3. \E j \in past : \A k \in past : j <= k
      BY <2>2, <3>1, LeastNumber
    <3>4. f \in past /\ \A k \in past : f <= k
      BY <3>2, <3>3
    <3>5. B = i + 1 .. f - 1
      BY <1>2, <2>2, <3>2 DEF Below
    <3>6. f \in i + 1 .. N /\ F[f].depth <= F[i].depth
      BY <1>2, <3>4
    <3>7. \A k \in i + 1 .. f - 1 : F[k].depth > F[i].depth
      <4>1. ASSUME NEW k \in i + 1 .. f - 1
            PROVE  F[k].depth > F[i].depth
        <5>1. k \in i + 1 .. N /\ ~(f <= k)
          BY <1>1, <1>2, <3>6
        <5>2. k \notin past
          BY <3>4, <5>1
        <5> QED  BY <1>3, <5>1, <5>2
      <4> QED  BY <4>1
    <3>8. f - 1 \in i .. N /\ (f - 1) + 1 = f
      BY <1>1, <1>2, <3>6
    <3> QED  BY <3>5, <3>6, <3>7, <3>8
  <2> QED  BY <2>1, <2>2
<1>5. PICK e \in i .. N : /\ B = i + 1 .. e
                          /\ \A k \in i + 1 .. e : F[k].depth > F[i].depth
                          /\ e < N => F[e + 1].depth <= F[i].depth
  BY <1>4
<1>6. Cardinality(i + 1 .. e) = e - i
  <2>1. i + 1 \in Int /\ e \in Int /\ i \in Int /\ i <= e
    BY <1>1, <1>2
  <2>2. Cardinality(i + 1 .. e) = IF i + 1 > e THEN 0 ELSE e - (i + 1) + 1
    BY <2>1, FS_Interval
  <2> QED  BY <2>1, <2>2
<1>7. LastBelow(F, i) = e
  <2>1. LastBelow(F, i) = i + Cardinality(B)
    BY <1>2 DEF LastBelow
  <2> QED  BY <1>1, <1>2, <1>5, <1>6, <2>1
<1> QED  BY <1>2, <1>5, <1>7 DEF EndsBelow

(* A node covers those up to the last below it. *)
LEMMA CoversToLast ==
  ASSUME NEW F, IsForest(F), NEW i \in 1 .. Len(F), NEW j \in i .. Len(F)
  PROVE  Covers(F, i, j) <=> j <= LastBelow(F, i)
<1>1. PICK e, N : e = LastBelow(F, i) /\ N = Len(F) /\ N \in Nat /\ EndsBelow(F, i, e)
  BY LastBelowEnds DEF IsForest, Worded
<1>2. /\ e \in i .. N /\ \A k \in i + 1 .. e : F[k].depth > F[i].depth
      /\ e < N => F[e + 1].depth <= F[i].depth
      /\ \A k \in 1 .. N : F[k].depth \in Int
  BY <1>1 DEF EndsBelow, IsForest, Worded
<1>3. ASSUME j <= e PROVE Covers(F, i, j)
  <2>1. \A k \in i + 1 .. j : k \in i + 1 .. e
    BY <1>1, <1>2, <1>3
  <2>2. i <= j
    BY <1>1
  <2> QED  BY <1>2, <2>1, <2>2 DEF Covers
<1>4. ASSUME Covers(F, i, j) PROVE j <= e
  <2>1. SUFFICES ASSUME e < j PROVE FALSE
    BY <1>1, <1>2
  <2>2. e + 1 \in i + 1 .. j /\ e < N /\ e + 1 \in 1 .. N /\ i \in 1 .. N
    BY <1>1, <1>2, <2>1
  <2>3. F[e + 1].depth > F[i].depth
    BY <1>4, <2>2 DEF Covers
  <2>4. F[e + 1].depth \in Int /\ F[i].depth \in Int
    BY <1>2, <2>2
  <2> QED  BY <1>2, <2>2, <2>3, <2>4
<1> QED  BY <1>1, <1>3, <1>4

(* What is below a node below another ends no later. *)
LEMMA LastBelowNests ==
  ASSUME NEW F, IsForest(F), NEW i \in 1 .. Len(F), NEW j \in i .. LastBelow(F, i)
  PROVE  LastBelow(F, j) <= LastBelow(F, i)
<1>1. PICK e, N : e = LastBelow(F, i) /\ N = Len(F) /\ N \in Nat /\ EndsBelow(F, i, e)
  BY LastBelowEnds DEF IsForest, Worded
<1>2. /\ e \in i .. N /\ \A k \in i + 1 .. e : F[k].depth > F[i].depth
      /\ e < N => F[e + 1].depth <= F[i].depth
      /\ \A k \in 1 .. N : F[k].depth \in Int
  BY <1>1 DEF EndsBelow, IsForest, Worded
<1>3. j \in 1 .. N /\ j <= e
  BY <1>1, <1>2
<1>4. PICK d : d = LastBelow(F, j) /\ EndsBelow(F, j, d)
  BY <1>1, <1>3, LastBelowEnds
<1>5. d \in j .. N /\ \A k \in j + 1 .. d : F[k].depth > F[j].depth
  BY <1>1, <1>4 DEF EndsBelow
<1>6. SUFFICES ASSUME e < d PROVE FALSE
  BY <1>1, <1>2, <1>3, <1>4, <1>5
<1>7. e + 1 \in j + 1 .. d /\ e < N /\ e + 1 \in 1 .. N /\ i \in 1 .. N
  BY <1>1, <1>2, <1>3, <1>5, <1>6
<1>8. F[e + 1].depth > F[j].depth /\ F[e + 1].depth <= F[i].depth
  BY <1>2, <1>5, <1>7
<1>9. F[e + 1].depth \in Int /\ F[i].depth \in Int /\ F[j].depth \in Int
  BY <1>2, <1>3, <1>7
<1>10. i = j \/ F[j].depth > F[i].depth
  <2>1. i = j \/ j \in i + 1 .. e
    BY <1>1, <1>2, <1>3
  <2> QED  BY <1>2, <2>1
<1> QED  BY <1>8, <1>9, <1>10

----------------------------------------------------------------------------
(* Blocks with texts of words, and what a new one adds to what they say. *)
HoldTexts(blocks) == \E X : blocks \in Seq(X) /\ \A x \in X : x.text \in Phrases

Says(blocks, more, text) == Texted(more) = Texted(blocks) \o text

LEMMA TextedAppend ==
  ASSUME NEW s, HoldTexts(s), NEW b, b.text \in Phrases
  PROVE  HoldTexts(Append(s, b)) /\ Says(s, Append(s, b), b.text)
<1>1. PICK X : s \in Seq(X) /\ \A x \in X : x.text \in Phrases
  BY DEF HoldTexts
<1>2. PICK t, w, q, Y, P : /\ t = Append(s, b) /\ w = Len(s) /\ q = b.text /\ Y = X \cup {b}
                           /\ P = Phrases
  OBVIOUS
<1>3. s \in Seq(Y) /\ b \in Y /\ \A x \in Y : x.text \in P
  BY <1>1, <1>2, SeqMonotonic
<1>4. /\ w \in Nat /\ DOMAIN s = 1 .. w /\ t \in Seq(Y) /\ DOMAIN t = 1 .. w + 1
      /\ t[w + 1] = b /\ \A k \in 1 .. w : t[k] = s[k] /\ s[k] \in Y
  BY <1>2, <1>3, AppendProperties, LenProperties
<1>5. HoldTexts(t)
  BY <1>2, <1>3, <1>4 DEF HoldTexts
<1>6. PICK ss, st : /\ ss = [n \in DOMAIN s |-> s[n].text]
                    /\ st = [n \in DOMAIN t |-> t[n].text]
  OBVIOUS
<1>7. ss \in [1 .. w -> P] /\ st \in [1 .. w + 1 -> P]
  <2>1. \A k \in 1 .. w + 1 : t[k] \in Y
    BY <1>4
  <2> QED  BY <1>3, <1>4, <1>6, <2>1
<1>8. st[w + 1] = q /\ \A k \in 1 .. w : st[k] = ss[k]
  <2>1. w + 1 \in DOMAIN t /\ \A k \in 1 .. w : k \in DOMAIN s /\ k \in DOMAIN t
    BY <1>4
  <2> QED  BY <1>2, <1>4, <1>6, <2>1
<1>9. ss \in Seq(P) /\ Len(ss) = w /\ q \in P
  BY <1>2, <1>4, <1>7, SeqDef, LenProperties
<1>10. st = Append(ss, q)
  <2>1. PICK a, I : a = Append(ss, q) /\ I = 1 .. w + 1
    OBVIOUS
  <2>2. a \in Seq(P) /\ Len(a) = w + 1 /\ a[w + 1] = q /\ \A k \in 1 .. w : a[k] = ss[k]
    BY <1>9, <2>1, AppendProperties
  <2>3. a \in [1 .. w + 1 -> P]
    BY <2>2, LenProperties
  <2>4. \A k \in 1 .. w + 1 : a[k] = st[k]
    BY <1>4, <1>8, <2>2
  <2>5. a \in [I -> P] /\ st \in [I -> P] /\ \A k \in I : a[k] = st[k]
    BY <1>7, <2>1, <2>3, <2>4
  <2>6. a = st
    BY <2>5
  <2> QED  BY <2>1, <2>6
<1>11. FlattenSeq(st) = FlattenSeq(ss) \o q
  <2>1. ss \in Seq(Seq(Words \X BOOLEAN)) /\ q \in Seq(Words \X BOOLEAN)
    BY <1>2, <1>9 DEF Phrases
  <2> QED  BY <1>10, <2>1, FlattenAppend
<1>12. Says(s, t, q)
  BY <1>6, <1>11, Zenon DEF Says, Texted
<1> QED  BY <1>2, <1>5, <1>12

(* A context that the walk can go on from. *)
CanGoOn(c) == Context(c) /\ HoldTexts(c.blocks) /\ IsPath(c.path)

(* An emitted block adds the text of its node. *)
LEMMA EmitTells ==
  ASSUME NEW F, Worded(F), NEW c, CanGoOn(c), NEW j, NEW ty, NEW level, NEW children,
         NEW d, d = Emit(c, F, j, ty, level, children)
  PROVE  CanGoOn(d) /\ d.inside = c.inside /\ Says(c.blocks, d.blocks, SubtreeText(F, j))
<1>1. PICK b : b = MakeBlock(c, F, j, ty, level, children)
  OBVIOUS
<1>2. Context(d) /\ d.blocks = Append(c.blocks, b) /\ d.path = c.path /\ d.inside = c.inside
  BY <1>1, EmitHolds DEF CanGoOn
<1>3. b.text = SubtreeText(F, j)
  BY <1>1, MadeHolds
<1>4. b.text \in Phrases
  BY <1>3, SubtreeTextType
<1>5. HoldTexts(d.blocks) /\ Says(c.blocks, d.blocks, b.text)
  BY <1>2, <1>4, TextedAppend DEF CanGoOn
<1> QED  BY <1>2, <1>3, <1>5 DEF CanGoOn

(* So do a heading, *)
LEMMA HeadingTells ==
  ASSUME NEW F, Worded(F), NEW c, CanGoOn(c), NEW j, NEW d, d = Heading(c, F, j)
  PROVE  CanGoOn(d) /\ d.inside = c.inside /\ Says(c.blocks, d.blocks, SubtreeText(F, j))
<1>1. PICK level, text, e : /\ level = HeadingLevel[F[j].tag] /\ text = SubtreeText(F, j)
                            /\ e = Emit(c, F, j, "Heading", level, <<>>)
  OBVIOUS
<1>2. d = Opened(e, text, level)
  BY <1>1 DEF Heading
<1>3. CanGoOn(e) /\ e.inside = c.inside /\ Says(c.blocks, e.blocks, text)
  BY <1>1, EmitTells
<1>4. text \in Phrases
  BY <1>1, SubtreeTextType
<1>5. Context(d) /\ d.blocks = e.blocks /\ d.inside = e.inside /\ IsPath(d.path)
  BY <1>2, <1>3, <1>4, OpenedHolds DEF CanGoOn
<1> QED  BY <1>1, <1>3, <1>5 DEF CanGoOn

(* a table, whose rows add none to those of the blocks, *)
LEMMA TableTells ==
  ASSUME NEW F, Worded(F), NEW c, CanGoOn(c), NEW j, NEW d, d = Table(c, F, j)
  PROVE  CanGoOn(d) /\ d.inside = c.inside /\ Says(c.blocks, d.blocks, SubtreeText(F, j))
<1>1. PICK rows : rows = Rows(F, j)
  OBVIOUS
<1>2. PICK w : w = Len(rows) /\ w \in Nat
  <2>1. PICK S : rows = InOrder(F, S)
    BY <1>1 DEF Rows
  <2>2. rows \in Seq(S \cap DOMAIN F)
    BY <2>1, InOrderHolds DEF Worded
  <2> QED  BY <2>2, LenProperties
<1>3. PICK f : /\ RowsUpto(f, w, c, F, rows)
               /\ d = Emit([f[w] EXCEPT !.blocks = c.blocks], F, j, "Table", 0, f[w].blocks)
  BY <1>1, <1>2, TableClimbs
<1>4. /\ f[0] = [c EXCEPT !.blocks = <<>>]
      /\ \A n \in 1 .. w : f[n] = Emit(f[n - 1], F, rows[n], "TableRow", 0, <<>>)
  <2>1. 0 \in 0 .. w /\ \A n \in 1 .. w : n \in 0 .. w /\ n # 0
    BY <1>2
  <2> QED  BY <1>3, <2>1, Zenon DEF RowsUpto
<1> DEFINE kept == {n \in Nat : n <= w =>
                      Context(f[n]) /\ f[n].path = c.path /\ f[n].inside = c.inside}
<1>5. 0 \in kept
  <2>1. PICK e : e = f[0]
    OBVIOUS
  <2>2. e = [blocks |-> <<>>, next |-> c.next, path |-> c.path, counts |-> c.counts,
             inside |-> c.inside]
    BY <1>4, <2>1 DEF CanGoOn, Context
  <2>3. Context(e) /\ e.path = c.path /\ e.inside = c.inside
    BY <2>2 DEF Context
  <2> QED  BY <2>1, <2>3
<1>6. ASSUME NEW n \in Nat, n \in kept
      PROVE  n + 1 \in kept
  <2>1. SUFFICES ASSUME n + 1 <= w
                 PROVE  /\ Context(f[n + 1]) /\ f[n + 1].path = c.path
                        /\ f[n + 1].inside = c.inside
    OBVIOUS
  <2>2. n + 1 \in 1 .. w /\ (n + 1) - 1 = n /\ n <= w
    BY <1>2, <2>1
  <2>3. PICK e, g : e = f[n] /\ g = f[n + 1]
    OBVIOUS
  <2>4. /\ Context(e) /\ e.path = c.path /\ e.inside = c.inside
        /\ g = Emit(e, F, rows[n + 1], "TableRow", 0, <<>>)
    BY <1>4, <1>6, <2>2, <2>3
  <2> QED  BY <2>3, <2>4, EmitHolds
<1>7. PICK e : e = f[w] /\ Context(e) /\ e.path = c.path /\ e.inside = c.inside
  <2>1. w \in kept
    <3> HIDE DEF kept
    <3> QED  BY <1>2, <1>5, <1>6, Induction
  <2> QED  BY <1>2, <2>1
<1>8. PICK a, children : a = [e EXCEPT !.blocks = c.blocks] /\ children = e.blocks
  OBVIOUS
<1>9. a = [blocks |-> c.blocks, next |-> e.next, path |-> c.path, counts |-> e.counts,
           inside |-> c.inside]
  BY <1>7, <1>8 DEF Context
<1>10. Context(a) /\ a.blocks = c.blocks /\ a.path = c.path /\ a.inside = c.inside
  BY <1>9 DEF Context
<1>11. CanGoOn(a)
  BY <1>10 DEF CanGoOn
<1>12. d = Emit(a, F, j, "Table", 0, children)
  BY <1>3, <1>7, <1>8
<1> QED  BY <1>10, <1>11, <1>12, EmitTells

(* and a leaf: one without a text makes no block, and has nothing to add. *)
LEMMA LeafTells ==
  ASSUME NEW F, Worded(F), NEW c, CanGoOn(c), NEW j, NEW prof, NEW d, d = Leaf(c, F, j, prof)
  PROVE  CanGoOn(d) /\ d.inside = c.inside /\ Says(c.blocks, d.blocks, SubtreeText(F, j))
<1>1. PICK ty : d = IF SubtreeText(F, j) = <<>> THEN c ELSE Emit(c, F, j, ty, 0, <<>>)
  BY DEF Leaf
<1>2. CASE SubtreeText(F, j) # <<>>
  BY <1>1, <1>2, EmitTells
<1>3. CASE SubtreeText(F, j) = <<>>
  <2>1. d = c
    BY <1>1, <1>3
  <2>2. Texted(c.blocks) \in Phrases
    <3>1. PICK X : c.blocks \in Seq(X) /\ \A x \in X : x.text \in Phrases
      BY DEF CanGoOn, HoldTexts
    <3>2. PICK s, w : s = c.blocks /\ w = Len(s) /\ w \in Nat /\ DOMAIN s = 1 .. w
                      /\ \A n \in 1 .. w : s[n] \in X
      BY <3>1, LenProperties
    <3>3. PICK ss : ss = [n \in DOMAIN s |-> s[n].text]
      OBVIOUS
    <3>4. ss = [n \in 1 .. w |-> ss[n]] /\ \A n \in 1 .. w : ss[n] \in Seq(Words \X BOOLEAN)
      BY <3>1, <3>2, <3>3 DEF Phrases
    <3>5. FlattenSeq(ss) \in Seq(Words \X BOOLEAN)
      BY <3>2, <3>4, FlattenType
    <3> QED  BY <3>2, <3>3, <3>5 DEF Texted, Phrases
  <2>3. Neutral(Texted(c.blocks))
    BY <2>2, Concatenates DEF Phrases
  <2> QED  BY <1>3, <2>1, <2>3, Zenon DEF Says, Neutral
<1> QED  BY <1>2, <1>3

(* The walk leaves out what it has dealt with and what is no block; of the
   rest it tells the texts below. *)
Skips(c, F, j, d) == d = c /\ (j <= c.inside \/ ~Semantic(F[j]))

TellsNode(c, F, j, d) ==
  /\ ~(j <= c.inside) /\ Semantic(F[j])
  /\ CanGoOn(d) /\ d.inside = LastBelow(F, j)
  /\ Says(c.blocks, d.blocks, SubtreeText(F, j))

LEMMA VisitTells ==
  ASSUME NEW F, Worded(F), NEW c, CanGoOn(c), NEW j, NEW prof,
         NEW d, d = Visit(c, F, j, prof)
  PROVE  Skips(c, F, j, d) \/ TellsNode(c, F, j, d)
<1>1. PICK role, a : role = Role(F[j].tag) /\ a = Passed(c, F, j)
  OBVIOUS
<1>2. role \in {"heading", "table", "leaf", "transparent"}
  BY <1>1 DEF Role
<1>3. CASE j <= c.inside
  BY <1>3 DEF Visit, Skips
<1>4. CASE IsText(F[j])
  <2>1. role = "transparent"
    BY <1>1, <1>4 DEF IsText, Role, HeadingLevel, LeafType
  <2> QED  BY <1>1, <1>4, <2>1 DEF Visit, Skips, Semantic
<1>5. CASE ~(j <= c.inside) /\ ~IsText(F[j])
  <2>1. d = CASE role = "transparent" -> c
              [] role = "heading" -> Heading(a, F, j)
              [] role = "table"   -> Table(a, F, j)
              [] role = "leaf"    -> Leaf(a, F, j, prof)
    BY <1>1, <1>5 DEF Visit, Passed
  <2>2. PICK last : last = LastBelow(F, j)
    OBVIOUS
  <2>3. a = [c EXCEPT !.inside = last]
    BY <1>1, <2>2 DEF Passed
  <2>4. a = [blocks |-> c.blocks, next |-> c.next, path |-> c.path, counts |-> c.counts,
             inside |-> last]
    BY <2>3 DEF CanGoOn, Context
  <2>5. Context(a) /\ a.blocks = c.blocks /\ a.path = c.path /\ a.inside = last
    BY <2>4 DEF Context
  <2>6. CanGoOn(a)
    BY <2>5 DEF CanGoOn
  <2>7. CASE role = "transparent"
    BY <1>1, <2>1, <2>7 DEF Skips, Semantic
  <2>8. CASE role = "heading"
    <3>1. d = Heading(a, F, j)
      BY <2>1, <2>8
    <3>2. CanGoOn(d) /\ d.inside = a.inside /\ Says(a.blocks, d.blocks, SubtreeText(F, j))
      BY <2>6, <3>1, HeadingTells
    <3> QED  BY <1>1, <1>5, <2>2, <2>5, <2>8, <3>2 DEF TellsNode, Semantic
  <2>9. CASE role = "table"
    <3>1. d = Table(a, F, j)
      BY <2>1, <2>9
    <3>2. CanGoOn(d) /\ d.inside = a.inside /\ Says(a.blocks, d.blocks, SubtreeText(F, j))
      BY <2>6, <3>1, TableTells
    <3> QED  BY <1>1, <1>5, <2>2, <2>5, <2>9, <3>2 DEF TellsNode, Semantic
  <2>10. CASE role = "leaf"
    <3>1. d = Leaf(a, F, j, prof)
      BY <2>1, <2>10
    <3>2. CanGoOn(d) /\ d.inside = a.inside /\ Says(a.blocks, d.blocks, SubtreeText(F, j))
      BY <2>6, <3>1, LeafTells
    <3> QED  BY <1>1, <1>5, <2>2, <2>5, <2>10, <3>2 DEF TellsNode, Semantic
  <2> QED  BY <1>2, <2>7, <2>8, <2>9, <2>10
<1> QED  BY <1>3, <1>4, <1>5

----------------------------------------------------------------------------
(* The nodes that are told: texts that stand in a heading, a table or a leaf. *)
ReadPlaces(F) ==
  {j \in DOMAIN F : IsText(F[j]) /\ \E k \in Way(F, 1, j) : Semantic(F[k])}

(* One stands in what it is told with. *)
LEMMA ReadIsCovered ==
  ASSUME NEW F, IsForest(F), NEW n \in 1 .. Len(F)
  PROVE  /\ n \in ReadPlaces(F) =>
              \E k \in 1 .. n - 1 : Semantic(F[k]) /\ n <= LastBelow(F, k)
         /\ \A k \in 1 .. n - 1 : Semantic(F[k]) /\ n <= LastBelow(F, k) /\ IsText(F[n])
              => n \in ReadPlaces(F)
<1>1. PICK N : N = Len(F) /\ N \in Nat /\ DOMAIN F = 1 .. N
  BY DEF IsForest, Worded
<1>2. ASSUME n \in ReadPlaces(F)
      PROVE  \E k \in 1 .. n - 1 : Semantic(F[k]) /\ n <= LastBelow(F, k)
  <2>1. PICK k \in Way(F, 1, n) : Semantic(F[k]) /\ IsText(F[n])
    BY <1>2 DEF ReadPlaces
  <2>2. k \in 1 .. n /\ Covers(F, k, n)
    BY <2>1 DEF Way
  <2>3. k # n
    <3>1. ~Semantic(F[n])
      BY <2>1 DEF IsText, Semantic, Role, HeadingLevel, LeafType
    <3> QED  BY <2>1, <3>1
  <2>4. k \in 1 .. N /\ n \in k .. N
    BY <1>1, <2>2
  <2>5. n <= LastBelow(F, k)
    BY <1>1, <2>2, <2>4, CoversToLast
  <2>6. k \in 1 .. n - 1
    BY <1>1, <2>2, <2>3
  <2> QED  BY <2>1, <2>5, <2>6
<1>3. ASSUME NEW k \in 1 .. n - 1, Semantic(F[k]), n <= LastBelow(F, k), IsText(F[n])
      PROVE  n \in ReadPlaces(F)
  <2>1. k \in 1 .. N /\ n \in k .. N /\ k \in 1 .. n
    BY <1>1, <1>3
  <2>2. Covers(F, k, n)
    BY <1>1, <1>3, <2>1, CoversToLast
  <2>3. k \in Way(F, 1, n)
    BY <2>1, <2>2 DEF Way
  <2> QED  BY <1>1, <1>3, <2>3 DEF ReadPlaces
<1> QED  BY <1>2, <1>3

(* How far the nodes are dealt with after the first i. *)
Furthest(c, i) == IF i <= c.inside THEN c.inside ELSE i

SaysUpto(F, blocks, n) == Texted(blocks) = Joined(Telling(F, ReadPlaces(F)))[n]

(* The walk after the first i nodes: what is dealt with ends where something
   of the walk does, no heading, table or leaf passed reaches further, and the
   blocks say what is to be told as far as that. *)
InsideHolds(F, c, i) ==
  /\ c.inside \in 0 .. Len(F)
  /\ c.inside = 0 \/ \E k \in 1 .. i : c.inside = LastBelow(F, k)
  /\ \A k \in 1 .. i : Semantic(F[k]) => LastBelow(F, k) <= c.inside

SoFarTold(F, c, i) ==
  CanGoOn(c) /\ InsideHolds(F, c, i) /\ SaysUpto(F, c.blocks, Furthest(c, i))

(* A node that is not below another dealt with and is no block says nothing. *)
LEMMA NothingToTell ==
  ASSUME NEW F, IsForest(F), NEW c, NEW i \in Nat, NEW j, j = i + 1, j \in 1 .. Len(F),
         InsideHolds(F, c, i), ~(j <= c.inside)
  PROVE  j \notin ReadPlaces(F)
<1>1. SUFFICES ASSUME j \in ReadPlaces(F) PROVE FALSE
  OBVIOUS
<1>2. PICK k \in 1 .. j - 1 : Semantic(F[k]) /\ j <= LastBelow(F, k)
  BY <1>1, ReadIsCovered
<1>3. LastBelow(F, k) <= c.inside /\ c.inside \in Nat
  <2>1. k \in 1 .. i /\ Len(F) \in Nat
    BY DEF IsForest, Worded
  <2> QED  BY <1>2, <2>1 DEF InsideHolds
<1>4. LastBelow(F, k) \in Nat
  <2>1. k \in 1 .. Len(F) /\ Len(F) \in Nat
    BY DEF IsForest, Worded
  <2>2. LastBelow(F, k) \in k .. Len(F)
    BY <2>1, LastBelowHolds
  <2> QED  BY <2>1, <2>2
<1> QED  BY <1>2, <1>3, <1>4

(* The text below a block is what is to be told from it to the last below. *)
LEMMA SubtreeTold ==
  ASSUME NEW F, IsForest(F), NEW i \in Nat, NEW j, j = i + 1, j \in 1 .. Len(F),
         Semantic(F[j]), j \notin ReadPlaces(F)
  PROVE  LET said == Joined(Telling(F, ReadPlaces(F)))
         IN  said[LastBelow(F, j)] = said[i] \o SubtreeText(F, j)
<1>1. PICK N, S, b, c, last, X :
        /\ N = Len(F) /\ S = {k \in Below(F, j) : IsText(F[k])} /\ last = LastBelow(F, j)
        /\ b = Telling(F, ReadPlaces(F)) /\ c = Telling(F, S) /\ X = Words \X BOOLEAN
  OBVIOUS
<1>2. N \in Nat /\ DOMAIN F = 1 .. N /\ Worded(F)
  BY <1>1 DEF IsForest, Worded
<1>3. last \in j .. N /\ Below(F, j) = j + 1 .. last
  BY <1>1, <1>2, LastBelowHolds
<1>4. Joinable(b, X) /\ Joinable(c, X)
  BY <1>1, <1>2, TellingType
<1>5. /\ \A n \in Nat : b[n] = IF n \in ReadPlaces(F) \cap DOMAIN F THEN Spelled(F[n].text) ELSE <<>>
      /\ \A n \in Nat : c[n] = IF n \in S \cap DOMAIN F THEN Spelled(F[n].text) ELSE <<>>
  BY <1>1 DEF Telling
<1>6. \A n \in 1 .. i : c[n] = <<>>
  <2>1. \A n \in 1 .. i : n \in Nat /\ n \notin S
    BY <1>1, <1>3
  <2> QED  BY <1>5, <2>1
<1>7. ASSUME NEW n \in i + 1 .. last
      PROVE  c[n] = b[n]
  <2>1. n \in 1 .. N /\ n \in Nat /\ (n = j \/ n \in j + 1 .. last)
    BY <1>2, <1>3
  <2>2. CASE n = j
    <3>1. n \notin S
      BY <1>1, <1>3, <2>2
    <3> QED  BY <1>5, <2>1, <2>2, <3>1
  <2>3. CASE n \in j + 1 .. last
    <3>1. n \in S <=> IsText(F[n])
      BY <1>1, <1>3, <2>3
    <3>2. IsText(F[n]) => n \in ReadPlaces(F)
      <4>1. j \in 1 .. n - 1 /\ n <= last
        BY <1>2, <1>3, <2>3
      <4> QED  BY <1>1, <2>1, <4>1, ReadIsCovered
    <3>3. n \in ReadPlaces(F) => IsText(F[n])
      BY DEF ReadPlaces
    <3> QED  BY <1>5, <2>1, <3>1, <3>2, <3>3
  <2> QED  BY <2>1, <2>2, <2>3
<1>8. \A n \in last + 1 .. N : c[n] = <<>>
  <2>1. \A n \in last + 1 .. N : n \in Nat /\ n \notin S
    BY <1>1, <1>2, <1>3
  <2> QED  BY <1>5, <2>1
<1>9. last \in Nat /\ i <= last /\ last <= N
  BY <1>2, <1>3
<1>10. JoinsAt(Joined(b), Joined(c), i, last)
  BY <1>4, <1>6, <1>7, <1>9, JoinedSplits DEF Joinable
<1>11. Joined(c)[N] = Joined(c)[last]
  BY <1>2, <1>4, <1>8, <1>9, JoinedStays DEF Joinable
<1>12. SubtreeText(F, j) = TextsOf(F, S)
  BY <1>1, Zenon DEF SubtreeText, TextsOf, Spells
<1>13. TextsOf(F, S) = Joined(c)[N]
  BY <1>1, <1>2, TextsOfJoined
<1> QED  BY <1>1, <1>10, <1>11, <1>12, <1>13, Zenon DEF JoinsAt

(* The visit of the next node keeps that up. *)
LEMMA VisitKeepsTelling ==
  ASSUME NEW F, IsForest(F), NEW i \in Nat, NEW j, j = i + 1, j \in 1 .. Len(F),
         NEW c, SoFarTold(F, c, i), NEW prof, NEW d, d = Visit(c, F, j, prof)
  PROVE  SoFarTold(F, d, j)
<1>1. /\ CanGoOn(c) /\ InsideHolds(F, c, i) /\ SaysUpto(F, c.blocks, Furthest(c, i))
  BY DEF SoFarTold
<1>2. PICK N, in : N = Len(F) /\ in = c.inside
  OBVIOUS
<1>3. /\ N \in Nat /\ Worded(F) /\ in \in 0 .. N /\ (in = 0 \/ \E k \in 1 .. i : in = LastBelow(F, k))
      /\ \A k \in 1 .. i : Semantic(F[k]) => LastBelow(F, k) <= in
  BY <1>1, <1>2 DEF InsideHolds, IsForest, Worded
<1>4. PICK last : last = LastBelow(F, j) /\ last \in j .. N
  BY <1>2, <1>3, LastBelowHolds
<1>5. \A k \in 1 .. j : k \in 1 .. i \/ k = j
  OBVIOUS
<1>6. 1 .. i \subseteq 1 .. j /\ j \in 1 .. j
  OBVIOUS
<1>7. CASE d = c /\ j <= in
  <2>1. Furthest(c, j) = Furthest(c, i)
    BY <1>2, <1>3, <1>7 DEF Furthest
  <2>2. last <= in
    <3>1. PICK k \in 1 .. i : in = LastBelow(F, k)
      BY <1>3, <1>7
    <3>2. k \in 1 .. N /\ j \in k .. LastBelow(F, k)
      BY <1>2, <1>3, <1>7, <3>1
    <3> QED  BY <1>2, <1>4, <3>1, <3>2, LastBelowNests
  <2>3. \A k \in 1 .. j : Semantic(F[k]) => LastBelow(F, k) <= in
    BY <1>3, <1>4, <1>5, <2>2
  <2>4. InsideHolds(F, c, j)
    BY <1>2, <1>3, <1>6, <2>3 DEF InsideHolds
  <2> QED  BY <1>1, <1>7, <2>1, <2>4 DEF SoFarTold
<1>8. CASE d = c /\ ~(j <= in) /\ ~Semantic(F[j])
  <2>1. Furthest(c, j) = j /\ Furthest(c, i) = i
    BY <1>2, <1>3, <1>8 DEF Furthest
  <2>2. InsideHolds(F, c, j)
    <3>1. \A k \in 1 .. j : Semantic(F[k]) => LastBelow(F, k) <= in
      BY <1>3, <1>5, <1>8
    <3> QED  BY <1>2, <1>3, <1>6, <3>1 DEF InsideHolds
  <2>3. PICK b : b = Telling(F, ReadPlaces(F)) /\ Joinable(b, Words \X BOOLEAN)
    BY <1>3, TellingType
  <2>4. \A n \in i + 1 .. j : b[n] = <<>>
    <3>1. j \notin ReadPlaces(F)
      BY <1>1, <1>2, <1>8, NothingToTell
    <3>2. j \in Nat
      OBVIOUS
    <3>3. b[j] = <<>>
      BY <2>3, <3>1, <3>2 DEF Telling
    <3>4. \A n \in i + 1 .. j : n = j
      OBVIOUS
    <3> QED  BY <3>3, <3>4
  <2>5. Joined(b)[j] = Joined(b)[i]
    <3>1. j \in Nat /\ i <= j
      OBVIOUS
    <3> QED  BY <2>3, <2>4, <3>1, JoinedStays DEF Joinable
  <2>6. SaysUpto(F, c.blocks, j)
    BY <1>1, <2>1, <2>3, <2>5, Zenon DEF SaysUpto
  <2> QED  BY <1>1, <1>8, <2>1, <2>2, <2>6 DEF SoFarTold
<1>9. CASE TellsNode(c, F, j, d)
  <2>1. /\ ~(j <= in) /\ Semantic(F[j]) /\ CanGoOn(d) /\ d.inside = last
        /\ Says(c.blocks, d.blocks, SubtreeText(F, j))
    BY <1>2, <1>4, <1>9 DEF TellsNode
  <2>2. Furthest(d, j) = last /\ Furthest(c, i) = i
    BY <1>2, <1>3, <1>4, <2>1 DEF Furthest
  <2>3. InsideHolds(F, d, j)
    <3>1. ASSUME NEW k \in 1 .. i, Semantic(F[k])
          PROVE  LastBelow(F, k) <= last
      <4>1. LastBelow(F, k) <= in /\ k \in 1 .. N
        BY <1>2, <1>3, <3>1
      <4>2. LastBelow(F, k) \in k .. N
        BY <1>2, <1>3, <4>1, LastBelowHolds
      <4> QED  BY <1>3, <1>4, <2>1, <4>1, <4>2
    <3>2. \A k \in 1 .. j : Semantic(F[k]) => LastBelow(F, k) <= last
      BY <1>3, <1>4, <1>5, <3>1
    <3>3. last \in 0 .. N
      BY <1>3, <1>4
    <3> QED  BY <1>2, <1>4, <1>6, <2>1, <3>2, <3>3 DEF InsideHolds
  <2>4. LET said == Joined(Telling(F, ReadPlaces(F)))
        IN  said[last] = said[i] \o SubtreeText(F, j)
    <3>1. j \notin ReadPlaces(F)
      BY <1>1, <1>2, <2>1, NothingToTell
    <3> QED  BY <1>4, <2>1, <3>1, SubtreeTold, Zenon
  <2>5. SaysUpto(F, d.blocks, last)
    BY <1>1, <2>1, <2>2, <2>4, Zenon DEF SaysUpto, Says
  <2> QED  BY <2>1, <2>2, <2>3, <2>5 DEF SoFarTold
<1>10. Skips(c, F, j, d) \/ TellsNode(c, F, j, d)
  BY <1>1, <1>3, VisitTells
<1> QED  BY <1>2, <1>7, <1>8, <1>9, <1>10 DEF Skips

(* So the blocks of a forest say what is to be told of it. *)
LEMMA SegmentTells ==
  ASSUME NEW F, IsForest(F), NEW prof
  PROVE  Texted(Segment(F, prof)) = TextsOf(F, ReadPlaces(F))
<1>1. PICK N : N = Len(F) /\ N \in Nat /\ Worded(F)
  BY DEF IsForest, Worded
<1>2. PICK f : WalkUpto(f, N, F, prof) /\ Segment(F, prof) = f[N].blocks
  BY <1>1, WalkClimbs
<1>3. f[0] = Start /\ \A n \in 1 .. N : f[n] = Visit(f[n - 1], F, n, prof)
  <2>1. 0 \in 0 .. N /\ \A n \in 1 .. N : n \in 0 .. N /\ n # 0
    BY <1>1
  <2> QED  BY <1>2, <2>1, Zenon DEF WalkUpto
<1> DEFINE told == {n \in Nat : n <= N => SoFarTold(F, f[n], n)}
<1>4. 0 \in told
  <2>1. PICK e : e = f[0]
    OBVIOUS
  <2>2. e = [blocks |-> <<>>, next |-> 0, path |-> <<>>, counts |-> NoOrdinals, inside |-> 0]
    BY <1>3, <2>1 DEF Start
  <2>3. /\ Context(e) /\ e.path = <<>> /\ e.inside = 0 /\ e.blocks = <<>>
    BY <2>2 DEF Context
  <2>4. PICK X, q : X = {} /\ q = <<>> /\ q \in Seq(X)
    BY EmptySeq
  <2>5. IsPath(q) /\ HoldTexts(q)
    <3>1. q \in Seq(X) /\ \A x \in X : x.text \in Phrases
      BY <2>4
    <3> QED  BY <3>1, Zenon DEF IsPath, HoldTexts
  <2>6. CanGoOn(e)
    BY <2>3, <2>4, <2>5 DEF CanGoOn
  <2>7. InsideHolds(F, e, 0) /\ Furthest(e, 0) = 0
    BY <1>1, <2>3 DEF InsideHolds, Furthest
  <2>8. Joined(Telling(F, ReadPlaces(F)))[0] = <<>>
    BY <1>1, TellingType, JoinedHolds DEF Joinable
  <2>9. Texted(q) = q
    <3>1. Len(q) = 0
      BY <2>4, EmptySeq
    <3>2. DOMAIN q = {}
      BY <2>4, <3>1, LenProperties
    <3>3. [n \in DOMAIN q |-> q[n].text] = q
      <4>1. q \in [DOMAIN q -> X]
        BY <2>4, <3>2, LenProperties
      <4> QED  BY <3>2, <4>1
    <3>4. FlattenSeq(q) = q
      BY <3>1, Zenon DEF FlattenSeq
    <3> QED  BY <3>3, <3>4, Zenon DEF Texted
  <2>10. SaysUpto(F, e.blocks, 0)
    BY <2>3, <2>4, <2>8, <2>9, Zenon DEF SaysUpto
  <2>11. SoFarTold(F, e, 0)
    BY <2>6, <2>7, <2>10 DEF SoFarTold
  <2> QED  BY <2>1, <2>11
<1>5. ASSUME NEW n \in Nat, n \in told
      PROVE  n + 1 \in told
  <2>1. SUFFICES ASSUME n + 1 <= N PROVE SoFarTold(F, f[n + 1], n + 1)
    OBVIOUS
  <2>2. PICK j, c : j = n + 1 /\ c = f[n]
    OBVIOUS
  <2>3. j \in 1 .. N /\ j - 1 = n /\ n <= N
    BY <1>1, <2>1, <2>2
  <2>4. SoFarTold(F, c, n) /\ f[j] = Visit(c, F, j, prof)
    BY <1>3, <1>5, <2>2, <2>3
  <2> QED  BY <1>1, <2>2, <2>3, <2>4, VisitKeepsTelling
<1>6. SoFarTold(F, f[N], N)
  <2>1. N \in told
    <3> HIDE DEF told
    <3> QED  BY <1>1, <1>4, <1>5, Induction
  <2> QED  BY <1>1, <2>1
<1>7. Furthest(f[N], N) = N
  <2>1. f[N].inside \in 0 .. N
    BY <1>1, <1>6 DEF SoFarTold, InsideHolds
  <2> QED  BY <1>1, <2>1 DEF Furthest
<1>8. SaysUpto(F, Segment(F, prof), N)
  BY <1>2, <1>6, <1>7 DEF SoFarTold
<1> QED  BY <1>1, <1>8, TextsOfJoined DEF SaysUpto

----------------------------------------------------------------------------
(* What is left of a subtree are nodes, *)
LEMMA PruneType ==
  ASSUME NEW dom \in Seq(Node), NEW i, dom # <<>> => i \in DOMAIN dom
  PROVE  Prune(dom, i) \in Seq(Node)
<1>1. Len(dom) \in Nat /\ DOMAIN dom = 1 .. Len(dom) /\ \A k \in DOMAIN dom : dom[k] \in Node
  BY LenProperties
<1>2. PICK K, kept : K = Kept(dom, i) /\ kept = InOrder(dom, K)
  OBVIOUS
<1>3. kept \in Seq(K \cap DOMAIN dom)
  BY <1>1, <1>2, InOrderHolds
<1>4. PICK w : w = Len(kept) /\ w \in Nat /\ DOMAIN kept = 1 .. w
  BY <1>3, LenProperties
<1>5. \A n \in 1 .. w : kept[n] \in DOMAIN dom
  <2>1. \A n \in 1 .. w : kept[n] \in K \cap DOMAIN dom
    BY <1>3, <1>4
  <2> QED  BY <2>1
<1>6. PICK s : s = [n \in DOMAIN kept |->
                      [dom[kept[n]] EXCEPT !.depth = @ - dom[i].depth, !.at = kept[n]]]
  OBVIOUS
<1>7. ASSUME NEW n \in 1 .. w
      PROVE  s[n] \in Node
  <2>1. PICK x, y, depth, k : /\ x = dom[kept[n]] /\ y = s[n] /\ k = kept[n]
                              /\ depth = x.depth - dom[i].depth
    OBVIOUS
  <2>2. x \in Node /\ dom[i] \in Node
    <3>1. kept[n] \in DOMAIN dom
      BY <1>5
    <3>2. dom # <<>>
      <4>1. Len(dom) # 0
        BY <1>1, <3>1
      <4> QED  BY <4>1, EmptySeq
    <3> QED  BY <1>1, <2>1, <3>1, <3>2
  <2>3. depth \in Int /\ k \in Int
    BY <1>1, <1>5, <2>1, <2>2 DEF Node
  <2>4. y = [x EXCEPT !.depth = depth, !.at = k]
    BY <1>4, <1>6, <2>1
  <2>5. x = dom[kept[n]] /\ y = s[n] /\ x \in Node
    BY <2>1, <2>2
  <2>6. [x EXCEPT !.depth = depth, !.at = k] \in Node
    BY <2>3, <2>5 DEF Node
  <2> QED  BY <2>4, <2>5, <2>6
<1>8. s \in [1 .. w -> Node]
  BY <1>4, <1>6, <1>7
<1>9. s \in Seq(Node)
  BY <1>4, <1>8, SeqDef
<1>10. s \o <<>> = s
  BY <1>9, ConcatEmptySeq
<1>11. Prune(dom, i) = s
  BY <1>2, <1>6, <1>10 DEF Prune, WrittenOut
<1> QED  BY <1>9, <1>11

(* and so is what is extracted, even a part selected twice. *)
LEMMA ExtractType ==
  ASSUME NEW dom \in Seq(Node), NEW prof, prof.strategy \in Strategies
  PROVE  Extract(dom, prof) \in Seq(Node)
<1>1. Len(dom) \in Nat /\ DOMAIN dom = 1 .. Len(dom)
  BY LenProperties
<1>2. dom # <<>> => 1 \in DOMAIN dom
  <2>1. ASSUME Len(dom) = 0 PROVE dom = <<>>
    BY <2>1, EmptySeq
  <2> QED  BY <1>1, <2>1
<1>3. CASE prof.strategy = "full"
  <2>1. Extract(dom, prof) = Prune(dom, 1)
    BY <1>3 DEF Extract
  <2> QED  BY <1>2, <2>1, PruneType
<1>4. CASE prof.strategy = "readability"
  <2>1. Extract(dom, prof) = Prune(dom, Readable(dom))
    BY <1>4 DEF Extract
  <2>2. Readable(dom) = 1 \/ Readable(dom) \in DOMAIN dom
    <3>1. PICK score, best :
            /\ score = [i \in Candidates(dom) |-> Score(dom, i)]
            /\ best = {i \in DOMAIN score : \A j \in DOMAIN score : score[i] >= score[j]}
      OBVIOUS
    <3>2. Readable(dom) = IF best = {} THEN 1 ELSE CHOOSE i \in best : \A j \in best : i <= j
      <4> DEFINE sc == [i \in Candidates(dom) |-> Score(dom, i)]
                 be == {i \in DOMAIN sc : \A j \in DOMAIN sc : sc[i] >= sc[j]}
      <4>1. Readable(dom) = IF be = {} THEN 1 ELSE CHOOSE i \in be : \A j \in be : i <= j
        BY DEF Readable
      <4>2. sc = score
        BY <3>1
      <4>3. be = best
        BY <3>1, <4>2
      <4> HIDE DEF be
      <4> QED  BY <4>1, <4>3
    <3>3. best \in SUBSET Nat /\ best \subseteq DOMAIN dom
      BY <1>1, <3>1 DEF Candidates
    <3>4. CASE best # {}
      <4>1. \E i \in best : \A j \in best : i <= j
        BY <3>3, <3>4, LeastNumber
      <4>2. (CHOOSE i \in best : \A j \in best : i <= j) \in best
        BY <4>1
      <4> QED  BY <3>2, <3>3, <3>4, <4>2
    <3> QED  BY <3>2, <3>4
  <2> QED  BY <1>2, <2>1, <2>2, PruneType
<1>5. CASE prof.strategy = "selector"
  <2>1. PICK roots, M : /\ roots = Selected(dom, prof.root) /\ M = Matching(dom, prof.root)
    OBVIOUS
  <2>2. roots \in Seq(M \cap DOMAIN dom)
    BY <1>1, <2>1, InOrderHolds DEF Selected
  <2>3. PICK w : w = Len(roots) /\ w \in Nat /\ DOMAIN roots = 1 .. w
    BY <2>2, LenProperties
  <2>4. PICK seqs : seqs = [n \in DOMAIN roots |-> Prune(dom, roots[n])]
    OBVIOUS
  <2>5. \A n \in 1 .. w : seqs[n] \in Seq(Node)
    <3>1. ASSUME NEW n \in 1 .. w PROVE seqs[n] \in Seq(Node)
      <4>1. roots[n] \in M \cap DOMAIN dom
        BY <2>2, <2>3
      <4>2. Prune(dom, roots[n]) \in Seq(Node)
        BY <4>1, PruneType
      <4> QED  BY <2>3, <2>4, <4>2
    <3> QED  BY <3>1
  <2>6. seqs = [n \in 1 .. w |-> seqs[n]]
    BY <2>3, <2>4
  <2>7. FlattenSeq(seqs) \in Seq(Node)
    BY <2>3, <2>5, <2>6, FlattenType
  <2>8. Extract(dom, prof) = FlattenSeq(seqs)
    BY <1>5, <2>1, <2>4 DEF Extract
  <2> QED  BY <2>7, <2>8
<1> QED  BY <1>3, <1>4, <1>5 DEF Strategies

(* Normalization leaves them their depths, and texts. *)
LEMMA ForestType ==
  ASSUME NEW dom \in Seq(Node), NEW prof, prof.strategy \in Strategies
  PROVE  IsForest(Forest(dom, prof))
<1>1. PICK E, base, F : E = Extract(dom, prof) /\ base = BaseOf(E) /\ F = Forest(dom, prof)
  OBVIOUS
<1>2. PICK w : w = Len(E) /\ w \in Nat /\ DOMAIN E = 1 .. w /\ \A i \in 1 .. w : E[i] \in Node
  BY <1>1, ExtractType, LenProperties
<1>3. PICK s : s = [i \in DOMAIN E |-> NormalNode(E, i, base, prof)]
  OBVIOUS
<1>4. F = WrittenOut(s)
  BY <1>1, <1>3 DEF Forest, Normalize
<1>5. IsSeq(F) /\ Len(F) = w /\ \A i \in 1 .. w : F[i] = NormalNode(E, i, base, prof)
  <2>1. ListOf(s, w)
    BY <1>2, <1>3 DEF ListOf
  <2>2. \A i \in 1 .. w : s[i] = NormalNode(E, i, base, prof)
    BY <1>2, <1>3
  <2> QED  BY <1>2, <1>4, <2>1, <2>2, WrittenOutHolds
<1>6. ASSUME NEW i \in 1 .. w
      PROVE  F[i].depth \in Int /\ F[i].text \in AnyText
  <2>1. PICK x, y : x = E[i] /\ y = F[i] /\ x \in Node
    BY <1>2
  <2>2. PICK id, class, href, text :
          /\ id = StableId(x.id, prof)
          /\ class = IF "class" \in prof.stripAttrs THEN "" ELSE x.class
          /\ href = IF "href" \in prof.stripAttrs THEN NoUrl ELSE CanonicalUrl(x.href, base)
          /\ text = NormalText(x.text, InCode(E, i))
    OBVIOUS
  <2>3. y = [x EXCEPT !.id = id, !.class = class, !.href = href, !.text = text]
    BY <1>5, <2>1, <2>2, Zenon DEF NormalNode
  <2>4. y.depth = x.depth /\ y.text = text
    BY <2>1, <2>3 DEF Node
  <2>5. text \in AnyText
    BY <2>1, <2>2, NormalTextType DEF Node
  <2>6. x.depth \in Int
    BY <2>1 DEF Node
  <2> QED  BY <2>1, <2>4, <2>5, <2>6
<1>7. DOMAIN F = 1 .. w
  BY <1>5, LenProperties DEF IsSeq
<1>8. Worded(F)
  BY <1>2, <1>5, <1>6, <1>7 DEF Worded
<1> QED  BY <1>1, <1>6, <1>7, <1>8 DEF IsForest

----------------------------------------------------------------------------
(* Pages are trees of nodes, and the document is of the page. *)
PageOK ==
  /\ page \in Seq(Node) /\ profile.strategy \in Strategies
  /\ doc = Canonicalize(page, profile)

(* The sites are such pages. *)
LEMMA PageInit == Init => PageOK
<1> SUFFICES ASSUME Init PROVE PageOK
  OBVIOUS
<1>1. PICK site \in Sites : page = site.page /\ profile = site.profile
  BY DEF Init
<1> QED  BY <1>1, SitesAssumption DEF Init, PageOK, Strategies

(* An edit puts nodes in. *)
LEMMA SplicedType ==
  ASSUME NEW dom \in Seq(Node), NEW at \in 1 .. Len(dom), NEW cut \in Nat,
         NEW nodes \in Seq(Node)
  PROVE  Spliced(dom, at, cut, nodes) \in Seq(Node)
<1>1. Len(dom) \in Nat /\ \A i \in 1 .. Len(dom) : dom[i] \in Node
  BY LenProperties
<1>2. SubSeq(dom, 1, at - 1) \in Seq(Node)
  <2>1. at - 1 \in Int /\ 1 \in Int /\ \A i \in 1 .. at - 1 : dom[i] \in Node
    BY <1>1
  <2> QED  BY <2>1, SubSeqProperties
<1>3. SubSeq(dom, at + cut, Len(dom)) \in Seq(Node)
  <2>1. at + cut \in Int /\ Len(dom) \in Int /\ \A i \in at + cut .. Len(dom) : dom[i] \in Node
    BY <1>1
  <2> QED  BY <2>1, SubSeqProperties
<1> QED  BY <1>2, <1>3, ConcatProperties DEF Spliced

(* So the page after an edit is one. *)
LEMMA ReplaceKeeps ==
  ASSUME PageOK, NEW i \in 2 .. Len(page), NEW cut \in Nat, NEW nodes \in Seq(Node),
         Replace(i, cut, nodes)
  PROVE  PageOK'
<1>1. Len(page) \in Nat
  BY LenProperties DEF PageOK
<1>2. i \in 1 .. Len(page)
  BY <1>1
<1>3. page' \in Seq(Node)
  BY <1>2, SplicedType DEF PageOK, Replace
<1>4. profile' = profile /\ doc' = Canonicalize(page', profile)
  BY DEF Replace
<1> QED  BY <1>3, <1>4 DEF PageOK

(* Or after a change of a node into another. *)
LEMMA ChangeKeeps ==
  ASSUME PageOK, NEW i \in 2 .. Len(page), NEW node \in Node, Change(i, node)
  PROVE  PageOK'
<1>1. <<node>> \in Seq(Node)
  OBVIOUS
<1>2. Replace(i, 1, <<node>>) /\ 1 \in Nat
  BY DEF Change
<1> QED  BY <1>1, <1>2, ReplaceKeeps

(* Every edit leaves a page of nodes, and the visit makes its document. *)
LEMMA PageNext == PageOK /\ [Next]_vars => PageOK'
<1> SUFFICES ASSUME PageOK, [Next]_vars PROVE PageOK'
  OBVIOUS
<1>1. Len(page) \in Nat /\ page \in Seq(Node) /\ \A i \in 1 .. Len(page) : page[i] \in Node
  BY LenProperties DEF PageOK
<1>2. CASE UNCHANGED vars
  BY <1>2 DEF vars, PageOK
<1>3. ASSUME NEW i \in 2 .. Len(page),
             \/ Rewrite(i) \/ Rename(i) \/ Relink(i) \/ Retag(i) \/ PutIn(i) \/ TakeOut(i)
      PROVE  PageOK'
  <2>1. PICK x : x = page[i] /\ x \in Node
    BY <1>1
  <2>2. CASE Rewrite(i)
    <3>1. PICK text \in Texts : Change(i, [x EXCEPT !.text = text])
      BY <2>1, <2>2 DEF Rewrite
    <3>2. [x EXCEPT !.text = text] \in Node
      BY <2>1, EditsAssumption DEF Node
    <3> QED  BY <3>1, <3>2, ChangeKeeps
  <2>3. CASE Rename(i)
    <3>1. PICK id \in Ids : Change(i, [x EXCEPT !.id = id])
      BY <2>1, <2>3 DEF Rename
    <3>2. [x EXCEPT !.id = id] \in Node
      BY <2>1, EditsAssumption DEF Node
    <3> QED  BY <3>1, <3>2, ChangeKeeps
  <2>4. CASE Relink(i)
    <3>1. PICK url \in Urls : Change(i, [x EXCEPT !.href = url])
      BY <2>1, <2>4 DEF Relink
    <3>2. [x EXCEPT !.href = url] \in Node
      BY <2>1, EditsAssumption DEF Node
    <3> QED  BY <3>1, <3>2, ChangeKeeps
  <2>5. CASE Retag(i)
    <3>1. PICK pair \in Retagged : Change(i, [x EXCEPT !.tag = pair[2]])
      BY <2>1, <2>5 DEF Retag
    <3>2. pair[2] \in STRING
      BY EditsAssumption
    <3>3. [x EXCEPT !.tag = pair[2]] \in Node
      BY <2>1, <3>2 DEF Node
    <3> QED  BY <3>1, <3>3, ChangeKeeps
  <2>6. CASE PutIn(i)
    <3>1. PICK tree \in Snippets :
            Replace(i, 0, [n \in DOMAIN tree |-> [tree[n] EXCEPT !.depth = @ + x.depth]])
      BY <2>1, <2>6 DEF PutIn
    <3> DEFINE nodes == [n \in DOMAIN tree |-> [tree[n] EXCEPT !.depth = @ + x.depth]]
    <3>2. PICK k : k = Len(tree) /\ k \in Nat /\ DOMAIN tree = 1 .. k
                   /\ \A n \in 1 .. k : tree[n] \in Node
      BY LenProperties, EditsAssumption
    <3>3. ASSUME NEW n \in 1 .. k
          PROVE  nodes[n] \in Node
      <4>1. PICK y, depth : y = tree[n] /\ depth = y.depth + x.depth
        OBVIOUS
      <4>2. y \in Node /\ depth \in Int
        BY <2>1, <3>2, <4>1 DEF Node
      <4>3. nodes[n] = [y EXCEPT !.depth = depth]
        BY <3>2, <4>1
      <4> QED  BY <4>2, <4>3 DEF Node
    <3>4. nodes \in [1 .. k -> Node]
      BY <3>2, <3>3
    <3>5. nodes \in Seq(Node)
      BY <3>2, <3>4, SeqDef
    <3> HIDE DEF nodes
    <3> QED  BY <3>5, ReplaceKeeps, <3>1 DEF nodes
  <2>7. CASE TakeOut(i)
    <3>1. PICK e \in i .. Len(page) : Below(page, i) = i + 1 .. e
      BY <1>1, BelowHolds
    <3>2. Subtree(page, i) = i .. e
      BY <1>1, <3>1 DEF Subtree
    <3>3. Cardinality(i .. e) \in Nat
      BY <1>1, <3>1, FS_Interval, FS_CardinalityType
    <3>4. <<>> \in Seq(Node)
      BY EmptySeq
    <3> QED  BY <2>7, <3>2, <3>3, <3>4, ReplaceKeeps DEF TakeOut
  <2> QED  BY <1>3, <2>2, <2>3, <2>4, <2>5, <2>6, <2>7
<1> QED  BY <1>2, <1>3 DEF Next

(***************************************************************************)
(* KeysDiffer for every page, profile, vocabulary and sequence of edits:   *)
(* the slot keys that segment.rs gives are a key of the blocks and rows of *)
(* a document whose page repeats no id, whose headings tell its sections   *)
(* apart, and of which no part is extracted twice.                         *)
(***************************************************************************)
THEOREM KeysAreDifferent == Spec => []KeysDiffer
<1>1. PageOK => KeysDiffer
  <2> SUFFICES ASSUME PageOK, RootsApart(page, profile), IdsDiffer(page), HeadingsTell(doc)
               PROVE  \A p, q \in Places(doc) : BlockAt(doc, p).slot = BlockAt(doc, q).slot => p = q
    BY DEF KeysDiffer
  <2>1. PICK F : F = Forest(page, profile)
    OBVIOUS
  <2>2. Worded(F) /\ AtsDiffer(F) /\ IdsDiffer(F)
    BY <2>1, ForestHolds DEF PageOK
  <2>3. doc = Segment(F, profile)
    BY <2>1 DEF PageOK, Canonicalize
  <2> QED  BY <2>2, <2>3, SegmentHolds
<1>2. Init => PageOK
  BY PageInit
<1>3. PageOK /\ [Next]_vars => PageOK'
  BY PageNext
<1> QED  BY <1>1, <1>2, <1>3, PTL DEF Spec

(***************************************************************************)
(* TextIsToldOnce for every page, profile, vocabulary and sequence of      *)
(* edits: whatever is nested in what, even where the depths are no tree's  *)
(* or a selector takes a part twice, the walk of segment.rs puts each text *)
(* of the normalized forest that stands in a heading, a table or a leaf    *)
(* into one block, and the blocks hold them in the order of the forest.    *)
(***************************************************************************)
THEOREM TextsAreToldOnce == Spec => []TextIsToldOnce
<1>1. PageOK => TextIsToldOnce
  <2> SUFFICES ASSUME PageOK PROVE TextIsToldOnce
    OBVIOUS
  <2>1. PICK F : F = Forest(page, profile)
    OBVIOUS
  <2>2. IsForest(F)
    BY <2>1, ForestType DEF PageOK
  <2>3. doc = Segment(F, profile)
    BY <2>1 DEF PageOK, Canonicalize
  <2>4. Texted(doc) = TextsOf(F, ReadPlaces(F))
    BY <2>2, <2>3, SegmentTells
  <2> QED  BY <2>1, <2>4, Zenon DEF TextIsToldOnce, TextsOf, Spells, Readings, ReadPlaces
<1>2. Init => PageOK
  BY PageInit
<1>3. PageOK /\ [Next]_vars => PageOK'
  BY PageNext
<1> QED  BY <1>1, <1>2, <1>3, PTL DEF Spec
=============================================================================
