--------------------------- MODULE SalienceProofs ---------------------------
(***************************************************************************)
(* Theorems about Salience, for every site, vocabulary, table of the       *)
(* scorer and stack of rule packs.  Two of them follow an edit through the *)
(* token diff and what is reported of it: one a word that is put in, to    *)
(* the signals and the score, the other what two texts have in common,     *)
(* back from the noise.                                                    *)
(***************************************************************************)
EXTENDS Salience, DataLemmas

----------------------------------------------------------------------------
(* A block that comes is told whole, and so is one that goes. *)
LEMMA ComingsAreWhole ==
  ASSUME NEW old, NEW new, NEW u \in UnitsOf(old, new)
  PROVE  /\ u.ct = "Added" => u.delta = Whole(Tokenize(new.words))
         /\ u.ct \in {"Added", "Removed"} => u.delta.enc = "block" /\ u.num = NoNumber
<1>1. PICK ot, nt : ot = Tokenize(old.words) /\ nt = Tokenize(new.words)
  OBVIOUS
<1>2. CASE old.words = <<>>
  <2>1. u = UnitOf("Added", old, new, Whole(nt), One, NoNumber, 0)
    BY <1>1, <1>2 DEF UnitsOf
  <2>2. u.ct = "Added" /\ u.delta = Whole(nt) /\ u.num = NoNumber
    BY <2>1 DEF UnitOf
  <2> QED  BY <1>1, <2>2 DEF Whole
<1>3. CASE old.words # <<>> /\ new.words = <<>>
  <2>1. u = UnitOf("Removed", old, new, Whole(ot), One, NoNumber, 0)
    BY <1>1, <1>3 DEF UnitsOf
  <2>2. u.ct = "Removed" /\ u.delta = Whole(ot) /\ u.num = NoNumber
    BY <2>1 DEF UnitOf
  <2> QED  BY <2>2 DEF Whole
<1>4. CASE old.words # <<>> /\ new.words # <<>>
  <2>1. \E ct \in {"Modified", "Restyled", "Reordered"} : \E delta, mag, num, sim :
          u = UnitOf(ct, old, new, delta, mag, num, sim)
    BY <1>4 DEF UnitsOf, AnchorUnits, ModifiedUnits
  <2>2. u.ct \in {"Modified", "Restyled", "Reordered"}
    BY <2>1 DEF UnitOf
  <2> QED  BY <2>2
<1> QED  BY <1>2, <1>3, <1>4

----------------------------------------------------------------------------
(* The packs that resolve makes on its way up the layers. *)
Climb(f, n, layers) ==
  f = [i \in 0 .. n |-> IF i = 0 THEN DefaultPack ELSE ApplyLayer(f[i - 1], layers[i])]

(* It gets to the top. *)
LEMMA ResolveClimbs ==
  ASSUME NEW layers, IsStack(layers)
  PROVE  \E f : Climb(f, Len(layers), layers) /\ Resolve(layers) = f[Len(layers)]
<1> DEFINE done == {n \in Nat : \E f : Climb(f, n, layers)}
<1>1. 0 \in done
  <2>1. Climb([i \in 0 .. 0 |-> DefaultPack], 0, layers)
    BY DEF Climb
  <2> QED  BY <2>1
<1>2. ASSUME NEW n \in Nat, n \in done
      PROVE  n + 1 \in done
  <2>1. PICK f : Climb(f, n, layers)
    BY <1>2
  <2>2. PICK g : g = [i \in 0 .. n + 1 |-> IF i = n + 1 THEN ApplyLayer(f[n], layers[n + 1])
                                           ELSE f[i]]
    OBVIOUS
  <2>3. ASSUME NEW i \in 0 .. n + 1
        PROVE  g[i] = IF i = 0 THEN DefaultPack ELSE ApplyLayer(g[i - 1], layers[i])
    <3>1. CASE i = n + 1
      <4>1. i # 0 /\ i - 1 = n /\ n \in 0 .. n + 1 /\ n # n + 1
        BY <3>1
      <4>2. g[i - 1] = f[n]
        BY <2>2, <4>1
      <4> QED  BY <2>2, <3>1, <4>1, <4>2
    <3>2. CASE i # n + 1
      <4>1. i \in 0 .. n /\ (i # 0 => i - 1 \in 0 .. n + 1 /\ i - 1 # n + 1)
        BY <3>2
      <4>2. g[i] = f[i] /\ (i # 0 => g[i - 1] = f[i - 1])
        BY <2>2, <3>2, <4>1
      <4>3. f[i] = IF i = 0 THEN DefaultPack ELSE ApplyLayer(f[i - 1], layers[i])
        BY <2>1, <4>1, Zenon DEF Climb
      <4> QED  BY <4>2, <4>3
    <3> QED  BY <3>1, <3>2
  <2>4. Climb(g, n + 1, layers)
    BY <2>2, <2>3 DEF Climb
  <2> QED  BY <2>4
<1>3. Len(layers) \in done
  <2>1. Len(layers) \in Nat
    BY DEF IsStack
  <2> HIDE DEF done
  <2> QED  BY <1>1, <1>2, <2>1, Induction
<1>4. PICK f : f = CHOOSE g : Climb(g, Len(layers), layers)
  OBVIOUS
<1>5. Climb(f, Len(layers), layers)
  BY <1>3, <1>4
<1>6. Resolve(layers) = f[Len(layers)]
  BY <1>4, Zenon DEF Resolve, Climb
<1> QED  BY <1>5, <1>6

----------------------------------------------------------------------------
(* The first of some places. *)
Foremost(S, k) == k \in S /\ \A j \in S : k <= j

LEMMA FirstIsForemost ==
  ASSUME NEW S \in SUBSET Nat, NEW k, Foremost(S, k)
  PROVE  FirstOf(S) = k
<1>1. PICK x : x = FirstOf(S)
  OBVIOUS
<1>2. x \in S /\ \A j \in S : x <= j
  BY <1>1 DEF Foremost, FirstOf
<1>3. x \in Nat /\ k \in Nat /\ x <= k /\ k <= x
  BY <1>2 DEF Foremost
<1> QED  BY <1>1, <1>3

(* The rules of a layer are put behind those of the layers below: c are the
   rules b behind the rules a. *)
Behind(a, b, c) ==
  /\ c \in Seq(KwRule) /\ Len(a) \in Nat
  /\ \A k \in DOMAIN a : k \in DOMAIN c /\ k <= Len(a) /\ c[k] = a[k]
  /\ \A k \in DOMAIN b : /\ Len(a) + k \in DOMAIN c /\ c[Len(a) + k] = b[k]
                         /\ k \in Nat /\ k >= 1
  /\ \A k \in DOMAIN c : k \in DOMAIN a \/ \E j \in DOMAIN b : k = Len(a) + j

LEMMA LayersStack ==
  ASSUME NEW pack, NEW raw, pack.rules \in Seq(KwRule), raw.rules \in Seq(KwRule)
  PROVE  Behind(pack.rules, raw.rules, ApplyLayer(pack, raw).rules)
<1>1. PICK a \in Seq(KwRule), b \in Seq(KwRule) : a = pack.rules /\ b = raw.rules
  OBVIOUS
<1>2. PICK c : c = ApplyLayer(pack, raw).rules
  OBVIOUS
<1>3. PICK m, n : m = Len(a) /\ n = Len(b)
  OBVIOUS
<1>4. m \in Nat /\ n \in Nat /\ DOMAIN a = 1 .. m /\ DOMAIN b = 1 .. n
  BY <1>3, LenProperties
<1>5. /\ c \in Seq(KwRule) /\ Len(c) = m + n
      /\ \A i \in 1 .. (m + n) : c[i] = IF i <= m THEN a[i] ELSE b[i - m]
  <2>1. c = a \o b
    BY <1>1, <1>2 DEF ApplyLayer, RulesOf
  <2> QED  BY <1>3, <2>1, ConcatProperties
<1>6. DOMAIN c = 1 .. (m + n)
  BY <1>5, LenProperties
<1>7. \A k \in 1 .. m : k \in 1 .. (m + n) /\ k <= m
  BY <1>4
<1>8. \A k \in 1 .. n : /\ m + k \in 1 .. (m + n) /\ ~(m + k <= m) /\ (m + k) - m = k
                       /\ k \in Nat /\ k >= 1
  BY <1>4
<1>9. \A k \in 1 .. (m + n) : k \in 1 .. m \/ (k - m \in 1 .. n /\ k = m + (k - m))
  BY <1>4
<1>10. \A k \in 1 .. m : c[k] = a[k]
  BY <1>5, <1>7
<1>11. \A k \in 1 .. n : c[m + k] = b[k]
  BY <1>5, <1>8
<1>12. \A k \in DOMAIN c : k \in DOMAIN a \/ \E j \in DOMAIN b : k = m + j
  BY <1>4, <1>6, <1>9
<1>13. /\ \A k \in DOMAIN a : k \in DOMAIN c /\ k <= m /\ c[k] = a[k]
       /\ \A k \in DOMAIN b : m + k \in DOMAIN c /\ c[m + k] = b[k] /\ k \in Nat /\ k >= 1
  BY <1>4, <1>6, <1>7, <1>8, <1>10, <1>11
<1>14. Behind(a, b, c)
  BY <1>3, <1>4, <1>5, <1>12, <1>13 DEF Behind
<1> QED  BY <1>1, <1>2, <1>14

(* So the first of them that matches is the first of the lowest layer. *)
FirstDecides(layers, n, rules, toks) ==
  /\ rules \in Seq(KwRule)
  /\ (\A m \in 1 .. n : StickyIn(layers[m].rules, toks) = {}) => StickyIn(rules, toks) = {}
  /\ \A m \in 1 .. n : \A k \in DOMAIN layers[m].rules :
       Decides(layers, m, k, toks) =>
         \E i : Foremost(StickyIn(rules, toks), i) /\ rules[i] = layers[m].rules[k]

LEMMA DecidesAbove ==
  ASSUME NEW layers, IsStack(layers), NEW n \in Nat, n + 1 \in DOMAIN layers,
         NEW pack, NEW toks, FirstDecides(layers, n, pack.rules, toks)
  PROVE  FirstDecides(layers, n + 1, ApplyLayer(pack, layers[n + 1]).rules, toks)
<1>1. PICK a, b, c, s : /\ a = pack.rules /\ b = layers[n + 1].rules
                        /\ c = ApplyLayer(pack, layers[n + 1]).rules /\ s = Len(a)
  OBVIOUS
<1>2. a \in Seq(KwRule) /\ b \in Seq(KwRule)
  BY <1>1 DEF FirstDecides, IsStack
<1>3. /\ c \in Seq(KwRule) /\ s \in Nat
      /\ \A k \in DOMAIN a : k \in DOMAIN c /\ k <= s /\ c[k] = a[k]
      /\ \A k \in DOMAIN b : s + k \in DOMAIN c /\ k \in Nat /\ k >= 1 /\ c[s + k] = b[k]
      /\ \A k \in DOMAIN c : k \in DOMAIN a \/ \E j \in DOMAIN b : k = s + j
  <2>1. Behind(a, b, c)
    BY <1>1, <1>2, LayersStack
  <2> QED  BY <1>1, <2>1 DEF Behind
<1>4. PICK A, B, C : /\ A = StickyIn(a, toks) /\ B = StickyIn(b, toks)
                     /\ C = StickyIn(c, toks)
  OBVIOUS
<1>5. /\ A \subseteq DOMAIN a /\ B \subseteq DOMAIN b /\ C \subseteq DOMAIN c
      /\ \A k \in DOMAIN a : k \in C <=> k \in A
      /\ \A k \in DOMAIN b : s + k \in C <=> k \in B
  BY <1>3, <1>4 DEF StickyIn
<1>6. \A k \in C : k \in A \/ \E j \in B : k = s + j
  BY <1>3, <1>5
<1>7. ASSUME \A m \in 1 .. n + 1 : StickyIn(layers[m].rules, toks) = {}
      PROVE  C = {}
  <2>1. A = {}
    <3>1. \A m \in 1 .. n : m \in 1 .. n + 1
      OBVIOUS
    <3> QED  BY <1>1, <1>4, <1>7, <3>1 DEF FirstDecides
  <2>2. B = {}
    <3>1. n + 1 \in 1 .. n + 1
      OBVIOUS
    <3> QED  BY <1>1, <1>4, <1>7, <3>1
  <2> QED  BY <1>6, <2>1, <2>2
<1>8. ASSUME NEW m \in 1 .. n + 1, NEW k \in DOMAIN layers[m].rules,
             Decides(layers, m, k, toks)
      PROVE  \E i : Foremost(C, i) /\ c[i] = layers[m].rules[k]
  <2>1. CASE m \in 1 .. n
    <3>1. PICK i : Foremost(A, i) /\ a[i] = layers[m].rules[k]
      BY <1>1, <1>4, <1>8, <2>1 DEF FirstDecides
    <3>2. i \in A /\ i \in DOMAIN a /\ \A j \in A : i <= j
      BY <1>5, <3>1 DEF Foremost
    <3>3. i \in C /\ c[i] = a[i] /\ i <= s /\ i \in Nat
      <4>1. DOMAIN a = 1 .. Len(a) /\ Len(a) \in Nat
        BY <1>2, LenProperties
      <4> QED  BY <1>3, <1>5, <3>2, <4>1
    <3>4. ASSUME NEW j \in C  PROVE i <= j
      <4>1. CASE j \in A
        BY <3>2, <4>1
      <4>2. ASSUME NEW x \in B, j = s + x  PROVE i <= j
        <5>1. x \in Nat
          BY <1>3, <1>5
        <5> QED  BY <1>3, <3>3, <4>2, <5>1
      <4> QED  BY <1>6, <4>1, <4>2
    <3> QED  BY <3>1, <3>3, <3>4 DEF Foremost
  <2>2. CASE m = n + 1
    <3>1. /\ k \in B /\ \A j \in B : k <= j
          /\ \A l \in 1 .. n : StickyIn(layers[l].rules, toks) = {}
      <4>1. (n + 1) - 1 = n
        OBVIOUS
      <4> QED  BY <1>1, <1>4, <1>8, <2>2, <4>1 DEF Decides
    <3>2. A = {}
      BY <1>1, <1>4, <3>1 DEF FirstDecides
    <3>3. s + k \in C /\ c[s + k] = b[k]
      BY <1>3, <1>5, <3>1
    <3>4. ASSUME NEW j \in C  PROVE s + k <= j
      <4>1. PICK x \in B : j = s + x
        BY <1>6, <3>2
      <4>2. k <= x /\ k \in Nat /\ x \in Nat
        BY <1>3, <1>5, <3>1
      <4> QED  BY <1>3, <4>1, <4>2
    <3> QED  BY <1>1, <2>2, <3>3, <3>4 DEF Foremost
  <2>3. m \in 1 .. n \/ m = n + 1
    OBVIOUS
  <2> QED  BY <2>1, <2>2, <2>3
<1>9. FirstDecides(layers, n + 1, c, toks)
  <2>1. (\A m \in 1 .. n + 1 : StickyIn(layers[m].rules, toks) = {}) => StickyIn(c, toks) = {}
    BY <1>4, <1>7
  <2>2. \A m \in 1 .. n + 1 : \A k \in DOMAIN layers[m].rules :
           Decides(layers, m, k, toks)
             => \E i : Foremost(StickyIn(c, toks), i) /\ c[i] = layers[m].rules[k]
    BY <1>4, <1>8
  <2> QED  BY <1>3, <2>1, <2>2 DEF FirstDecides
<1> QED  BY <1>1, <1>9

(* As do all the layers together. *)
LEMMA ResolveDecides ==
  ASSUME NEW layers, IsStack(layers), NEW toks
  PROVE  FirstDecides(layers, Len(layers), Resolve(layers).rules, toks)
<1>1. PICK N : N = Len(layers)
  OBVIOUS
<1>2. N \in Nat /\ DOMAIN layers = 1 .. N
  BY <1>1 DEF IsStack
<1>3. PICK f : Climb(f, N, layers) /\ Resolve(layers) = f[N]
  BY <1>1, ResolveClimbs
<1>4. /\ f[0] = DefaultPack
      /\ \A i \in 1 .. N : f[i] = ApplyLayer(f[i - 1], layers[i])
  <2>1. 0 \in 0 .. N /\ \A i \in 1 .. N : i \in 0 .. N /\ i # 0
    BY <1>2
  <2> QED  BY <1>3, <2>1, Zenon DEF Climb
<1> DEFINE done == {n \in Nat : n <= N => FirstDecides(layers, n, f[n].rules, toks)}
<1>5. 0 \in done
  <2>1. f[0].rules = <<>> /\ DOMAIN <<>> = {} /\ 1 .. 0 = {}
    BY <1>4 DEF DefaultPack
  <2>2. StickyIn(<<>>, toks) = {}
    BY <2>1 DEF StickyIn
  <2>3. <<>> \in Seq(KwRule)
    BY EmptySeq
  <2>4. FirstDecides(layers, 0, f[0].rules, toks)
    BY <2>1, <2>2, <2>3 DEF FirstDecides
  <2> QED  BY <2>4
<1>6. ASSUME NEW n \in Nat, n \in done
      PROVE  n + 1 \in done
  <2>1. SUFFICES ASSUME n + 1 <= N  PROVE FirstDecides(layers, n + 1, f[n + 1].rules, toks)
    OBVIOUS
  <2>2. n <= N /\ n + 1 \in 1 .. N /\ (n + 1) - 1 = n
    BY <1>2, <2>1
  <2>3. PICK pack : pack = f[n]
    OBVIOUS
  <2>4. FirstDecides(layers, n, pack.rules, toks) /\ f[n + 1] = ApplyLayer(pack, layers[n + 1])
    BY <1>4, <1>6, <2>2, <2>3
  <2>5. FirstDecides(layers, n + 1, ApplyLayer(pack, layers[n + 1]).rules, toks)
    BY <1>2, <2>2, <2>4, DecidesAbove
  <2> QED  BY <2>4, <2>5
<1>7. N \in done
  <2> HIDE DEF done
  <2> QED  BY <1>2, <1>5, <1>6, Induction
<1>8. FirstDecides(layers, N, f[N].rules, toks)
  <2>1. N <= N
    BY <1>2
  <2> QED  BY <1>7, <2>1
<1> QED  BY <1>1, <1>3, <1>8

(* And the first sticky rule that matches is the one the decision takes. *)
LEMMA DecisionFollows ==
  ASSUME NEW pack, NEW u, NEW cat, NEW mat, NEW i,
         pack.rules \in Seq(KwRule), Foremost(StickyIn(pack.rules, Present(u)), i)
  PROVE  Decision(u, pack, cat, mat) = [by |-> pack.rules[i].id, act |-> pack.rules[i].act]
<1>1. PICK S, toks : S = Sticky(pack, toks) /\ toks = Present(u)
  OBVIOUS
<1>2. S = StickyIn(pack.rules, toks)
  BY <1>1 DEF Sticky, Acting, Hits, StickyIn
<1>3. S \in SUBSET Nat
  <2>1. DOMAIN pack.rules = 1 .. Len(pack.rules) /\ Len(pack.rules) \in Nat
    BY LenProperties
  <2> QED  BY <1>2, <2>1 DEF StickyIn
<1>4. S # {} /\ FirstOf(S) = i
  BY <1>1, <1>2, <1>3, FirstIsForemost DEF Foremost
<1> QED  BY <1>1, <1>4 DEF Decision

----------------------------------------------------------------------------
Watched == site \in Sites

(* What is watched stays what it was at first. *)
LEMMA SiteStays == Spec => []Watched
<1>1. Init => Watched
  BY DEF Init, Watched
<1>2. Watched /\ [Next]_vars => Watched'
  <2>1. [Next]_vars => site' = site
    BY DEF Next, vars, Reword, DropWord, AddWord, TakeDown, PutBack, Retarget, Strike, Shift,
       Write, Publish, Check
  <2> QED  BY <2>1 DEF Watched
<1> QED  BY <1>1, <1>2, PTL DEF Spec

(* Only a check tells of the block. *)
LEMMA ChecksTell ==
  ASSUME [Next]_vars, Checked
  PROVE  \E u \in UnitsOf(seen, page), rate \in AlignRates :
           event' = [told |-> Scored(u, Packs[site.layers], site.spot, site.anchored, rate),
                     ct |-> u.ct, ty |-> u.ty, rate |-> rate]
<1>1. Check
  BY DEF Checked, Next, vars, Reword, DropWord, AddWord, TakeDown, PutBack, Retarget,
     Strike, Shift, Write, Publish
<1> QED  BY <1>1 DEF Check

(***************************************************************************)
(* The first sticky rule of the lowest layer that has one for a new block  *)
(* decides, whatever the layers above it, the noise, the band and the      *)
(* category: layering keeps the order of the rules (packs.rs), and the     *)
(* decision looks at the sticky ones first (action.rs).                    *)
(***************************************************************************)
THEOREM StickiesHold == Spec => StickiesDecide
<1>1. ASSUME Watched, [Next]_vars, Checked, event'.ct = "Added",
             NEW n \in DOMAIN site.layers, NEW k \in DOMAIN site.layers[n].rules,
             Decides(site.layers, n, k, Whole(Text(page)).a)
      PROVE  Told.decision = [by |-> site.layers[n].rules[k].id,
                              act |-> site.layers[n].rules[k].act]
  <2>1. PICK u \in UnitsOf(seen, page), rate \in AlignRates :
          event' = [told |-> Scored(u, Packs[site.layers], site.spot, site.anchored, rate),
                    ct |-> u.ct, ty |-> u.ty, rate |-> rate]
    BY <1>1, ChecksTell
  <2>2. PICK layers, pack, toks : /\ layers = site.layers /\ pack = Packs[layers]
                                  /\ toks = Whole(Text(page)).a
    OBVIOUS
  <2>3. IsStack(layers) /\ pack = Resolve(layers)
    BY <1>1, <2>2, SitesAssumption DEF Packs, Watched
  <2>4. Present(u) = toks
    <3>1. u.ct = "Added"
      BY <1>1, <2>1
    <3>2. u.delta = Whole(Text(page))
      BY <3>1, ComingsAreWhole DEF Text
    <3>3. u.delta.enc # "idiff"
      BY <3>2 DEF Whole
    <3> QED  BY <2>2, <3>2, <3>3 DEF Present
  <2>5. FirstDecides(layers, Len(layers), pack.rules, toks) /\ n \in 1 .. Len(layers)
    BY <2>2, <2>3, ResolveDecides DEF IsStack
  <2>6. PICK i : /\ Foremost(StickyIn(pack.rules, toks), i)
                 /\ pack.rules[i] = layers[n].rules[k]
    BY <1>1, <2>2, <2>5 DEF FirstDecides
  <2>7. \A cat, mat : Decision(u, pack, cat, mat)
                       = [by |-> pack.rules[i].id, act |-> pack.rules[i].act]
    <3>1. /\ pack.rules \in Seq(KwRule)
          /\ Foremost(StickyIn(pack.rules, Present(u)), i)
      BY <2>4, <2>5, <2>6 DEF FirstDecides
    <3> QED  BY <3>1, DecisionFollows
  <2>8. Told = Scored(u, pack, site.spot, site.anchored, rate)
    BY <2>1, <2>2 DEF Told
  <2>9. \E cat, mat : Told.decision = Decision(u, pack, cat, mat)
    BY <2>8 DEF Scored
  <2> QED  BY <2>2, <2>6, <2>7, <2>9
<1>2. Watched /\ [Next]_vars =>
        (Checked /\ event'.ct = "Added"
           => \A n \in DOMAIN site.layers : \A k \in DOMAIN site.layers[n].rules :
                Decides(site.layers, n, k, Whole(Text(page)).a) =>
                  Told.decision = [by |-> site.layers[n].rules[k].id,
                                   act |-> site.layers[n].rules[k].act])
  BY <1>1
<1> QED  BY <1>2, SiteStays, PTL DEF Spec, StickiesDecide

----------------------------------------------------------------------------
(* A product with the whole is the other factor. *)
LEMMA TimesOne == \A x \in Nat : Times(x, One) = x
<1>1. \A x \in Nat : (x * 10000) \div 10000 = x
  OBVIOUS
<1> QED  BY <1>1 DEF Times, One

(* The confidence in a block that comes or goes. *)
LEMMA ComingsAreSure ==
  ASSUME NEW u, NEW anchored, NEW rate \in Nat, rate >= 9000,
         u.ct \in {"Added", "Removed"}, u.delta.enc = "block", u.num = NoNumber
  PROVE  Confidence(u, anchored, rate) > 6000
<1>1. PICK a, p : /\ a = Alignment(u, IF anchored THEN One ELSE 9000)
                  /\ p = CASE u.ty \in {"Price", "Number"} -> IF u.num # NoNumber THEN 9700 ELSE 7000
                           [] u.ty = "Date" -> 9700
                           [] OTHER -> One
  OBVIOUS
<1>2. a \in {9000, 10000}
  BY <1>1 DEF Alignment, One
<1>3. p \in {7000, 9700, 10000}
  BY <1>1 DEF One
<1>4. Confidence(u, anchored, rate) = Times(Times(Times(a, One), p), One)
  <2>1. ~(rate < 9000)
    OBVIOUS
  <2> QED  BY <1>1, <2>1 DEF Confidence
<1>5. Times(a, One) = a
  BY <1>2, TimesOne
<1>6. Times(a, p) > 6000 /\ Times(a, p) \in Nat
  BY <1>2, <1>3 DEF Times, One
<1>7. Times(Times(a, p), One) = Times(a, p)
  BY <1>6, TimesOne
<1> QED  BY <1>4, <1>5, <1>6, <1>7

(***************************************************************************)
(* A block that comes or goes, on a page of which nine tenths align, is    *)
(* told with a confidence above 0.6, whatever its type and however it was  *)
(* found: of the factors of confidence.rs only its anchor and the reading  *)
(* of its value can take something off.                                    *)
(***************************************************************************)
THEOREM ComingsAndGoingsHold == Spec => ComingsAndGoingsAreTrusted
<1>1. ASSUME [Next]_vars, Checked, event'.ct \in {"Added", "Removed"}, event'.rate >= 9000
      PROVE  Told.conf > 6000
  <2>1. PICK u \in UnitsOf(seen, page), rate \in AlignRates :
          event' = [told |-> Scored(u, Packs[site.layers], site.spot, site.anchored, rate),
                    ct |-> u.ct, ty |-> u.ty, rate |-> rate]
    BY <1>1, ChecksTell
  <2>2. u.ct \in {"Added", "Removed"} /\ u.delta.enc = "block" /\ u.num = NoNumber
    BY <1>1, <2>1, ComingsAreWhole
  <2>3. rate \in Nat /\ rate >= 9000
    <3>1. rate \in 0 .. 10000
      BY RatesAssumption DEF One
    <3>2. event'.rate = rate
      BY <2>1
    <3> QED  BY <1>1, <3>1, <3>2
  <2>4. \E anchored : Told.conf = Confidence(u, anchored, rate)
    BY <2>1 DEF Told, Scored
  <2> QED  BY <2>2, <2>3, <2>4, ComingsAreSure
<1>2. [Next]_vars =>
        (Checked /\ event'.ct \in {"Added", "Removed"} /\ event'.rate >= 9000
           => Told.conf > 6000)
  BY <1>1
<1> QED  BY <1>2, PTL DEF Spec, ComingsAndGoingsAreTrusted

----------------------------------------------------------------------------
(* A word with what is put before it. *)
Put(words, toks, n) ==
  toks \o (IF Joins(words, n) THEN <<words[n]>> ELSE <<Space, words[n]>>)

(* The tokens of more and more words. *)
TokensUpto(f, words) ==
  f = [n \in 0 .. Len(words) |-> IF n = 0 THEN <<>> ELSE Put(words, f[n - 1], n)]

TokensBy(f, S, words) ==
  /\ f \in [0 .. Len(words) -> S] /\ f[0] = <<>>
  /\ \A n \in 1 .. Len(words) : f[n] = Put(words, f[n - 1], n)

TokensStay(S, words) ==
  /\ Len(words) \in Nat /\ <<>> \in S
  /\ \A n \in 1 .. Len(words) : \A x \in S : Put(words, x, n) \in S

(* The tokens of a text are those of its words, word by word. *)
LEMMA TokenizeClimbs ==
  ASSUME NEW S, NEW words, TokensStay(S, words)
  PROVE  \E f : TokensBy(f, S, words) /\ Tokenize(words) = f[Len(words)]
<1>1. PICK N \in Nat, base \in S :
        /\ N = Len(words) /\ base = <<>>
        /\ \A n \in 1 .. N : \A x \in S : Put(words, x, n) \in S
  BY DEF TokensStay
<1>2. PICK step : step = [z \in Nat \X S |-> IF z[1] \in 1 .. N THEN Put(words, z[2], z[1]) ELSE base]
  OBVIOUS
<1>3. step \in [Nat \X S -> S]
  <2>1. \A z \in Nat \X S : z[2] \in S
    OBVIOUS
  <2>2. \A z \in Nat \X S : z[1] \in 1 .. N => Put(words, z[2], z[1]) \in S
    BY <1>1, <2>1
  <2> QED  BY <1>2, <2>2
<1>4. \A n \in 1 .. N : \A x \in S : step[<<n, x>>] = Put(words, x, n)
  <2>1. ASSUME NEW n \in 1 .. N, NEW x \in S
        PROVE  step[<<n, x>>] = Put(words, x, n)
    <3>1. PICK z : z = <<n, x>>
      OBVIOUS
    <3>2. z \in Nat \X S /\ z[1] = n /\ z[2] = x
      BY <3>1
    <3> QED  BY <1>2, <3>1, <3>2
  <2> QED  BY <2>1
<1>5. ASSUME NEW f, f = [n \in 0 .. N |-> f[n]], f[0] = base,
             \A n \in 1 .. N : f[n] = Put(words, f[n - 1], n)
      PROVE  TokensUpto(f, words)
  <2>1. \A n \in 0 .. N : n # 0 => n \in 1 .. N
    OBVIOUS
  <2>2. \A n \in 0 .. N : f[n] = IF n = 0 THEN base ELSE Put(words, f[n - 1], n)
    BY <1>5, <2>1
  <2>3. f = [n \in 0 .. N |-> IF n = 0 THEN base ELSE Put(words, f[n - 1], n)]
    BY <1>5, <2>2
  <2> QED  BY <1>1, <2>3 DEF TokensUpto
<1>6. PICK g : TokensUpto(g, words)
  <2>1. PICK g : RecursiveUpto(g, N, S, base, step)
    BY <1>3, RecursionExists
  <2>2. g = [n \in 0 .. N |-> g[n]] /\ g[0] = base
    BY <2>1 DEF RecursiveUpto
  <2>3. ASSUME NEW n \in 1 .. N PROVE g[n] = Put(words, g[n - 1], n)
    <3>1. n - 1 \in 0 .. N
      OBVIOUS
    <3>2. g[n - 1] \in S /\ g[n] = step[<<n, g[n - 1]>>]
      BY <2>1, <3>1 DEF RecursiveUpto
    <3> QED  BY <1>4, <3>2
  <2> QED  BY <1>5, <2>2, <2>3
<1>7. PICK f : f = CHOOSE e : TokensUpto(e, words)
  OBVIOUS
<1>8. TokensUpto(f, words)
  BY <1>6, <1>7
<1>9. Tokenize(words) = f[N]
  BY <1>1, <1>7, Zenon DEF Tokenize, Put, TokensUpto
<1>10. /\ f = [n \in 0 .. N |-> f[n]] /\ f[0] = base
       /\ \A n \in 1 .. N : f[n] = Put(words, f[n - 1], n)
  <2>1. f = [n \in 0 .. N |-> IF n = 0 THEN base ELSE Put(words, f[n - 1], n)]
    BY <1>1, <1>8 DEF TokensUpto
  <2>2. 0 \in 0 .. N /\ \A n \in 1 .. N : n \in 0 .. N /\ n # 0
    OBVIOUS
  <2> QED  BY <2>1, <2>2
<1>11. RecursiveUpto(f, N, S, base, step)
  <2>1. \A n \in 1 .. N : f[n - 1] \in S => f[n] = step[<<n, f[n - 1]>>]
    BY <1>4, <1>10
  <2> QED  BY <1>3, <1>10, <2>1, RecursionStays
<1> QED  BY <1>1, <1>9, <1>10, <1>11 DEF RecursiveUpto, TokensBy

Member(x, s) == \E k \in 1 .. Len(s) : s[k] = x

(* What is in two sequences together. *)
LEMMA MembersOfBoth ==
  ASSUME NEW T, NEW p \in Seq(T), NEW q \in Seq(T), NEW x
  PROVE  p \o q \in Seq(T) /\ (Member(x, p \o q) <=> Member(x, p) \/ Member(x, q))
<1>1. PICK r, m, n : r = p \o q /\ m = Len(p) /\ n = Len(q)
  OBVIOUS
<1>2. /\ m \in Nat /\ n \in Nat /\ r \in Seq(T) /\ Len(r) = m + n
      /\ \A k \in 1 .. m + n : r[k] = IF k <= m THEN p[k] ELSE q[k - m]
  BY <1>1, ConcatProperties, LenProperties
<1>3. ASSUME NEW k \in 1 .. m PROVE k \in 1 .. m + n /\ r[k] = p[k]
  BY <1>2
<1>4. ASSUME NEW k \in 1 .. n PROVE m + k \in 1 .. m + n /\ r[m + k] = q[k]
  <2>1. m + k \in 1 .. m + n /\ ~(m + k <= m) /\ (m + k) - m = k
    BY <1>2
  <2> QED  BY <1>2, <2>1
<1>5. ASSUME NEW k \in 1 .. m + n
      PROVE  (k \in 1 .. m /\ r[k] = p[k]) \/ (k - m \in 1 .. n /\ r[k] = q[k - m])
  BY <1>2
<1>6. Member(x, r) => Member(x, p) \/ Member(x, q)
  BY <1>1, <1>2, <1>5 DEF Member
<1>7. Member(x, p) => Member(x, r)
  BY <1>1, <1>2, <1>3 DEF Member
<1>8. Member(x, q) => Member(x, r)
  <2>1. SUFFICES ASSUME Member(x, q) PROVE Member(x, r)
    OBVIOUS
  <2>2. PICK k \in 1 .. n : q[k] = x
    BY <1>1, <2>1 DEF Member
  <2>3. m + k \in 1 .. Len(r) /\ r[m + k] = x
    BY <1>2, <1>4, <2>2
  <2> QED  BY <2>3 DEF Member
<1> QED  BY <1>1, <1>2, <1>6, <1>7, <1>8

(* A piece of one or two. *)
LEMMA MembersOfFew ==
  ASSUME NEW T, NEW x, NEW y \in T, NEW z \in T
  PROVE  /\ <<y>> \in Seq(T) /\ <<y, z>> \in Seq(T)
         /\ Member(x, <<y>>) <=> x = y
         /\ Member(x, <<y, z>>) <=> x = y \/ x = z
<1>1. Len(<<y>>) = 1 /\ Len(<<y, z>>) = 2
  OBVIOUS
<1>2. 1 .. 1 = {1} /\ 1 .. 2 = {1, 2}
  OBVIOUS
<1>3. Member(x, <<y>>) <=> x = y
  BY <1>1, <1>2 DEF Member
<1>4. Member(x, <<y, z>>) <=> x = y \/ x = z
  BY <1>1, <1>2 DEF Member
<1> QED  BY <1>3, <1>4

(* Tokenizing adds nothing but spaces, and loses nothing. *)
LEMMA TokenizeHolds ==
  ASSUME NEW T, Space \in T, NEW words \in Seq(T)
  PROVE  /\ Tokenize(words) \in Seq(T)
         /\ \A x : Member(x, words) => Member(x, Tokenize(words))
         /\ \A x : Member(x, Tokenize(words)) => x = Space \/ Member(x, words)
<1>1. PICK N : N = Len(words) /\ N \in Nat /\ \A n \in 1 .. N : words[n] \in T
  BY LenProperties, ElementOfSeq
<1>2. PICK piece : piece = [n \in 1 .. N |-> IF Joins(words, n) THEN <<words[n]>>
                                              ELSE <<Space, words[n]>>]
  OBVIOUS
<1>3. ASSUME NEW n \in 1 .. N
      PROVE  /\ piece[n] \in Seq(T) /\ Member(words[n], piece[n])
             /\ \A x : Member(x, piece[n]) => x \in {Space, words[n]}
             /\ \A toks : Put(words, toks, n) = toks \o piece[n]
  <2>1. words[n] \in T
    BY <1>1
  <2>2. piece[n] = <<words[n]>> \/ piece[n] = <<Space, words[n]>>
    BY <1>2
  <2>3. \A toks : Put(words, toks, n) = toks \o piece[n]
    BY <1>2 DEF Put
  <2>4. PICK w \in T : w = words[n]
    BY <2>1
  <2>5. PICK q : q = piece[n]
    OBVIOUS
  <2>6. CASE q = <<w>>
    <3>1. q \in Seq(T) /\ \A x : Member(x, q) <=> x = w
      BY <2>6, MembersOfFew
    <3> QED  BY <2>3, <2>4, <2>5, <3>1
  <2>7. CASE q = <<Space, w>>
    <3>1. q \in Seq(T) /\ \A x : Member(x, q) <=> x = Space \/ x = w
      BY <2>7, MembersOfFew
    <3> QED  BY <2>3, <2>4, <2>5, <3>1
  <2> QED  BY <2>2, <2>4, <2>5, <2>6, <2>7
<1>4. PICK S : S = Seq(T)
  OBVIOUS
<1>5. PICK f : /\ f \in [0 .. N -> S] /\ f[0] = <<>>
               /\ \A n \in 1 .. N : f[n] = Put(words, f[n - 1], n)
               /\ Tokenize(words) = f[N]
  <2>1. \A n \in 1 .. N : \A x \in S : Put(words, x, n) \in S
    <3>1. ASSUME NEW n \in 1 .. N, NEW x \in S PROVE Put(words, x, n) \in S
      <4>1. PICK q \in Seq(T) : Put(words, x, n) = x \o q
        BY <1>3
      <4> QED  BY <1>4, <4>1, ConcatProperties
    <3> QED  BY <3>1
  <2>2. <<>> \in S
    BY <1>4, EmptySeq
  <2>3. \E f : TokensBy(f, S, words) /\ Tokenize(words) = f[Len(words)]
    <3>1. TokensStay(S, words)
      BY <1>1, <2>1, <2>2 DEF TokensStay
    <3> QED  BY <3>1, TokenizeClimbs
  <2> QED  BY <1>1, <2>3 DEF TokensBy
<1> DEFINE Same(toks, n) == /\ \A k \in 1 .. n : Member(words[k], toks)
                            /\ \A x : Member(x, toks) => x = Space \/ Member(x, words)
           same == {n \in Nat : n <= N => Same(f[n], n)}
<1>6. 0 \in same
  <2>1. \A x : ~Member(x, <<>>)
    BY DEF Member
  <2> QED  BY <1>5, <2>1
<1>7. ASSUME NEW n \in Nat, n \in same
      PROVE  n + 1 \in same
  <2>1. SUFFICES ASSUME n + 1 <= N PROVE Same(f[n + 1], n + 1)
    OBVIOUS
  <2>2. PICK i, p, q : i = n + 1 /\ p = f[n] /\ q = piece[i]
    OBVIOUS
  <2>3. i \in 1 .. N /\ i - 1 = n /\ n \in 0 .. N
    BY <1>1, <2>1, <2>2
  <2>4. f[i] = p \o q /\ p \in Seq(T) /\ q \in Seq(T)
    BY <1>3, <1>4, <1>5, <2>2, <2>3
  <2>5. \A x : Member(x, f[i]) <=> Member(x, p) \/ Member(x, q)
    BY <2>4, MembersOfBoth
  <2>6. Same(p, n)
    BY <1>7, <2>2, <2>3
  <2>7. ASSUME NEW k \in 1 .. i PROVE Member(words[k], f[i])
    <3>1. k \in 1 .. n \/ k = i
      BY <2>2
    <3> QED  BY <1>3, <2>2, <2>3, <2>5, <2>6, <3>1
  <2>8. ASSUME NEW x, Member(x, f[i]) PROVE x = Space \/ Member(x, words)
    <3>1. Member(x, q) => x = Space \/ x = words[i]
      BY <1>3, <2>2, <2>3
    <3>2. Member(words[i], words)
      BY <1>1, <2>3 DEF Member
    <3> QED  BY <2>5, <2>6, <2>8, <3>1, <3>2
  <2> QED  BY <2>2, <2>7, <2>8
<1>8. N \in same
  <2> HIDE DEF same
  <2> QED  BY <1>1, <1>6, <1>7, Induction
<1>9. Same(f[N], N) /\ f[N] \in Seq(T)
  BY <1>1, <1>4, <1>5, <1>8
<1>10. ASSUME NEW x, Member(x, words) PROVE Member(x, Tokenize(words))
  BY <1>1, <1>5, <1>9, <1>10 DEF Member
<1> QED  BY <1>5, <1>9, <1>10

----------------------------------------------------------------------------
(* Two texts are alike up to a place, and the library finds it. *)
LEMMA AlikeHolds ==
  ASSUME NEW T, NEW a \in Seq(T), NEW b \in Seq(T)
  PROVE  /\ Alike(a, b) \in Nat /\ Alike(a, b) <= Len(a) /\ Alike(a, b) <= Len(b)
         /\ \A i \in 1 .. Alike(a, b) : a[i] = b[i]
<1>1. PICK m, n : /\ m = Len(a) /\ n = Len(b) /\ m \in Nat /\ n \in Nat
                  /\ DOMAIN a = 1 .. m /\ DOMAIN b = 1 .. n
  BY LenProperties
<1>2. PICK P : P = {k \in DOMAIN a \cap DOMAIN b : \A i \in 1 .. k : a[i] = b[i]}
  OBVIOUS
<1>3. \E h \in Nat : P = 1 .. h
  <2>1. CASE P = {}
    <3>1. P = 1 .. 0
      BY <2>1
    <3> QED  BY <3>1
  <2>2. CASE P # {}
    <3>1. P \in SUBSET Nat /\ \A k \in P : k <= m
      BY <1>1, <1>2
    <3>2. PICK h \in P : \A k \in P : k <= h
      BY <1>1, <2>2, <3>1, GreatestNumber
    <3>3. ASSUME NEW k \in 1 .. h PROVE k \in P
      <4>1. k \in DOMAIN a \cap DOMAIN b
        BY <1>1, <1>2, <3>2
      <4>2. \A i \in 1 .. k : i \in 1 .. h
        BY <3>1, <3>2
      <4> QED  BY <1>2, <3>2, <4>1, <4>2
    <3>4. \A k \in P : k \in 1 .. h
      BY <1>1, <1>2, <3>1, <3>2
    <3> QED  BY <3>1, <3>2, <3>3, <3>4
  <2> QED  BY <2>1, <2>2
<1>4. PICK h \in Nat : P = 1 .. h
  BY <1>3
<1>5. Cardinality(1 .. h) = h
  BY <1>4, FS_Interval
<1>6. Alike(a, b) = h
  BY <1>2, <1>4, <1>5 DEF Alike
<1>7. h # 0 => h \in P
  BY <1>4
<1>8. h <= m /\ h <= n
  BY <1>1, <1>2, <1>4, <1>7
<1>9. \A i \in 1 .. h : a[i] = b[i]
  BY <1>2, <1>4, <1>7
<1> QED  BY <1>1, <1>6, <1>8, <1>9

(* And so it does from the end, after a common beginning. *)
Backwards(a, head) == Reverse(SubSeq(a, head + 1, Len(a)))

(* What follows the head, last first. *)
LEMMA TailHolds ==
  ASSUME NEW T, NEW a \in Seq(T), NEW head \in 0 .. Len(a)
  PROVE  /\ Backwards(a, head) \in Seq(T) /\ Len(Backwards(a, head)) = Len(a) - head
         /\ \A k \in 1 .. Len(a) - head : Backwards(a, head)[k] = a[Len(a) - k + 1]
<1>1. PICK m, n : m = Len(a) /\ n = m - head /\ m \in Nat /\ n \in Nat
  <2>1. Len(a) \in Nat
    BY LenProperties
  <2> QED  BY <2>1
<1>2. PICK s : s = SubSeq(a, head + 1, m)
  OBVIOUS
<1>3. s \in Seq(T) /\ Len(s) = n /\ \A i \in 1 .. n : s[i] = a[head + i]
  <2>1. \A i \in head + 1 .. m : a[i] \in T
    BY <1>1, ElementOfSeq
  <2>2. s \in Seq(T) /\ Len(s) = n
    BY <1>1, <1>2, <2>1, SubSeqProperties
  <2>3. \A i \in 1 .. m - (head + 1) + 1 : s[i] = a[(head + 1) + i - 1]
    BY <1>1, <1>2, <2>1, SubSeqProperties
  <2>4. ASSUME NEW i \in 1 .. n PROVE s[i] = a[head + i]
    <3>1. i \in 1 .. m - (head + 1) + 1 /\ (head + 1) + i - 1 = head + i
      BY <1>1
    <3> QED  BY <2>3, <3>1
  <2> QED  BY <2>2, <2>4
<1>4. PICK r : r = [i \in 1 .. n |-> s[(n - i) + 1]]
  OBVIOUS
<1>5. Backwards(a, head) = r
  BY <1>1, <1>2, <1>3, <1>4 DEF Backwards, Reverse
<1>6. ASSUME NEW k \in 1 .. n
      PROVE  r[k] = a[m - k + 1] /\ r[k] \in T
  <2>1. (n - k) + 1 \in 1 .. n /\ head + ((n - k) + 1) = m - k + 1
    BY <1>1
  <2>2. r[k] = s[(n - k) + 1] /\ s[(n - k) + 1] \in T
    BY <1>3, <1>4, <2>1, ElementOfSeq
  <2>3. s[(n - k) + 1] = a[head + ((n - k) + 1)]
    BY <1>3, <2>1
  <2> QED  BY <2>1, <2>2, <2>3
<1>7. r \in Seq(T) /\ Len(r) = n
  <2>1. r \in [1 .. n -> T]
    BY <1>4, <1>6
  <2>2. r \in Seq(T)
    BY <1>1, <2>1, SeqDef
  <2> QED  BY <1>1, <1>4, <2>2, LenProperties
<1> QED  BY <1>1, <1>5, <1>6, <1>7

----------------------------------------------------------------------------
Places(at, endA) == endA - at + 1
Start(at) == {[pairs |-> {}, last |-> at - 1]}

(* The chains that go on from some, by a pair of the place at hand. *)
More(a, b, at, endB, chains, n) ==
  chains \cup UNION {{[pairs |-> c.pairs \cup {<<at + n - 1, j>>}, last |-> j] :
                        j \in {m \in c.last + 1 .. endB : a[at + n - 1] = b[m]}} : c \in chains}

(* The chains among the first places. *)
ChainsUpto(f, a, b, at, endA, endB) ==
  f = [n \in 0 .. Places(at, endA) |-> IF n = 0 THEN Start(at) ELSE More(a, b, at, endB, f[n - 1], n)]

ChainsBy(f, S, a, b, at, endA, endB) ==
  /\ f \in [0 .. Places(at, endA) -> S] /\ f[0] = Start(at)
  /\ \A n \in 1 .. Places(at, endA) : f[n] = More(a, b, at, endB, f[n - 1], n)

ChainsStay(S, a, b, at, endA, endB) ==
  /\ Places(at, endA) \in Nat /\ Start(at) \in S
  /\ \A n \in 1 .. Places(at, endA) : \A x \in S : More(a, b, at, endB, x, n) \in S

(* The chains grow place by place of the text before. *)
LEMMA ChainsClimb ==
  ASSUME NEW S, NEW a, NEW b, NEW at, NEW endA, NEW endB, ChainsStay(S, a, b, at, endA, endB)
  PROVE  \E f : ChainsBy(f, S, a, b, at, endA, endB) /\ Chains(a, b, at, endA, endB) = f[Places(at, endA)]
<1>1. PICK N \in Nat, base \in S :
        /\ N = Places(at, endA) /\ base = Start(at)
        /\ \A n \in 1 .. N : \A x \in S : More(a, b, at, endB, x, n) \in S
  BY DEF ChainsStay
<1>2. PICK step : step = [z \in Nat \X S |-> IF z[1] \in 1 .. N THEN More(a, b, at, endB, z[2], z[1]) ELSE base]
  OBVIOUS
<1>3. step \in [Nat \X S -> S]
  <2>1. \A z \in Nat \X S : z[2] \in S
    OBVIOUS
  <2>2. \A z \in Nat \X S : z[1] \in 1 .. N => More(a, b, at, endB, z[2], z[1]) \in S
    BY <1>1, <2>1
  <2> QED  BY <1>2, <2>2
<1>4. \A n \in 1 .. N : \A x \in S : step[<<n, x>>] = More(a, b, at, endB, x, n)
  <2>1. ASSUME NEW n \in 1 .. N, NEW x \in S
        PROVE  step[<<n, x>>] = More(a, b, at, endB, x, n)
    <3>1. PICK z : z = <<n, x>>
      OBVIOUS
    <3>2. z \in Nat \X S /\ z[1] = n /\ z[2] = x
      BY <3>1
    <3> QED  BY <1>2, <3>1, <3>2
  <2> QED  BY <2>1
<1>5. ASSUME NEW f, f = [n \in 0 .. N |-> f[n]], f[0] = base,
             \A n \in 1 .. N : f[n] = More(a, b, at, endB, f[n - 1], n)
      PROVE  ChainsUpto(f, a, b, at, endA, endB)
  <2>1. \A n \in 0 .. N : n # 0 => n \in 1 .. N
    OBVIOUS
  <2>2. \A n \in 0 .. N : f[n] = IF n = 0 THEN base ELSE More(a, b, at, endB, f[n - 1], n)
    BY <1>5, <2>1
  <2>3. f = [n \in 0 .. N |-> IF n = 0 THEN base ELSE More(a, b, at, endB, f[n - 1], n)]
    BY <1>5, <2>2
  <2> QED  BY <1>1, <2>3 DEF ChainsUpto
<1>6. PICK g : ChainsUpto(g, a, b, at, endA, endB)
  <2>1. PICK g : RecursiveUpto(g, N, S, base, step)
    BY <1>3, RecursionExists
  <2>2. g = [n \in 0 .. N |-> g[n]] /\ g[0] = base
    BY <2>1 DEF RecursiveUpto
  <2>3. ASSUME NEW n \in 1 .. N PROVE g[n] = More(a, b, at, endB, g[n - 1], n)
    <3>1. n - 1 \in 0 .. N
      OBVIOUS
    <3>2. g[n - 1] \in S /\ g[n] = step[<<n, g[n - 1]>>]
      BY <2>1, <3>1 DEF RecursiveUpto
    <3> QED  BY <1>4, <3>2
  <2> QED  BY <1>5, <2>2, <2>3
<1>7. PICK f : f = CHOOSE e : ChainsUpto(e, a, b, at, endA, endB)
  OBVIOUS
<1>8. ChainsUpto(f, a, b, at, endA, endB)
  BY <1>6, <1>7
<1>9. Chains(a, b, at, endA, endB) = f[N]
  BY <1>1, <1>7, Zenon DEF Chains, More, Places, Start, ChainsUpto
<1>10. /\ f = [n \in 0 .. N |-> f[n]] /\ f[0] = base
       /\ \A n \in 1 .. N : f[n] = More(a, b, at, endB, f[n - 1], n)
  <2>1. f = [n \in 0 .. N |-> IF n = 0 THEN base ELSE More(a, b, at, endB, f[n - 1], n)]
    BY <1>1, <1>8 DEF ChainsUpto
  <2>2. 0 \in 0 .. N /\ \A n \in 1 .. N : n \in 0 .. N /\ n # 0
    OBVIOUS
  <2> QED  BY <2>1, <2>2
<1>11. RecursiveUpto(f, N, S, base, step)
  <2>1. \A n \in 1 .. N : f[n - 1] \in S => f[n] = step[<<n, f[n - 1]>>]
    BY <1>4, <1>10
  <2> QED  BY <1>3, <1>10, <2>1, RecursionStays
<1> QED  BY <1>1, <1>9, <1>10, <1>11 DEF RecursiveUpto, ChainsBy

(* The pairs of places that hold the same token. *)
SamePlaces(a, b) == {p \in Int \X Int : a[p[1]] = b[p[2]]}

(* A chain pairs places where the two texts read the same. *)
LEMMA ChainsHold ==
  ASSUME NEW a, NEW b, NEW at \in Int, NEW endA \in Int, NEW endB \in Int, at <= endA + 1,
         NEW c \in Chains(a, b, at, endA, endB)
  PROVE  c.pairs \subseteq SamePlaces(a, b)
<1>1. PICK R, S : R = [pairs : SUBSET SamePlaces(a, b), last : Int] /\ S = SUBSET R
  OBVIOUS
<1>2. Places(at, endA) \in Nat /\ Start(at) \in S
  <2>1. [pairs |-> {}, last |-> at - 1] \in R
    BY <1>1
  <2> QED  BY <1>1, <2>1 DEF Places, Start
<1>3. ASSUME NEW n \in 1 .. Places(at, endA), NEW X \in S
      PROVE  More(a, b, at, endB, X, n) \in S
  <2>1. PICK i \in Int : i = at + n - 1
    BY <1>2
  <2>2. ASSUME NEW e \in X, NEW j \in e.last + 1 .. endB, a[i] = b[j]
        PROVE  [pairs |-> e.pairs \cup {<<i, j>>}, last |-> j] \in R
    <3>1. e.last \in Int /\ e.pairs \subseteq SamePlaces(a, b)
      BY <1>1
    <3>2. j \in Int
      BY <3>1
    <3>3. <<i, j>> \in SamePlaces(a, b)
      BY <2>1, <2>2, <3>2 DEF SamePlaces
    <3> QED  BY <1>1, <3>1, <3>2, <3>3
  <2> QED  BY <1>1, <2>1, <2>2 DEF More
<1>4. ChainsStay(S, a, b, at, endA, endB)
  BY <1>2, <1>3 DEF ChainsStay
<1>5. PICK f : ChainsBy(f, S, a, b, at, endA, endB) /\ Chains(a, b, at, endA, endB) = f[Places(at, endA)]
  BY <1>4, ChainsClimb
<1>6. f[Places(at, endA)] \in S
  BY <1>2, <1>5 DEF ChainsBy
<1> QED  BY <1>1, <1>5, <1>6

(* What the library keeps is alike. *)
LEMMA KeptHolds ==
  ASSUME NEW T, NEW a \in Seq(T), NEW b \in Seq(T), NEW kept \in KeptPairs(a, b)
  PROVE  kept \subseteq SamePlaces(a, b)
<1>1. PICK m \in Nat, n \in Nat : m = Len(a) /\ n = Len(b)
  BY LenProperties
<1>2. PICK h \in Nat : h = Alike(a, b) /\ h <= m /\ h <= n /\ \A i \in 1 .. h : a[i] = b[i]
  BY <1>1, AlikeHolds
<1>3. PICK p \in Seq(T), q \in Seq(T) :
        /\ p = Backwards(a, h) /\ Len(p) = m - h /\ \A k \in 1 .. m - h : p[k] = a[m - k + 1]
        /\ q = Backwards(b, h) /\ Len(q) = n - h /\ \A k \in 1 .. n - h : q[k] = b[n - k + 1]
  <2>1. h \in 0 .. Len(a) /\ h \in 0 .. Len(b)
    BY <1>1, <1>2
  <2>2. /\ Backwards(a, h) \in Seq(T) /\ Len(Backwards(a, h)) = Len(a) - h
        /\ \A k \in 1 .. Len(a) - h : Backwards(a, h)[k] = a[Len(a) - k + 1]
    BY <2>1, TailHolds
  <2>3. /\ Backwards(b, h) \in Seq(T) /\ Len(Backwards(b, h)) = Len(b) - h
        /\ \A k \in 1 .. Len(b) - h : Backwards(b, h)[k] = b[Len(b) - k + 1]
    BY <2>1, TailHolds
  <2>4. PICK p, q : p = Backwards(a, h) /\ q = Backwards(b, h)
    OBVIOUS
  <2> QED  BY <1>1, <2>2, <2>3, <2>4
<1>4. PICK t \in Nat : t = Alike(p, q) /\ t <= m - h /\ t <= n - h /\ \A k \in 1 .. t : p[k] = q[k]
  <2>1. /\ Alike(p, q) \in Nat /\ Alike(p, q) <= Len(p) /\ Alike(p, q) <= Len(q)
        /\ \A i \in 1 .. Alike(p, q) : p[i] = q[i]
    BY AlikeHolds
  <2>2. PICK t : t = Alike(p, q)
    OBVIOUS
  <2> QED  BY <1>3, <2>1, <2>2
<1>5. PICK middle \in Longest(Chains(a, b, h + 1, m - t, n - t)) :
        kept = middle \cup {<<i, i>> : i \in 1 .. h} \cup {<<i, i + (n - m)>> : i \in m - t + 1 .. m}
  BY <1>1, <1>2, <1>3, <1>4 DEF KeptPairs, Backwards
<1>6. PICK c \in Chains(a, b, h + 1, m - t, n - t) : middle = c.pairs
  BY <1>5 DEF Longest
<1>7. middle \subseteq SamePlaces(a, b)
  <2>1. h + 1 \in Int /\ m - t \in Int /\ n - t \in Int /\ h + 1 <= (m - t) + 1
    <3>1. /\ h \in Nat /\ t \in Nat /\ m \in Nat /\ n \in Nat
          /\ t <= m - h /\ t <= n - h
      BY <1>1, <1>2, <1>4
    <3> QED  BY <3>1
  <2> QED  BY <1>6, <2>1, ChainsHold
<1>8. ASSUME NEW i \in 1 .. h PROVE <<i, i>> \in SamePlaces(a, b)
  BY <1>2, <1>8 DEF SamePlaces
<1>9. ASSUME NEW i \in m - t + 1 .. m PROVE <<i, i + (n - m)>> \in SamePlaces(a, b)
  <2>1. PICK k : k = m - i + 1
    OBVIOUS
  <2>2. k \in 1 .. t /\ m - k + 1 = i /\ n - k + 1 = i + (n - m)
    BY <1>9, <2>1
  <2>3. k \in 1 .. m - h /\ k \in 1 .. n - h
    BY <1>4, <2>2
  <2>4. i \in Int /\ i + (n - m) \in Int
    BY <1>9
  <2>5. a[i] = b[i + (n - m)]
    BY <1>3, <1>4, <2>2, <2>3
  <2> QED  BY <2>4, <2>5 DEF SamePlaces
<1> QED  BY <1>5, <1>7, <1>8, <1>9

----------------------------------------------------------------------------
Tagged(op, t) == [op |-> op, toks |-> <<t>>]

(* One operation for each token. *)
LEMMA OpsHold ==
  ASSUME NEW T, NEW toks \in Seq(T), NEW op, NEW R, \A t \in T : Tagged(op, t) \in R
  PROVE  /\ Ops(op, toks) \in Seq(R)
         /\ \A t : Member(t, toks) => Member(Tagged(op, t), Ops(op, toks))
<1>1. PICK n \in Nat : n = Len(toks) /\ DOMAIN toks = 1 .. n /\ \A k \in 1 .. n : toks[k] \in T
  BY LenProperties, ElementOfSeq
<1>2. PICK s : s = Ops(op, toks) /\ s = [k \in 1 .. n |-> Tagged(op, toks[k])]
  BY <1>1 DEF Ops, Tagged
<1>3. s \in Seq(R) /\ Len(s) = n
  <2>1. s \in [1 .. n -> R]
    BY <1>1, <1>2
  <2>2. s \in Seq(R)
    BY <1>1, <2>1, SeqDef
  <2> QED  BY <1>1, <1>2, <2>2, LenProperties
<1>4. ASSUME NEW t, Member(t, toks) PROVE Member(Tagged(op, t), s)
  <2>1. PICK k \in 1 .. n : toks[k] = t
    BY <1>1, <1>4 DEF Member
  <2> QED  BY <1>2, <1>3, <2>1 DEF Member
<1> QED  BY <1>2, <1>3, <1>4

(* What is inserted before a place, and the script with the next token of the
   text before. *)
Filled(b, s, j) == s.ops \o Ops("ins", SubSeq(b, s.next, j - 1))

Partners(b, kept, i) == {j \in DOMAIN b : <<i, j>> \in kept}

Edit(a, b, kept, s, i) ==
  IF Partners(b, kept, i) = {} THEN [s EXCEPT !.ops = @ \o Ops("del", <<a[i]>>)]
  ELSE [ops |-> Filled(b, s, CHOOSE j \in Partners(b, kept, i) : TRUE) \o Ops("keep", <<a[i]>>),
        next |-> (CHOOSE j \in Partners(b, kept, i) : TRUE) + 1]

(* The script over more and more of the text before. *)
ScriptUpto(f, a, b, kept) ==
  f = [n \in 0 .. Len(a) |-> IF n = 0 THEN [ops |-> <<>>, next |-> 1] ELSE Edit(a, b, kept, f[n - 1], n)]

ScriptBy(f, S, a, b, kept) ==
  /\ f \in [0 .. Len(a) -> S] /\ f[0] = [ops |-> <<>>, next |-> 1]
  /\ \A n \in 1 .. Len(a) : f[n] = Edit(a, b, kept, f[n - 1], n)

ScriptStay(S, a, b, kept) ==
  /\ Len(a) \in Nat /\ [ops |-> <<>>, next |-> 1] \in S
  /\ \A n \in 1 .. Len(a) : \A x \in S : Edit(a, b, kept, x, n) \in S

(* The script grows token by token of the text before. *)
LEMMA ScriptClimbs ==
  ASSUME NEW S, NEW a, NEW b, NEW kept, ScriptStay(S, a, b, kept)
  PROVE  \E f : ScriptBy(f, S, a, b, kept) /\ Script(a, b, kept) = Filled(b, f[Len(a)], Len(b) + 1)
<1>1. PICK N \in Nat, base \in S :
        /\ N = Len(a) /\ base = [ops |-> <<>>, next |-> 1]
        /\ \A n \in 1 .. N : \A x \in S : Edit(a, b, kept, x, n) \in S
  BY DEF ScriptStay
<1>2. PICK step : step = [z \in Nat \X S |-> IF z[1] \in 1 .. N THEN Edit(a, b, kept, z[2], z[1]) ELSE base]
  OBVIOUS
<1>3. step \in [Nat \X S -> S]
  <2>1. \A z \in Nat \X S : z[2] \in S
    OBVIOUS
  <2>2. \A z \in Nat \X S : z[1] \in 1 .. N => Edit(a, b, kept, z[2], z[1]) \in S
    BY <1>1, <2>1
  <2> QED  BY <1>2, <2>2
<1>4. \A n \in 1 .. N : \A x \in S : step[<<n, x>>] = Edit(a, b, kept, x, n)
  <2>1. ASSUME NEW n \in 1 .. N, NEW x \in S
        PROVE  step[<<n, x>>] = Edit(a, b, kept, x, n)
    <3>1. PICK z : z = <<n, x>>
      OBVIOUS
    <3>2. z \in Nat \X S /\ z[1] = n /\ z[2] = x
      BY <3>1
    <3> QED  BY <1>2, <3>1, <3>2
  <2> QED  BY <2>1
<1>5. ASSUME NEW f, f = [n \in 0 .. N |-> f[n]], f[0] = base,
             \A n \in 1 .. N : f[n] = Edit(a, b, kept, f[n - 1], n)
      PROVE  ScriptUpto(f, a, b, kept)
  <2>1. \A n \in 0 .. N : n # 0 => n \in 1 .. N
    OBVIOUS
  <2>2. \A n \in 0 .. N : f[n] = IF n = 0 THEN base ELSE Edit(a, b, kept, f[n - 1], n)
    BY <1>5, <2>1
  <2>3. f = [n \in 0 .. N |-> IF n = 0 THEN base ELSE Edit(a, b, kept, f[n - 1], n)]
    BY <1>5, <2>2
  <2> QED  BY <1>1, <2>3 DEF ScriptUpto
<1>6. PICK g : ScriptUpto(g, a, b, kept)
  <2>1. PICK g : RecursiveUpto(g, N, S, base, step)
    BY <1>3, RecursionExists
  <2>2. g = [n \in 0 .. N |-> g[n]] /\ g[0] = base
    BY <2>1 DEF RecursiveUpto
  <2>3. ASSUME NEW n \in 1 .. N PROVE g[n] = Edit(a, b, kept, g[n - 1], n)
    <3>1. n - 1 \in 0 .. N
      OBVIOUS
    <3>2. g[n - 1] \in S /\ g[n] = step[<<n, g[n - 1]>>]
      BY <2>1, <3>1 DEF RecursiveUpto
    <3> QED  BY <1>4, <3>2
  <2> QED  BY <1>5, <2>2, <2>3
<1>7. PICK f : f = CHOOSE e : ScriptUpto(e, a, b, kept)
  OBVIOUS
<1>8. ScriptUpto(f, a, b, kept)
  BY <1>6, <1>7
<1>9. Script(a, b, kept) = Filled(b, f[N], Len(b) + 1)
  BY <1>1, <1>7, Zenon DEF Script, Filled, Partners, Edit, ScriptUpto
<1>10. /\ f = [n \in 0 .. N |-> f[n]] /\ f[0] = base
       /\ \A n \in 1 .. N : f[n] = Edit(a, b, kept, f[n - 1], n)
  <2>1. f = [n \in 0 .. N |-> IF n = 0 THEN base ELSE Edit(a, b, kept, f[n - 1], n)]
    BY <1>1, <1>8 DEF ScriptUpto
  <2>2. 0 \in 0 .. N /\ \A n \in 1 .. N : n \in 0 .. N /\ n # 0
    OBVIOUS
  <2> QED  BY <2>1, <2>2
<1>11. RecursiveUpto(f, N, S, base, step)
  <2>1. \A n \in 1 .. N : f[n - 1] \in S => f[n] = step[<<n, f[n - 1]>>]
    BY <1>4, <1>10
  <2> QED  BY <1>3, <1>10, <2>1, RecursionStays
<1> QED  BY <1>1, <1>9, <1>10, <1>11 DEF RecursiveUpto, ScriptBy

(* What is filled in covers the text after up to a place. *)
Covers(a, b, R, s) ==
  /\ s.ops \in Seq(R) /\ s.next \in 1 .. Len(b) + 1
  /\ \A i \in 1 .. s.next - 1 : Member(b[i], a) \/ Member(Tagged("ins", b[i]), s.ops)

(* A slice of a text has all the tokens between its ends. *)
LEMMA SliceHolds ==
  ASSUME NEW T, NEW b \in Seq(T), NEW m \in 1 .. Len(b) + 1, NEW j \in 1 .. Len(b) + 1
  PROVE  /\ SubSeq(b, m, j - 1) \in Seq(T)
         /\ \A i \in m .. j - 1 : Member(b[i], SubSeq(b, m, j - 1))
<1>1. PICK n, p : n \in Nat /\ n = Len(b) /\ p = SubSeq(b, m, j - 1)
  BY LenProperties
<1>2. m \in 1 .. n + 1 /\ j \in 1 .. n + 1 /\ \A i \in 1 .. n : b[i] \in T
  BY <1>1, ElementOfSeq
<1>3. CASE m <= j - 1
  <2>1. \A i \in m .. j - 1 : b[i] \in T
    BY <1>2
  <2>2. p \in Seq(T) /\ Len(p) = (j - 1) - m + 1
    BY <1>1, <1>2, <1>3, <2>1, SubSeqProperties
  <2>3. \A i \in 1 .. (j - 1) - m + 1 : p[i] = b[m + i - 1]
    BY <1>1, <1>2, <1>3, <2>1, SubSeqProperties
  <2>4. ASSUME NEW i \in m .. j - 1 PROVE Member(b[i], p)
    <3>1. PICK k : k = i - m + 1
      OBVIOUS
    <3>2. k \in 1 .. (j - 1) - m + 1 /\ m + k - 1 = i
      BY <1>2, <3>1
    <3> QED  BY <2>2, <2>3, <3>2 DEF Member
  <2> QED  BY <1>1, <2>2, <2>4
<1>4. CASE ~(m <= j - 1)
  <2>1. m .. j - 1 = {}
    BY <1>2, <1>4
  <2>2. p = <<>>
    BY <1>1, <1>2, <1>4, SubSeqProperties
  <2> QED  BY <1>1, <2>1, <2>2
<1> QED  BY <1>3, <1>4

(* What is put in before a kept token is of the text after. *)
LEMMA FilledHolds ==
  ASSUME NEW T, NEW a, NEW b \in Seq(T), NEW R, \A t \in T : Tagged("ins", t) \in R,
         NEW s, Covers(a, b, R, s), NEW j \in 1 .. Len(b) + 1
  PROVE  /\ Filled(b, s, j) \in Seq(R)
         /\ \A i \in 1 .. j - 1 : Member(b[i], a) \/ Member(Tagged("ins", b[i]), Filled(b, s, j))
<1>1. PICK n \in Nat, m \in 1 .. Len(b) + 1 : n = Len(b) /\ m = s.next /\ m \in 1 .. n + 1
  <2>1. s.next \in 1 .. Len(b) + 1
    BY DEF Covers
  <2> QED  BY <2>1, LenProperties
<1>2. j \in 1 .. n + 1
  BY <1>1
<1>3. PICK p \in Seq(T) : p = SubSeq(b, m, j - 1) /\ \A i \in m .. j - 1 : Member(b[i], p)
  BY SliceHolds
<1>4. PICK q \in Seq(R) : q = Ops("ins", p) /\ \A t : Member(t, p) => Member(Tagged("ins", t), q)
  BY <1>3, OpsHold
<1>5. PICK o \in Seq(R) : o = s.ops /\ \A i \in 1 .. m - 1 : Member(b[i], a) \/ Member(Tagged("ins", b[i]), o)
  BY <1>1 DEF Covers
<1>6. o \o q \in Seq(R) /\ \A x : Member(x, o \o q) <=> Member(x, o) \/ Member(x, q)
  BY MembersOfBoth
<1>7. ASSUME NEW i \in 1 .. j - 1
      PROVE  Member(b[i], a) \/ Member(Tagged("ins", b[i]), o \o q)
  <2>1. i \in 1 .. m - 1 \/ i \in m .. j - 1
    BY <1>1, <1>2
  <2>2. CASE i \in 1 .. m - 1
    BY <1>5, <1>6, <2>2
  <2>3. CASE i \in m .. j - 1
    BY <1>3, <1>4, <1>6, <2>3
  <2> QED  BY <2>1, <2>2, <2>3
<1> QED  BY <1>1, <1>3, <1>4, <1>5, <1>6, <1>7 DEF Filled

(* Every token of the text after is inserted, or it is one of the text before. *)
Accepts(R, T, a) ==
  /\ \A t \in T : Tagged("ins", t) \in R
  /\ \A t : Member(t, a) => Tagged("keep", t) \in R /\ Tagged("del", t) \in R

LEMMA ScriptHolds ==
  ASSUME NEW T, NEW a \in Seq(T), NEW b \in Seq(T), NEW kept \in SUBSET SamePlaces(a, b),
         NEW R, Accepts(R, T, a), NEW t, Member(t, b)
  PROVE  /\ Script(a, b, kept) \in Seq(R)
         /\ Member(t, a) \/ Member(Tagged("ins", t), Script(a, b, kept))
<1>0. /\ \A x \in T : Tagged("ins", x) \in R
      /\ \A x : Member(x, a) => Tagged("keep", x) \in R /\ Tagged("del", x) \in R
  BY DEF Accepts
<1>1. PICK m \in Nat, n \in Nat : m = Len(a) /\ n = Len(b) /\ DOMAIN b = 1 .. n
  BY LenProperties
<1>2. PICK S : S = {s \in [ops : Seq(R), next : 1 .. n + 1] : Covers(a, b, R, s)}
  OBVIOUS
<1>3. ASSUME NEW i \in 1 .. m, NEW op \in {"keep", "del"}
      PROVE  Ops(op, <<a[i]>>) \in Seq(R)
  <2>1. Member(a[i], a) /\ Tagged(op, a[i]) \in R
    BY <1>0, <1>1 DEF Member
  <2>2. <<a[i]>> \in Seq({a[i]})
    BY MembersOfFew
  <2> QED  BY <2>1, <2>2, OpsHold
<1>4. ASSUME NEW i \in 1 .. m, NEW s \in S
      PROVE  Edit(a, b, kept, s, i) \in S
  <2>1. Covers(a, b, R, s)
    BY <1>2
  <2>2. CASE Partners(b, kept, i) = {}
    <3>1. PICK o \in Seq(R), x \in 1 .. n + 1 :
            s.ops = o /\ s.next = x /\ s = [ops |-> o, next |-> x]
            /\ \A k \in 1 .. x - 1 : Member(b[k], a) \/ Member(Tagged("ins", b[k]), o)
      BY <1>1, <1>2, <2>1 DEF Covers
    <3>2. PICK q \in Seq(R) : q = Ops("del", <<a[i]>>)
      BY <1>3
    <3>3. o \o q \in Seq(R) /\ \A y : Member(y, o \o q) <=> Member(y, o) \/ Member(y, q)
      BY MembersOfBoth
    <3>4. Edit(a, b, kept, s, i) = [ops |-> o \o q, next |-> x]
      BY <2>2, <3>1, <3>2 DEF Edit
    <3>5. PICK r : r = [ops |-> o \o q, next |-> x]
      OBVIOUS
    <3>6. r.ops = o \o q /\ r.next = x /\ r \in [ops : Seq(R), next : 1 .. n + 1]
      BY <3>3, <3>5
    <3>7. Covers(a, b, R, r)
      BY <1>1, <3>1, <3>3, <3>6 DEF Covers
    <3> QED  BY <1>2, <3>4, <3>5, <3>6, <3>7
  <2>3. CASE Partners(b, kept, i) # {}
    <3>1. PICK j : j = (CHOOSE k \in Partners(b, kept, i) : TRUE)
      OBVIOUS
    <3>2. j \in Partners(b, kept, i)
      BY <2>3, <3>1
    <3>3. j \in 1 .. n /\ a[i] = b[j]
      <4>1. j \in 1 .. n /\ <<i, j>> \in kept
        BY <1>1, <3>2 DEF Partners
      <4> QED  BY <4>1 DEF SamePlaces
    <3>4. PICK p \in Seq(R) : p = Filled(b, s, j)
                 /\ \A k \in 1 .. j - 1 : Member(b[k], a) \/ Member(Tagged("ins", b[k]), p)
      <4>1. j \in 1 .. Len(b) + 1
        BY <1>1, <3>3
      <4> QED  BY <1>0, <2>1, <4>1, FilledHolds
    <3>5. PICK q \in Seq(R) : q = Ops("keep", <<a[i]>>)
      BY <1>3
    <3>6. p \o q \in Seq(R) /\ \A y : Member(y, p \o q) <=> Member(y, p) \/ Member(y, q)
      BY MembersOfBoth
    <3>7. PICK r : r = [ops |-> p \o q, next |-> j + 1]
      OBVIOUS
    <3>8. Edit(a, b, kept, s, i) = r
      BY <2>3, <3>1, <3>4, <3>5, <3>7 DEF Edit
    <3>9. r.ops = p \o q /\ r.next = j + 1 /\ j + 1 \in 1 .. n + 1
          /\ r \in [ops : Seq(R), next : 1 .. n + 1]
      BY <3>3, <3>6, <3>7
    <3>10. ASSUME NEW k \in 1 .. (j + 1) - 1
           PROVE  Member(b[k], a) \/ Member(Tagged("ins", b[k]), p \o q)
      <4>1. k \in 1 .. j - 1 \/ k = j
        BY <3>3
      <4>2. Member(b[j], a)
        BY <1>1, <3>3 DEF Member
      <4> QED  BY <3>4, <3>6, <4>1, <4>2
    <3>11. Covers(a, b, R, r)
      BY <1>1, <3>6, <3>9, <3>10 DEF Covers
    <3> QED  BY <1>2, <3>8, <3>9, <3>11
  <2> QED  BY <2>2, <2>3
<1>5. [ops |-> <<>>, next |-> 1] \in S
  <2>1. PICK s : s = [ops |-> <<>>, next |-> 1]
    OBVIOUS
  <2>2. s.ops = <<>> /\ s.next = 1 /\ <<>> \in Seq(R) /\ 1 \in 1 .. n + 1 /\ 1 .. 1 - 1 = {}
    BY <2>1, EmptySeq
  <2>3. Covers(a, b, R, s)
    BY <1>1, <2>2 DEF Covers
  <2>4. s \in [ops : Seq(R), next : 1 .. n + 1]
    BY <2>1, <2>2
  <2> QED  BY <1>2, <2>1, <2>3, <2>4
<1>6. ScriptStay(S, a, b, kept)
  BY <1>1, <1>4, <1>5 DEF ScriptStay
<1>7. PICK s \in S : Script(a, b, kept) = Filled(b, s, Len(b) + 1)
  <2>1. PICK f : ScriptBy(f, S, a, b, kept) /\ Script(a, b, kept) = Filled(b, f[Len(a)], Len(b) + 1)
    BY <1>6, ScriptClimbs
  <2>2. f[Len(a)] \in S
    BY <1>1, <2>1 DEF ScriptBy
  <2> QED  BY <2>1, <2>2
<1>8. /\ Filled(b, s, n + 1) \in Seq(R)
      /\ \A i \in 1 .. (n + 1) - 1 : Member(b[i], a) \/ Member(Tagged("ins", b[i]), Filled(b, s, n + 1))
  <2>1. Covers(a, b, R, s) /\ n + 1 \in 1 .. Len(b) + 1
    BY <1>1, <1>2
  <2> QED  BY <1>0, <2>1, FilledHolds
<1>9. (n + 1) - 1 = n
  OBVIOUS
<1>10. PICK i \in 1 .. n : b[i] = t
  BY <1>1 DEF Member
<1> QED  BY <1>1, <1>7, <1>8, <1>9, <1>10

----------------------------------------------------------------------------
(* The spans of a report: what is not inserted is of the text before. *)
Spans(T, A) == [op : {"ins"}, toks : Seq(T)] \cup [op : {"keep", "del"}, toks : Seq(A)]

Shows(ops, op, t) == \E k \in 1 .. Len(ops) : ops[k].op = op /\ Member(t, ops[k].toks)

(* A span is its operation and its tokens. *)
LEMMA SpanType ==
  ASSUME NEW T, NEW A, NEW o \in Spans(T, A)
  PROVE  /\ o = [op |-> o.op, toks |-> o.toks] /\ o.op \in {"ins", "keep", "del"}
         /\ o.op = "ins" => o.toks \in Seq(T)
         /\ o.op # "ins" => o.toks \in Seq(A)
<1>1. CASE o \in [op : {"ins"}, toks : Seq(T)]
  BY <1>1
<1>2. CASE o \in [op : {"keep", "del"}, toks : Seq(A)]
  BY <1>2
<1> QED  BY <1>1, <1>2 DEF Spans

(* A space is taken for kept: no other edit goes. *)
LEMMA SuppressedHolds ==
  ASSUME NEW T, NEW A, Space \in A, NEW ops \in Seq(Spans(T, A)), NEW op
  PROVE  /\ Suppressed(ops) \in Seq(Spans(T, A))
         /\ \A t : t # Space /\ Shows(ops, op, t) => Shows(Suppressed(ops), op, t)
<1>1. PICK n \in Nat : n = Len(ops) /\ DOMAIN ops = 1 .. n
  BY LenProperties
<1>2. PICK s : s = Suppressed(ops)
              /\ s = [k \in 1 .. n |-> IF ops[k].toks = <<Space>> THEN [ops[k] EXCEPT !.op = "keep"]
                                       ELSE ops[k]]
  BY <1>1 DEF Suppressed
<1>3. ASSUME NEW k \in 1 .. n PROVE s[k] \in Spans(T, A)
  <2>1. PICK o \in Spans(T, A) : o = ops[k]
    BY <1>1, ElementOfSeq
  <2>2. CASE o.toks = <<Space>>
    <3>1. s[k] = [op |-> "keep", toks |-> <<Space>>]
      <4>1. PICK kind, toks : o = [op |-> kind, toks |-> toks]
        BY SpanType
      <4>2. toks = <<Space>>
        BY <2>2, <4>1
      <4>3. s[k] = [o EXCEPT !.op = "keep"]
        BY <1>2, <2>1, <2>2
      <4> QED  BY <4>1, <4>2, <4>3
    <3>2. <<Space>> \in Seq(A)
      BY MembersOfFew
    <3> QED  BY <3>1, <3>2 DEF Spans
  <2>3. CASE o.toks # <<Space>>
    BY <1>2, <2>1, <2>3
  <2> QED  BY <2>2, <2>3
<1>4. s \in Seq(Spans(T, A)) /\ Len(s) = n
  <2>1. s \in [1 .. n -> Spans(T, A)]
    BY <1>2, <1>3
  <2>2. s \in Seq(Spans(T, A))
    BY <1>1, <2>1, SeqDef
  <2> QED  BY <1>1, <1>2, <2>2, LenProperties
<1>5. ASSUME NEW t, t # Space, Shows(ops, op, t) PROVE Shows(s, op, t)
  <2>1. PICK k \in 1 .. n : ops[k].op = op /\ Member(t, ops[k].toks)
    BY <1>1, <1>5 DEF Shows
  <2>2. ~Member(t, <<Space>>)
    BY <1>5, MembersOfFew
  <2>3. s[k] = ops[k]
    BY <1>2, <2>1, <2>2
  <2> QED  BY <1>4, <2>1, <2>3 DEF Shows
<1> QED  BY <1>2, <1>4, <1>5

(* Spans of one kind that follow one another are joined. *)
Adjoin(ops, spans, n) ==
  IF spans = <<>> \/ Last(spans).op # ops[n].op THEN Append(spans, ops[n])
  ELSE [spans EXCEPT ![Len(spans)].toks = @ \o ops[n].toks]

(* The spans of more and more operations. *)
SpansUpto(f, ops) ==
  f = [n \in 0 .. Len(ops) |-> IF n = 0 THEN <<>> ELSE Adjoin(ops, f[n - 1], n)]

SpansBy(f, S, ops) ==
  /\ f \in [0 .. Len(ops) -> S] /\ f[0] = <<>>
  /\ \A n \in 1 .. Len(ops) : f[n] = Adjoin(ops, f[n - 1], n)

SpansStay(S, ops) ==
  /\ Len(ops) \in Nat /\ <<>> \in S
  /\ \A n \in 1 .. Len(ops) : \A x \in S : Adjoin(ops, x, n) \in S

(* The spans grow operation by operation. *)
LEMMA CoalescedClimbs ==
  ASSUME NEW S, NEW ops, SpansStay(S, ops)
  PROVE  \E f : SpansBy(f, S, ops) /\ Coalesced(ops) = f[Len(ops)]
<1>1. PICK N \in Nat, base \in S :
        /\ N = Len(ops) /\ base = <<>>
        /\ \A n \in 1 .. N : \A x \in S : Adjoin(ops, x, n) \in S
  BY DEF SpansStay
<1>2. PICK step : step = [z \in Nat \X S |-> IF z[1] \in 1 .. N THEN Adjoin(ops, z[2], z[1]) ELSE base]
  OBVIOUS
<1>3. step \in [Nat \X S -> S]
  <2>1. \A z \in Nat \X S : z[2] \in S
    OBVIOUS
  <2>2. \A z \in Nat \X S : z[1] \in 1 .. N => Adjoin(ops, z[2], z[1]) \in S
    BY <1>1, <2>1
  <2> QED  BY <1>2, <2>2
<1>4. \A n \in 1 .. N : \A x \in S : step[<<n, x>>] = Adjoin(ops, x, n)
  <2>1. ASSUME NEW n \in 1 .. N, NEW x \in S
        PROVE  step[<<n, x>>] = Adjoin(ops, x, n)
    <3>1. PICK z : z = <<n, x>>
      OBVIOUS
    <3>2. z \in Nat \X S /\ z[1] = n /\ z[2] = x
      BY <3>1
    <3> QED  BY <1>2, <3>1, <3>2
  <2> QED  BY <2>1
<1>5. ASSUME NEW f, f = [n \in 0 .. N |-> f[n]], f[0] = base,
             \A n \in 1 .. N : f[n] = Adjoin(ops, f[n - 1], n)
      PROVE  SpansUpto(f, ops)
  <2>1. \A n \in 0 .. N : n # 0 => n \in 1 .. N
    OBVIOUS
  <2>2. \A n \in 0 .. N : f[n] = IF n = 0 THEN base ELSE Adjoin(ops, f[n - 1], n)
    BY <1>5, <2>1
  <2>3. f = [n \in 0 .. N |-> IF n = 0 THEN base ELSE Adjoin(ops, f[n - 1], n)]
    BY <1>5, <2>2
  <2> QED  BY <1>1, <2>3 DEF SpansUpto
<1>6. PICK g : SpansUpto(g, ops)
  <2>1. PICK g : RecursiveUpto(g, N, S, base, step)
    BY <1>3, RecursionExists
  <2>2. g = [n \in 0 .. N |-> g[n]] /\ g[0] = base
    BY <2>1 DEF RecursiveUpto
  <2>3. ASSUME NEW n \in 1 .. N PROVE g[n] = Adjoin(ops, g[n - 1], n)
    <3>1. n - 1 \in 0 .. N
      OBVIOUS
    <3>2. g[n - 1] \in S /\ g[n] = step[<<n, g[n - 1]>>]
      BY <2>1, <3>1 DEF RecursiveUpto
    <3> QED  BY <1>4, <3>2
  <2> QED  BY <1>5, <2>2, <2>3
<1>7. PICK f : f = CHOOSE e : SpansUpto(e, ops)
  OBVIOUS
<1>8. SpansUpto(f, ops)
  BY <1>6, <1>7
<1>9. Coalesced(ops) = f[N]
  BY <1>1, <1>7, Zenon DEF Coalesced, Adjoin, SpansUpto
<1>10. /\ f = [n \in 0 .. N |-> f[n]] /\ f[0] = base
       /\ \A n \in 1 .. N : f[n] = Adjoin(ops, f[n - 1], n)
  <2>1. f = [n \in 0 .. N |-> IF n = 0 THEN base ELSE Adjoin(ops, f[n - 1], n)]
    BY <1>1, <1>8 DEF SpansUpto
  <2>2. 0 \in 0 .. N /\ \A n \in 1 .. N : n \in 0 .. N /\ n # 0
    OBVIOUS
  <2> QED  BY <2>1, <2>2
<1>11. RecursiveUpto(f, N, S, base, step)
  <2>1. \A n \in 1 .. N : f[n - 1] \in S => f[n] = step[<<n, f[n - 1]>>]
    BY <1>4, <1>10
  <2> QED  BY <1>3, <1>10, <2>1, RecursionStays
<1> QED  BY <1>1, <1>9, <1>10, <1>11 DEF RecursiveUpto, SpansBy

(* An operation joins the last span or starts one: no token is lost. *)
LEMMA AdjoinHolds ==
  ASSUME NEW T, NEW A, NEW spans \in Seq(Spans(T, A)), NEW ops, NEW n, NEW o \in Spans(T, A),
         o = ops[n], NEW op
  PROVE  /\ Adjoin(ops, spans, n) \in Seq(Spans(T, A))
         /\ \A t : Shows(spans, op, t) => Shows(Adjoin(ops, spans, n), op, t)
         /\ \A t : o.op = op /\ Member(t, o.toks) => Shows(Adjoin(ops, spans, n), op, t)
<1>1. PICK q : q = Adjoin(ops, spans, n)
  OBVIOUS
<1>2. PICK l \in Nat : /\ l = Len(spans) /\ DOMAIN spans = 1 .. l
                       /\ \A k \in 1 .. l : spans[k] \in Spans(T, A)
  BY LenProperties, ElementOfSeq
<1>3. CASE spans = <<>> \/ Last(spans).op # o.op
  <2>1. q = Append(spans, o)
    BY <1>1, <1>3 DEF Adjoin
  <2>2. /\ q \in Seq(Spans(T, A)) /\ Len(q) = l + 1 /\ q[l + 1] = o
        /\ \A k \in 1 .. l : q[k] = spans[k]
    BY <1>2, <2>1, AppendProperties
  <2>3. l + 1 \in 1 .. l + 1 /\ \A k \in 1 .. l : k \in 1 .. l + 1
    BY <1>2
  <2>4. \A t : Shows(spans, op, t) => Shows(q, op, t)
    BY <1>2, <2>2, <2>3 DEF Shows
  <2>5. \A t : o.op = op /\ Member(t, o.toks) => Shows(q, op, t)
    BY <2>2, <2>3 DEF Shows
  <2> QED  BY <1>1, <2>2, <2>4, <2>5
<1>4. CASE spans # <<>> /\ Last(spans).op = o.op
  <2>1. q = [spans EXCEPT ![l].toks = @ \o o.toks]
    BY <1>1, <1>2, <1>4, Zenon DEF Adjoin
  <2>2. l \in 1 .. l /\ spans[l].op = o.op
    <3>1. l # 0
      BY <1>2, <1>4, EmptySeq
    <3> QED  BY <1>2, <1>4, <3>1 DEF Last
  <2>3. PICK x \in Spans(T, A) : x = spans[l] /\ x = [op |-> o.op, toks |-> x.toks]
    <3>1. spans[l] \in Spans(T, A)
      BY <1>2, <2>2
    <3> QED  BY <2>2, <3>1, SpanType
  <2>4. PICK y : y = [op |-> o.op, toks |-> x.toks \o o.toks]
    OBVIOUS
  <2>5. [x EXCEPT !.toks = @ \o o.toks] = y
    <3>1. PICK kind, toks : x = [op |-> kind, toks |-> toks]
      BY <2>3
    <3>2. x.op = kind /\ x.toks = toks /\ x.op = o.op
      BY <2>3, <3>1
    <3>3. PICK z, e : z = [x EXCEPT !.toks = e] /\ e = x.toks \o o.toks
      OBVIOUS
    <3>4. DOMAIN z = {"op", "toks"} /\ z = [i \in {"op", "toks"} |-> z[i]]
      BY <3>1, <3>3
    <3>5. z["op"] = kind /\ z["toks"] = e
      BY <3>1, <3>3
    <3>6. z = [op |-> kind, toks |-> e]
      BY <3>4, <3>5
    <3> QED  BY <2>4, <3>2, <3>3, <3>6
  <2>6. q = [spans EXCEPT ![l] = y]
    BY <2>1, <2>3, <2>5
  <2>7. /\ y \in Spans(T, A) /\ y.op = o.op
        /\ \A t : Member(t, x.toks) \/ Member(t, o.toks) => Member(t, y.toks)
    <3>1. CASE o.op = "ins"
      <4>1. x.op = o.op
        BY <2>3
      <4>2. x.toks \in Seq(T) /\ o.toks \in Seq(T)
        BY <3>1, <4>1, SpanType
      <4>3. x.toks \o o.toks \in Seq(T)
            /\ \A t : Member(t, x.toks) \/ Member(t, o.toks) <=> Member(t, x.toks \o o.toks)
        BY <4>2, MembersOfBoth
      <4> QED  BY <2>4, <3>1, <4>3 DEF Spans
    <3>2. CASE o.op # "ins"
      <4>1. x.op = o.op
        BY <2>3
      <4>2. x.toks \in Seq(A) /\ o.toks \in Seq(A) /\ o.op \in {"keep", "del"}
        BY <3>2, <4>1, SpanType
      <4>3. x.toks \o o.toks \in Seq(A)
            /\ \A t : Member(t, x.toks) \/ Member(t, o.toks) <=> Member(t, x.toks \o o.toks)
        BY <4>2, MembersOfBoth
      <4> QED  BY <2>4, <3>2, <4>2, <4>3 DEF Spans
    <3> QED  BY <3>1, <3>2
  <2>8. q \in Seq(Spans(T, A)) /\ Len(q) = l /\ \A k \in 1 .. l : q[k] = IF k = l THEN y ELSE spans[k]
    <3>1. q = [k \in 1 .. l |-> IF k = l THEN y ELSE spans[k]]
      BY <1>2, <2>6
    <3>2. q \in [1 .. l -> Spans(T, A)]
      BY <1>2, <2>7, <3>1
    <3>3. q \in Seq(Spans(T, A))
      BY <1>2, <3>2, SeqDef
    <3> QED  BY <1>2, <3>1, <3>3, LenProperties
  <2>9. ASSUME NEW t, Shows(spans, op, t) PROVE Shows(q, op, t)
    <3>1. PICK k \in 1 .. l : spans[k].op = op /\ Member(t, spans[k].toks)
      BY <1>2, <2>9 DEF Shows
    <3>2. q[k].op = op /\ Member(t, q[k].toks)
      BY <2>2, <2>3, <2>7, <2>8, <3>1
    <3> QED  BY <2>8, <3>2 DEF Shows
  <2>10. ASSUME NEW t, o.op = op, Member(t, o.toks) PROVE Shows(q, op, t)
    <3>1. q[l].op = op /\ Member(t, q[l].toks)
      BY <2>2, <2>7, <2>8, <2>10
    <3> QED  BY <2>2, <2>8, <3>1 DEF Shows
  <2> QED  BY <1>1, <2>8, <2>9, <2>10
<1> QED  BY <1>3, <1>4

(* The spans show what the operations do. *)
LEMMA CoalescedHolds ==
  ASSUME NEW T, NEW A, NEW ops \in Seq(Spans(T, A)), NEW op
  PROVE  /\ Coalesced(ops) \in Seq(Spans(T, A))
         /\ \A t : Shows(ops, op, t) => Shows(Coalesced(ops), op, t)
<1>1. PICK N \in Nat : N = Len(ops) /\ \A n \in 1 .. N : ops[n] \in Spans(T, A)
  BY LenProperties, ElementOfSeq
<1>2. PICK S : S = Seq(Spans(T, A))
  OBVIOUS
<1>3. ASSUME NEW n \in 1 .. N, NEW q \in S
      PROVE  /\ Adjoin(ops, q, n) \in S
             /\ \A t : Shows(q, op, t) => Shows(Adjoin(ops, q, n), op, t)
             /\ \A t : ops[n].op = op /\ Member(t, ops[n].toks) => Shows(Adjoin(ops, q, n), op, t)
  <2>1. ops[n] \in Spans(T, A)
    BY <1>1
  <2> QED  BY <1>2, <2>1, AdjoinHolds
<1>4. SpansStay(S, ops)
  BY <1>1, <1>2, <1>3, EmptySeq DEF SpansStay
<1>5. PICK f : SpansBy(f, S, ops) /\ Coalesced(ops) = f[Len(ops)]
  BY <1>4, CoalescedClimbs
<1>6. \A n \in 0 .. N : f[n] \in S
  BY <1>1, <1>5 DEF SpansBy
<1>7. SUFFICES ASSUME NEW t, NEW k \in 1 .. N, ops[k].op = op /\ Member(t, ops[k].toks)
               PROVE  Shows(f[N], op, t)
  <2>1. Coalesced(ops) = f[N] /\ f[N] \in Seq(Spans(T, A))
    BY <1>1, <1>2, <1>5, <1>6
  <2> QED  BY <1>1, <2>1 DEF Shows
<1> DEFINE ok == {n \in Nat : k <= n /\ n <= N => Shows(f[n], op, t)}
<1>8. 0 \in ok
  OBVIOUS
<1>9. ASSUME NEW n \in Nat, n \in ok PROVE n + 1 \in ok
  <2>1. SUFFICES ASSUME k <= n + 1, n + 1 <= N PROVE Shows(f[n + 1], op, t)
    OBVIOUS
  <2>2. PICK i \in 1 .. N, q \in S : i = n + 1 /\ q = f[n] /\ i - 1 = n
    BY <1>6, <2>1
  <2>3. f[i] = Adjoin(ops, q, i)
    BY <1>1, <1>5, <2>2 DEF SpansBy
  <2>4. CASE k = i
    BY <1>3, <1>7, <2>2, <2>3, <2>4
  <2>5. CASE k # i
    <3>1. k <= n /\ n <= N
      BY <2>1, <2>2, <2>5
    <3>2. Shows(q, op, t)
      BY <1>9, <2>2, <3>1
    <3> QED  BY <1>3, <2>2, <2>3, <3>2
  <2> QED  BY <2>4, <2>5
<1>10. N \in ok
  <2> HIDE DEF ok
  <2> QED  BY <1>8, <1>9, Induction
<1> QED  BY <1>10

(* No edit is elided. *)
LEMMA ElidedHolds ==
  ASSUME NEW T, NEW A, Ellipsis \in A, NEW ops \in Seq(Spans(T, A)),
         NEW op, op # "keep", NEW t, Shows(ops, op, t)
  PROVE  Elided(ops) \in Seq(Spans(T, A)) /\ Shows(Elided(ops), op, t)
<1>1. PICK N \in Nat : N = Len(ops) /\ \A n \in 1 .. N : ops[n] \in Spans(T, A)
  BY LenProperties, ElementOfSeq
<1> DEFINE Short(k) == Len(ops[k].toks) <= IF k \in {1, N} THEN Ctx ELSE 2 * Ctx
           Head1(toks) == SubSeq(toks, 1, Ctx)
           Tail1(toks) == SubSeq(toks, Len(toks) - Ctx + 1, Len(toks))
           Cut(k, toks) == (IF k = 1 THEN <<>> ELSE Head1(toks)) \o <<Ellipsis>>
                             \o (IF k = N THEN <<>> ELSE Tail1(toks))
           Span(k) == IF ops[k].op # "keep" \/ Short(k) THEN ops[k]
                      ELSE [ops[k] EXCEPT !.toks = Cut(k, @)]
<1>2. Elided(ops) = IF \A k \in 1 .. N : ops[k].op = "keep" THEN <<>> ELSE [k \in 1 .. N |-> Span(k)]
  BY <1>1, Zenon DEF Elided
<1>3. PICK m \in 1 .. N : ops[m].op = op /\ Member(t, ops[m].toks)
  BY <1>1 DEF Shows
<1>4. ASSUME NEW k \in 1 .. N PROVE Span(k) \in Spans(T, A)
  <2>1. PICK o \in Spans(T, A) : o = ops[k] /\ o = [op |-> o.op, toks |-> o.toks]
    <3>1. ops[k] \in Spans(T, A)
      BY <1>1
    <3> QED  BY <3>1, SpanType
  <2>2. CASE o.op # "keep" \/ Short(k)
    <3>1. Span(k) = ops[k]
      BY <2>1, <2>2
    <3> QED  BY <2>1, <3>1
  <2>3. CASE o.op = "keep" /\ ~Short(k)
    <3>1. PICK toks \in Seq(A), n \in Nat : toks = o.toks /\ n = Len(toks)
      BY <2>3, SpanType, LenProperties
    <3>2. \A i \in 1 .. n : toks[i] \in A
      BY <3>1, ElementOfSeq
    <3>3. Ctx \in Nat \ {0} /\ Ctx <= n
      BY <2>1, <2>3, <3>1, CtxAssumption
    <3>4. Head1(toks) \in Seq(A)
      <4>1. \A i \in 1 .. Ctx : toks[i] \in A
        BY <3>2, <3>3
      <4> QED  BY <3>3, <4>1, SubSeqProperties
    <3>5. Tail1(toks) \in Seq(A)
      <4>1. \A i \in n - Ctx + 1 .. n : toks[i] \in A
        BY <3>2, <3>3
      <4>2. SubSeq(toks, n - Ctx + 1, n) \in Seq(A)
        BY <3>3, <4>1, SubSeqProperties
      <4> QED  BY <3>1, <4>2
    <3>6. <<>> \in Seq(A) /\ <<Ellipsis>> \in Seq(A)
      BY EmptySeq, MembersOfFew
    <3>7. Cut(k, toks) \in Seq(A)
      <4>1. PICK p \in Seq(A), q \in Seq(A), e \in Seq(A) :
              /\ p = (IF k = 1 THEN <<>> ELSE Head1(toks)) /\ e = <<Ellipsis>>
              /\ q = (IF k = N THEN <<>> ELSE Tail1(toks))
        <5> HIDE DEF Head1, Tail1
        <5> QED  BY <3>4, <3>5, <3>6
      <4>2. (p \o e) \o q \in Seq(A)
        BY ConcatProperties
      <4> QED  BY <4>1, <4>2
    <3> HIDE DEF Cut, Short
    <3>8. Span(k) = [op |-> "keep", toks |-> Cut(k, toks)]
      BY <2>1, <2>3, <3>1
    <3> HIDE DEF Span
    <3> QED  BY <3>7, <3>8 DEF Spans
  <2> QED  BY <2>1, <2>2, <2>3
<1>5. Span(m) = ops[m]
  <2> HIDE DEF Short, Cut
  <2> QED  BY <1>3
<1>6. Elided(ops) = [k \in 1 .. N |-> Span(k)]
  BY <1>2, <1>3
<1> HIDE DEF Span
<1>7. Elided(ops) \in Seq(Spans(T, A)) /\ Len(Elided(ops)) = N
  <2>1. Elided(ops) \in [1 .. N -> Spans(T, A)]
    BY <1>4, <1>6
  <2>2. Elided(ops) \in Seq(Spans(T, A))
    BY <1>1, <2>1, SeqDef
  <2> QED  BY <1>1, <1>6, <2>2, LenProperties
<1>8. Elided(ops)[m] = ops[m]
  BY <1>5, <1>6
<1> QED  BY <1>3, <1>7, <1>8 DEF Shows

(* What a script does to a token but a space, the report shows. *)
LEMMA ReportShows ==
  ASSUME NEW T, NEW A, {Space, Ellipsis} \subseteq A, NEW script \in Seq(Spans(T, A)),
         NEW op, op # "keep", NEW t, t # Space, Member(Tagged(op, t), script)
  PROVE  /\ Elided(Coalesced(Suppressed(script))) \in Seq(Spans(T, A))
         /\ Shows(Elided(Coalesced(Suppressed(script))), op, t)
<1>1. Shows(script, op, t)
  <2>1. PICK k \in 1 .. Len(script) : script[k] = Tagged(op, t)
    BY DEF Member
  <2>2. Member(t, <<t>>)
    BY DEF Member
  <2> QED  BY <2>1, <2>2 DEF Shows, Tagged
<1>2. PICK quiet \in Seq(Spans(T, A)) : quiet = Suppressed(script) /\ Shows(quiet, op, t)
  BY <1>1, SuppressedHolds
<1>3. PICK spans \in Seq(Spans(T, A)) : spans = Coalesced(quiet) /\ Shows(spans, op, t)
  BY <1>2, CoalescedHolds
<1>4. Elided(spans) \in Seq(Spans(T, A)) /\ Shows(Elided(spans), op, t)
  BY <1>3, ElidedHolds
<1> QED  BY <1>2, <1>3, <1>4

(* Whatever script the library takes: a token of the text after alone is in an
   inserted span of the report, and no other span says more than the text
   before. *)
LEMMA ReportHolds ==
  ASSUME NEW T, NEW a \in Seq(T), NEW b \in Seq(T), NEW ops \in TokenDiffs(a, b),
         NEW A, {Space, Ellipsis} \subseteq A, \A x : Member(x, a) => x \in A,
         NEW t, Member(t, b), ~Member(t, a), t # Space
  PROVE  ops \in Seq(Spans(T, A)) /\ Shows(ops, "ins", t)
<1>1. PICK kept \in KeptPairs(a, b) : ops = Elided(Coalesced(Suppressed(Script(a, b, kept))))
  BY DEF TokenDiffs
<1>2. kept \in SUBSET SamePlaces(a, b)
  BY KeptHolds
<1>3. PICK R : R = Spans(T, A)
  OBVIOUS
<1>4. ASSUME NEW x \in T PROVE Tagged("ins", x) \in R
  <2>1. <<x>> \in Seq(T)
    BY MembersOfFew
  <2> QED  BY <1>3, <2>1 DEF Tagged, Spans
<1>5. ASSUME NEW x, Member(x, a) PROVE Tagged("keep", x) \in R /\ Tagged("del", x) \in R
  <2>1. <<x>> \in Seq(A)
    BY <1>5, MembersOfFew
  <2> QED  BY <1>3, <2>1 DEF Tagged, Spans
<1>6. PICK script \in Seq(Spans(T, A)) :
        script = Script(a, b, kept) /\ Member(Tagged("ins", t), script)
  <2>1. Accepts(R, T, a)
    BY <1>4, <1>5 DEF Accepts
  <2>2. /\ Script(a, b, kept) \in Seq(R)
        /\ Member(t, a) \/ Member(Tagged("ins", t), Script(a, b, kept))
    BY <1>2, <2>1, ScriptHolds
  <2> QED  BY <1>3, <2>2
<1> QED  BY <1>1, <1>6, ReportShows

----------------------------------------------------------------------------
(* A text says a word if a token of it, in lower case, contains the word. *)
Spoken(toks, stem) == \E k \in 1 .. Len(toks) : Lower[toks[k]] \in stem

(* To have a word as a phrase is to say it. *)
LEMMA HasSpoken ==
  ASSUME NEW T, NEW toks \in Seq(T), NEW phrase, Len(phrase) = 1
  PROVE  Has(Lowered(toks), phrase) <=> Spoken(toks, phrase[1])
<1>1. PICK n, s : n \in Nat /\ n = Len(toks) /\ s = Lowered(toks) /\ DOMAIN toks = 1 .. n
  BY LenProperties
<1>2. PICK U : U = {Lower[toks[k]] : k \in 1 .. n}
  OBVIOUS
<1>3. s = [k \in 1 .. n |-> Lower[toks[k]]]
  BY <1>1 DEF Lowered
<1>4. s \in Seq(U) /\ Len(s) = n
  <2>1. s \in [1 .. n -> U]
    BY <1>2, <1>3
  <2>2. s \in Seq(U)
    BY <1>1, <2>1, SeqDef
  <2> QED  BY <1>1, <1>3, <2>2, LenProperties
<1>5. ASSUME NEW k \in 0 .. n - 1
      PROVE  (\A i \in 1 .. 1 : s[k + i] \in phrase[i]) <=> s[k + 1] \in phrase[1]
  <2>1. \A i : i \in 1 .. 1 <=> i = 1
    OBVIOUS
  <2> QED  BY <2>1, Zenon
<1>6. Has(s, phrase) <=> \E k \in 0 .. n - 1 : s[k + 1] \in phrase[1]
  BY <1>4, <1>5 DEF Has
<1>7. (\E k \in 0 .. n - 1 : s[k + 1] \in phrase[1]) <=> \E k \in 1 .. n : s[k] \in phrase[1]
  <2>1. \A k \in 0 .. n - 1 : k + 1 \in 1 .. n
    BY <1>1
  <2>2. \A k \in 1 .. n : k - 1 \in 0 .. n - 1 /\ (k - 1) + 1 = k
    BY <1>1
  <2> QED  BY <2>1, <2>2
<1> QED  BY <1>1, <1>3, <1>6, <1>7 DEF Spoken

(* The text after holds what is inserted. *)
LEMMA AfterHolds ==
  ASSUME NEW T, NEW A \in SUBSET T, NEW ops \in Seq(Spans(T, A))
  PROVE  /\ AfterText(ops) \in Seq(T)
         /\ \A t : Shows(ops, "ins", t) => Member(t, AfterText(ops))
<1>1. PICK n \in Nat : n = Len(ops) /\ DOMAIN ops = 1 .. n /\ \A k \in 1 .. n : ops[k] \in Spans(T, A)
  BY LenProperties, ElementOfSeq
<1>2. PICK seqs : /\ seqs = [k \in 1 .. n |-> IF ops[k].op = "del" THEN <<>> ELSE ops[k].toks]
                  /\ AfterText(ops) = FlattenSeq(seqs)
  BY <1>1 DEF AfterText, SideOf
<1>3. ASSUME NEW k \in 1 .. n PROVE seqs[k] \in Seq(T)
  <2>1. ops[k].op # "del" => ops[k].toks \in Seq(T) \/ ops[k].toks \in Seq(A)
    BY <1>1, SpanType
  <2>2. <<>> \in Seq(T) /\ Seq(A) \subseteq Seq(T)
    BY EmptySeq
  <2> QED  BY <1>2, <2>1, <2>2
<1>4. seqs = [k \in 1 .. n |-> seqs[k]]
  BY <1>2
<1>5. AfterText(ops) \in Seq(T)
  BY <1>2, <1>3, <1>4, FlattenType
<1>6. ASSUME NEW t, Shows(ops, "ins", t) PROVE Member(t, AfterText(ops))
  <2>1. PICK k \in 1 .. n : ops[k].op = "ins" /\ Member(t, ops[k].toks)
    BY <1>1, <1>6 DEF Shows
  <2>2. PICK i \in 1 .. Len(seqs[k]) : seqs[k][i] = t
    BY <1>2, <2>1 DEF Member
  <2>3. \E m \in 1 .. Len(FlattenSeq(seqs)) : FlattenSeq(seqs)[m] = seqs[k][i]
    <3>1. seqs \in [1 .. n -> Seq(T)]
      BY <1>3, <1>4
    <3>2. HoldsAll(FlattenSeq(seqs), seqs[k])
      BY <3>1, FlattenHolds
    <3> QED  BY <2>2, <3>2 DEF HoldsAll
  <2> QED  BY <1>2, <2>2, <2>3 DEF Member
<1> QED  BY <1>5, <1>6

(* The text before, as it is read back, holds nothing that is inserted. *)
LEMMA BeforeHolds ==
  ASSUME NEW T, NEW A, NEW ops \in Seq(Spans(T, A))
  PROVE  BeforeText(ops) \in Seq(A)
<1>1. PICK n \in Nat : n = Len(ops) /\ DOMAIN ops = 1 .. n /\ \A k \in 1 .. n : ops[k] \in Spans(T, A)
  BY LenProperties, ElementOfSeq
<1>2. PICK seqs : /\ seqs = [k \in 1 .. n |-> IF ops[k].op = "ins" THEN <<>> ELSE ops[k].toks]
                  /\ BeforeText(ops) = FlattenSeq(seqs)
  BY <1>1 DEF BeforeText, SideOf
<1>3. ASSUME NEW k \in 1 .. n PROVE seqs[k] \in Seq(A)
  <2>1. ops[k].op # "ins" => ops[k].toks \in Seq(A)
    BY <1>1, SpanType
  <2> QED  BY <1>2, <2>1, EmptySeq
<1>4. seqs = [k \in 1 .. n |-> seqs[k]]
  BY <1>2
<1> QED  BY <1>2, <1>3, <1>4, FlattenType

(* Neither a number nor what the diff adds to a text is a word that turns the
   meaning around. *)
LEMMA TurningsAreWords ==
  ASSUME NEW phrase \in Negations, Len(phrase) = 1, NEW t, Lower[t] \in phrase[1]
  PROVE  t \notin Digits \cup Points \cup {Space, Ellipsis}
BY NegationsAssumption

(* The report of a text that newly says such a word, whatever script it
   shows. *)
LEMMA ReportsTurn ==
  ASSUME NEW a \in Seq(Tokens), NEW b \in Seq(Tokens), NEW ops \in TokenDiffs(a, b),
         NEW phrase \in Negations, Len(phrase) = 1, Spoken(b, phrase[1]), ~Spoken(a, phrase[1])
  PROVE  /\ ops \in Seq(Spans(Tokens, Tokens))
         /\ Has(Lowered(AfterText(ops)), phrase) /\ ~Has(Lowered(BeforeText(ops)), phrase)
         /\ ~AllNumeric(Edited(ops))
<1>1. PICK k, t : k \in 1 .. Len(b) /\ t = b[k] /\ Lower[t] \in phrase[1]
  BY DEF Spoken
<1>2. Member(t, b) /\ ~Member(t, a) /\ t \notin Digits \cup Points \cup {Space, Ellipsis}
  BY <1>1, TurningsAreWords DEF Member, Spoken
<1>3. PICK A : A = {x \in Tokens : Member(x, a) \/ x \in {Space, Ellipsis}}
  OBVIOUS
<1>4. {Space, Ellipsis} \subseteq A /\ (\A x : Member(x, a) => x \in A) /\ A \in SUBSET Tokens
  <2>1. \A x : Member(x, a) => x \in Tokens
    BY ElementOfSeq DEF Member
  <2> QED  BY <1>3, <2>1, TokensAssumption
<1>5. ops \in Seq(Spans(Tokens, A)) /\ Shows(ops, "ins", t)
  BY <1>2, <1>4, ReportHolds
<1>6. ops \in Seq(Spans(Tokens, Tokens))
  <2>1. Seq(A) \subseteq Seq(Tokens)
    BY <1>4
  <2>2. Spans(Tokens, A) \subseteq Spans(Tokens, Tokens)
    BY <2>1 DEF Spans
  <2>3. Seq(Spans(Tokens, A)) \subseteq Seq(Spans(Tokens, Tokens))
    BY <2>2
  <2> QED  BY <1>5, <2>3
<1>7. PICK after \in Seq(Tokens) : after = AfterText(ops) /\ Member(t, after)
  BY <1>4, <1>5, AfterHolds
<1>8. Has(Lowered(after), phrase)
  <2>1. Spoken(after, phrase[1])
    BY <1>1, <1>7 DEF Spoken, Member
  <2> QED  BY <2>1, HasSpoken
<1>9. PICK before \in Seq(A) : before = BeforeText(ops)
  BY <1>5, BeforeHolds
<1>10. ~Has(Lowered(before), phrase)
  <2>1. ASSUME NEW i \in 1 .. Len(before), Lower[before[i]] \in phrase[1] PROVE FALSE
    <3>1. PICK x \in A : x = before[i]
      BY ElementOfSeq
    <3>2. x \notin {Space, Ellipsis}
      BY <2>1, <3>1, TurningsAreWords
    <3>3. Member(x, a)
      BY <1>3, <3>1, <3>2
    <3> QED  BY <2>1, <3>1, <3>3 DEF Member, Spoken
  <2>2. ~Spoken(before, phrase[1])
    BY <2>1 DEF Spoken
  <2> QED  BY <2>2, HasSpoken
<1>11. SUFFICES ASSUME AllNumeric(Edited(ops)) PROVE FALSE
  BY <1>6, <1>7, <1>8, <1>9, <1>10
<1>12. t \in Digits \cup Points
  <2>1. PICK i \in 1 .. Len(ops) : ops[i].op = "ins" /\ Member(t, ops[i].toks)
    BY <1>5 DEF Shows
  <2>2. i \in DOMAIN ops
    BY <1>5, <2>1, LenProperties
  <2>3. PICK toks \in Seq(Tokens) : toks = ops[i].toks
    <3>1. ops[i] \in Spans(Tokens, Tokens)
      BY <1>6, ElementOfSeq
    <3> QED  BY <2>1, <3>1, SpanType
  <2>4. t \in ToSet(toks)
    BY <2>1, <2>3, LenProperties DEF Member, ToSet
  <2>5. ops[i] \in Edited(ops)
    BY <2>1, <2>2 DEF Edited
  <2> QED  BY <1>11, <2>3, <2>4, <2>5 DEF AllNumeric, Numeric
<1> QED  BY <1>2, <1>12

----------------------------------------------------------------------------
(* Products and shares are whole numbers. *)
LEMMA NumberType ==
  /\ \A x \in Int : Clamp(x) \in 0 .. One
  /\ \A x, y \in Int : Times(x, y) \in Int /\ Gap(x, y) \in Nat
  /\ \A x, y \in Nat : Ratio(x, y) \in 0 .. One
<1>1. ASSUME NEW x \in Int PROVE Clamp(x) \in 0 .. One
  BY DEF Clamp, Least, One
<1>2. ASSUME NEW x \in Int, NEW y \in Int PROVE Times(x, y) \in Int /\ Gap(x, y) \in Nat
  <2>1. PICK z \in Int : z = x * y
    OBVIOUS
  <2>2. z \div 10000 \in Int
    OBVIOUS
  <2> QED  BY <2>1, <2>2 DEF Times, Gap, One
<1>3. ASSUME NEW x \in Nat, NEW y \in Nat PROVE Ratio(x, y) \in 0 .. One
  <2>1. CASE y = 0
    BY <2>1 DEF Ratio, One
  <2>2. CASE y # 0
    <3>1. PICK z \in Nat : z = x * 10000
      OBVIOUS
    <3>2. z \div y \in Nat
      BY <2>2
    <3> QED  BY <2>2, <3>1, <3>2 DEF Ratio, Least, One
  <2> QED  BY <2>1, <2>2
<1> QED  BY <1>1, <1>2, <1>3

(* The series of exp never shrinks. *)
Summed(x, s, k) ==
  [term |-> (s.term * x) \div (k * 1000), sum |-> s.sum + ((s.term * x) \div (k * 1000))]

(* Its partial sums. *)
SeriesUpto(f, y) ==
  f = [n \in 0 .. 14 |-> IF n = 0 THEN [term |-> 1000, sum |-> 1000] ELSE Summed(y, f[n - 1], n)]

SeriesBy(f, S, y) ==
  /\ f \in [0 .. 14 -> S] /\ f[0] = [term |-> 1000, sum |-> 1000]
  /\ \A n \in 1 .. 14 : f[n] = Summed(y, f[n - 1], n)

SeriesStay(S, y) ==
  /\ 14 \in Nat /\ [term |-> 1000, sum |-> 1000] \in S
  /\ \A n \in 1 .. 14 : \A x \in S : Summed(y, x, n) \in S

(* The series of exp grows term by term. *)
LEMMA SaturatingClimbs ==
  ASSUME NEW S, NEW y, SeriesStay(S, y)
  PROVE  \E f : SeriesBy(f, S, y) /\ Saturating(y) = One - ((One * 1000) \div f[14].sum)
<1>1. PICK N \in Nat, base \in S :
        /\ N = 14 /\ base = [term |-> 1000, sum |-> 1000]
        /\ \A n \in 1 .. N : \A x \in S : Summed(y, x, n) \in S
  BY DEF SeriesStay
<1>2. PICK step : step = [z \in Nat \X S |-> IF z[1] \in 1 .. N THEN Summed(y, z[2], z[1]) ELSE base]
  OBVIOUS
<1>3. step \in [Nat \X S -> S]
  <2>1. \A z \in Nat \X S : z[2] \in S
    OBVIOUS
  <2>2. \A z \in Nat \X S : z[1] \in 1 .. N => Summed(y, z[2], z[1]) \in S
    BY <1>1, <2>1
  <2> QED  BY <1>2, <2>2
<1>4. \A n \in 1 .. N : \A x \in S : step[<<n, x>>] = Summed(y, x, n)
  <2>1. ASSUME NEW n \in 1 .. N, NEW x \in S
        PROVE  step[<<n, x>>] = Summed(y, x, n)
    <3>1. PICK z : z = <<n, x>>
      OBVIOUS
    <3>2. z \in Nat \X S /\ z[1] = n /\ z[2] = x
      BY <3>1
    <3> QED  BY <1>2, <3>1, <3>2
  <2> QED  BY <2>1
<1>5. ASSUME NEW f, f = [n \in 0 .. N |-> f[n]], f[0] = base,
             \A n \in 1 .. N : f[n] = Summed(y, f[n - 1], n)
      PROVE  SeriesUpto(f, y)
  <2>1. \A n \in 0 .. N : n # 0 => n \in 1 .. N
    OBVIOUS
  <2>2. \A n \in 0 .. N : f[n] = IF n = 0 THEN base ELSE Summed(y, f[n - 1], n)
    BY <1>5, <2>1
  <2>3. f = [n \in 0 .. N |-> IF n = 0 THEN base ELSE Summed(y, f[n - 1], n)]
    BY <1>5, <2>2
  <2> QED  BY <1>1, <2>3 DEF SeriesUpto
<1>6. PICK g : SeriesUpto(g, y)
  <2>1. PICK g : RecursiveUpto(g, N, S, base, step)
    BY <1>3, RecursionExists
  <2>2. g = [n \in 0 .. N |-> g[n]] /\ g[0] = base
    BY <2>1 DEF RecursiveUpto
  <2>3. ASSUME NEW n \in 1 .. N PROVE g[n] = Summed(y, g[n - 1], n)
    <3>1. n - 1 \in 0 .. N
      OBVIOUS
    <3>2. g[n - 1] \in S /\ g[n] = step[<<n, g[n - 1]>>]
      BY <2>1, <3>1 DEF RecursiveUpto
    <3> QED  BY <1>4, <3>2
  <2> QED  BY <1>5, <2>2, <2>3
<1>7. PICK f : f = CHOOSE e : SeriesUpto(e, y)
  OBVIOUS
<1>8. SeriesUpto(f, y)
  BY <1>6, <1>7
<1>9. Saturating(y) = One - ((One * 1000) \div f[14].sum)
  BY <1>7, Zenon DEF Saturating, Summed, SeriesUpto
<1>10. /\ f = [n \in 0 .. N |-> f[n]] /\ f[0] = base
       /\ \A n \in 1 .. N : f[n] = Summed(y, f[n - 1], n)
  <2>1. f = [n \in 0 .. N |-> IF n = 0 THEN base ELSE Summed(y, f[n - 1], n)]
    BY <1>1, <1>8 DEF SeriesUpto
  <2>2. 0 \in 0 .. N /\ \A n \in 1 .. N : n \in 0 .. N /\ n # 0
    OBVIOUS
  <2> QED  BY <2>1, <2>2
<1>11. RecursiveUpto(f, N, S, base, step)
  <2>1. \A n \in 1 .. N : f[n - 1] \in S => f[n] = step[<<n, f[n - 1]>>]
    BY <1>4, <1>10
  <2> QED  BY <1>3, <1>10, <2>1, RecursionStays
<1> QED  BY <1>1, <1>9, <1>10, <1>11 DEF RecursiveUpto, SeriesBy

(* So its inverse is a whole number. *)
LEMMA SaturatingType == \A x \in Nat : Saturating(x) \in Int
<1> SUFFICES ASSUME NEW x \in Nat PROVE Saturating(x) \in Int
  OBVIOUS
<1>1. PICK S : S = {s \in [term : Nat, sum : Nat] : s.sum >= 1000}
  OBVIOUS
<1>2. ASSUME NEW k \in 1 .. 14, NEW s \in S PROVE Summed(x, s, k) \in S
  <2>1. PICK t \in Nat, sum \in Nat : t = s.term /\ sum = s.sum /\ sum >= 1000
    BY <1>1
  <2>2. PICK z \in Nat, d \in Nat \ {0} : z = t * x /\ d = k * 1000
    OBVIOUS
  <2>3. PICK q \in Nat : q = z \div d
    BY <2>2
  <2>4. Summed(x, s, k) = [term |-> q, sum |-> sum + q]
    BY <2>1, <2>2, <2>3 DEF Summed
  <2>5. [term |-> q, sum |-> sum + q] \in S
    BY <1>1, <2>1
  <2> QED  BY <2>4, <2>5
<1>3. SeriesStay(S, x)
  <2>1. [term |-> 1000, sum |-> 1000] \in S
    BY <1>1
  <2> QED  BY <1>2, <2>1 DEF SeriesStay
<1>4. PICK f : SeriesBy(f, S, x) /\ Saturating(x) = One - ((One * 1000) \div f[14].sum)
  BY <1>3, SaturatingClimbs
<1>5. f[14] \in S
  <2>1. 14 \in 0 .. 14
    OBVIOUS
  <2> QED  BY <1>4, <2>1 DEF SeriesBy
<1>6. PICK d \in Nat : d = f[14].sum /\ d >= 1000
  BY <1>1, <1>5
<1>7. (One * 1000) \div d \in Int
  BY <1>6 DEF One
<1> QED  BY <1>4, <1>6, <1>7 DEF One

(* A span of a report counts for at least one word. *)
SizeOf(o) == IF Chunks(o.toks) = 0 THEN 1 ELSE Chunks(o.toks)
Counted(ops, kinds, c, n) == c + IF ops[n].op \in kinds THEN SizeOf(ops[n]) ELSE 0

(* The words of more and more spans. *)
WordsUpto(f, ops, kinds) ==
  f = [n \in 0 .. Len(ops) |-> IF n = 0 THEN 0 ELSE Counted(ops, kinds, f[n - 1], n)]

WordsBy(f, S, ops, kinds) ==
  /\ f \in [0 .. Len(ops) -> S] /\ f[0] = 0
  /\ \A n \in 1 .. Len(ops) : f[n] = Counted(ops, kinds, f[n - 1], n)

WordsStay(S, ops, kinds) ==
  /\ Len(ops) \in Nat /\ 0 \in S
  /\ \A n \in 1 .. Len(ops) : \A x \in S : Counted(ops, kinds, x, n) \in S

(* Words are counted span by span. *)
LEMMA WordsOfClimbs ==
  ASSUME NEW S, NEW ops, NEW kinds, WordsStay(S, ops, kinds)
  PROVE  \E f : WordsBy(f, S, ops, kinds) /\ WordsOf(ops, kinds) = f[Len(ops)]
<1>1. PICK N \in Nat, base \in S :
        /\ N = Len(ops) /\ base = 0
        /\ \A n \in 1 .. N : \A x \in S : Counted(ops, kinds, x, n) \in S
  BY DEF WordsStay
<1>2. PICK step : step = [z \in Nat \X S |-> IF z[1] \in 1 .. N THEN Counted(ops, kinds, z[2], z[1]) ELSE base]
  OBVIOUS
<1>3. step \in [Nat \X S -> S]
  <2>1. \A z \in Nat \X S : z[2] \in S
    OBVIOUS
  <2>2. \A z \in Nat \X S : z[1] \in 1 .. N => Counted(ops, kinds, z[2], z[1]) \in S
    BY <1>1, <2>1
  <2> QED  BY <1>2, <2>2
<1>4. \A n \in 1 .. N : \A x \in S : step[<<n, x>>] = Counted(ops, kinds, x, n)
  <2>1. ASSUME NEW n \in 1 .. N, NEW x \in S
        PROVE  step[<<n, x>>] = Counted(ops, kinds, x, n)
    <3>1. PICK z : z = <<n, x>>
      OBVIOUS
    <3>2. z \in Nat \X S /\ z[1] = n /\ z[2] = x
      BY <3>1
    <3> QED  BY <1>2, <3>1, <3>2
  <2> QED  BY <2>1
<1>5. ASSUME NEW f, f = [n \in 0 .. N |-> f[n]], f[0] = base,
             \A n \in 1 .. N : f[n] = Counted(ops, kinds, f[n - 1], n)
      PROVE  WordsUpto(f, ops, kinds)
  <2>1. \A n \in 0 .. N : n # 0 => n \in 1 .. N
    OBVIOUS
  <2>2. \A n \in 0 .. N : f[n] = IF n = 0 THEN base ELSE Counted(ops, kinds, f[n - 1], n)
    BY <1>5, <2>1
  <2>3. f = [n \in 0 .. N |-> IF n = 0 THEN base ELSE Counted(ops, kinds, f[n - 1], n)]
    BY <1>5, <2>2
  <2> QED  BY <1>1, <2>3 DEF WordsUpto
<1>6. PICK g : WordsUpto(g, ops, kinds)
  <2>1. PICK g : RecursiveUpto(g, N, S, base, step)
    BY <1>3, RecursionExists
  <2>2. g = [n \in 0 .. N |-> g[n]] /\ g[0] = base
    BY <2>1 DEF RecursiveUpto
  <2>3. ASSUME NEW n \in 1 .. N PROVE g[n] = Counted(ops, kinds, g[n - 1], n)
    <3>1. n - 1 \in 0 .. N
      OBVIOUS
    <3>2. g[n - 1] \in S /\ g[n] = step[<<n, g[n - 1]>>]
      BY <2>1, <3>1 DEF RecursiveUpto
    <3> QED  BY <1>4, <3>2
  <2> QED  BY <1>5, <2>2, <2>3
<1>7. PICK f : f = CHOOSE e : WordsUpto(e, ops, kinds)
  OBVIOUS
<1>8. WordsUpto(f, ops, kinds)
  BY <1>6, <1>7
<1>9. WordsOf(ops, kinds) = f[N]
  BY <1>1, <1>7, Zenon DEF WordsOf, Counted, SizeOf, WordsUpto
<1>10. /\ f = [n \in 0 .. N |-> f[n]] /\ f[0] = base
       /\ \A n \in 1 .. N : f[n] = Counted(ops, kinds, f[n - 1], n)
  <2>1. f = [n \in 0 .. N |-> IF n = 0 THEN base ELSE Counted(ops, kinds, f[n - 1], n)]
    BY <1>1, <1>8 DEF WordsUpto
  <2>2. 0 \in 0 .. N /\ \A n \in 1 .. N : n \in 0 .. N /\ n # 0
    OBVIOUS
  <2> QED  BY <2>1, <2>2
<1>11. RecursiveUpto(f, N, S, base, step)
  <2>1. \A n \in 1 .. N : f[n - 1] \in S => f[n] = step[<<n, f[n - 1]>>]
    BY <1>4, <1>10
  <2> QED  BY <1>3, <1>10, <2>1, RecursionStays
<1> QED  BY <1>1, <1>9, <1>10, <1>11 DEF RecursiveUpto, WordsBy

(* Edited words are among the words. *)
LEMMA WordsOfHolds ==
  ASSUME NEW T, NEW ops \in Seq(Spans(T, T)), NEW kinds
  PROVE  /\ WordsOf(ops, kinds) \in Nat
         /\ {"ins", "del", "keep"} \subseteq kinds /\ ops # <<>> => WordsOf(ops, kinds) # 0
<1>1. PICK N \in Nat : N = Len(ops) /\ \A n \in 1 .. N : ops[n] \in Spans(T, T)
  BY LenProperties, ElementOfSeq
<1>2. ASSUME NEW n \in 1 .. N PROVE SizeOf(ops[n]) \in Nat \ {0}
  <2>1. PICK o \in Spans(T, T) : o = ops[n]
    BY <1>1
  <2>2. PICK toks \in Seq(T) : toks = o.toks
    BY SpanType
  <2>3. PICK C : C = {k \in DOMAIN toks : toks[k] # Space /\ (k = 1 \/ toks[k - 1] = Space)}
    OBVIOUS
  <2>4. IsFiniteSet(C)
    <3>1. DOMAIN toks = 1 .. Len(toks) /\ Len(toks) \in Nat
      BY LenProperties
    <3>2. IsFiniteSet(1 .. Len(toks))
      BY <3>1, FS_Interval
    <3> QED  BY <2>3, <3>1, <3>2, FS_Subset
  <2>5. Cardinality(C) \in Nat
    BY <2>4, FS_CardinalityType
  <2>6. Chunks(toks) = Cardinality(C)
    BY <2>3 DEF Chunks
  <2> QED  BY <2>1, <2>2, <2>5, <2>6 DEF SizeOf
<1>3. ASSUME NEW n \in 1 .. N, NEW c \in Nat PROVE Counted(ops, kinds, c, n) \in Nat
  BY <1>2 DEF Counted
<1>4. WordsStay(Nat, ops, kinds)
  BY <1>1, <1>3 DEF WordsStay
<1>5. PICK f : WordsBy(f, Nat, ops, kinds) /\ WordsOf(ops, kinds) = f[N]
  BY <1>1, <1>4, WordsOfClimbs
<1>6. f \in [0 .. N -> Nat] /\ \A n \in 1 .. N : f[n] = Counted(ops, kinds, f[n - 1], n)
  BY <1>1, <1>5 DEF WordsBy
<1>7. ASSUME {"ins", "del", "keep"} \subseteq kinds, ops # <<>> PROVE f[N] # 0
  <2>1. N \in 1 .. N /\ N - 1 \in 0 .. N
    <3>1. N # 0
      BY <1>1, <1>7, EmptySeq
    <3> QED  BY <3>1
  <2>2. ops[N].op \in kinds
    <3>1. ops[N] \in Spans(T, T)
      BY <1>1, <2>1
    <3>2. ops[N].op \in {"ins", "keep", "del"}
      BY <3>1, SpanType
    <3> QED  BY <1>7, <3>2
  <2>3. PICK c \in Nat, s \in Nat \ {0} : c = f[N - 1] /\ s = SizeOf(ops[N])
    BY <1>2, <1>6, <2>1
  <2>4. f[N] = c + s
    BY <1>6, <2>1, <2>2, <2>3 DEF Counted
  <2> QED  BY <2>4
<1> QED  BY <1>5, <1>6, <1>7

(* So their share is a whole number. *)
LEMMA TextMagnitudeType ==
  ASSUME NEW T, NEW ops \in Seq(Spans(T, T))
  PROVE  TextMagnitude(ops) \in Int
<1>1. CASE ops = <<>>
  BY <1>1 DEF TextMagnitude
<1>2. CASE ops # <<>>
  <2>1. PICK x \in Nat, y \in Nat \ {0} :
          x = WordsOf(ops, {"ins", "del"}) /\ y = WordsOf(ops, {"ins", "del", "keep"})
    BY <1>2, WordsOfHolds
  <2>2. PICK z \in Nat : z = 3000 * x
    OBVIOUS
  <2>3. z \div y \in Nat
    OBVIOUS
  <2>4. Saturating(z \div y) \in Int
    BY <2>3, SaturatingType
  <2> QED  BY <1>2, <2>1, <2>2, <2>4 DEF TextMagnitude
<1> QED  BY <1>1, <1>2

(* The first of some places is one of them. *)
LEMMA FirstType ==
  ASSUME NEW S \in SUBSET Nat, S # {}
  PROVE  FirstOf(S) \in S
<1>1. \E k \in S : \A j \in S : k <= j
  BY LeastNumber
<1> QED  BY <1>1 DEF FirstOf

(* The shift between the first dates is a whole number. *)
LEMMA DateShiftType ==
  ASSUME NEW u, Present(u) \in Seq(Tokens), Prior(u) \in Seq(Tokens)
  PROVE  DateShift(u) \in Int
<1>1. ASSUME NEW toks \in Seq(Tokens), Dated(toks) # {} PROVE FirstDay(toks) \in Int
  <2>1. Dated(toks) \in SUBSET Nat
    <3>1. DOMAIN toks = 1 .. Len(toks) /\ Len(toks) \in Nat
      BY LenProperties
    <3> QED  BY <3>1 DEF Dated
  <2>2. PICK k : k = FirstOf(Dated(toks)) /\ k \in Dated(toks)
    BY <1>1, <2>1, FirstType
  <2>3. \E date \in DOMAIN Day : StandsAt(toks, k, date)
    BY <2>2 DEF Dated
  <2>4. PICK date : date = CHOOSE d \in DOMAIN Day : StandsAt(toks, k, d)
    OBVIOUS
  <2>5. date \in DOMAIN Day
    BY <2>3, <2>4
  <2> QED  BY <2>2, <2>4, <2>5, TokensAssumption DEF FirstDay
<1>2. CASE Dated(Prior(u)) = {} \/ Dated(Present(u)) = {}
  BY <1>2 DEF DateShift
<1>3. CASE Dated(Prior(u)) # {} /\ Dated(Present(u)) # {}
  <2>1. PICK x \in Int, y \in Int : x = FirstDay(Present(u)) /\ y = FirstDay(Prior(u))
    BY <1>1, <1>3
  <2>2. PICK z \in Nat : z = 1000 * Gap(x, y)
    <3>1. Gap(x, y) \in Nat
      BY NumberType
    <3> QED  BY <3>1
  <2>3. z \div 30 \in Nat
    OBVIOUS
  <2>4. Saturating(z \div 30) \in Int
    BY <2>3, SaturatingType
  <2> QED  BY <1>3, <2>1, <2>2, <2>4 DEF DateShift
<1> QED  BY <1>2, <1>3

(* So is what the place of a block weighs, *)
LEMMA DomProxyType ==
  ASSUME NEW spot \in Spots
  PROVE  DomProxy(spot) \in Int
<1> DEFINE Share(x, of) == IF of = 0 THEN One ELSE One - Ratio(x, of)
<1>1. ASSUME NEW x \in Nat, NEW of \in Nat PROVE Share(x, of) \in Int
  <2>1. One \in Int
    BY DEF One
  <2>2. PICK r : r = Ratio(x, of)
    OBVIOUS
  <2>3. r \in 0 .. One
    BY <2>2, NumberType
  <2>4. One - r \in Int
    BY <2>1, <2>3
  <2> QED  BY <2>1, <2>2, <2>4
<1>2. PICK x \in Int, y \in Int : x = Share(spot.depth, spot.maxDepth) /\ y = Share(spot.index, spot.blocks)
  <2> HIDE DEF Share
  <2> QED  BY <1>1 DEF Spots
<1>3. (x + y) \div 2 \in Int
  OBVIOUS
<1> QED  BY <1>2, <1>3 DEF DomProxy

(* and what its keywords weigh. *)
LEMMA KeywordType ==
  ASSUME NEW u, NEW pack, pack.rules \in Seq(KwRule)
  PROVE  Keyword(u, pack) \in Int
<1>1. PICK hits, toks : hits = Hits(pack, toks) /\ toks = IF Present(u) = <<>> THEN Prior(u) ELSE Present(u)
  OBVIOUS
<1>2. PICK rules \in Seq(KwRule) : rules = pack.rules
  OBVIOUS
<1>3. DOMAIN rules = 1 .. Len(rules) /\ Len(rules) \in Nat /\ hits \subseteq DOMAIN rules
  BY <1>1, <1>2, LenProperties DEF Hits
<1>4. CASE hits = {}
  BY <1>1, <1>4 DEF Keyword
<1>5. CASE hits # {}
  <2>1. FirstOf(hits) \in hits
    <3>1. hits \in SUBSET Nat
      BY <1>3
    <3> QED  BY <1>5, <3>1, FirstType
  <2>2. rules[FirstOf(hits)] \in KwRule
    BY <1>3, <2>1, ElementOfSeq
  <2>3. rules[FirstOf(hits)].weight \in Int
    BY <2>2 DEF KwRule
  <2> QED  BY <1>1, <1>2, <1>5, <2>3 DEF Keyword
<1> QED  BY <1>4, <1>5

----------------------------------------------------------------------------
(* What a unit tells of a text that newly says such a word. *)
Flipped(u) ==
  /\ u.ty \in DOMAIN DefaultWeight /\ u.mag \in Int
  /\ u.num = NoNumber \/ u.num[1].pct \in Int
  /\ Present(u) \in Seq(Tokens) /\ Prior(u) \in Seq(Tokens)
  /\ PolarityFlipped(u) /\ Noise(u) \in 0 .. 500

(* Every type of a block has a weight. *)
LEMMA TypeIsWeighed ==
  ASSUME NEW b \in Blocks
  PROVE  TypeOf(b) \in DOMAIN DefaultWeight
<1>1. b.kind \in DOMAIN DefaultWeight
  BY DEF Blocks
<1>2. {"Price", "Date", "Number"} \subseteq DOMAIN DefaultWeight
  BY DEF DefaultWeight
<1>3. TypeOf(b) \in {"Price", "Date", "Number", b.kind}
  BY DEF TypeOf
<1> QED  BY <1>1, <1>2, <1>3

(* The words of a block are tokens, none of them a space. *)
LEMMA WordsHold ==
  ASSUME NEW b \in Blocks
  PROVE  /\ b.words \in Seq(Tokens) /\ DOMAIN b.words = 1 .. Len(b.words) /\ Len(b.words) \in Nat
         /\ \A k \in 1 .. Len(b.words) : b.words[k] \in Tokens /\ b.words[k] # Space
<1>1. b.words \in Seq(Tokens \ {Space})
  BY DEF Blocks
<1>2. PICK n \in Nat, words \in Seq(Tokens \ {Space}) :
        /\ words = b.words /\ n = Len(words) /\ DOMAIN words = 1 .. n
        /\ \A k \in 1 .. n : words[k] \in Tokens \ {Space}
  BY <1>1, LenProperties, ElementOfSeq
<1>3. words \in Seq(Tokens)
  <2>1. words \in [1 .. n -> Tokens]
    BY <1>2
  <2> QED  BY <2>1, SeqDef
<1> QED  BY <1>2, <1>3

(* What is told of a text that comes or goes are tokens of it. *)
LEMMA WholeHolds ==
  ASSUME NEW T, NEW toks \in Seq(T)
  PROVE  Whole(toks).a \in Seq(T)
<1>1. PICK n \in Nat : n = Len(toks) /\ \A k \in 1 .. n : toks[k] \in T
  BY LenProperties, ElementOfSeq
<1>2. PICK m \in 0 .. n : m = Least(n, BlockTrunc)
  BY TokensAssumption DEF Least
<1>3. SubSeq(toks, 1, m) \in Seq(T)
  <2>1. \A k \in 1 .. m : toks[k] \in T
    BY <1>1
  <2> QED  BY <2>1, SubSeqProperties
<1> QED  BY <1>1, <1>2, <1>3 DEF Whole

(* A value is a whole number. *)
LEMMA ValueType ==
  ASSUME NEW b \in Blocks, Valued(b)
  PROVE  ValueOf(b) \in Nat
<1>1. PICK toks : toks = Tokenize(b.words)
  OBVIOUS
<1>2. b.kind \notin {"Price", "Number"}
  BY DEF Blocks
<1>3. CASE TypeOf(b) = "Price"
  <2>1. IsPrice(toks)
    BY <1>1, <1>2, <1>3 DEF TypeOf
  <2> QED  BY <1>1, <1>3, <2>1, TokensAssumption DEF IsPrice, ValueOf
<1>4. CASE TypeOf(b) = "Number"
  <2>1. IsNumber(toks)
    BY <1>1, <1>2, <1>4 DEF TypeOf
  <2> QED  BY <1>1, <1>4, <2>1, TokensAssumption DEF IsNumber, ValueOf
<1> QED  BY <1>3, <1>4 DEF Valued

(* A block that comes says what is told of it. *)
LEMMA ComingsFlip ==
  ASSUME NEW old \in Blocks, NEW new \in Blocks, NEW u \in UnitsOf(old, new),
         u.ct = "Added", u.ty # "Link", NEW phrase \in Negations, Len(phrase) = 1,
         Spoken(Whole(Tokenize(new.words)).a, phrase[1])
  PROVE  Flipped(u)
<1>1. PICK toks \in Seq(Tokens), shown \in Seq(Tokens) :
        toks = Tokenize(new.words) /\ shown = Whole(toks).a /\ Spoken(shown, phrase[1])
  <2>1. new.words \in Seq(Tokens)
    BY WordsHold
  <2>2. Tokenize(new.words) \in Seq(Tokens)
    BY <2>1, TokensAssumption, TokenizeHolds
  <2> QED  BY <2>2, WholeHolds
<1>2. old.words = <<>>
  <2>1. CASE old.words # <<>> /\ new.words = <<>>
    <3>1. u.ct = "Removed"
      BY <2>1 DEF UnitsOf, UnitOf
    <3> QED  BY <3>1
  <2>2. CASE old.words # <<>> /\ new.words # <<>>
    <3>1. \E ct \in {"Modified", "Restyled", "Reordered"} : \E delta, mag, num, sim :
            u = UnitOf(ct, old, new, delta, mag, num, sim)
      BY <2>2 DEF UnitsOf, AnchorUnits, ModifiedUnits
    <3>2. u.ct \in {"Modified", "Restyled", "Reordered"}
      BY <3>1 DEF UnitOf
    <3> QED  BY <3>2
  <2> QED  BY <2>1, <2>2
<1>3. u = UnitOf("Added", old, new, Whole(toks), One, NoNumber, 0)
  BY <1>1, <1>2 DEF UnitsOf
<1>4. /\ u.delta = Whole(toks) /\ u.mag = One /\ u.num = NoNumber
      /\ u.ty = TypeOf(IF new.words = <<>> THEN old ELSE new)
  BY <1>3 DEF UnitOf
<1>5. Present(u) = shown /\ Prior(u) = <<>>
  <2>1. u.delta.enc # "idiff" /\ u.delta.b = <<>>
    BY <1>4 DEF Whole
  <2> QED  BY <1>1, <1>4, <2>1 DEF Present, Prior
<1>6. PolarityFlipped(u)
  <2>1. <<>> \in Seq(Tokens) /\ ~Spoken(<<>>, phrase[1])
    BY EmptySeq DEF Spoken
  <2>2. Has(Lowered(shown), phrase) /\ ~Has(Lowered(<<>>), phrase)
    BY <1>1, <2>1, HasSpoken
  <2> QED  BY <1>5, <2>2 DEF PolarityFlipped
<1>7. Noise(u) = 0
  BY DEF Noise
<1>8. u.ty \in DOMAIN DefaultWeight
  BY <1>4, TypeIsWeighed
<1> QED  BY <1>1, <1>4, <1>5, <1>6, <1>7, <1>8, EmptySeq DEF Flipped, One

(* Two values are told as such. *)
ToldAsValue(u, old, new) ==
  /\ Valued(new)
  /\ \E from, to, pct \in Nat :
       u = UnitOf("Modified", old, new, Val(Tokenize(new.words), Tokenize(old.words)), pct,
                  <<[from |-> from, to |-> to, pct |-> pct]>>, One)

(* A text that is edited is told with its tokens before and after and, unless
   both are values, as a report of the token diff. *)
LEMMA EditsTell ==
  ASSUME NEW old \in Blocks, NEW new \in Blocks, NEW u \in UnitsOf(old, new),
         u.ct = "Modified", u.ty # "Link"
  PROVE  /\ u.ty = TypeOf(new)
         /\ u.before = Tokenize(old.words) /\ u.after = Tokenize(new.words)
         /\ \/ ToldAsValue(u, old, new)
            \/ \E ops \in TokenDiffs(u.before, u.after) :
                 u = UnitOf("Modified", old, new, Idiff(ops), TextMagnitude(ops), NoNumber, One)
<1>1. old.words # <<>>
  <2>1. SUFFICES ASSUME old.words = <<>> PROVE u.ct = "Added"
    OBVIOUS
  <2> QED  BY <2>1 DEF UnitsOf, UnitOf
<1>2. new.words # <<>>
  <2>1. SUFFICES ASSUME new.words = <<>> PROVE u.ct = "Removed"
    OBVIOUS
  <2> QED  BY <1>1, <2>1 DEF UnitsOf, UnitOf
<1>3. u \in ModifiedUnits(old, new)
  <2>1. CASE SameContent(old, new)
    <3>1. \E ct \in {"Restyled", "Reordered"} : \E delta, mag, num, sim :
            u = UnitOf(ct, old, new, delta, mag, num, sim)
      BY <1>1, <1>2, <2>1 DEF UnitsOf, AnchorUnits
    <3>2. u.ct \in {"Restyled", "Reordered"}
      BY <3>1 DEF UnitOf
    <3> QED  BY <3>2
  <2>2. CASE ~SameContent(old, new)
    BY <1>1, <1>2, <2>2 DEF UnitsOf, AnchorUnits
  <2> QED  BY <2>1, <2>2
<1>4. /\ u.ty = TypeOf(new)
      /\ u.before = Tokenize(old.words) /\ u.after = Tokenize(new.words)
  <2>1. \E delta, mag, num : u = UnitOf("Modified", old, new, delta, mag, num, One)
    BY <1>3 DEF ModifiedUnits
  <2> QED  BY <1>2, <2>1 DEF UnitOf
<1>5. ASSUME ~(Valued(old) /\ Valued(new))
      PROVE  \E ops \in TokenDiffs(u.before, u.after) :
               u = UnitOf("Modified", old, new, Idiff(ops), TextMagnitude(ops), NoNumber, One)
  BY <1>3, <1>4, <1>5 DEF ModifiedUnits
<1>6. ASSUME Valued(old), Valued(new)
      PROVE  ToldAsValue(u, old, new)
  <2>1. PICK x \in Nat, y \in Nat : x = ValueOf(old) /\ y = ValueOf(new)
    BY <1>6, ValueType
  <2>2. PICK pct : pct = Ratio(Gap(x, y), x)
    OBVIOUS
  <2>3. pct \in Nat
    <3>1. PICK gap \in Nat : gap = Gap(x, y)
      BY NumberType
    <3>2. Ratio(gap, x) \in 0 .. One
      BY NumberType
    <3>3. pct \in 0 .. One
      BY <2>2, <3>1, <3>2
    <3> QED  BY <3>3 DEF One
  <2>4. u = UnitOf("Modified", old, new, Val(Tokenize(new.words), Tokenize(old.words)), pct,
                   <<[from |-> x, to |-> y, pct |-> pct]>>, One)
    <3>1. PICK d : d = Val(Tokenize(new.words), Tokenize(old.words))
      OBVIOUS
    <3>2. PICK U : U = ModifiedUnits(old, new) /\ u \in U
      BY <1>3
    <3>3. U = {UnitOf("Modified", old, new, d, Ratio(Gap(ValueOf(old), ValueOf(new)), ValueOf(old)),
                      <<[from |-> ValueOf(old), to |-> ValueOf(new),
                         pct |-> Ratio(Gap(ValueOf(old), ValueOf(new)), ValueOf(old))]>>, One)}
      BY <1>6, <3>1, <3>2 DEF ModifiedUnits, Valued
    <3>4. U = {UnitOf("Modified", old, new, d, pct, <<[from |-> x, to |-> y, pct |-> pct]>>, One)}
      BY <2>1, <2>2, <3>3
    <3> QED  BY <3>1, <3>2, <3>4
  <2> QED  BY <1>6, <2>3, <2>4 DEF ToldAsValue
<1> QED  BY <1>4, <1>5, <1>6

(* A text that is edited says what it adds, as a value or in the report. *)
LEMMA EditsFlip ==
  ASSUME NEW old \in Blocks, NEW new \in Blocks, NEW u \in UnitsOf(old, new),
         u.ct = "Modified", u.ty # "Link", NEW phrase \in Negations, Len(phrase) = 1,
         Spoken(Tokenize(new.words), phrase[1]), ~Spoken(Tokenize(old.words), phrase[1])
  PROVE  Flipped(u)
<1>1. PICK a \in Seq(Tokens), b \in Seq(Tokens) :
        /\ a = Tokenize(old.words) /\ ~Spoken(a, phrase[1])
        /\ b = Tokenize(new.words) /\ Spoken(b, phrase[1])
  <2>1. old.words \in Seq(Tokens) /\ new.words \in Seq(Tokens)
    BY WordsHold
  <2> QED  BY <2>1, TokensAssumption, TokenizeHolds
<1>2. /\ u.ty = TypeOf(new) /\ u.before = a /\ u.after = b
      /\ \/ ToldAsValue(u, old, new)
         \/ \E ops \in TokenDiffs(a, b) :
              u = UnitOf("Modified", old, new, Idiff(ops), TextMagnitude(ops), NoNumber, One)
  <2>1. /\ u.ty = TypeOf(new)
        /\ u.before = Tokenize(old.words) /\ u.after = Tokenize(new.words)
        /\ \/ ToldAsValue(u, old, new)
           \/ \E ops \in TokenDiffs(u.before, u.after) :
                u = UnitOf("Modified", old, new, Idiff(ops), TextMagnitude(ops), NoNumber, One)
    BY EditsTell
  <2> QED  BY <1>1, <2>1
<1>3. u.ty \in DOMAIN DefaultWeight
  BY <1>2, TypeIsWeighed
<1>4. CASE ToldAsValue(u, old, new)
  <2>1. PICK from \in Nat, to \in Nat, pct \in Nat :
          u = UnitOf("Modified", old, new, Val(b, a), pct,
                     <<[from |-> from, to |-> to, pct |-> pct]>>, One)
    BY <1>1, <1>4 DEF ToldAsValue
  <2>2. u.delta = Val(b, a) /\ u.mag = pct /\ u.num[1].pct = pct
    BY <2>1 DEF UnitOf
  <2>3. Present(u) = b /\ Prior(u) = a
    <3>1. u.delta.enc # "idiff" /\ u.delta.a = b /\ u.delta.b = a
      BY <2>2 DEF Val
    <3> QED  BY <3>1 DEF Present, Prior
  <2>4. PolarityFlipped(u)
    <3>1. Has(Lowered(b), phrase) /\ ~Has(Lowered(a), phrase)
      BY <1>1, HasSpoken
    <3> QED  BY <2>3, <3>1 DEF PolarityFlipped
  <2>5. Noise(u) = 0
    <3>1. SalientType(u.ty)
      BY <1>2, <1>4 DEF ToldAsValue, Valued, SalientType
    <3> QED  BY <3>1 DEF Noise, ModifiedNoise
  <2> QED  BY <1>3, <2>2, <2>3, <2>4, <2>5 DEF Flipped
<1>5. ASSUME NEW ops \in TokenDiffs(a, b),
             u = UnitOf("Modified", old, new, Idiff(ops), TextMagnitude(ops), NoNumber, One)
      PROVE  Flipped(u)
  <2>1. /\ u.delta = Idiff(ops) /\ u.mag = TextMagnitude(ops) /\ u.num = NoNumber
        /\ u.before = a /\ u.after = b
    BY <1>1, <1>5 DEF UnitOf
  <2>2. /\ ops \in Seq(Spans(Tokens, Tokens))
        /\ Has(Lowered(AfterText(ops)), phrase) /\ ~Has(Lowered(BeforeText(ops)), phrase)
        /\ ~AllNumeric(Edited(ops))
    BY <1>1, ReportsTurn
  <2>3. u.delta.enc = "idiff" /\ u.delta.ops = ops
    BY <2>1 DEF Idiff
  <2>4. Present(u) = AfterText(ops) /\ Prior(u) = BeforeText(ops)
    BY <2>3 DEF Present, Prior
  <2>5. Present(u) \in Seq(Tokens) /\ Prior(u) \in Seq(Tokens)
    BY <2>2, <2>4, AfterHolds, BeforeHolds
  <2>6. PolarityFlipped(u)
    BY <2>2, <2>4 DEF PolarityFlipped
  <2>7. Noise(u) \in {0, 500}
    <3>1. Lowered(a) # Lowered(b)
      BY <1>1, HasSpoken
    <3>2. ~OnlyNumbersChange(u)
      BY <2>2, <2>3 DEF OnlyNumbersChange
    <3>3. ModifiedNoise(u) \in {0, 500}
      BY <2>1, <3>1, <3>2 DEF ModifiedNoise
    <3> QED  BY <3>3 DEF Noise
  <2>8. u.mag \in Int
    BY <2>1, <2>2, TextMagnitudeType
  <2> QED  BY <1>3, <2>1, <2>5, <2>6, <2>7, <2>8 DEF Flipped
<1> QED  BY <1>2, <1>4, <1>5

----------------------------------------------------------------------------
(* A pack that counts negations in full. *)
Counts(pack) ==
  /\ \A ty \in DOMAIN DefaultWeight : pack.weight[ty] \in Int
  /\ \A i \in DOMAIN Affinity : pack.scale[i] \in Int
  /\ pack.scale["neg"] >= One
  /\ \A band \in DOMAIN DefaultPack.bands : pack.bands[band] \in Int
  /\ pack.bands["Critical"] <= 9500
  /\ pack.rules \in Seq(KwRule)

Shaped(pack) ==
  /\ DOMAIN pack.weight = DOMAIN DefaultWeight /\ DOMAIN pack.scale = DOMAIN Affinity
  /\ DOMAIN pack.bands = DOMAIN DefaultPack.bands

(* The default pack counts negations in full. *)
LEMMA DefaultCounts == Counts(DefaultPack) /\ Shaped(DefaultPack)
<1>1. /\ DefaultPack.weight = DefaultWeight
      /\ DefaultPack.scale = [i \in DOMAIN Affinity |-> One]
      /\ DefaultPack.bands = [Critical |-> 9000, High |-> 7000, Medium |-> 4000, Low |-> 1500]
      /\ DefaultPack.rules = <<>>
  BY DEF DefaultPack
<1>2. \A ty \in DOMAIN DefaultWeight : DefaultWeight[ty] \in Int
  BY DEF DefaultWeight
<1>3. "neg" \in DOMAIN Affinity
  BY DEF Affinity
<1>4. /\ \A band \in DOMAIN DefaultPack.bands : DefaultPack.bands[band] \in Int
      /\ DefaultPack.bands["Critical"] <= 9500
  BY <1>1
<1>5. \A i \in DOMAIN Affinity : DefaultPack.scale[i] = 10000
  BY <1>1 DEF One
<1> QED  BY <1>1, <1>2, <1>3, <1>4, <1>5, EmptySeq DEF Counts, Shaped, One

(* A layer's entries are laid over those below. *)
LEMMA OverHolds ==
  ASSUME NEW f, NEW g, NEW keys, Entries(f, keys), DOMAIN g = keys, \A x \in keys : g[x] \in Int
  PROVE  /\ DOMAIN Over(f, g) = keys /\ \A x \in keys : Over(f, g)[x] \in Int
         /\ \A x \in keys : Over(f, g)[x] = IF x \in DOMAIN f THEN f[x] ELSE g[x]
BY DEF Over, Entries

(* A layer that leaves them alone keeps a pack counting. *)
LEMMA LayersCount ==
  ASSUME NEW layers, IsStack(layers), NEW n \in DOMAIN layers, NEW pack, Counts(pack), Shaped(pack),
         "neg" \in DOMAIN layers[n].scale => layers[n].scale["neg"] >= One,
         "Critical" \in DOMAIN layers[n].bands => layers[n].bands["Critical"] <= 9500
  PROVE  Counts(ApplyLayer(pack, layers[n])) /\ Shaped(ApplyLayer(pack, layers[n]))
<1>1. PICK raw, top : raw = layers[n] /\ top = ApplyLayer(pack, raw)
  OBVIOUS
<1>2. /\ raw.rules \in Seq(KwRule) /\ Entries(raw.weight, DOMAIN DefaultWeight)
      /\ Entries(raw.scale, DOMAIN Affinity) /\ Entries(raw.bands, DOMAIN DefaultPack.bands)
  BY <1>1 DEF IsStack
<1>3. /\ top.weight = Over(raw.weight, pack.weight) /\ top.scale = Over(raw.scale, pack.scale)
      /\ top.bands = Over(raw.bands, pack.bands) /\ top.rules = pack.rules \o raw.rules
  <2>1. ApplyLayer(pack, raw).weight = Over(raw.weight, pack.weight)
    BY DEF ApplyLayer
  <2>2. ApplyLayer(pack, raw).scale = Over(raw.scale, pack.scale)
    BY DEF ApplyLayer
  <2>3. ApplyLayer(pack, raw).bands = Over(raw.bands, pack.bands)
    BY DEF ApplyLayer
  <2>4. ApplyLayer(pack, raw).rules = pack.rules \o raw.rules
    <3>1. PICK c : c = RulesOf(pack, raw)
      OBVIOUS
    <3>2. ApplyLayer(pack, raw).rules = c
      BY <3>1 DEF ApplyLayer
    <3>3. c = pack.rules \o raw.rules
      BY <3>1, Zenon DEF RulesOf
    <3> QED  BY <3>2, <3>3
  <2> QED  BY <1>1, <2>1, <2>2, <2>3, <2>4
<1>4. top.rules \in Seq(KwRule)
  BY <1>2, <1>3, ConcatProperties DEF Counts
<1>5. /\ DOMAIN top.weight = DOMAIN DefaultWeight
      /\ \A ty \in DOMAIN DefaultWeight : top.weight[ty] \in Int
  BY <1>2, <1>3, OverHolds DEF Counts, Shaped
<1>6. /\ DOMAIN top.scale = DOMAIN Affinity /\ \A i \in DOMAIN Affinity : top.scale[i] \in Int
      /\ top.scale["neg"] >= One
  <2>1. "neg" \in DOMAIN Affinity
    BY DEF Affinity
  <2>2. /\ DOMAIN top.scale = DOMAIN Affinity /\ \A i \in DOMAIN Affinity : top.scale[i] \in Int
        /\ \A i \in DOMAIN Affinity :
             top.scale[i] = IF i \in DOMAIN raw.scale THEN raw.scale[i] ELSE pack.scale[i]
    BY <1>2, <1>3, OverHolds DEF Counts, Shaped
  <2> QED  BY <1>1, <2>1, <2>2 DEF Counts
<1>7. /\ DOMAIN top.bands = DOMAIN DefaultPack.bands
      /\ \A band \in DOMAIN DefaultPack.bands : top.bands[band] \in Int
      /\ top.bands["Critical"] <= 9500
  <2>1. "Critical" \in DOMAIN DefaultPack.bands
    BY DEF DefaultPack
  <2>2. /\ DOMAIN top.bands = DOMAIN DefaultPack.bands
        /\ \A band \in DOMAIN DefaultPack.bands : top.bands[band] \in Int
        /\ \A band \in DOMAIN DefaultPack.bands :
             top.bands[band] = IF band \in DOMAIN raw.bands THEN raw.bands[band] ELSE pack.bands[band]
    BY <1>2, <1>3, OverHolds DEF Counts, Shaped
  <2> QED  BY <1>1, <2>1, <2>2 DEF Counts
<1> QED  BY <1>1, <1>4, <1>5, <1>6, <1>7 DEF Counts, Shaped

(* So the pack of a site counts them, if none of its layers takes that back. *)
LEMMA PacksCount ==
  ASSUME NegationsCount, NEW s \in Sites
  PROVE  Counts(Resolve(s.layers)) /\ Shaped(Resolve(s.layers))
<1>1. PICK layers, N : layers = s.layers /\ N = Len(layers)
  OBVIOUS
<1>2. IsStack(layers) /\ N \in Nat /\ DOMAIN layers = 1 .. N
  BY <1>1, SitesAssumption DEF IsStack
<1>3. PICK f : Climb(f, N, layers) /\ Resolve(layers) = f[N]
  BY <1>1, <1>2, ResolveClimbs
<1>4. /\ f[0] = DefaultPack
      /\ \A i \in 1 .. N : f[i] = ApplyLayer(f[i - 1], layers[i])
  <2>1. 0 \in 0 .. N /\ \A i \in 1 .. N : i \in 0 .. N /\ i # 0
    BY <1>2
  <2> QED  BY <1>3, <2>1, Zenon DEF Climb
<1> DEFINE done == {n \in Nat : n <= N => Counts(f[n]) /\ Shaped(f[n])}
<1>5. 0 \in done
  BY <1>4, DefaultCounts
<1>6. ASSUME NEW n \in Nat, n \in done
      PROVE  n + 1 \in done
  <2>1. SUFFICES ASSUME n + 1 <= N PROVE Counts(f[n + 1]) /\ Shaped(f[n + 1])
    OBVIOUS
  <2>2. PICK i, pack : i = n + 1 /\ pack = f[n]
    OBVIOUS
  <2>3. n <= N /\ i \in 1 .. N /\ i - 1 = n
    BY <1>2, <2>1, <2>2
  <2>4. Counts(pack) /\ Shaped(pack) /\ f[i] = ApplyLayer(pack, layers[i])
    BY <1>4, <1>6, <2>2, <2>3
  <2>5. /\ "neg" \in DOMAIN layers[i].scale => layers[i].scale["neg"] >= One
        /\ "Critical" \in DOMAIN layers[i].bands => layers[i].bands["Critical"] <= 9500
    BY <1>1, <1>2, <2>3 DEF NegationsCount
  <2>6. Counts(ApplyLayer(pack, layers[i])) /\ Shaped(ApplyLayer(pack, layers[i]))
    BY <1>2, <2>3, <2>4, <2>5, LayersCount
  <2> QED  BY <2>2, <2>4, <2>6
<1>7. N \in done
  <2> HIDE DEF done
  <2> QED  BY <1>2, <1>5, <1>6, Induction
<1>8. N <= N
  BY <1>2
<1> QED  BY <1>1, <1>3, <1>7, <1>8

----------------------------------------------------------------------------
Order == <<"type", "mag", "num", "date", "neg", "pos", "kw">>
Part(signals, pack, i) == Clamp(Times(Affinity[i], Clamp(Times(signals[i], pack.scale[i]))))
Less(signals, pack, rest, n) == Times(rest, One - Part(signals, pack, Order[n]))

(* What the first signals leave. *)
RestUpto(f, signals, pack) ==
  f = [n \in 0 .. 7 |-> IF n = 0 THEN One ELSE Less(signals, pack, f[n - 1], n)]

RestBy(f, S, signals, pack) ==
  /\ f \in [0 .. 7 -> S] /\ f[0] = One
  /\ \A n \in 1 .. 7 : f[n] = Less(signals, pack, f[n - 1], n)

RestStay(S, signals, pack) ==
  /\ 7 \in Nat /\ One \in S
  /\ \A n \in 1 .. 7 : \A x \in S : Less(signals, pack, x, n) \in S

(* The product is taken signal by signal. *)
LEMMA NoisyOrClimbs ==
  ASSUME NEW S, NEW signals, NEW pack, RestStay(S, signals, pack)
  PROVE  \E f : RestBy(f, S, signals, pack) /\ NoisyOr(signals, pack) = One - f[7]
<1>1. PICK N \in Nat, base \in S :
        /\ N = 7 /\ base = One
        /\ \A n \in 1 .. N : \A x \in S : Less(signals, pack, x, n) \in S
  BY DEF RestStay
<1>2. PICK step : step = [z \in Nat \X S |-> IF z[1] \in 1 .. N THEN Less(signals, pack, z[2], z[1]) ELSE base]
  OBVIOUS
<1>3. step \in [Nat \X S -> S]
  <2>1. \A z \in Nat \X S : z[2] \in S
    OBVIOUS
  <2>2. \A z \in Nat \X S : z[1] \in 1 .. N => Less(signals, pack, z[2], z[1]) \in S
    BY <1>1, <2>1
  <2> QED  BY <1>2, <2>2
<1>4. \A n \in 1 .. N : \A x \in S : step[<<n, x>>] = Less(signals, pack, x, n)
  <2>1. ASSUME NEW n \in 1 .. N, NEW x \in S
        PROVE  step[<<n, x>>] = Less(signals, pack, x, n)
    <3>1. PICK z : z = <<n, x>>
      OBVIOUS
    <3>2. z \in Nat \X S /\ z[1] = n /\ z[2] = x
      BY <3>1
    <3> QED  BY <1>2, <3>1, <3>2
  <2> QED  BY <2>1
<1>5. ASSUME NEW f, f = [n \in 0 .. N |-> f[n]], f[0] = base,
             \A n \in 1 .. N : f[n] = Less(signals, pack, f[n - 1], n)
      PROVE  RestUpto(f, signals, pack)
  <2>1. \A n \in 0 .. N : n # 0 => n \in 1 .. N
    OBVIOUS
  <2>2. \A n \in 0 .. N : f[n] = IF n = 0 THEN base ELSE Less(signals, pack, f[n - 1], n)
    BY <1>5, <2>1
  <2>3. f = [n \in 0 .. N |-> IF n = 0 THEN base ELSE Less(signals, pack, f[n - 1], n)]
    BY <1>5, <2>2
  <2> QED  BY <1>1, <2>3 DEF RestUpto
<1>6. PICK g : RestUpto(g, signals, pack)
  <2>1. PICK g : RecursiveUpto(g, N, S, base, step)
    BY <1>3, RecursionExists
  <2>2. g = [n \in 0 .. N |-> g[n]] /\ g[0] = base
    BY <2>1 DEF RecursiveUpto
  <2>3. ASSUME NEW n \in 1 .. N PROVE g[n] = Less(signals, pack, g[n - 1], n)
    <3>1. n - 1 \in 0 .. N
      OBVIOUS
    <3>2. g[n - 1] \in S /\ g[n] = step[<<n, g[n - 1]>>]
      BY <2>1, <3>1 DEF RecursiveUpto
    <3> QED  BY <1>4, <3>2
  <2> QED  BY <1>5, <2>2, <2>3
<1>7. PICK f : f = CHOOSE e : RestUpto(e, signals, pack)
  OBVIOUS
<1>8. RestUpto(f, signals, pack)
  BY <1>6, <1>7
<1>9. NoisyOr(signals, pack) = One - f[N]
  BY <1>1, <1>7, Zenon DEF NoisyOr, Order, Part, Less, RestUpto
<1>10. /\ f = [n \in 0 .. N |-> f[n]] /\ f[0] = base
       /\ \A n \in 1 .. N : f[n] = Less(signals, pack, f[n - 1], n)
  <2>1. f = [n \in 0 .. N |-> IF n = 0 THEN base ELSE Less(signals, pack, f[n - 1], n)]
    BY <1>1, <1>8 DEF RestUpto
  <2>2. 0 \in 0 .. N /\ \A n \in 1 .. N : n \in 0 .. N /\ n # 0
    OBVIOUS
  <2> QED  BY <2>1, <2>2
<1>11. RecursiveUpto(f, N, S, base, step)
  <2>1. \A n \in 1 .. N : f[n - 1] \in S => f[n] = step[<<n, f[n - 1]>>]
    BY <1>4, <1>10
  <2> QED  BY <1>3, <1>10, <2>1, RecursionStays
<1> QED  BY <1>1, <1>9, <1>10, <1>11 DEF RecursiveUpto, RestBy

(* A negation leaves nothing, whatever the other signals are. *)
LEMMA NegationSaturates ==
  ASSUME NEW signals, NEW pack, Counts(pack),
         \A i \in DOMAIN Affinity : signals[i] \in Int, signals["neg"] = One
  PROVE  NoisyOr(signals, pack) = One
<1>1. /\ DOMAIN Affinity = {"type", "mag", "num", "date", "neg", "pos", "kw"}
      /\ \A i \in DOMAIN Affinity : Affinity[i] \in Int
      /\ Affinity["neg"] = 10000
  BY DEF Affinity
<1>2. ASSUME NEW i \in DOMAIN Affinity PROVE Part(signals, pack, i) \in Int
  <2>1. PICK x \in Int, y \in Int : x = signals[i] /\ y = pack.scale[i]
    BY DEF Counts
  <2>2. \A p, q \in Int : Clamp(Times(p, q)) \in Int
    <3>1. ASSUME NEW p \in Int, NEW q \in Int PROVE Clamp(Times(p, q)) \in Int
      <4>1. PICK t \in Int : t = Times(p, q)
        BY NumberType
      <4>2. PICK c : c = Clamp(t)
        OBVIOUS
      <4>3. c \in 0 .. One
        BY <4>2, NumberType
      <4>4. c \in Int
        BY <4>3 DEF One
      <4> QED  BY <4>1, <4>2, <4>4, Zenon
    <3> QED  BY <3>1
  <2>3. PICK z \in Int : z = Clamp(Times(x, y))
    BY <2>2
  <2>4. Clamp(Times(Affinity[i], z)) \in Int
    <3>1. PICK a \in Int : a = Affinity[i]
      BY <1>1
    <3> QED  BY <2>2, <3>1
  <2> QED  BY <2>1, <2>3, <2>4 DEF Part
<1>3. Part(signals, pack, "neg") = 10000
  <2>1. "neg" \in DOMAIN Affinity
    BY <1>1
  <2>2. PICK y \in Int : y = pack.scale["neg"] /\ y >= 10000
    BY <2>1 DEF Counts, One
  <2>3. Times(signals["neg"], y) = y
    <3>1. (10000 * y) \div 10000 = y
      BY <2>2
    <3> QED  BY <3>1 DEF Times, One
  <2>4. Clamp(y) = 10000
    BY <2>2 DEF Clamp, Least, One
  <2>5. Times(10000, 10000) = 10000 /\ Clamp(10000) = 10000
    BY DEF Times, Clamp, Least, One
  <2> QED  BY <1>1, <2>2, <2>3, <2>4, <2>5 DEF Part
<1>4. \A n \in 1 .. 7 : Order[n] \in DOMAIN Affinity
  BY <1>1 DEF Order
<1>5. ASSUME NEW n \in 1 .. 7, NEW x \in Int PROVE Less(signals, pack, x, n) \in Int
  <2>1. PICK c \in Int : c = 10000 - Part(signals, pack, Order[n])
    BY <1>2, <1>4
  <2>2. Times(x, c) \in Int
    BY NumberType
  <2> QED  BY <2>1, <2>2 DEF Less, One
<1>6. RestStay(Int, signals, pack)
  BY <1>5 DEF RestStay, One
<1>7. PICK f : RestBy(f, Int, signals, pack) /\ NoisyOr(signals, pack) = One - f[7]
  BY <1>6, NoisyOrClimbs
<1>8. f \in [0 .. 7 -> Int] /\ \A n \in 1 .. 7 : f[n] = Less(signals, pack, f[n - 1], n)
  BY <1>7 DEF RestBy
<1>9. ASSUME NEW x \in Int, NEW y \in Int, x = 0 \/ y = 0 PROVE Times(x, y) = 0
  <2>1. x * y = 0
    BY <1>9
  <2>2. 0 \div 10000 = 0
    OBVIOUS
  <2> QED  BY <2>1, <2>2 DEF Times, One
<1>10. f[5] = 0
  <2>1. 5 \in 1 .. 7 /\ 5 - 1 = 4 /\ 4 \in 0 .. 7 /\ Order[5] = "neg"
    BY DEF Order
  <2>2. PICK x \in Int : x = f[4]
    BY <1>8, <2>1
  <2>3. f[5] = Times(x, One - Part(signals, pack, "neg"))
    BY <1>8, <2>1, <2>2 DEF Less
  <2>4. One - Part(signals, pack, "neg") = 0
    BY <1>3 DEF One
  <2> QED  BY <1>9, <2>3, <2>4
<1>11. ASSUME NEW n \in 1 .. 7, f[n - 1] = 0 PROVE f[n] = 0
  <2>1. PICK c \in Int : c = One - Part(signals, pack, Order[n])
    BY <1>2, <1>4 DEF One
  <2>2. f[n] = Times(0, c)
    BY <1>8, <1>11, <2>1 DEF Less
  <2> QED  BY <1>9, <2>2
<1>12. f[6] = 0
  <2>1. 6 \in 1 .. 7 /\ 6 - 1 = 5
    OBVIOUS
  <2> QED  BY <1>10, <1>11, <2>1
<1>13. f[7] = 0
  <2>1. 7 \in 1 .. 7 /\ 7 - 1 = 6
    OBVIOUS
  <2> QED  BY <1>11, <1>12, <2>1
<1> QED  BY <1>7, <1>13 DEF One

(* The highest band that is reached. *)
LEMMA HighestBand ==
  ASSUME NEW pack, Counts(pack), Shaped(pack), NEW sal \in Int, sal >= 9500
  PROVE  Band(pack, sal) = "Critical"
<1> DEFINE R == {b \in DOMAIN pack.bands : sal >= pack.bands[b]}
<1>1. DOMAIN pack.bands = {"Critical", "High", "Medium", "Low"}
  BY DEF Shaped, DefaultPack
<1>2. "Critical" \in R
  <2>1. "Critical" \in DOMAIN DefaultPack.bands
    BY DEF DefaultPack
  <2>2. pack.bands["Critical"] \in Int /\ pack.bands["Critical"] <= 9500
    BY <2>1 DEF Counts
  <2> QED  BY <1>1, <2>2
<1>3. R \subseteq {"Critical", "High", "Medium", "Low"}
  BY <1>1
<1>4. Band(pack, sal) = CHOOSE x \in R : \A c \in R : Rank[c] <= Rank[x]
  BY <1>2 DEF Band
<1> HIDE DEF R
<1>5. /\ \A b \in R : b # "Critical" => Rank[b] < Rank["Critical"] /\ Rank[b] \in Int
      /\ Rank["Critical"] \in Int
  BY <1>3 DEF Rank
<1>6. \A c \in R : Rank[c] <= Rank["Critical"]
  BY <1>5
<1>7. PICK b : b = CHOOSE x \in R : \A c \in R : Rank[c] <= Rank[x]
  OBVIOUS
<1>8. b \in R /\ \A c \in R : Rank[c] <= Rank[b]
  BY <1>2, <1>6, <1>7
<1>9. b = "Critical"
  BY <1>2, <1>5, <1>8
<1> QED  BY <1>4, <1>7, <1>9

(* So such a unit is critical. *)
LEMMA FlipsScore ==
  ASSUME NEW u, Flipped(u), u.ct # "Removed", NEW pack, Counts(pack), Shaped(pack),
         NEW spot \in Spots, NEW anchored, NEW rate
  PROVE  Scored(u, pack, spot, anchored, rate).mat = "Critical"
<1>1. PICK signals : signals = Signals(u, pack, spot)
  OBVIOUS
<1>2. /\ signals["type"] = pack.weight[u.ty] /\ signals["mag"] = u.mag /\ signals["num"] \in Int
      /\ signals["date"] = DateShift(u) /\ signals["neg"] = One
      /\ signals["pos"] = DomProxy(spot) /\ signals["kw"] = Keyword(u, pack)
  BY <1>1 DEF Signals, Flipped
<1>3. \A i \in DOMAIN Affinity : signals[i] \in Int
  <2>1. signals["type"] \in Int /\ signals["mag"] \in Int
    BY <1>2 DEF Flipped, Counts
  <2>2. signals["date"] \in Int
    BY <1>2, DateShiftType DEF Flipped
  <2>3. signals["pos"] \in Int
    BY <1>2, DomProxyType
  <2>4. signals["kw"] \in Int
    BY <1>2, KeywordType DEF Counts
  <2>5. signals["num"] \in Int /\ signals["neg"] \in Int
    BY <1>2 DEF One
  <2>6. DOMAIN Affinity = {"type", "mag", "num", "date", "neg", "pos", "kw"}
    BY DEF Affinity
  <2> QED  BY <2>1, <2>2, <2>3, <2>4, <2>5, <2>6
<1>4. NoisyOr(signals, pack) = 10000
  BY <1>2, <1>3, NegationSaturates DEF One
<1>5. PICK noise \in 0 .. 500 : noise = Noise(u)
  BY DEF Flipped
<1>6. Clamp(noise) = noise
  BY DEF Clamp, Least, One
<1>7. PICK sal \in Int : sal = NoiseDamp(10000, noise) /\ sal >= 9500
  <2>1. (10000 * (10000 - noise)) \div 10000 = 10000 - noise
    OBVIOUS
  <2> QED  BY <1>6, <2>1 DEF NoiseDamp, Times, One
<1>8. Scored(u, pack, spot, anchored, rate).mat = Band(pack, sal)
  BY <1>1, <1>4, <1>5, <1>7 DEF Scored
<1> QED  BY <1>7, <1>8, HighestBand

----------------------------------------------------------------------------
(* The author writes blocks. *)
Written == site \in Sites /\ seen \in Blocks /\ page \in Blocks

(* A site has blocks on both sides of a check. *)
LEMMA Writes == Spec => []Written
<1>0. PICK W : W = Tokens \ {Space}
  OBVIOUS
<1>1. Init => Written
  BY SitesAssumption DEF Init, Written
<1>2. ASSUME Written, [Next]_vars PROVE Written'
  <2>1. page.words \in Seq(W) /\ page.kind \in DOMAIN DefaultWeight
        /\ page.struck \in BOOLEAN /\ page.moved \in BOOLEAN
    BY <1>0, <1>2 DEF Written, Blocks
  <2>2. PICK words \in Seq(W), n \in Nat :
          words = page.words /\ n = Len(words) /\ DOMAIN words = 1 .. n
          /\ \A i \in 1 .. n : words[i] \in W
    BY <2>1, LenProperties, ElementOfSeq
  <2>3. ASSUME NEW text \in Seq(W), Write(text) PROVE Written'
    <3>1. [page EXCEPT !.words = text] \in Blocks
      BY <1>0, <1>2 DEF Written, Blocks
    <3>2. page' \in Blocks /\ site' = site /\ seen' = seen
      BY <2>3, <3>1 DEF Write, Publish
    <3> QED  BY <1>2, <3>2 DEF Written
  <2>4. ASSUME NEW i \in 1 .. n + 1, NEW j \in 0 .. n
        PROVE  SubSeq(words, 1, j) \in Seq(W) /\ SubSeq(words, i, n) \in Seq(W)
    <3>1. \A k \in 1 .. j : words[k] \in W
      BY <2>2
    <3>2. \A k \in i .. n : words[k] \in W
      BY <2>2
    <3> QED  BY <3>1, <3>2, SubSeqProperties
  <2>5. ASSUME NEW k \in DOMAIN page.words, Reword(k) PROVE Written'
    <3>1. PICK w \in Vocabulary : Write([words EXCEPT ![k] = w])
      BY <2>2, <2>5 DEF Reword
    <3>2. [words EXCEPT ![k] = w] \in Seq(W)
      BY <1>0, <2>2, EditsAssumption
    <3> QED  BY <2>3, <3>1, <3>2
  <2>6. ASSUME NEW k \in DOMAIN page.words, DropWord(k) PROVE Written'
    <3>1. Write(SubSeq(words, 1, k - 1) \o SubSeq(words, k + 1, n))
      BY <2>2, <2>6 DEF DropWord, RemoveAt
    <3>2. k - 1 \in 0 .. n /\ k + 1 \in 1 .. n + 1
      BY <2>2
    <3>3. SubSeq(words, 1, k - 1) \o SubSeq(words, k + 1, n) \in Seq(W)
      BY <2>4, <3>2, ConcatProperties
    <3> QED  BY <2>3, <3>1, <3>3
  <2>7. ASSUME NEW k \in 1 .. Len(page.words) + 1, AddWord(k) PROVE Written'
    <3>1. PICK w \in Vocabulary : Write(SubSeq(words, 1, k - 1) \o <<w>> \o SubSeq(words, k, n))
      BY <2>2, <2>7 DEF AddWord, InsertAt
    <3>2. k - 1 \in 0 .. n /\ k \in 1 .. n + 1
      BY <2>2
    <3>3. PICK p \in Seq(W), q \in Seq(W), r \in Seq(W) :
            p = SubSeq(words, 1, k - 1) /\ q = <<w>> /\ r = SubSeq(words, k, n)
      <4>1. <<w>> \in Seq(W)
        BY <1>0, EditsAssumption, MembersOfFew
      <4> QED  BY <2>4, <3>2, <4>1
    <3>4. (p \o q) \o r \in Seq(W)
      BY ConcatProperties
    <3> QED  BY <2>3, <3>1, <3>3, <3>4
  <2>8. ASSUME TakeDown PROVE Written'
    BY <2>3, <2>8, EmptySeq DEF TakeDown
  <2>9. ASSUME Retarget PROVE Written'
    <3>1. PICK href \in Seq(Tokens) : Publish([page EXCEPT !.href = href])
      BY <2>9, EditsAssumption DEF Retarget
    <3>2. [page EXCEPT !.href = href] \in Blocks
      BY <1>0, <1>2 DEF Written, Blocks
    <3> QED  BY <1>2, <3>1, <3>2 DEF Written, Publish
  <2>10. ASSUME Strike PROVE Written'
    <3>1. [page EXCEPT !.struck = ~@] \in Blocks
      BY <1>0, <1>2, <2>1 DEF Written, Blocks
    <3> QED  BY <1>2, <2>10, <3>1 DEF Strike, Written, Publish
  <2>11. ASSUME Shift PROVE Written'
    <3>1. [page EXCEPT !.moved = ~@] \in Blocks
      BY <1>0, <1>2, <2>1 DEF Written, Blocks
    <3> QED  BY <1>2, <2>11, <3>1 DEF Shift, Written, Publish
  <2>12. ASSUME Check PROVE Written'
    BY <1>2, <2>12 DEF Check, Written
  <2>13. ASSUME UNCHANGED vars PROVE Written'
    BY <1>2, <2>13 DEF vars, Written
  <2>14. ASSUME PutBack PROVE Written'
    <3>1. site.block.words \in Seq(W)
      BY <1>0, <1>2, SitesAssumption DEF Written, Blocks
    <3> QED  BY <2>3, <2>14, <3>1 DEF PutBack
  <2> QED  BY <1>2, <2>5, <2>6, <2>7, <2>8, <2>9, <2>10, <2>11, <2>12, <2>13, <2>14 DEF Next
<1>3. Written /\ [Next]_vars => Written'
  BY <1>2
<1> QED  BY <1>1, <1>3, PTL DEF Spec

(***************************************************************************)
(* A word that turns the meaning around makes its block critical, in every *)
(* text and under every stack of packs that counts negations: whatever     *)
(* script the token diff takes and whatever is elided, the word is on the  *)
(* present side alone (signals.rs), no counter's noise damps it (noise.rs) *)
(* and one full signal saturates the score (combine.rs).  Of a block that  *)
(* comes the word is among what is told.                                   *)
(***************************************************************************)
THEOREM FlipsStandOut == ASSUME NegationsCount PROVE Spec => FlipsAreCritical
<1>1. ASSUME Written, [Next]_vars, Checked, event'.ct \in {"Added", "Modified"}, event'.ty # "Link",
             NEW stem \in Turning, SaysIn(Shown, stem), ~SaysIn(Text(seen), stem)
      PROVE  Told.mat = "Critical"
  <2>1. PICK u \in UnitsOf(seen, page), rate \in AlignRates :
          event' = [told |-> Scored(u, Packs[site.layers], site.spot, site.anchored, rate),
                    ct |-> u.ct, ty |-> u.ty, rate |-> rate]
    BY <1>1, ChecksTell
  <2>2. u.ct \in {"Added", "Modified"} /\ u.ty # "Link"
    BY <1>1, <2>1
  <2>3. ASSUME NEW toks \in Seq(Tokens) PROVE SaysIn(toks, stem) <=> Spoken(toks, stem)
    <3>1. DOMAIN toks = 1 .. Len(toks)
      BY LenProperties
    <3> QED  BY <3>1 DEF SaysIn, ToSet, Lowered, Spoken
  <2>4. PICK phrase \in Negations : Len(phrase) = 1 /\ phrase[1] = stem
    BY DEF Turning
  <2>5. Flipped(u)
    <3>1. Text(page) \in Seq(Tokens) /\ Text(seen) \in Seq(Tokens)
      <4>1. page.words \in Seq(Tokens) /\ seen.words \in Seq(Tokens)
        BY <1>1, WordsHold DEF Written
      <4> QED  BY <4>1, TokensAssumption, TokenizeHolds DEF Text
    <3>2. CASE u.ct = "Added"
      <4>1. Shown = Whole(Text(page)).a
        BY <2>1, <3>2 DEF Shown
      <4>2. Spoken(Whole(Text(page)).a, stem)
        BY <1>1, <2>3, <3>1, <4>1, WholeHolds
      <4> QED  BY <1>1, <2>2, <2>4, <3>2, <4>2, ComingsFlip DEF Written, Text
    <3>3. CASE u.ct = "Modified"
      <4>1. Shown = Text(page)
        BY <2>1, <3>3 DEF Shown
      <4>2. Spoken(Text(page), stem) /\ ~Spoken(Text(seen), stem)
        BY <1>1, <2>3, <3>1, <4>1
      <4> QED  BY <1>1, <2>2, <2>4, <3>3, <4>2, EditsFlip DEF Written, Text
    <3> QED  BY <2>2, <3>2, <3>3
  <2>6. PICK pack : pack = Packs[site.layers] /\ Counts(pack) /\ Shaped(pack)
    <3>1. Packs[site.layers] = Resolve(site.layers)
      BY <1>1 DEF Packs, Written
    <3> QED  BY <1>1, <3>1, PacksCount DEF Written
  <2>7. site.spot \in Spots /\ u.ct # "Removed"
    BY <1>1, <2>2, SitesAssumption DEF Written
  <2>8. Scored(u, pack, site.spot, site.anchored, rate).mat = "Critical"
    BY <2>5, <2>6, <2>7, FlipsScore
  <2> QED  BY <2>1, <2>6, <2>8 DEF Told
<1>2. Written /\ [Next]_vars =>
        (Checked /\ event'.ct \in {"Added", "Modified"} /\ event'.ty # "Link"
           => \A stem \in Turning :
                SaysIn(Shown, stem) /\ ~SaysIn(Text(seen), stem) => Told.mat = "Critical")
  BY <1>1
<1> QED  BY <1>2, Writes, PTL DEF Spec, FlipsAreCritical

----------------------------------------------------------------------------
(* The part of each token in what a text says but for some tokens, each token
   read in some way, and what the first tokens say. *)
Pieces(s, Z, g) ==
  [k \in Nat |-> IF k \in 1 .. Len(s) /\ s[k] \notin Z THEN <<g[s[k]]>> ELSE <<>>]

Readings(g, T) == {g[x] : x \in T}
Said(s, Z, g) == Joined(Pieces(s, Z, g))
AllSaid(s, Z, g) == Said(s, Z, g)[Len(s)]
Plus(x, y) == x \o <<y>>

(* What is said are tokens, read in that way. *)
LEMMA SaidType ==
  ASSUME NEW T, NEW g, NEW s \in Seq(T), NEW Z
  PROVE  /\ Pieces(s, Z, g) \in [Nat -> Seq(Readings(g, T))]
         /\ Said(s, Z, g) \in [Nat -> Seq(Readings(g, T))] /\ Said(s, Z, g)[0] = <<>>
<1>1. PICK n \in Nat : n = Len(s) /\ \A k \in 1 .. n : s[k] \in T
  BY LenProperties, ElementOfSeq
<1>2. <<>> \in Seq(Readings(g, T)) /\ \A x \in T : <<g[x]>> \in Seq(Readings(g, T))
  BY EmptySeq, MembersOfFew DEF Readings
<1>3. Pieces(s, Z, g) \in [Nat -> Seq(Readings(g, T))]
  BY <1>1, <1>2 DEF Pieces
<1> QED  BY <1>3, JoinedHolds DEF Said

(* A token says itself or, if it is left out, nothing. *)
SaysAt(s, Z, g, k) ==
  /\ s[k] \in Z => Said(s, Z, g)[k] = Said(s, Z, g)[k - 1]
  /\ s[k] \notin Z => Said(s, Z, g)[k] = Plus(Said(s, Z, g)[k - 1], g[s[k]])

LEMMA SaidGrows ==
  ASSUME NEW T, NEW g, NEW Z, NEW s \in Seq(T), NEW k \in 1 .. Len(s)
  PROVE  SaysAt(s, Z, g, k)
<1>1. PICK b, j : b = Pieces(s, Z, g) /\ j = Said(s, Z, g) /\ j = Joined(b)
  BY DEF Said
<1>2. b \in [Nat -> Seq(Readings(g, T))] /\ j \in [Nat -> Seq(Readings(g, T))]
  <2>1. /\ Pieces(s, Z, g) \in [Nat -> Seq(Readings(g, T))]
        /\ Said(s, Z, g) \in [Nat -> Seq(Readings(g, T))]
    BY SaidType
  <2> QED  BY <1>1, <2>1
<1>3. PICK i \in Nat : i + 1 = k /\ k - 1 = i /\ k \in Nat
  <2>1. k - 1 \in Nat /\ (k - 1) + 1 = k /\ k \in Nat
    BY LenProperties
  <2> QED  BY <2>1
<1>4. \A n \in Nat : j[n + 1] = j[n] \o b[n + 1]
  BY <1>1, <1>2, JoinedHolds
<1>5. j[k] = j[k - 1] \o b[k] /\ j[k - 1] \in Seq(Readings(g, T))
  <2>1. j[i + 1] = j[i] \o b[i + 1] /\ j[i] \in Seq(Readings(g, T))
    BY <1>2, <1>4
  <2> QED  BY <1>3, <2>1
<1>6. b[k] = IF s[k] \in Z THEN <<>> ELSE <<g[s[k]]>>
  BY <1>1, <1>3 DEF Pieces
<1>7. s[k] \in Z => j[k] = j[k - 1]
  BY <1>5, <1>6, ConcatEmptySeq
<1> QED  BY <1>1, <1>5, <1>6, <1>7 DEF Plus, SaysAt

(* Tokens that are left out say nothing. *)
LEMMA SaidStays ==
  ASSUME NEW T, NEW g, NEW s \in Seq(T), NEW Z,
         NEW m \in Nat, NEW n \in Nat, m <= n, n <= Len(s), \A k \in m + 1 .. n : s[k] \in Z
  PROVE  Said(s, Z, g)[n] = Said(s, Z, g)[m]
<1>1. PICK b : b = Pieces(s, Z, g) /\ b \in [Nat -> Seq(Readings(g, T))]
  BY SaidType
<1>2. \A k \in m + 1 .. n : b[k] = <<>>
  BY <1>1 DEF Pieces
<1>3. Joined(b)[n] = Joined(b)[m]
  BY <1>1, <1>2, JoinedStays
<1> QED  BY <1>1, <1>3 DEF Said

(* One more token. *)
Extends(r, s, t) ==
  Len(r) = Len(s) + 1 /\ r[Len(s) + 1] = t /\ \A k \in 1 .. Len(s) : r[k] = s[k]

LEMMA OneMore ==
  ASSUME NEW T, NEW s \in Seq(T), NEW t \in T
  PROVE  s \o <<t>> \in Seq(T) /\ Extends(s \o <<t>>, s, t)
<1>1. s \o <<t>> = Append(s, t)
  OBVIOUS
<1>2. /\ Append(s, t) \in Seq(T) /\ Len(Append(s, t)) = Len(s) + 1
      /\ \A k \in 1 .. Len(s) : Append(s, t)[k] = s[k]
      /\ Append(s, t)[Len(s) + 1] = t
  BY AppendProperties
<1> QED  BY <1>1, <1>2 DEF Extends

LEMMA AllSaidGrows ==
  ASSUME NEW T, NEW g, NEW Z, NEW s, NEW t, NEW r,
         s \in Seq(T) /\ t \in T /\ r \in Seq(T) /\ Extends(r, s, t)
  PROVE  /\ t \in Z => AllSaid(r, Z, g) = AllSaid(s, Z, g)
         /\ t \notin Z => AllSaid(r, Z, g) = Plus(AllSaid(s, Z, g), g[t])
<1>1. PICK n \in Nat :
        /\ n = Len(s) /\ Len(r) = n + 1 /\ r[n + 1] = t
        /\ \A k \in 1 .. n : r[k] = s[k]
  BY LenProperties DEF Extends
<1>2. PICK b, c : b = Pieces(s, Z, g) /\ c = Pieces(r, Z, g) /\ b \in [Nat -> Seq(Readings(g, T))] /\ c \in [Nat -> Seq(Readings(g, T))]
  BY SaidType
<1>3. EqualOn(b, c, 1 .. n)
  <2>1. ASSUME NEW k \in 1 .. n PROVE b[k] = c[k]
    <3>1. k \in Nat /\ k \in 1 .. n + 1
      OBVIOUS
    <3> QED  BY <1>1, <1>2, <3>1 DEF Pieces
  <2> QED  BY <2>1 DEF EqualOn
<1>4. Said(r, Z, g)[n] = Said(s, Z, g)[n]
  <2>1. EqualOn(Joined(b), Joined(c), 0 .. n)
    BY <1>2, <1>3, JoinedAgree
  <2> QED  BY <1>2, <2>1 DEF EqualOn, Said
<1>5. PICK m \in 1 .. Len(r) : m = n + 1 /\ m - 1 = n
  BY <1>1
<1>6. Said(r, Z, g)[m] = IF t \in Z THEN Said(r, Z, g)[n] ELSE Plus(Said(r, Z, g)[n], g[t])
  <2>1. SaysAt(r, Z, g, m)
    BY SaidGrows
  <2> QED  BY <1>1, <1>5, <2>1 DEF SaysAt
<1> QED  BY <1>1, <1>4, <1>5, <1>6 DEF AllSaid

(* The texts of the first words. *)
LEMMA TokensGrow ==
  ASSUME NEW T, Space \in T, NEW words \in Seq(T)
  PROVE  \E f : TokensBy(f, Seq(T), words) /\ Tokenize(words) = f[Len(words)]
<1>1. PICK N \in Nat : N = Len(words) /\ \A n \in 1 .. N : words[n] \in T
  BY LenProperties, ElementOfSeq
<1>2. PICK S : S = Seq(T)
  OBVIOUS
<1>3. ASSUME NEW n \in 1 .. N, NEW toks \in S
      PROVE  Put(words, toks, n) \in S
  <2>1. PICK w \in T : w = words[n]
    BY <1>1
  <2>2. <<w>> \in Seq(T) /\ <<Space, w>> \in Seq(T)
    BY MembersOfFew
  <2>3. PICK q \in Seq(T) : Put(words, toks, n) = toks \o q
    BY <2>1, <2>2 DEF Put
  <2> QED  BY <1>2, <2>3, ConcatProperties
<1>4. TokensStay(S, words)
  BY <1>1, <1>2, <1>3, EmptySeq DEF TokensStay
<1> QED  BY <1>2, <1>4, TokenizeClimbs

(* The tokens of a text say what its words say: only spaces are put between
   them. *)
LEMMA TokensSay ==
  ASSUME NEW T, Space \in T, NEW words \in Seq(T), NEW Z, Space \in Z, NEW g
  PROVE  AllSaid(Tokenize(words), Z, g) = AllSaid(words, Z, g)
<1>1. PICK N \in Nat : N = Len(words) /\ \A n \in 1 .. N : words[n] \in T
  BY LenProperties, ElementOfSeq
<1>2. PICK S : S = Seq(T)
  OBVIOUS
<1>3. PICK f : /\ f \in [0 .. N -> S] /\ f[0] = <<>>
               /\ \A n \in 1 .. N : f[n] = Put(words, f[n - 1], n)
               /\ Tokenize(words) = f[N]
  BY <1>1, <1>2, TokensGrow DEF TokensBy
<1>4. ASSUME NEW toks \in S, NEW n \in 1 .. N, AllSaid(toks, Z, g) = Said(words, Z, g)[n - 1]
      PROVE  AllSaid(Put(words, toks, n), Z, g) = Said(words, Z, g)[n]
  <2>1. PICK w \in T : w = words[n]
    BY <1>1
  <2>2. PICK x : x = Said(words, Z, g)[n - 1]
    OBVIOUS
  <2>3. Said(words, Z, g)[n] = IF w \in Z THEN x ELSE Plus(x, g[w])
    <3>1. n \in 1 .. Len(words)
      BY <1>1
    <3>2. SaysAt(words, Z, g, n)
      BY <3>1, SaidGrows
    <3> QED  BY <2>1, <2>2, <3>2 DEF SaysAt
  <2>4. PICK more \in Seq(T) : more = toks \o <<Space>> /\ Extends(more, toks, Space)
    BY <1>2, OneMore
  <2>5. AllSaid(more, Z, g) = x
    <3>1. toks \in Seq(T) /\ Extends(more, toks, Space)
      BY <1>2, <2>4
    <3>2. AllSaid(more, Z, g) = AllSaid(toks, Z, g)
      BY <3>1, AllSaidGrows
    <3> QED  BY <1>4, <2>2, <3>2
  <2>6. ASSUME NEW s \in Seq(T), AllSaid(s, Z, g) = x
        PROVE  AllSaid(s \o <<w>>, Z, g) = Said(words, Z, g)[n]
    <3>1. PICK r \in Seq(T) : r = s \o <<w>> /\ Extends(r, s, w)
      BY OneMore
    <3>2. Extends(r, s, w)
      BY <3>1
    <3>3. /\ w \in Z => AllSaid(r, Z, g) = AllSaid(s, Z, g)
          /\ w \notin Z => AllSaid(r, Z, g) = Plus(AllSaid(s, Z, g), g[w])
      BY <3>2, AllSaidGrows
    <3> QED  BY <2>3, <2>6, <3>1, <3>3
  <2>7. Put(words, toks, n) = toks \o <<w>> \/ Put(words, toks, n) = more \o <<w>>
    <3>1. PICK p \in Seq(T), q \in Seq(T), r \in Seq(T) :
            p = toks /\ q = <<Space>> /\ r = <<w>>
      <4>1. <<Space>> \in Seq(T) /\ <<w>> \in Seq(T)
        BY MembersOfFew
      <4> QED  BY <1>2, <4>1
    <3>2. (p \o q) \o r = p \o (q \o r)
      <4>1. Associative(p, q, r)
        BY Concatenates
      <4> QED  BY <4>1 DEF Associative
    <3>3. q \o r = <<Space, w>>
      <4>1. PICK e \in Seq(T) : e = q \o r /\ Extends(e, q, w)
        BY <3>1, OneMore
      <4>2. Len(q) = 1 /\ q[1] = Space
        BY <3>1
      <4>3. Len(e) = 2 /\ e[1] = Space /\ e[2] = w
        BY <4>1, <4>2 DEF Extends
      <4>4. e = <<Space, w>>
        BY <4>3
      <4> QED  BY <4>1, <4>4
    <3>4. \/ Put(words, toks, n) = toks \o <<words[n]>>
          \/ Put(words, toks, n) = toks \o <<Space, words[n]>>
      BY Zenon DEF Put
    <3> QED  BY <2>1, <2>4, <3>1, <3>2, <3>3, <3>4
  <2> QED  BY <1>2, <1>4, <2>2, <2>4, <2>5, <2>6, <2>7
<1> DEFINE same == {n \in Nat : n <= N => AllSaid(f[n], Z, g) = Said(words, Z, g)[n]}
<1>5. 0 \in same
  <2>1. <<>> \in Seq(T) /\ Len(<<>>) = 0
    BY EmptySeq
  <2>2. Said(<<>>, Z, g)[0] = <<>> /\ Said(words, Z, g)[0] = <<>>
    BY <2>1, SaidType
  <2> QED  BY <1>3, <2>1, <2>2 DEF AllSaid
<1>6. ASSUME NEW n \in Nat, n \in same PROVE n + 1 \in same
  <2>1. SUFFICES ASSUME n + 1 <= N PROVE AllSaid(f[n + 1], Z, g) = Said(words, Z, g)[n + 1]
    OBVIOUS
  <2>2. PICK i \in 1 .. N, toks \in S : i = n + 1 /\ i - 1 = n /\ toks = f[n]
    <3>1. n + 1 \in 1 .. N /\ (n + 1) - 1 = n /\ n \in 0 .. N
      BY <2>1
    <3> QED  BY <1>3, <3>1
  <2>3. AllSaid(toks, Z, g) = Said(words, Z, g)[n]
    BY <1>6, <2>1, <2>2
  <2>4. f[i] = Put(words, toks, i)
    BY <1>3, <2>2
  <2> QED  BY <1>4, <2>2, <2>3, <2>4
<1>7. N \in same
  <2> HIDE DEF same
  <2> QED  BY <1>5, <1>6, Induction
<1> QED  BY <1>1, <1>3, <1>7 DEF AllSaid

(* Two texts that read the same in some way say the same in it, if what is
   left out reads as a thing of its own. *)
LEMMA AlikeSay ==
  ASSUME NEW T, NEW p \in Seq(T), NEW q \in Seq(T), NEW g, NEW Z,
         \A x \in T : \A y \in T : g[x] = g[y] => (x \in Z <=> y \in Z),
         Len(p) = Len(q), \A k \in 1 .. Len(p) : g[p[k]] = g[q[k]]
  PROVE  AllSaid(p, Z, g) = AllSaid(q, Z, g)
<1>1. PICK n \in Nat : /\ n = Len(p) /\ n = Len(q)
                       /\ \A k \in 1 .. n : p[k] \in T /\ q[k] \in T
  BY LenProperties, ElementOfSeq
<1>2. Pieces(p, Z, g) = Pieces(q, Z, g)
  BY <1>1 DEF Pieces
<1> QED  BY <1>1, <1>2 DEF AllSaid, Said

(* With nothing left out, a text says what it reads. *)
LEMMA AllIsSaid ==
  ASSUME NEW T, NEW s \in Seq(T), NEW g
  PROVE  AllSaid(s, {}, g) = [k \in 1 .. Len(s) |-> g[s[k]]]
<1>1. PICK N \in Nat : N = Len(s) /\ \A k \in 1 .. N : s[k] \in T
  BY LenProperties, ElementOfSeq
<1>2. PICK j : j = Said(s, {}, g) /\ j[0] = <<>>
               /\ \A k \in 1 .. N : j[k] = Plus(j[k - 1], g[s[k]])
  <2>1. PICK Z : Z = {}
    OBVIOUS
  <2>2. ASSUME NEW k \in 1 .. N
        PROVE  Said(s, Z, g)[k] = Plus(Said(s, Z, g)[k - 1], g[s[k]])
    <3>1. k \in 1 .. Len(s)
      BY <1>1
    <3>2. SaysAt(s, Z, g, k)
      BY <3>1, SaidGrows
    <3> QED  BY <2>1, <3>2 DEF SaysAt
  <2>3. Said(s, Z, g)[0] = <<>>
    BY SaidType
  <2> QED  BY <2>1, <2>2, <2>3
<1>3. PICK r : r = [n \in Nat |-> [k \in 1 .. n |-> g[s[k]]]]
  OBVIOUS
<1>4. ASSUME NEW n \in 1 .. N PROVE r[n] = Plus(r[n - 1], g[s[n]])
  <2>1. PICK i \in Nat : n = i + 1 /\ i = n - 1 /\ n \in Nat /\ i + 1 \in 1 .. N
    <3>1. n - 1 \in Nat /\ n = (n - 1) + 1 /\ n \in Nat
      OBVIOUS
    <3> QED  BY <3>1
  <2>2. PICK U : U = Readings(g, T)
    OBVIOUS
  <2>3. \A m \in Nat : m <= N => r[m] \in Seq(U) /\ Len(r[m]) = m
    <3>1. ASSUME NEW m \in Nat, m <= N PROVE r[m] \in Seq(U) /\ Len(r[m]) = m
      <4>1. r[m] = [k \in 1 .. m |-> g[s[k]]]
        BY <1>3
      <4>2. r[m] \in [1 .. m -> U]
        BY <1>1, <2>2, <3>1, <4>1 DEF Readings
      <4>3. r[m] \in Seq(U)
        BY <4>2, SeqDef
      <4> QED  BY <4>1, <4>3, LenProperties
    <3> QED  BY <3>1
  <2>4. PICK x \in Seq(U), y \in Seq(U) : x = r[i] /\ y = r[n] /\ Len(x) = i /\ Len(y) = i + 1
    BY <2>1, <2>3
  <2>5. PICK z \in U : z = g[s[n]]
    BY <1>1, <2>2 DEF Readings
  <2>6. /\ Append(x, z) \in Seq(U) /\ Len(Append(x, z)) = i + 1
        /\ \A k \in 1 .. i : Append(x, z)[k] = x[k]
        /\ Append(x, z)[i + 1] = z
    BY <2>4, AppendProperties
  <2>7. /\ \A k \in 1 .. i : x[k] = g[s[k]] /\ y[k] = g[s[k]]
        /\ y[i + 1] = z
    <3>1. \A k \in 1 .. i : k \in 1 .. n
      BY <2>1
    <3> QED  BY <1>3, <2>1, <2>4, <2>5, <3>1
  <2>8. \A k \in 1 .. i + 1 : y[k] = Append(x, z)[k]
    <3>1. \A k \in 1 .. i + 1 : k \in 1 .. i \/ k = i + 1
      OBVIOUS
    <3> QED  BY <2>6, <2>7, <3>1
  <2>9. y = Append(x, z)
    BY <2>4, <2>6, <2>8, SeqEqual
  <2>10. Append(x, z) = x \o <<z>>
    OBVIOUS
  <2> QED  BY <2>1, <2>4, <2>5, <2>9, <2>10 DEF Plus
<1> DEFINE same == {n \in Nat : n <= N => j[n] = r[n]}
<1>5. 0 \in same
  <2>1. r[0] = [k \in 1 .. 0 |-> g[s[k]]]
    BY <1>3
  <2>2. r[0] = <<>>
    BY <2>1
  <2> QED  BY <1>2, <2>2
<1>6. ASSUME NEW n \in Nat, n \in same PROVE n + 1 \in same
  <2>1. SUFFICES ASSUME n + 1 <= N PROVE j[n + 1] = r[n + 1]
    OBVIOUS
  <2>2. PICK i \in 1 .. N : i = n + 1 /\ i - 1 = n
    <3>1. n + 1 \in 1 .. N /\ (n + 1) - 1 = n
      BY <2>1
    <3> QED  BY <3>1
  <2>3. j[n] = r[n]
    BY <1>6, <2>1
  <2> QED  BY <1>2, <1>4, <2>2, <2>3
<1>7. N \in same
  <2> HIDE DEF same
  <2> QED  BY <1>5, <1>6, Induction
<1> QED  BY <1>1, <1>2, <1>3, <1>7 DEF AllSaid

----------------------------------------------------------------------------
(* Pairs of places that do not cross, and those within two spans of places. *)
Crossless(pairs) == \A p \in pairs : \A q \in pairs : p[1] < q[1] => p[2] < q[2]
Within(pairs, at, endA, endB) == pairs \subseteq (at .. endA) \X (at .. endB)

(* A chain that goes on at a later place does not cross itself. *)
LEMMA LongerStays ==
  ASSUME NEW at \in Int, NEW i \in Int, at <= i, NEW last \in Int, NEW j \in Int, at - 1 <= last, last < j,
         NEW pairs, Within(pairs, at, i - 1, last), Crossless(pairs)
  PROVE  Within(pairs \cup {<<i, j>>}, at, i, j) /\ Crossless(pairs \cup {<<i, j>>})
<1>1. ASSUME NEW p \in pairs
      PROVE  /\ p = <<p[1], p[2]>> /\ p[1] \in Int /\ p[2] \in Int
             /\ at <= p[1] /\ p[1] < i /\ at <= p[2] /\ p[2] < j
  <2>1. p \in (at .. i - 1) \X (at .. last)
    BY <1>1 DEF Within
  <2>2. p = <<p[1], p[2]>> /\ p[1] \in at .. i - 1 /\ p[2] \in at .. last
    BY <2>1
  <2> QED  BY <2>2
<1>2. PICK r : r = <<i, j>> /\ r[1] = i /\ r[2] = j
  <2>1. <<i, j>>[1] = i /\ <<i, j>>[2] = j
    OBVIOUS
  <2> QED  BY <2>1
<1>3. Within(pairs \cup {r}, at, i, j)
  <2>1. ASSUME NEW p \in pairs PROVE p \in (at .. i) \X (at .. j)
    <3>1. p = <<p[1], p[2]>> /\ p[1] \in at .. i /\ p[2] \in at .. j
      BY <1>1
    <3> QED  BY <3>1
  <2>2. r \in (at .. i) \X (at .. j)
    <3>1. i \in at .. i /\ j \in at .. j
      OBVIOUS
    <3> QED  BY <1>2, <3>1
  <2> QED  BY <2>1, <2>2 DEF Within
<1>4. ASSUME NEW p \in pairs \cup {r}, NEW q \in pairs \cup {r}, p[1] < q[1] PROVE p[2] < q[2]
  <2>1. CASE p \in pairs /\ q \in pairs
    BY <1>4, <2>1 DEF Crossless
  <2>2. CASE p \in pairs /\ q = r
    BY <1>1, <1>2, <2>2
  <2>3. CASE p = r
    <3>1. ~(p[1] < q[1])
      BY <1>1, <1>2, <2>3
    <3> QED  BY <1>4, <3>1
  <2> QED  BY <2>1, <2>2, <2>3
<1>5. Crossless(pairs \cup {r})
  BY <1>4 DEF Crossless
<1> QED  BY <1>2, <1>3, <1>5

(* No chain crosses itself, nor leaves its spans. *)
LEMMA ChainsClear ==
  ASSUME NEW a, NEW b, NEW at \in Int, NEW endA \in Int, NEW endB \in Int, at <= endA + 1, at <= endB + 1,
         NEW c \in Chains(a, b, at, endA, endB)
  PROVE  Within(c.pairs, at, endA, endB) /\ Crossless(c.pairs)
<1>1. PICK R, S : R = [pairs : SUBSET (Int \X Int), last : Int] /\ S = SUBSET R
  OBVIOUS
<1>2. Places(at, endA) \in Nat /\ Start(at) \in S
  <2>1. [pairs |-> {}, last |-> at - 1] \in R
    BY <1>1
  <2> QED  BY <1>1, <2>1 DEF Places, Start
<1>3. ASSUME NEW n \in 1 .. Places(at, endA), NEW X \in S
      PROVE  More(a, b, at, endB, X, n) \in S
  <2>1. PICK i \in Int : i = at + n - 1
    BY <1>2
  <2>2. ASSUME NEW e \in X, NEW j \in e.last + 1 .. endB
        PROVE  [pairs |-> e.pairs \cup {<<i, j>>}, last |-> j] \in R
    <3>1. e.last \in Int /\ e.pairs \subseteq Int \X Int
      BY <1>1
    <3>2. j \in Int
      BY <3>1
    <3> QED  BY <1>1, <3>1, <3>2
  <2> QED  BY <1>1, <2>1, <2>2 DEF More
<1>4. ChainsStay(S, a, b, at, endA, endB)
  BY <1>2, <1>3 DEF ChainsStay
<1>5. PICK f : ChainsBy(f, S, a, b, at, endA, endB) /\ Chains(a, b, at, endA, endB) = f[Places(at, endA)]
  BY <1>4, ChainsClimb
<1>6. PICK N \in Nat : N = Places(at, endA) /\ at + N - 1 = endA
  BY <1>2 DEF Places
<1> DEFINE Fine(n, e) == /\ e \in R /\ at - 1 <= e.last /\ e.last <= endB
                         /\ Within(e.pairs, at, at + n - 1, e.last) /\ Crossless(e.pairs)
           clear == {n \in Nat : n <= N => \A e \in f[n] : Fine(n, e)}
<1>7. 0 \in clear
  <2>1. ASSUME NEW e \in f[0] PROVE Fine(0, e)
    <3>1. e = [pairs |-> {}, last |-> at - 1]
      BY <1>5, <2>1 DEF ChainsBy, Start
    <3>2. e.pairs = {} /\ e.last = at - 1 /\ e \in R
      BY <1>1, <3>1
    <3> QED  BY <3>2 DEF Within, Crossless
  <2> QED  BY <2>1
<1>8. ASSUME NEW n \in Nat, n \in clear PROVE n + 1 \in clear
  <2>1. SUFFICES ASSUME n + 1 <= N, NEW e \in f[n + 1] PROVE Fine(n + 1, e)
    OBVIOUS
  <2>2. PICK k \in 1 .. N, i \in Int : k = n + 1 /\ k - 1 = n /\ i = at + k - 1 /\ i - 1 = at + n - 1 /\ at <= i
    <3>1. n + 1 \in 1 .. N /\ (n + 1) - 1 = n /\ at + (n + 1) - 1 \in Int
          /\ (at + (n + 1) - 1) - 1 = at + n - 1 /\ at <= at + (n + 1) - 1
      BY <2>1
    <3> QED  BY <3>1
  <2>3. \A d \in f[n] : Fine(n, d)
    BY <1>8, <2>1
  <2>4. e \in More(a, b, at, endB, f[n], k)
    <3>1. f[k] = More(a, b, at, endB, f[k - 1], k)
      BY <1>5, <1>6, <2>2 DEF ChainsBy
    <3> QED  BY <2>1, <2>2, <3>1
  <2>5. CASE e \in f[n]
    <3>1. Fine(n, e)
      BY <2>3, <2>5
    <3>2. Within(e.pairs, at, at + (n + 1) - 1, e.last)
      <4>1. \A x \in at .. at + n - 1 : x \in at .. at + (n + 1) - 1
        OBVIOUS
      <4> QED  BY <3>1, <4>1 DEF Within
    <3> QED  BY <3>1, <3>2
  <2>6. CASE e \notin f[n]
    <3>1. PICK d \in f[n] : \E j \in d.last + 1 .. endB : e = [pairs |-> d.pairs \cup {<<i, j>>}, last |-> j]
      BY <2>2, <2>4, <2>6 DEF More
    <3>2. PICK j \in d.last + 1 .. endB : e = [pairs |-> d.pairs \cup {<<i, j>>}, last |-> j]
      BY <3>1
    <3>3. Fine(n, d)
      BY <2>3
    <3>4. PICK last \in Int, pairs \in SUBSET (Int \X Int) : last = d.last /\ pairs = d.pairs
      BY <1>1, <3>3
    <3>5. at - 1 <= last /\ Within(pairs, at, i - 1, last) /\ Crossless(pairs)
      BY <2>2, <3>3, <3>4
    <3>6. j \in Int /\ last < j /\ j <= endB /\ at - 1 <= j
      <4>1. j \in last + 1 .. endB
        BY <3>4
      <4> QED  BY <3>5, <4>1
    <3>7. Within(pairs \cup {<<i, j>>}, at, i, j) /\ Crossless(pairs \cup {<<i, j>>})
      BY <2>2, <3>5, <3>6, LongerStays
    <3>8. e.pairs = pairs \cup {<<i, j>>} /\ e.last = j /\ e \in R
      BY <1>1, <3>2, <3>4, <3>6
    <3> QED  BY <2>2, <3>6, <3>7, <3>8
  <2> QED  BY <2>5, <2>6
<1>9. N \in clear
  <2> HIDE DEF clear
  <2> QED  BY <1>7, <1>8, Induction
<1>10. Fine(N, c)
  BY <1>5, <1>6, <1>9
<1>11. Within(c.pairs, at, endA, endB)
  <2>1. PICK last \in Int : last = c.last /\ last <= endB /\ Within(c.pairs, at, endA, last)
    BY <1>1, <1>6, <1>10
  <2>2. \A x \in at .. last : x \in at .. endB
    BY <2>1
  <2> QED  BY <2>1, <2>2 DEF Within
<1> QED  BY <1>10, <1>11

(* What the library keeps does not cross. *)
LEMMA KeptClear ==
  ASSUME NEW T, NEW a \in Seq(T), NEW b \in Seq(T), NEW kept \in KeptPairs(a, b)
  PROVE  Within(kept, 1, Len(a), Len(b)) /\ Crossless(kept)
<1>1. PICK m \in Nat, n \in Nat : m = Len(a) /\ n = Len(b)
  BY LenProperties
<1>2. PICK h \in Nat : h = Alike(a, b) /\ h <= m /\ h <= n
  BY <1>1, AlikeHolds
<1>3. PICK p \in Seq(T), q \in Seq(T) :
        /\ p = Backwards(a, h) /\ Len(p) = m - h
        /\ q = Backwards(b, h) /\ Len(q) = n - h
  <2>1. h \in 0 .. Len(a) /\ h \in 0 .. Len(b)
    BY <1>1, <1>2
  <2>2. /\ Backwards(a, h) \in Seq(T) /\ Len(Backwards(a, h)) = Len(a) - h
        /\ Backwards(b, h) \in Seq(T) /\ Len(Backwards(b, h)) = Len(b) - h
    BY <2>1, TailHolds
  <2>3. PICK p, q : p = Backwards(a, h) /\ q = Backwards(b, h)
    OBVIOUS
  <2> QED  BY <1>1, <2>2, <2>3
<1>4. PICK t \in Nat : t = Alike(p, q) /\ t <= m - h /\ t <= n - h
  <2>1. Alike(p, q) \in Nat /\ Alike(p, q) <= Len(p) /\ Alike(p, q) <= Len(q)
    BY AlikeHolds
  <2> QED  BY <1>3, <2>1
<1>5. PICK middle \in Longest(Chains(a, b, h + 1, m - t, n - t)) :
        kept = middle \cup {<<i, i>> : i \in 1 .. h} \cup {<<i, i + (n - m)>> : i \in m - t + 1 .. m}
  BY <1>1, <1>2, <1>3, <1>4 DEF KeptPairs, Backwards
<1>6. Within(middle, h + 1, m - t, n - t) /\ Crossless(middle)
  <2>1. PICK c \in Chains(a, b, h + 1, m - t, n - t) : middle = c.pairs
    BY <1>5 DEF Longest
  <2>2. h + 1 \in Int /\ m - t \in Int /\ n - t \in Int /\ h + 1 <= (m - t) + 1 /\ h + 1 <= (n - t) + 1
    <3>1. /\ h \in Nat /\ t \in Nat /\ m \in Nat /\ n \in Nat
          /\ t <= m - h /\ t <= n - h
      BY <1>1, <1>2, <1>4
    <3> QED  BY <3>1
  <2> QED  BY <2>1, <2>2, ChainsClear
<1> DEFINE First(x) == x[1] \in 1 .. h /\ x[2] = x[1]
           Second(x) == x[1] \in h + 1 .. m - t /\ x[2] \in h + 1 .. n - t /\ x \in middle
           Third(x) == x[1] \in m - t + 1 .. m /\ x[2] = x[1] + (n - m)
<1>7. ASSUME NEW x \in kept
      PROVE  x = <<x[1], x[2]>> /\ (First(x) \/ Second(x) \/ Third(x))
  <2>1. CASE x \in middle
    <3>1. x \in (h + 1 .. m - t) \X (h + 1 .. n - t)
      BY <1>6, <2>1 DEF Within
    <3> QED  BY <2>1, <3>1
  <2>2. CASE \E i \in 1 .. h : x = <<i, i>>
    BY <2>2
  <2>3. CASE \E i \in m - t + 1 .. m : x = <<i, i + (n - m)>>
    <3>1. PICK i \in m - t + 1 .. m : x = <<i, i + (n - m)>>
      BY <2>3
    <3>2. x[1] = i /\ x[2] = i + (n - m)
      BY <3>1
    <3> QED  BY <3>1, <3>2
  <2> QED  BY <1>5, <1>7, <2>1, <2>2, <2>3
<1>8. ASSUME NEW x \in kept PROVE x \in (1 .. m) \X (1 .. n)
  <2>1. /\ h \in Nat /\ t \in Nat /\ m \in Nat /\ n \in Nat
        /\ h <= m /\ h <= n /\ t <= m - h /\ t <= n - h
    BY <1>1, <1>2, <1>4
  <2>2. First(x) \/ Second(x) \/ Third(x)
    BY <1>7
  <2>3. x[1] \in 1 .. m /\ x[2] \in 1 .. n
    <3>1. CASE First(x)
      BY <2>1, <3>1
    <3>2. CASE Second(x)
      BY <2>1, <3>2
    <3>3. CASE Third(x)
      BY <2>1, <3>3
    <3> QED  BY <2>2, <3>1, <3>2, <3>3
  <2> QED  BY <1>7, <2>3
<1>9. ASSUME NEW x \in kept, NEW y \in kept, x[1] < y[1] PROVE x[2] < y[2]
  <2>1. CASE Second(x) /\ Second(y)
    BY <1>6, <1>9, <2>1 DEF Crossless
  <2>2. CASE ~(Second(x) /\ Second(y))
    <3>1. /\ h \in Nat /\ t \in Nat /\ m \in Nat /\ n \in Nat
          /\ t <= m - h /\ t <= n - h
      BY <1>1, <1>2, <1>4
    <3>2. (First(x) \/ Second(x) \/ Third(x)) /\ (First(y) \/ Second(y) \/ Third(y))
      BY <1>7
    <3>3. CASE First(x) /\ First(y)
      BY <1>9, <3>3
    <3>4. CASE First(x) /\ ~First(y)
      BY <1>9, <3>1, <3>2, <3>4
    <3>5. CASE Second(x) /\ (First(y) \/ Third(y))
      BY <1>9, <3>1, <3>5
    <3>6. CASE Third(x)
      BY <1>9, <3>1, <3>2, <3>6
    <3> QED  BY <2>2, <3>2, <3>3, <3>4, <3>5, <3>6
  <2> QED  BY <2>1, <2>2
<1> QED  BY <1>1, <1>8, <1>9 DEF Within, Crossless

----------------------------------------------------------------------------
(* An edit of something that is not left out. *)
Stray(ops, Z) == \E op \in {"ins", "del"} : \E t : t \notin Z /\ Member(Tagged(op, t), ops)

(* Edits stay when a script goes on, and what it goes on with may be one. *)
LEMMA StraysAdd ==
  ASSUME NEW R, NEW p \in Seq(R), NEW q \in Seq(R), NEW Z, Stray(p, Z) \/ Stray(q, Z)
  PROVE  Stray(p \o q, Z)
<1>1. \A x : Member(x, p \o q) <=> Member(x, p) \/ Member(x, q)
  BY MembersOfBoth
<1> QED  BY <1>1 DEF Stray

LEMMA OpsStray ==
  ASSUME NEW T, NEW toks \in Seq(T), NEW op \in {"ins", "del"}, NEW Z,
         NEW t, t \notin Z, Member(t, toks)
  PROVE  Stray(Ops(op, toks), Z)
<1>1. PICK R : R = {Tagged(op, x) : x \in T}
  OBVIOUS
<1>2. \A x \in T : Tagged(op, x) \in R
  BY <1>1
<1>3. Member(Tagged(op, t), Ops(op, toks))
  BY <1>2, OpsHold
<1> QED  BY <1>3 DEF Stray

(* What the two texts say is even up to a place of each, unless an edit is
   stray, and no kept pair goes back behind it. *)
Even(a, b, kept, Z, g, s, i) ==
  /\ Stray(s.ops, Z) \/ Said(a, Z, g)[i] = Said(b, Z, g)[s.next - 1]
  /\ \A p \in kept : i < p[1] => s.next <= p[2]

(* What is filled in is left out, unless it is stray. *)
FillsUp(b, s, j, R, Z, g) ==
  /\ Filled(b, s, j) \in Seq(R)
  /\ \/ Stray(Filled(b, s, j), Z)
     \/ ~Stray(s.ops, Z) /\ Said(b, Z, g)[j - 1] = Said(b, Z, g)[s.next - 1]

LEMMA FilledSays ==
  ASSUME NEW T, NEW b \in Seq(T), NEW R, \A t \in T : Tagged("ins", t) \in R, NEW Z, NEW g,
         NEW s, s.ops \in Seq(R), s.next \in 1 .. Len(b) + 1,
         NEW j \in 1 .. Len(b) + 1, s.next <= j
  PROVE  FillsUp(b, s, j, R, Z, g)
<1>1. PICK m \in 1 .. Len(b) + 1, o \in Seq(R) : m = s.next /\ o = s.ops
  OBVIOUS
<1>2. PICK p \in Seq(T) : p = SubSeq(b, m, j - 1) /\ \A i \in m .. j - 1 : Member(b[i], p)
  BY SliceHolds
<1>3. PICK q \in Seq(R) : q = Ops("ins", p)
  BY OpsHold
<1>4. o \o q \in Seq(R)
  BY ConcatProperties
<1>5. ASSUME ~Stray(o \o q, Z)
      PROVE  ~Stray(o, Z) /\ Said(b, Z, g)[j - 1] = Said(b, Z, g)[m - 1]
  <2>1. ~Stray(o, Z) /\ ~Stray(q, Z)
    BY <1>5, StraysAdd
  <2>2. ASSUME NEW i \in m .. j - 1 PROVE b[i] \in Z
    BY <1>2, <1>3, <2>1, OpsStray
  <2>3. PICK x \in Nat, y \in Nat : x = m - 1 /\ y = j - 1 /\ x <= y /\ y <= Len(b) /\ x + 1 = m
    <3>1. Len(b) \in Nat
      BY LenProperties
    <3>2. m - 1 \in Nat /\ j - 1 \in Nat /\ m - 1 <= j - 1 /\ j - 1 <= Len(b) /\ (m - 1) + 1 = m
      BY <1>1, <3>1
    <3> QED  BY <3>2
  <2>4. \A i \in x + 1 .. y : b[i] \in Z
    BY <2>2, <2>3
  <2>5. Said(b, Z, g)[y] = Said(b, Z, g)[x]
    BY <2>3, <2>4, SaidStays
  <2> QED  BY <2>1, <2>3, <2>5
<1>6. Filled(b, s, j) = o \o q
  BY <1>1, <1>2, <1>3 DEF Filled
<1> QED  BY <1>1, <1>4, <1>5, <1>6 DEF FillsUp

(* A script stays even over the next token of the text before. *)
LEMMA EditEven ==
  ASSUME NEW T, NEW a \in Seq(T), NEW b \in Seq(T), NEW R,
         \A t \in T : \A op \in {"ins", "keep", "del"} : Tagged(op, t) \in R,
         NEW kept \in SUBSET SamePlaces(a, b), Within(kept, 1, Len(a), Len(b)), Crossless(kept),
         NEW Z, NEW g, NEW i \in 1 .. Len(a),
         NEW s \in [ops : Seq(R), next : 1 .. Len(b) + 1],
         Even(a, b, kept, Z, g, s, i - 1)
  PROVE  Even(a, b, kept, Z, g, Edit(a, b, kept, s, i), i)
<1>1. PICK m \in Nat, n \in Nat : m = Len(a) /\ n = Len(b) /\ DOMAIN b = 1 .. n
  BY LenProperties
<1>2. PICK o \in Seq(R), x \in 1 .. n + 1 : o = s.ops /\ x = s.next /\ s = [ops |-> o, next |-> x]
  BY <1>1
<1>3. a[i] \in T /\ SaysAt(a, Z, g, i)
  BY ElementOfSeq, SaidGrows
<1>4. PICK d \in Seq(R), q \in Seq(R) :
        d = Ops("del", <<a[i]>>) /\ q = Ops("keep", <<a[i]>>) /\ (a[i] \notin Z => Stray(d, Z))
  <2>1. <<a[i]>> \in Seq(T) /\ Member(a[i], <<a[i]>>)
    BY <1>3, MembersOfFew
  <2>2. Ops("del", <<a[i]>>) \in Seq(R) /\ Ops("keep", <<a[i]>>) \in Seq(R)
    BY <2>1, OpsHold
  <2>3. a[i] \notin Z => Stray(Ops("del", <<a[i]>>), Z)
    BY <2>1, OpsStray
  <2> QED  BY <2>2, <2>3
<1>5. /\ \A p \in kept : /\ p[1] \in Int /\ p[2] \in Int /\ p = <<p[1], p[2]>>
                         /\ p[2] \in 1 .. n /\ a[p[1]] = b[p[2]]
      /\ \A p \in kept : i - 1 < p[1] => x <= p[2]
  <2>1. \A p \in kept : p \in (1 .. m) \X (1 .. n) /\ p \in SamePlaces(a, b)
    BY <1>1 DEF Within
  <2> QED  BY <1>2, <2>1 DEF Even, SamePlaces
<1>6. CASE Partners(b, kept, i) = {}
  <2>1. PICK r : r = [ops |-> o \o d, next |-> x]
    OBVIOUS
  <2>2. Edit(a, b, kept, s, i) = r
    <3>1. Edit(a, b, kept, s, i) = [s EXCEPT !.ops = @ \o d]
      BY <1>4, <1>6 DEF Edit
    <3>2. PICK p : p = s.ops \o d /\ p = o \o d
      BY <1>2
    <3>3. [s EXCEPT !.ops = p] = [ops |-> p, next |-> x]
      BY <1>2
    <3> QED  BY <2>1, <3>1, <3>2, <3>3
  <2>3. r.ops = o \o d /\ r.next = x
    BY <2>1
  <2>4. Stray(r.ops, Z) \/ Said(a, Z, g)[i] = Said(b, Z, g)[x - 1]
    <3>1. SUFFICES ASSUME ~Stray(r.ops, Z) PROVE Said(a, Z, g)[i] = Said(b, Z, g)[x - 1]
      OBVIOUS
    <3>2. ~Stray(o, Z) /\ ~Stray(d, Z)
      BY <2>3, <3>1, StraysAdd
    <3>3. Said(a, Z, g)[i] = Said(a, Z, g)[i - 1]
      BY <1>3, <1>4, <3>2 DEF SaysAt
    <3>4. Said(a, Z, g)[i - 1] = Said(b, Z, g)[x - 1]
      BY <1>2, <3>2 DEF Even
    <3> QED  BY <3>3, <3>4
  <2>5. ASSUME NEW p \in kept, i < p[1] PROVE x <= p[2]
    <3>1. i - 1 < p[1]
      BY <1>5, <2>5
    <3> QED  BY <1>5, <3>1
  <2>6. Even(a, b, kept, Z, g, r, i)
    BY <2>3, <2>4, <2>5 DEF Even
  <2> QED  BY <2>2, <2>6
<1>7. CASE Partners(b, kept, i) # {}
  <2>1. PICK j : j = (CHOOSE k \in Partners(b, kept, i) : TRUE)
    OBVIOUS
  <2>2. j \in Partners(b, kept, i)
    BY <1>7, <2>1
  <2>3. PICK e \in kept : e = <<i, j>> /\ e[1] = i /\ e[2] = j
    <3>1. <<i, j>> \in kept
      BY <2>2 DEF Partners
    <3>2. <<i, j>>[1] = i /\ <<i, j>>[2] = j
      OBVIOUS
    <3> QED  BY <3>1, <3>2
  <2>4. j \in 1 .. n /\ j \in 1 .. n + 1 /\ a[i] = b[j] /\ x <= j
    <3>1. i - 1 < i
      OBVIOUS
    <3> QED  BY <1>5, <2>3, <3>1
  <2>5. FillsUp(b, s, j, R, Z, g)
    <3>1. s.next <= j /\ j \in 1 .. Len(b) + 1
      BY <1>1, <1>2, <2>4
    <3>2. \A t \in T : Tagged("ins", t) \in R
      OBVIOUS
    <3> QED  BY <3>1, <3>2, FilledSays
  <2>6. PICK f \in Seq(R) : f = Filled(b, s, j)
    BY <2>5 DEF FillsUp
  <2>7. PICK r : r = [ops |-> f \o q, next |-> j + 1]
    OBVIOUS
  <2>8. Edit(a, b, kept, s, i) = r
    BY <1>4, <1>7, <2>1, <2>6, <2>7 DEF Edit
  <2>9. r.ops = f \o q /\ r.next = j + 1 /\ r.next - 1 = j
    <3>1. (j + 1) - 1 = j
      BY <1>1, <2>4
    <3> QED  BY <2>7, <3>1
  <2>10. Stray(r.ops, Z) \/ Said(a, Z, g)[i] = Said(b, Z, g)[r.next - 1]
    <3>1. SUFFICES ASSUME ~Stray(r.ops, Z) PROVE Said(a, Z, g)[i] = Said(b, Z, g)[j]
      BY <2>9
    <3>2. ~Stray(f, Z)
      BY <2>9, <3>1, StraysAdd
    <3>3. Said(b, Z, g)[j - 1] = Said(a, Z, g)[i - 1]
      BY <2>5, <2>6, <3>2 DEF Even, FillsUp
    <3>4. SaysAt(b, Z, g, j)
      <4>1. j \in 1 .. Len(b)
        BY <1>1, <2>4
      <4> QED  BY <4>1, SaidGrows
    <3> QED  BY <1>3, <2>4, <3>3, <3>4 DEF SaysAt
  <2>11. ASSUME NEW p \in kept, i < p[1] PROVE r.next <= p[2]
    <3>1. e[2] < p[2]
      BY <2>3, <2>11 DEF Crossless
    <3>2. p[2] \in Int
      BY <1>5
    <3>3. j + 1 <= p[2]
      BY <2>3, <2>4, <3>1, <3>2
    <3> QED  BY <2>7, <3>3
  <2>12. Even(a, b, kept, Z, g, r, i)
    BY <2>10, <2>11 DEF Even
  <2> QED  BY <2>8, <2>12
<1> QED  BY <1>6, <1>7

(* A script stays one over the next token of the text before. *)
LEMMA EditType ==
  ASSUME NEW T, NEW a \in Seq(T), NEW b \in Seq(T), NEW R,
         \A t \in T : \A op \in {"ins", "keep", "del"} : Tagged(op, t) \in R,
         NEW kept, NEW i \in 1 .. Len(a), NEW s \in [ops : Seq(R), next : 1 .. Len(b) + 1]
  PROVE  Edit(a, b, kept, s, i) \in [ops : Seq(R), next : 1 .. Len(b) + 1]
<1>1. PICK n \in Nat : n = Len(b) /\ DOMAIN b = 1 .. n
  BY LenProperties
<1>2. ASSUME NEW op \in {"keep", "del"} PROVE Ops(op, <<a[i]>>) \in Seq(R)
  <2>1. <<a[i]>> \in Seq(T)
    BY ElementOfSeq, MembersOfFew
  <2> QED  BY <2>1, OpsHold
<1>3. CASE Partners(b, kept, i) = {}
  <2>1. s.ops \o Ops("del", <<a[i]>>) \in Seq(R)
    BY <1>2, ConcatProperties
  <2>2. Edit(a, b, kept, s, i) = [s EXCEPT !.ops = @ \o Ops("del", <<a[i]>>)]
    BY <1>3 DEF Edit
  <2> QED  BY <2>1, <2>2
<1>4. CASE Partners(b, kept, i) # {}
  <2>1. PICK j : j = (CHOOSE k \in Partners(b, kept, i) : TRUE)
    OBVIOUS
  <2>2. j \in 1 .. n /\ j \in 1 .. Len(b) + 1 /\ j + 1 \in 1 .. Len(b) + 1
    <3>1. j \in 1 .. n
      BY <1>1, <1>4, <2>1 DEF Partners
    <3> QED  BY <1>1, <3>1
  <2>3. Filled(b, s, j) \in Seq(R)
    <3>1. s.next \in 1 .. Len(b) + 1 /\ s.ops \in Seq(R)
      OBVIOUS
    <3>2. SubSeq(b, s.next, j - 1) \in Seq(T)
      BY <2>2, <3>1, SliceHolds
    <3>3. Ops("ins", SubSeq(b, s.next, j - 1)) \in Seq(R)
      BY <3>2, OpsHold
    <3> QED  BY <3>1, <3>3, ConcatProperties DEF Filled
  <2>4. Filled(b, s, j) \o Ops("keep", <<a[i]>>) \in Seq(R)
    BY <1>2, <2>3, ConcatProperties
  <2>5. Edit(a, b, kept, s, i) = [ops |-> Filled(b, s, j) \o Ops("keep", <<a[i]>>), next |-> j + 1]
    BY <1>4, <2>1 DEF Edit
  <2> QED  BY <2>2, <2>4, <2>5
<1> QED  BY <1>3, <1>4

(* A script that makes no stray edit leaves what is said alone. *)
Taggable(T, R) == \A t \in T : \A op \in {"ins", "keep", "del"} : Tagged(op, t) \in R

LEMMA ScriptSays ==
  ASSUME NEW T, NEW a \in Seq(T), NEW b \in Seq(T), NEW kept \in KeptPairs(a, b),
         NEW R, Taggable(T, R), NEW Z, NEW g
  PROVE  /\ Script(a, b, kept) \in Seq(R)
         /\ Stray(Script(a, b, kept), Z) \/ AllSaid(a, Z, g) = AllSaid(b, Z, g)
<1>0. \A t \in T : \A op \in {"ins", "keep", "del"} : Tagged(op, t) \in R
  BY DEF Taggable
<1>1. PICK m \in Nat, n \in Nat : m = Len(a) /\ n = Len(b)
  BY LenProperties
<1>2. kept \in SUBSET SamePlaces(a, b) /\ Within(kept, 1, Len(a), Len(b)) /\ Crossless(kept)
  BY KeptHolds, KeptClear
<1>3. PICK P : P = [ops : Seq(R), next : 1 .. Len(b) + 1]
  OBVIOUS
<1>4. ASSUME NEW i \in 1 .. Len(a), NEW s \in P PROVE Edit(a, b, kept, s, i) \in P
  BY <1>0, <1>3, EditType
<1>5. PICK start \in P : start = [ops |-> <<>>, next |-> 1]
  <2>1. <<>> \in Seq(R) /\ 1 \in 1 .. Len(b) + 1
    BY <1>1, EmptySeq
  <2> QED  BY <1>3, <2>1
<1>6. ScriptStay(P, a, b, kept)
  BY <1>1, <1>4, <1>5 DEF ScriptStay
<1>7. PICK f : ScriptBy(f, P, a, b, kept) /\ Script(a, b, kept) = Filled(b, f[Len(a)], Len(b) + 1)
  BY <1>6, ScriptClimbs
<1> DEFINE same == {i \in Nat : i <= m => Even(a, b, kept, Z, g, f[i], i)}
<1>8. 0 \in same
  <2>1. f[0] = start
    BY <1>5, <1>7 DEF ScriptBy
  <2>2. start.next = 1 /\ start.next - 1 = 0
    BY <1>5
  <2>3. Said(a, Z, g)[0] = <<>> /\ Said(b, Z, g)[0] = <<>>
    BY SaidType
  <2>4. \A p \in kept : start.next <= p[2]
    <3>1. \A p \in kept : p \in (1 .. m) \X (1 .. n)
      BY <1>1, <1>2 DEF Within
    <3>2. \A p \in kept : 1 <= p[2]
      BY <3>1
    <3> QED  BY <2>2, <3>2
  <2> QED  BY <2>1, <2>2, <2>3, <2>4 DEF Even
<1>9. ASSUME NEW i \in Nat, i \in same PROVE i + 1 \in same
  <2>1. SUFFICES ASSUME i + 1 <= m PROVE Even(a, b, kept, Z, g, f[i + 1], i + 1)
    OBVIOUS
  <2>2. PICK k \in 1 .. Len(a) : k = i + 1 /\ k - 1 = i
    <3>1. i + 1 \in 1 .. m /\ (i + 1) - 1 = i
      BY <2>1
    <3> QED  BY <1>1, <3>1
  <2>3. PICK s \in P : s = f[i] /\ Even(a, b, kept, Z, g, s, k - 1)
    <3>1. i \in 0 .. Len(a) /\ i <= m
      BY <1>1, <2>1
    <3>2. f[i] \in P
      BY <1>7, <3>1 DEF ScriptBy
    <3> QED  BY <1>9, <2>2, <3>1, <3>2
  <2>4. f[k] = Edit(a, b, kept, s, k)
    BY <1>7, <2>2, <2>3 DEF ScriptBy
  <2>5. Even(a, b, kept, Z, g, Edit(a, b, kept, s, k), k)
    BY <1>0, <1>2, <1>3, <2>3, EditEven
  <2> QED  BY <2>2, <2>4, <2>5
<1>10. m \in same
  <2> HIDE DEF same
  <2> QED  BY <1>8, <1>9, Induction
<1>11. PICK s \in P : s = f[Len(a)] /\ Even(a, b, kept, Z, g, s, m)
  <2>1. Len(a) \in 0 .. Len(a)
    BY <1>1
  <2>2. f[Len(a)] \in P
    BY <1>7, <2>1 DEF ScriptBy
  <2> QED  BY <1>1, <1>10, <2>2
<1>12. FillsUp(b, s, n + 1, R, Z, g)
  <2>1. s.ops \in Seq(R) /\ s.next \in 1 .. Len(b) + 1
    BY <1>3
  <2>2. n + 1 \in 1 .. Len(b) + 1 /\ s.next <= n + 1
    BY <1>1, <2>1
  <2>3. \A t \in T : Tagged("ins", t) \in R
    BY <1>0
  <2> QED  BY <2>1, <2>2, <2>3, FilledSays
<1>13. (n + 1) - 1 = n
  OBVIOUS
<1> QED  BY <1>1, <1>7, <1>11, <1>12, <1>13 DEF FillsUp, Even, AllSaid

----------------------------------------------------------------------------
(* A report whose edits are all of numbers leaves alone what the texts say but
   for digits, points and spaces. *)
LEMMA ReportSays ==
  ASSUME NEW T, {Space, Ellipsis} \subseteq T, NEW a \in Seq(T), NEW b \in Seq(T),
         NEW ops \in TokenDiffs(a, b), AllNumeric(Edited(ops)),
         NEW Z, Digits \cup Points \subseteq Z, Space \in Z, NEW g
  PROVE  AllSaid(a, Z, g) = AllSaid(b, Z, g)
<1>1. PICK kept \in KeptPairs(a, b) : ops = Elided(Coalesced(Suppressed(Script(a, b, kept))))
  BY DEF TokenDiffs
<1>2. PICK R : R = Spans(T, T)
  OBVIOUS
<1>3. ASSUME NEW t \in T, NEW op \in {"ins", "keep", "del"} PROVE Tagged(op, t) \in R
  <2>1. <<t>> \in Seq(T)
    BY MembersOfFew
  <2> QED  BY <1>2, <2>1 DEF Tagged, Spans
<1>4. PICK script \in Seq(R) :
        script = Script(a, b, kept) /\ (Stray(script, Z) \/ AllSaid(a, Z, g) = AllSaid(b, Z, g))
  <2>1. Taggable(T, R)
    BY <1>3 DEF Taggable
  <2>2. /\ Script(a, b, kept) \in Seq(R)
        /\ Stray(Script(a, b, kept), Z) \/ AllSaid(a, Z, g) = AllSaid(b, Z, g)
    BY <2>1, ScriptSays
  <2> QED  BY <2>2
<1>5. SUFFICES ASSUME Stray(script, Z) PROVE FALSE
  BY <1>4
<1>6. PICK op \in {"ins", "del"} : \E t : t \notin Z /\ Member(Tagged(op, t), script)
  BY <1>5 DEF Stray
<1>7. PICK t : t \notin Z /\ Member(Tagged(op, t), script)
  BY <1>6
<1>8. ops \in Seq(Spans(T, T)) /\ Shows(ops, op, t)
  <2>1. op # "keep" /\ t # Space /\ script \in Seq(Spans(T, T))
    BY <1>2, <1>7
  <2> QED  BY <1>1, <1>4, <1>7, <2>1, ReportShows
<1>9. PICK k \in 1 .. Len(ops) : ops[k].op = op /\ Member(t, ops[k].toks)
  BY <1>8 DEF Shows
<1>10. ops[k] \in Edited(ops) /\ ops[k].toks \in Seq(T)
  <2>1. k \in DOMAIN ops /\ ops[k] \in Spans(T, T)
    BY <1>8, ElementOfSeq, LenProperties
  <2> QED  BY <1>9, <2>1, SpanType DEF Edited
<1>11. t \in ToSet(ops[k].toks)
  <2>1. PICK toks \in Seq(T) : toks = ops[k].toks
    BY <1>10
  <2>2. DOMAIN toks = 1 .. Len(toks) /\ Member(t, toks)
    BY <1>9, <2>1, LenProperties
  <2> QED  BY <2>1, <2>2 DEF Member, ToSet
<1> QED  BY <1>7, <1>10, <1>11 DEF AllNumeric, Numeric

----------------------------------------------------------------------------
Plainly == [t \in Tokens |-> t]

(* The wording of a block is what its words say but for digits and points. *)
LEMMA WordingIsSaid ==
  ASSUME NEW b \in Blocks
  PROVE  Wording(b) = AllSaid(b.words, Digits \cup Points \cup {Space}, Plainly)
<1>1. PICK n \in Nat, words \in Seq(Tokens) :
        /\ words = b.words /\ n = Len(words) /\ DOMAIN words = 1 .. n
        /\ \A k \in 1 .. n : words[k] \in Tokens /\ words[k] # Space
  BY WordsHold
<1>2. PICK Z, g, X, p : /\ Z = Digits \cup Points \cup {Space} /\ g = Plainly
                        /\ X = Readings(g, Tokens) /\ p = Pieces(words, Z, g)
  OBVIOUS
<1>3. p \in [Nat -> Seq(X)]
  BY <1>2, SaidType
<1>4. PICK seqs : /\ seqs = [k \in 1 .. n |-> IF words[k] \in Digits \cup Points THEN <<>> ELSE <<words[k]>>]
                  /\ Wording(b) = FlattenSeq(seqs)
  BY <1>1 DEF Wording
<1>5. ASSUME NEW k \in 1 .. n PROVE seqs[k] = p[k]
  <2>1. k \in Nat /\ k \in 1 .. Len(words)
    BY <1>1
  <2>2. p[k] = IF words[k] \in Z THEN <<>> ELSE <<g[words[k]]>>
    BY <1>2, <2>1 DEF Pieces
  <2>3. words[k] \in Z <=> words[k] \in Digits \cup Points
    BY <1>1, <1>2
  <2>4. g[words[k]] = words[k]
    BY <1>1, <1>2 DEF Plainly
  <2> QED  BY <1>4, <2>2, <2>3, <2>4
<1>6. FlattenSeq(seqs) = Joined(p)[n]
  <2>1. Joinable(p, X) /\ ListOf(seqs, n) /\ EqualOn(seqs, p, 1 .. n)
    BY <1>3, <1>4, <1>5 DEF Joinable, ListOf, EqualOn
  <2> QED  BY <2>1, FlattenJoined
<1> QED  BY <1>1, <1>2, <1>4, <1>6 DEF AllSaid, Said

(* Texts whose tokens differ only in case have words that differ only in case. *)
LEMMA CaseOfWords ==
  ASSUME NEW b \in Blocks, NEW c \in Blocks,
         Lowered(Tokenize(b.words)) = Lowered(Tokenize(c.words))
  PROVE  Lowered(b.words) = Lowered(c.words)
<1>1. Space \in Tokens
  BY TokensAssumption
<1>2. ASSUME NEW d \in Blocks
      PROVE  /\ Tokenize(d.words) \in Seq(Tokens)
             /\ AllSaid(Tokenize(d.words), {Space}, Lower) = Lowered(d.words)
  <2>1. PICK n \in Nat, words \in Seq(Tokens) :
          /\ words = d.words /\ n = Len(words) /\ DOMAIN words = 1 .. n
          /\ \A k \in 1 .. n : words[k] \in Tokens /\ words[k] # Space
    BY WordsHold
  <2>2. AllSaid(Tokenize(words), {Space}, Lower) = AllSaid(words, {Space}, Lower)
    BY <1>1, TokensSay
  <2>3. Pieces(words, {Space}, Lower) = Pieces(words, {}, Lower)
    BY <2>1 DEF Pieces
  <2>4. AllSaid(words, {}, Lower) = [k \in 1 .. Len(words) |-> Lower[words[k]]]
    BY AllIsSaid
  <2>5. Tokenize(words) \in Seq(Tokens)
    BY <1>1, TokenizeHolds
  <2> QED  BY <2>1, <2>2, <2>3, <2>4, <2>5 DEF AllSaid, Said, Lowered
<1>3. PICK p \in Seq(Tokens), q \in Seq(Tokens) :
        p = Tokenize(b.words) /\ q = Tokenize(c.words)
  BY <1>2
<1>4. PICK m \in Nat, n \in Nat : m = Len(p) /\ n = Len(q) /\ DOMAIN p = 1 .. m /\ DOMAIN q = 1 .. n
  BY LenProperties
<1>5. [k \in 1 .. m |-> Lower[p[k]]] = [k \in 1 .. n |-> Lower[q[k]]]
  BY <1>3, <1>4 DEF Lowered
<1>6. m = n /\ \A k \in 1 .. m : Lower[p[k]] = Lower[q[k]]
  <2>1. PICK f, h : /\ f = [k \in 1 .. m |-> Lower[p[k]]] /\ h = [k \in 1 .. n |-> Lower[q[k]]]
                    /\ f = h
    BY <1>5
  <2>2. DOMAIN f = 1 .. m /\ DOMAIN h = 1 .. n
    BY <2>1
  <2>3. 1 .. m = 1 .. n
    BY <2>1, <2>2
  <2>4. m = n
    BY <2>3
  <2> QED  BY <2>1, <2>4
<1>7. AllSaid(p, {Space}, Lower) = AllSaid(q, {Space}, Lower)
  <2>1. ASSUME NEW x \in Tokens, NEW y \in Tokens, Lower[x] = Lower[y]
        PROVE  x \in {Space} <=> y \in {Space}
    BY <2>1, SpaceAssumption
  <2> QED  BY <1>4, <1>6, <2>1, AlikeSay
<1> QED  BY <1>2, <1>3, <1>7

----------------------------------------------------------------------------
(* An edit that is damped says nothing new: it differs in case, or in digits
   and points of a text without a salient key. *)
LEMMA DampedEdits ==
  ASSUME NEW old \in Blocks, NEW new \in Blocks, NEW u \in UnitsOf(old, new),
         u.ct = "Modified", u.ty # "Link", Noise(u) > 500
  PROVE  \/ Lowered(new.words) = Lowered(old.words)
         \/ Wording(new) = Wording(old) /\ ~Salient(new) /\ ~Keyed(old)
<1>1. /\ u.ty = TypeOf(new)
      /\ u.before = Tokenize(old.words) /\ u.after = Tokenize(new.words)
      /\ \/ ToldAsValue(u, old, new)
         \/ \E ops \in TokenDiffs(u.before, u.after) :
              u = UnitOf("Modified", old, new, Idiff(ops), TextMagnitude(ops), NoNumber, One)
  BY EditsTell
<1>2. /\ ~SalientType(u.ty)
      /\ \/ Lowered(u.before) = Lowered(u.after)
         \/ OnlyNumbersChange(u) /\ CounterNoise(u) > 500
  BY DEF Noise, ModifiedNoise
<1>3. CASE Lowered(u.before) = Lowered(u.after)
  BY <1>1, <1>3, CaseOfWords
<1>4. CASE OnlyNumbersChange(u) /\ CounterNoise(u) > 500
  <2>1. ~SalientKey(u.after) /\ ~SalientKey(u.before)
    BY <1>4 DEF CounterNoise
  <2>2. ~Salient(new) /\ ~Keyed(old)
    BY <1>1, <1>2, <2>1 DEF Salient, Keyed, Text
  <2>3. PICK ops \in TokenDiffs(u.before, u.after) :
          u = UnitOf("Modified", old, new, Idiff(ops), TextMagnitude(ops), NoNumber, One)
    BY <1>1, <1>2 DEF ToldAsValue, Valued, SalientType
  <2>4. u.delta.enc = "idiff" /\ u.delta.ops = ops
    BY <2>3 DEF UnitOf, Idiff
  <2>5. AllNumeric(Edited(ops))
    BY <1>4, <2>4 DEF OnlyNumbersChange
  <2>6. PICK Z : Z = Digits \cup Points \cup {Space}
    OBVIOUS
  <2>7. {Space, Ellipsis} \subseteq Tokens /\ Space \in Tokens
    BY TokensAssumption
  <2>8. PICK p \in Seq(Tokens), q \in Seq(Tokens) : p = old.words /\ q = new.words
    BY WordsHold
  <2>9. PICK a \in Seq(Tokens), b \in Seq(Tokens) :
          a = Tokenize(p) /\ b = Tokenize(q) /\ ops \in TokenDiffs(a, b)
    <3>1. Tokenize(p) \in Seq(Tokens) /\ Tokenize(q) \in Seq(Tokens)
      BY <2>7, TokenizeHolds
    <3> QED  BY <1>1, <2>3, <2>8, <3>1
  <2>10. AllSaid(a, Z, Plainly) = AllSaid(b, Z, Plainly)
    <3>1. Digits \cup Points \subseteq Z /\ Space \in Z
      BY <2>6
    <3> QED  BY <2>5, <2>7, <2>9, <3>1, ReportSays
  <2>11. AllSaid(p, Z, Plainly) = AllSaid(q, Z, Plainly)
    <3>1. /\ AllSaid(Tokenize(p), Z, Plainly) = AllSaid(p, Z, Plainly)
          /\ AllSaid(Tokenize(q), Z, Plainly) = AllSaid(q, Z, Plainly)
      <4>1. Space \in Z
        BY <2>6
      <4> QED  BY <2>7, <4>1, TokensSay
    <3> QED  BY <2>9, <2>10, <3>1
  <2>12. Wording(new) = Wording(old)
    BY <2>6, <2>8, <2>11, WordingIsSaid
  <2> QED  BY <2>2, <2>12
<1> QED  BY <1>2, <1>3, <1>4

(***************************************************************************)
(* An edit that noise.rs damps said nothing: whatever script the token     *)
(* diff takes (diff.rs), whatever spaces it keeps quiet about and whatever *)
(* it elides, the words before and after are the same but for case, or but *)
(* for digits and the points among them in a text without a salient key.   *)
(***************************************************************************)
THEOREM CountersAloneAreDamped == Spec => OnlyCountersAreDamped
<1>1. ASSUME Written, [Next]_vars, Checked, event'.ct = "Modified", event'.ty # "Link", Told.noise > 500
      PROVE  \/ Lowered(page.words) = Lowered(seen.words)
             \/ Wording(page) = Wording(seen) /\ ~Salient(page) /\ ~Keyed(seen)
  <2>1. PICK u \in UnitsOf(seen, page), rate \in AlignRates :
          event' = [told |-> Scored(u, Packs[site.layers], site.spot, site.anchored, rate),
                    ct |-> u.ct, ty |-> u.ty, rate |-> rate]
    BY <1>1, ChecksTell
  <2>2. u.ct = "Modified" /\ u.ty # "Link"
    BY <1>1, <2>1
  <2>3. Told.noise = Noise(u)
    BY <2>1 DEF Told, Scored
  <2>4. seen \in Blocks /\ page \in Blocks
    BY <1>1 DEF Written
  <2> QED  BY <1>1, <2>2, <2>3, <2>4, DampedEdits
<1>2. Written /\ [Next]_vars =>
        (Checked /\ event'.ct = "Modified" /\ event'.ty # "Link" /\ Told.noise > 500
           => \/ Lowered(page.words) = Lowered(seen.words)
              \/ Wording(page) = Wording(seen) /\ ~Salient(page) /\ ~Keyed(seen))
  BY <1>1
<1> QED  BY <1>2, Writes, PTL DEF Spec, OnlyCountersAreDamped

============================================================================
