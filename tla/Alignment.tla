----------------------------- MODULE Alignment -----------------------------
(***************************************************************************)
(* The pure part of the block diff of cf-core: masking, certain anchors,   *)
(* the stable spine, moved runs, and the similarity of two blocks.         *)
(*                                                                         *)
(* A document is the sequence of its blocks in pre-order, as flatten       *)
(* returns it; "parent" is the slot key of the container of a block.  The  *)
(* segmenter nests rows in tables and nothing else, so that a parent has   *)
(* none itself.  A text is known by its norm_hash.                         *)
(***************************************************************************)
EXTENDS Integers, FiniteSets, Sequences

CONSTANTS
  Keys,        \* slot keys, in the order of their bytes
  Types,       \* block types
  TableRow,    \* the type with the stricter threshold
  Norms,       \* norm hashes of texts
  Vals,        \* typed values; one that mirrors the text is its variant alone
  Marks,       \* restyle signatures
  Schemes,     \* anchor schemes
  Levels,      \* heading levels, or none
  Ignored,     \* slot keys an ignore selector drops
  IgnoredTypes,  \* and block types
  Redact,      \* Redact[n]: what the ignore regexes leave of text n
  Strip,       \* Strip[v]: what the ignored attributes leave of value v
  TextSim,     \* TextSim[n, m]: 100 * (.55 jaccard + .30 (1 - levenshtein))
  Signature,   \* Signature[n]: the (band, minimum) pairs of the MinHash of n
  Window, MaxBucket, MoveMin

NoKey == 0

Block ==
  [key : Keys, parent : Keys \cup {NoKey}, type : Types, norm : Norms,
   val : Vals, mark : Marks, scheme : Schemes, level : Levels]

ASSUME KeysAssumption == Keys \subseteq Nat \ {NoKey}
ASSUME MaskAssumption == Redact \in [Norms -> Norms] /\ Strip \in [Vals -> Vals]
ASSUME TextSimAssumption ==
  /\ TextSim \in [Norms \X Norms -> 0..85]
  /\ \A n \in Norms : TextSim[n, n] = 85
  /\ \A n, m \in Norms : TextSim[n, m] = TextSim[m, n]
ASSUME BoundsAssumption ==
  Window \in Nat /\ MaxBucket \in Nat /\ MoveMin \in Nat \ {0}

----------------------------------------------------------------------------
(* What doc_hash folds in of a document. *)
DocHash(doc) ==
  [i \in DOMAIN doc |->
     <<doc[i].key, doc[i].parent, doc[i].type, doc[i].level, doc[i].norm,
       doc[i].val, doc[i].mark>>]

(* mask::apply_rules: what a selector matches, by its anchor or by its type,
   is dropped with its children; the rest is masked. *)
MaskOne(b) == [b EXCEPT !.norm = Redact[@], !.val = Strip[@]]

SelectorMatches(b) == b.key \in Ignored \/ b.type \in IgnoredTypes

(* Whether i is c or a block in it: blocks in c follow c. *)
Within(doc, c, i) == \A k \in (c + 1)..i : doc[k].parent = doc[c].key

Kept(doc) ==
  {i \in DOMAIN doc : \A c \in 1..i : Within(doc, c, i) => ~SelectorMatches(doc[c])}

Masked(doc) ==
  LET Nth(n) == CHOOSE i \in Kept(doc) : Cardinality({j \in Kept(doc) : j <= i}) = n
  IN  [n \in 1..Cardinality(Kept(doc)) |-> MaskOne(doc[Nth(n)])]

----------------------------------------------------------------------------
(***************************************************************************)
(* align: a slot key is a certain anchor when it occurs exactly once on    *)
(* each side.  Anchors are pairs of an old and a new index.                *)
(***************************************************************************)
Once(doc, i) == \A j \in DOMAIN doc : doc[j].key = doc[i].key => j = i

Anchors(old, new) ==
  {p \in (DOMAIN old) \X (DOMAIN new) :
     /\ old[p[1]].key = new[p[2]].key
     /\ Once(old, p[1])
     /\ Once(new, p[2])}

AnchoredOld(old, new) == {p[1] : p \in Anchors(old, new)}
AnchoredNew(old, new) == {p[2] : p \in Anchors(old, new)}
OldResidual(old, new) == DOMAIN old \ AnchoredOld(old, new)
NewResidual(old, new) == DOMAIN new \ AnchoredNew(old, new)

(* The new index of an anchored old one. *)
Position(old, new, o) ==
  CHOOSE n \in DOMAIN new : <<o, n>> \in Anchors(old, new)

----------------------------------------------------------------------------
(* The pile for x: the first whose top is not below it, or a new one. *)
PileFor_OnlyLast(tops, x) ==
  IF \A j \in DOMAIN tops : tops[j] < x THEN Len(tops) + 1 ELSE Len(tops)
PileFor(tops, x) ==
  CHOOSE k \in 1..Len(tops) + 1 :
    /\ \A j \in 1..(k - 1) : tops[j] < x
    /\ k <= Len(tops) => tops[k] >= x

(***************************************************************************)
(* longest_increasing: patience sort over the anchors in old order.        *)
(* tails[k] is the anchor on top of pile k, prev links an anchor to the    *)
(* top of the pile before its own, 0 standing for None.                    *)
(***************************************************************************)
Placed(old, new, before, o) ==
  LET tops == [j \in DOMAIN before.tails |-> Position(old, new, before.tails[j])]
      k == PileFor(tops, Position(old, new, o))
  IN  [tails |-> IF k > Len(before.tails) THEN Append(before.tails, o)
                 ELSE [before.tails EXCEPT ![k] = o],
       prev |-> [before.prev EXCEPT
                   ![o] = IF k = 1 THEN 0 ELSE before.tails[k - 1]]]

Piles(old, new) ==
  LET anchored == AnchoredOld(old, new)
      place[o \in 0..Len(old)] ==
        IF o = 0 THEN [tails |-> <<>>, prev |-> [a \in DOMAIN old |-> 0]]
        ELSE IF o \in anchored THEN Placed(old, new, place[o - 1], o)
        ELSE place[o - 1]
  IN  place[Len(old)]

(* The old indices on the spine: back from the last pile along prev. *)
Spine(old, new) ==
  LET piles == Piles(old, new)
      chain[o \in 0..Len(old)] ==
        IF o = 0 THEN {} ELSE {o} \cup chain[piles.prev[o]]
  IN  IF piles.tails = <<>> THEN {} ELSE chain[piles.tails[Len(piles.tails)]]

(***************************************************************************)
(* compute_moved_runs: an anchor off the spine is moved when at least      *)
(* MoveMin anchors, itself included, are off the spine without one on the  *)
(* spine between them.                                                     *)
(***************************************************************************)
MovedRun(old, new, o) ==
  LET spine == Spine(old, new)
      run == {a \in AnchoredOld(old, new) :
                \A s \in spine : ~(o <= s /\ s <= a) /\ ~(a <= s /\ s <= o)}
  IN  Cardinality(run) >= MoveMin

----------------------------------------------------------------------------
(* slot_affinity and sim, in hundredths, and the threshold of a type. *)
Affinity(a, b) ==
  IF a.key = b.key THEN 100
  ELSE   (IF a.type = b.type THEN 60 ELSE 0)
       + (IF a.scheme = b.scheme THEN 20 ELSE 0)
       + (IF a.level = b.level THEN 20 ELSE 0)

Sim(a, b) == TextSim[a.norm, b.norm] + (15 * Affinity(a, b)) \div 100

Tau(type) == IF type = TableRow THEN 75 ELSE 62

(***************************************************************************)
(* similarity_match over the residuals os and ns that 3a left: pairs of    *)
(* one type which are in the window of each other, or share a bucket of    *)
(* at most MaxBucket members, and are similar enough.                      *)
(***************************************************************************)
Near(o, n) == o - n <= Window /\ n - o <= Window

ShareBucket(old, new, os, ns, o, n) ==
  \E k \in Signature[old[o].norm] \cap Signature[new[n].norm] :
      Cardinality({a \in os : k \in Signature[old[a].norm]})
    + Cardinality({b \in ns : k \in Signature[new[b].norm]}) <= MaxBucket

Scored(old, new, os, ns) ==
  {p \in os \X ns :
     LET a == old[p[1]]
         b == new[p[2]]
     IN  /\ a.type = b.type
         /\ Near(p[1], p[2]) \/ ShareBucket(old, new, os, ns, p[1], p[2])
         /\ Sim(a, b) >= Tau(a.type)}
============================================================================
