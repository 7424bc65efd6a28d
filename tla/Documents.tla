----------------------------- MODULE Documents -----------------------------
(***************************************************************************)
(* Canonical documents, as the diff, the dedup and the store tell them     *)
(* apart.  A document maps the slot keys it contains to blocks; a block is *)
(* its norm_hash ("norm") and everything else the doc_hash folds in: the   *)
(* typed value, say the href of a link, and the restyle signature          *)
(* ("detail").  Two documents have the same doc_hash when they are equal.  *)
(***************************************************************************)
EXTENDS Integers, FiniteSets, Functions

CONSTANTS
  Slots,       \* slot keys
  Norms,       \* norm hashes of the texts of blocks
  Details,     \* typed values and presentation signatures
  Pages,       \* the documents a page may canonicalize to
  EmptyNorm,   \* NormHash::of("")
  Absent,      \* no block under a slot key
  NoDoc        \* no stored document

Block == [norm : Norms, detail : Details]
Doc == UNION {[S -> Block] : S \in SUBSET Slots}

ASSUME PagesAssumption == Pages \subseteq Doc
ASSUME PagesAreFinite == \A p \in Pages : IsFiniteSet(DOMAIN p)
ASSUME AbsentAssumption == Absent \notin Block /\ NoDoc \notin Doc

(***************************************************************************)
(* No block of a page carries the text of a block another page drops under *)
(* a different slot key: the diff would report the two as one moved block. *)
(***************************************************************************)
ASSUME PagesHaveNoTwins ==
  \A a, b \in Pages :
    \A s \in DOMAIN a \ DOMAIN b, r \in DOMAIN b \ DOMAIN a :
      a[s].norm # b[r].norm

BlockAt(doc, s) == IF s \in DOMAIN doc THEN doc[s] ELSE Absent

NormOf(b) == IF b = Absent THEN EmptyNorm ELSE b.norm
============================================================================
