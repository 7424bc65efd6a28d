------------------------------ MODULE Extract -------------------------------
(***************************************************************************)
(* From a parsed page to the forest of nodes that stands for it: what the  *)
(* profile's strategy selects, less what is always stripped.               *)
(*                                                                         *)
(* A tree is the sequence of its nodes in preorder, each with its depth.   *)
(* An element carries the attributes that later stages read; a text        *)
(* carries its words and whether they are spaced out.                      *)
(***************************************************************************)
EXTENDS Integers, Sequences, FiniteSets, SequencesExt

CONSTANTS
  Words,
  Chars,         \* Chars[w]: the length of a word
  Classes, Boilerplate    \* class attributes; those with a boilerplate token

ASSUME CharsAssumption == Chars \in [Words -> Nat \ {0}]
ASSUME BoilerplateAssumption == Boilerplate \subseteq Classes /\ "" \in Classes \ Boilerplate

AnyUrl == [host : STRING, path : STRING, hash : Nat, query : Seq(Nat), fragment : STRING]
AnyText == [words : Seq(Words), spaced : BOOLEAN]

Node ==
  [depth : Int, tag : STRING, class : Classes, id : STRING, href : AnyUrl, text : AnyText,
   at : Int]

HardStripTags == {"script", "style", "noscript", "template", "svg", "iframe"}
BonusTags == {"article", "main", "section"}
PenaltyTags == {"nav", "aside", "footer", "header"}

IsText(n) == n.tag = "text"
IsElement(n) == n.tag \notin {"text", "comment"}

----------------------------------------------------------------------------
(* j stands in i or is i; the strict descendants of a node, itself and them,
   and the way down to one. *)
Covers(dom, i, j) == i <= j /\ \A k \in i + 1 .. j : dom[k].depth > dom[i].depth

Below(dom, i) ==
  LET past == {j \in i + 1 .. Len(dom) : dom[j].depth <= dom[i].depth}
  IN  IF past = {} THEN i + 1 .. Len(dom)
      ELSE i + 1 .. (CHOOSE j \in past : \A k \in past : j <= k) - 1

Subtree(dom, i) == {i} \cup Below(dom, i)

Way(dom, i, j) == {k \in i .. j : Covers(dom, k, j)}

(* The items of a sequence at the places in a set, in their order. *)
Picked(s, S) ==
  LET upTo[n \in 0 .. Len(s)] ==
        IF n = 0 THEN <<>> ELSE IF n \in S THEN Append(upTo[n - 1], s[n]) ELSE upTo[n - 1]
  IN  upTo[Len(s)]

(* The places of a tree that are in a set, in document order. *)
InOrder(dom, S) == Picked([i \in DOMAIN dom |-> i], S)

(* A sequence given by a rule, written out: TLC works its items out once. *)
WrittenOut(s) == s \o <<>>

(* is_hard_strip, is_boilerplate. *)
Stripped_TagsOnly(n) == n.tag \in HardStripTags \cup {"comment"}
Stripped(n) == n.tag \in HardStripTags \cup {"comment"} \/ n.class \in Boilerplate

(* What is left of a subtree: no stripped node is on the way to it. *)
Kept(dom, i) ==
  {j \in Subtree(dom, i) : \A k \in Way(dom, i, j) : ~Stripped(dom[k])}

(* prune_element, as a tree of its own; `at' is a node's place on the page. *)
Prune(dom, i) ==
  LET kept == InOrder(dom, Kept(dom, i)) IN
  WrittenOut([n \in DOMAIN kept |->
     [dom[kept[n]] EXCEPT !.depth = @ - dom[i].depth, !.at = kept[n]]])

----------------------------------------------------------------------------
(* The texts that count for a candidate: it may itself be stripped or stand
   below what is stripped, only the nodes under it are looked at. *)
Counted(dom, i) ==
  {j \in Below(dom, i) : /\ IsText(dom[j])
                         /\ \A k \in Way(dom, i, j) \ {i} : ~Stripped(dom[k])}

SumOver(S, f(_)) == FoldSet(LAMBDA x, sum : f(x) + sum, 0, S)

Length(text) ==
  LET n == Len(text.words)
      letters == SumOver(DOMAIN text.words, LAMBDA k : Chars[text.words[k]])
  IN  IF n = 0 THEN 0 ELSE letters + (n - 1) * (IF text.spaced THEN 2 ELSE 1)

TextLen(dom, i) == SumOver(Counted(dom, i), LAMBDA j : Length(dom[j].text))

LinkTextLen(dom, i) ==
  SumOver({j \in Counted(dom, i) : \E k \in Way(dom, i, j) : dom[k].tag = "a"},
          LAMBDA j : Length(dom[j].text))

Paragraphs(dom, i) == Cardinality({j \in Below(dom, i) : dom[j].tag = "p"})

(* Twice readability_score, a whole number; commas are left out.  text_len
   discounted by the link density is what lies outside links. *)
Lowest == -1000000

Score(dom, i) ==
  LET len == TextLen(dom, i)
      links == LinkTextLen(dom, i)
  IN  IF len = 0 THEN Lowest
      ELSE   2 * (len - links) + 6 * Paragraphs(dom, i)
           + (IF dom[i].tag \in BonusTags THEN 120 ELSE 0)
           - (IF dom[i].tag \in PenaltyTags THEN 120 ELSE 0)
           - (IF 2 * links > len THEN len ELSE 0)

(* The elements that are not themselves stripped are scored; the first of
   the highest wins, and the body when there is none. *)
Candidates(dom) == {i \in DOMAIN dom : IsElement(dom[i]) /\ ~Stripped(dom[i])}

Readable(dom) ==
  LET score == [i \in Candidates(dom) |-> Score(dom, i)]
      best == {i \in DOMAIN score : \A j \in DOMAIN score : score[i] >= score[j]}
  IN  IF best = {} THEN 1 ELSE CHOOSE i \in best : \A j \in best : i <= j

Matching(dom, selector) == {i \in DOMAIN dom : IsElement(dom[i]) /\ dom[i].tag = selector}
Selected(dom, selector) == InOrder(dom, Matching(dom, selector))

(* extract.  The body is the first node; a selector of nothing is an error,
   which the callers pass on before a document is made (CanExtract). *)
CanExtract(profile) == profile.strategy = "selector" => profile.root # ""

Extract(dom, profile) ==
  CASE profile.strategy = "full"        -> Prune(dom, 1)
    [] profile.strategy = "readability" -> Prune(dom, Readable(dom))
    [] profile.strategy = "selector"    ->
         LET roots == Selected(dom, profile.root)
         IN  FlattenSeq([n \in DOMAIN roots |-> Prune(dom, roots[n])])
=============================================================================
