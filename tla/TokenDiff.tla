----------------------------- MODULE TokenDiff -----------------------------
(***************************************************************************)
(* The diff inside a block: the edit script between two texts, what of it  *)
(* is reported, and the two texts that the later stages read back from the *)
(* report.  A text is a sequence of tokens: words, single signs and        *)
(* spaces.                                                                 *)
(***************************************************************************)
EXTENDS Integers, FiniteSets, SequencesExt

CONSTANTS
  Space,     \* a run of whitespace
  Adjoining, \* the pairs of tokens that are written without a space between
  Ellipsis,  \* the mark of an elided span
  Ctx        \* the tokens of context kept on each side of an edit

ASSUME CtxAssumption == Ctx \in Nat \ {0}

(* The tokens of a text of the given words and signs: normalized text has one
   space between any two that do not adjoin, as a word and its colon do. *)
Joins(words, n) == n = 1 \/ <<words[n - 1], words[n]>> \in Adjoining

Tokenize(words) ==
  LET upTo[n \in 0 .. Len(words)] ==
        IF n = 0 THEN <<>>
        ELSE upTo[n - 1] \o (IF Joins(words, n) THEN <<words[n]>> ELSE <<Space, words[n]>>)
  IN  upTo[Len(words)]

(* How many words split_whitespace finds: maximal runs without a space. *)
Chunks(toks) ==
  Cardinality({k \in DOMAIN toks : /\ toks[k] # Space
                                   /\ k = 1 \/ toks[k - 1] = Space})

----------------------------------------------------------------------------
(* capture_diff_slices: some shortest edit script.  What the texts begin   *)
(* and end with alike is kept; between, the kept tokens are one of the     *)
(* longest common subsequences.                                            *)
Alike(a, b) ==
  Cardinality({k \in DOMAIN a \cap DOMAIN b : \A i \in 1 .. k : a[i] = b[i]})

(* Every way to keep tokens of a in b without crossing, from both texts'
   position `at' up to the given ends. *)
Chains(a, b, at, endA, endB) ==
  LET longer(c, i) == {[pairs |-> c.pairs \cup {<<i, j>>}, last |-> j] :
                         j \in {m \in c.last + 1 .. endB : a[i] = b[m]}}
      more(chains, i) == chains \cup UNION {longer(c, i) : c \in chains}
      upTo[n \in 0 .. endA - at + 1] ==
        IF n = 0 THEN {[pairs |-> {}, last |-> at - 1]} ELSE more(upTo[n - 1], at + n - 1)
  IN  upTo[endA - at + 1]

Longest(chains) ==
  LET length == Max({Cardinality(c.pairs) : c \in chains})
  IN  {c.pairs : c \in {d \in chains : Cardinality(d.pairs) = length}}

KeptPairs(a, b) ==
  LET head == Alike(a, b)
      tail == Alike(Reverse(SubSeq(a, head + 1, Len(a))), Reverse(SubSeq(b, head + 1, Len(b))))
      drift == Len(b) - Len(a)
      between == Longest(Chains(a, b, head + 1, Len(a) - tail, Len(b) - tail))
  IN  {middle \cup {<<i, i>> : i \in 1 .. head}
              \cup {<<i, i + drift>> : i \in Len(a) - tail + 1 .. Len(a)}
         : middle \in between}

Ops(op, toks) == [k \in DOMAIN toks |-> [op |-> op, toks |-> <<toks[k]>>]]

(* Token by token, what is deleted in a gap before what is inserted there. *)
Script(a, b, kept) ==
  LET partner(i) == {j \in DOMAIN b : <<i, j>> \in kept}
      put(s, j) == s.ops \o Ops("ins", SubSeq(b, s.next, j - 1))
      keep(s, i, j) == [ops |-> put(s, j) \o Ops("keep", <<a[i]>>), next |-> j + 1]
      step(s, i) ==
        IF partner(i) = {} THEN [s EXCEPT !.ops = @ \o Ops("del", <<a[i]>>)]
        ELSE keep(s, i, CHOOSE j \in partner(i) : TRUE)
      upTo[n \in 0 .. Len(a)] == IF n = 0 THEN [ops |-> <<>>, next |-> 1] ELSE step(upTo[n - 1], n)
  IN  put(upTo[Len(a)], Len(b) + 1)

----------------------------------------------------------------------------
(* suppress_whitespace_only_edits: a space is never reported as an edit, on
   either side. *)
Suppressed(ops) ==
  [k \in DOMAIN ops |-> IF ops[k].toks = <<Space>> THEN [ops[k] EXCEPT !.op = "keep"] ELSE ops[k]]

Coalesced(ops) ==
  LET join(spans, o) ==
        IF spans = <<>> \/ Last(spans).op # o.op THEN Append(spans, o)
        ELSE [spans EXCEPT ![Len(spans)].toks = @ \o o.toks]
      upTo[n \in 0 .. Len(ops)] == IF n = 0 THEN <<>> ELSE join(upTo[n - 1], ops[n])
  IN  upTo[Len(ops)]

(* elide_context: a long span of kept tokens shows Ctx of them next to each
   edit; without an edit nothing is reported. *)
Elided(spans) ==
  LET n == Len(spans)
      short(k) == Len(spans[k].toks) <= IF k \in {1, n} THEN Ctx ELSE 2 * Ctx
      head(toks) == SubSeq(toks, 1, Ctx)
      tail(toks) == SubSeq(toks, Len(toks) - Ctx + 1, Len(toks))
      cut(k, toks) == (IF k = 1 THEN <<>> ELSE head(toks)) \o <<Ellipsis>>
                        \o (IF k = n THEN <<>> ELSE tail(toks))
      span(k) == IF spans[k].op # "keep" \/ short(k) THEN spans[k]
                 ELSE [spans[k] EXCEPT !.toks = cut(k, @)]
  IN  IF \A k \in 1 .. n : spans[k].op = "keep" THEN <<>> ELSE [k \in 1 .. n |-> span(k)]

(* token_diff: the reports the library's scripts lead to. *)
TokenDiffs(a, b) ==
  {Elided(Coalesced(Suppressed(Script(a, b, kept)))) : kept \in KeptPairs(a, b)}

(* The text of one side, read back from a report: all but the other side's edits. *)
SideOf(ops, other) ==
  FlattenSeq([k \in DOMAIN ops |-> IF ops[k].op = other THEN <<>> ELSE ops[k].toks])
AfterText(ops) == SideOf(ops, "del")
BeforeText(ops) == SideOf(ops, "ins")

(* A phrase is found in a text, as a part of it: in each of its places is one
   of the tokens that contain, end or begin with what it has there. *)
Has(toks, phrase) ==
  \E k \in 0 .. Len(toks) - Len(phrase) : \A i \in 1 .. Len(phrase) : toks[k + i] \in phrase[i]
============================================================================
