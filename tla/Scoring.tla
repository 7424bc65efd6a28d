------------------------------ MODULE Scoring ------------------------------
(***************************************************************************)
(* What a change of one block is worth: its noise, its signals, their      *)
(* combination into a score and a band, the category, the action and the   *)
(* confidence.  Fractions are in ten-thousandths, rounded down.  A token   *)
(* is told apart by what the code's tables and parsers find in it.         *)
(***************************************************************************)
EXTENDS TokenDiff

CONSTANTS
  Tokens,
  Lower,      \* [Tokens -> Tokens]: the token in lower case
  Colon,      \* the sign that ends a key
  Digits,     \* the words of digits alone
  Points,     \* the signs inside a number: , and .
  Currencies, \* the signs in front of a price
  Amount,     \* what the texts that are a number are worth
  Day,        \* the day of the texts that are a date
  Skeleton,   \* [Tokens -> Tokens]: the token with its digits blotted out
  Cues,       \* tokens that contain one of CUES: viewing, online, ago, now, ...
  KeyWords,   \* tokens that contain price, cost, qty, stock, version
  Negations,  \* the phrases of NEG_TOKENS
  Deprecations, Breakages,  \* the phrases classify looks for after them
  ShortBlock, \* SHORT_COUNTER_TOKENS
  BlockTrunc  \* how many tokens are told of a block that comes or goes

ASSUME TokensAssumption ==
  /\ Lower \in [Tokens -> Tokens] /\ Skeleton \in [Tokens -> Tokens]
  /\ Digits \cup Points \cup Currencies \cup Cues \cup KeyWords \subseteq Tokens
  /\ {Space, Colon, Ellipsis} \subseteq Tokens /\ {ShortBlock, BlockTrunc} \subseteq Nat
  /\ DOMAIN Amount \subseteq Seq(Digits \cup Points) /\ DOMAIN Day \subseteq Seq(Tokens)
  /\ \A text \in DOMAIN Amount : Amount[text] \in Nat
  /\ \A text \in DOMAIN Day : Day[text] \in Int

(* Lower case leaves space alone. *)
ASSUME SpaceAssumption == \A t \in Tokens : Lower[t] = Space <=> t = Space

(* Only a word negates. *)
ASSUME NegationsAssumption ==
  \A phrase \in Negations : \A t \in Digits \cup Points \cup {Space, Ellipsis} :
    Len(phrase) = 1 => Lower[t] \notin phrase[1]

One == 10000
Least(x, y) == IF x < y THEN x ELSE y
Clamp(x) == IF x < 0 THEN 0 ELSE Least(x, One)
Times(x, y) == (x * y) \div One
Ratio(x, y) == IF y = 0 THEN IF x = 0 THEN 0 ELSE One ELSE Least((x * One) \div y, One)
Gap(x, y) == IF x < y THEN y - x ELSE x - y

(* 1 - exp(-x) for x in thousandths, by the first terms of the series of exp. *)
Saturating(x) ==
  LET term(s, k) == (s.term * x) \div (k * 1000)
      next(s, k) == [term |-> term(s, k), sum |-> s.sum + term(s, k)]
      upTo[k \in 0 .. 14] ==
        IF k = 0 THEN [term |-> 1000, sum |-> 1000] ELSE next(upTo[k - 1], k)
  IN  One - ((One * 1000) \div upTo[14].sum)

Lowered(toks) == [k \in DOMAIN toks |-> Lower[toks[k]]]

----------------------------------------------------------------------------
(* take_amount: what a text begins with of digits and points. *)
Leading(toks) ==
  SubSeq(toks, 1, Max({n \in 0 .. Len(toks) : \A k \in 1 .. n : toks[k] \in Digits \cup Points}))

(* parse_price, parse_date and parse_number: a price is what a text begins
   with, a date stands anywhere in it, and a number is all of it. *)
Priced(toks) ==
  LET rest == Tail(toks)
  IN  Leading(IF rest # <<>> /\ rest[1] = Space THEN Tail(rest) ELSE rest)

IsPrice(toks) == toks # <<>> /\ toks[1] \in Currencies /\ Priced(toks) \in DOMAIN Amount
IsNumber(toks) == toks \in DOMAIN Amount

(* A date that stands in a text at k as a word of its own. *)
StandsAt(toks, k, date) ==
  LET end == k + Len(date) - 1
  IN  /\ end <= Len(toks) /\ SubSeq(toks, k, end) = date
      /\ k = 1 \/ toks[k - 1] = Space
      /\ end = Len(toks) \/ toks[end + 1] = Space

Dated(toks) == {k \in DOMAIN toks : \E date \in DOMAIN Day : StandsAt(toks, k, date)}

(* resolve_type for the anchored block: a text that is a value has its type. *)
TypeOf(b) ==
  LET toks == Tokenize(b.words)
      plain == b.kind \in {"Paragraph", "Text", "ListItem", "Link"}
  IN  CASE plain /\ IsPrice(toks)                    -> "Price"
        [] plain /\ ~IsPrice(toks) /\ Dated(toks) # {} -> "Date"
        [] plain /\ ~IsPrice(toks) /\ Dated(toks) = {} /\ IsNumber(toks) -> "Number"
        [] OTHER                                     -> b.kind

Val(a, b) == [enc |-> "val", a |-> a, b |-> b, ops |-> <<>>]
Idiff(ops) == [enc |-> "idiff", a |-> <<>>, b |-> <<>>, ops |-> ops]
Whole(a) == [enc |-> "block", a |-> SubSeq(a, 1, Least(Len(a), BlockTrunc)), b |-> <<>>, ops |-> <<>>]
Move == [enc |-> "move", a |-> <<>>, b |-> <<>>, ops |-> <<>>]

Valued(b) == TypeOf(b) \in {"Price", "Number"}
ValueOf(b) ==
  LET toks == Tokenize(b.words)
  IN  Amount[IF TypeOf(b) = "Price" THEN Priced(toks) ELSE toks]

(* text_magnitude: the share of the reported words that is edited; a span of
   no words counts as one. *)
WordsOf(ops, kinds) ==
  LET size(o) == IF Chunks(o.toks) = 0 THEN 1 ELSE Chunks(o.toks)
      upTo[n \in 0 .. Len(ops)] ==
        IF n = 0 THEN 0 ELSE upTo[n - 1] + IF ops[n].op \in kinds THEN size(ops[n]) ELSE 0
  IN  upTo[Len(ops)]

TextMagnitude(ops) ==
  IF ops = <<>> THEN 0
  ELSE Saturating((3000 * WordsOf(ops, {"ins", "del"})) \div WordsOf(ops, {"ins", "del", "keep"}))

(* The unit of a change of type ct: old and new are the block before and after. *)
UnitOf(ct, old, new, delta, mag, num, sim) ==
  [ct |-> ct, delta |-> delta, mag |-> mag, num |-> num, sim |-> sim,
   ty |-> TypeOf(IF new.words = <<>> THEN old ELSE new),
   before |-> Tokenize(old.words), after |-> Tokenize(new.words)]

NoNumber == <<>>

(* build_modified_delta. *)
ModifiedUnits(old, new) ==
  LET unit(delta, mag, num) == UnitOf("Modified", old, new, delta, mag, num, One)
      pct == Ratio(Gap(ValueOf(old), ValueOf(new)), ValueOf(old))
  IN  CASE Valued(old) /\ Valued(new) ->
             {unit(Val(Tokenize(new.words), Tokenize(old.words)), pct,
                   <<[from |-> ValueOf(old), to |-> ValueOf(new), pct |-> pct]>>)}
        [] TypeOf(old) = "Link" /\ TypeOf(new) = "Link" ->
             {unit(Val(new.href, old.href), One, NoNumber)}
        [] OTHER ->
             {unit(Idiff(ops), TextMagnitude(ops), NoNumber) :
                ops \in TokenDiffs(Tokenize(old.words), Tokenize(new.words))}

SameContent(old, new) ==
  old.words = new.words /\ (TypeOf(new) = "Link" => old.href = new.href)

(* The block under one slot key, in two documents: what run makes of it. *)
AnchorUnits(old, new) ==
  CASE ~SameContent(old, new) -> ModifiedUnits(old, new)
    [] SameContent(old, new) /\ old.struck # new.struck ->
         {UnitOf("Restyled", old, new, Val(Tokenize(new.words), Tokenize(old.words)), 0, NoNumber, One)}
    [] OTHER -> {UnitOf("Reordered", old, new, Move, 0, NoNumber, One)}

UnitsOf(old, new) ==
  CASE old.words = <<>> ->
         {UnitOf("Added", old, new, Whole(Tokenize(new.words)), One, NoNumber, 0)}
    [] old.words # <<>> /\ new.words = <<>> ->
         {UnitOf("Removed", old, new, Whole(Tokenize(old.words)), One, NoNumber, 0)}
    [] OTHER -> AnchorUnits(old, new)

----------------------------------------------------------------------------
(* noise.rs.  A span is a number if points are all it has but digits: not the
   sign of a price, nor a point alone. *)
Numeric(o) == ToSet(o.toks) \ Points # {} /\ ToSet(o.toks) \ Points \subseteq Digits

Edited(ops) == {ops[k] : k \in {n \in DOMAIN ops : ops[n].op # "keep"}}

AllNumeric_SomeEdit(edits) == \E o \in edits : Numeric(o)
AllNumeric(edits) == edits # {} /\ \A o \in edits : Numeric(o)

OnlyNumbersChange(u) ==
  LET blotted(toks) == [k \in DOMAIN toks |-> Skeleton[toks[k]]]
  IN  CASE u.delta.enc = "idiff" -> AllNumeric(Edited(u.delta.ops))
        [] u.delta.enc = "val" ->
             u.delta.a # u.delta.b /\ blotted(u.delta.a) = blotted(u.delta.b)
        [] OTHER -> FALSE

SalientKey(toks) ==
  LET colon == SelectInSeq(toks, LAMBDA t : t = Colon)
      key == SubSeq(toks, 1, colon - 1)
  IN  colon # 0 /\ Chunks(key) <= 5 /\ ToSet(key) \cap KeyWords # {}

SalientType(ty) == ty \in {"Price", "Number", "Date"}

CounterNoise(u) ==
  IF SalientKey(u.after) \/ SalientKey(u.before) THEN 0
  ELSE IF ToSet(u.after) \cap Cues # {} THEN 8500
  ELSE IF Chunks(u.after) <= ShortBlock THEN 6000 ELSE 500

ModifiedNoise(u) ==
  IF SalientType(u.ty) THEN 0
  ELSE IF u.before # u.after /\ Lowered(u.before) = Lowered(u.after) THEN One
  ELSE IF OnlyNumbersChange(u) THEN CounterNoise(u) ELSE 500

Noise(u) ==
  CASE u.ct = "Reordered" -> 9000
    [] u.ct = "Restyled"  -> 9500
    [] u.ct = "Modified"  -> ModifiedNoise(u)
    [] OTHER              -> IF u.ty = "Link" THEN 6000 ELSE 0

----------------------------------------------------------------------------
(* delta_texts, present_text and prior_text: the two sides as the scorer
   reads them back.  A removed block's text is on the near side. *)
Present(u) == IF u.delta.enc = "idiff" THEN AfterText(u.delta.ops) ELSE u.delta.a
Prior(u) == IF u.delta.enc = "idiff" THEN BeforeText(u.delta.ops) ELSE u.delta.b

Matches(rule, toks) == \E phrase \in rule.phrases : Has(Lowered(toks), phrase)

(* The places of the rules of a pack that match, and the first of some. *)
Hits(pack, toks) == {k \in DOMAIN pack.rules : Matches(pack.rules[k], toks)}

FirstOf(places) == CHOOSE k \in places : \A j \in places : k <= j

Negated(toks) == \E phrase \in Negations : Has(Lowered(toks), phrase)

Says(u, phrases) == \E phrase \in phrases : Has(Lowered(Present(u)), phrase)

Inserted(u) ==
  LET spans == SelectSeq(u.delta.ops, LAMBDA o : o.op = "ins")
  IN  FoldLeft(LAMBDA toks, o : toks \o (IF toks = <<>> THEN <<>> ELSE <<Space>>) \o o.toks,
               <<>>, spans)

PolarityFlipped_OnlyInserted(u) == Negated(Inserted(u))
PolarityFlipped(u) ==
  \/ Negated(Inserted(u))
  \/ \E phrase \in Negations : Has(Lowered(Present(u)), phrase) /\ ~Has(Lowered(Prior(u)), phrase)

(* first_iso_date. *)
FirstDay(toks) ==
  Day[CHOOSE date \in DOMAIN Day : StandsAt(toks, FirstOf(Dated(toks)), date)]

DateShift(u) ==
  IF Dated(Prior(u)) = {} \/ Dated(Present(u)) = {} THEN 0
  ELSE Saturating((1000 * Gap(FirstDay(Present(u)), FirstDay(Prior(u)))) \div 30)

DefaultWeight ==
  [Price |-> 10000, Date |-> 8500, Number |-> 8500, Heading |-> 8000, TableRow |-> 7500,
   Table |-> 7500, Code |-> 7000, ListItem |-> 5500, Link |-> 5000, Paragraph |-> 4500, Text |-> 2000]

DomProxy(spot) ==
  LET share(x, of) == IF of = 0 THEN One ELSE One - Ratio(x, of)
  IN  (share(spot.depth, spot.maxDepth) + share(spot.index, spot.blocks)) \div 2

Keyword(u, pack) ==
  LET hits == Hits(pack, IF Present(u) = <<>> THEN Prior(u) ELSE Present(u))
  IN  IF hits = {} THEN 0 ELSE pack.rules[FirstOf(hits)].weight

Affinity ==
  [type |-> 6000, mag |-> 7000, num |-> 9000, date |-> 8500, neg |-> 10000, pos |-> 5000, kw |-> 9500]

Signals(u, pack, spot) ==
  [type |-> pack.weight[u.ty], mag |-> u.mag,
   num |-> IF u.num = NoNumber THEN 0 ELSE u.num[1].pct,
   date |-> DateShift(u), neg |-> IF PolarityFlipped(u) THEN One ELSE 0,
   pos |-> DomProxy(spot), kw |-> Keyword(u, pack)]

(* noisy_or, block_score with a volatility weight of one, noise_damp. *)
NoisyOr(signals, pack) ==
  LET order == <<"type", "mag", "num", "date", "neg", "pos", "kw">>
      part(i) == Clamp(Times(Affinity[i], Clamp(Times(signals[i], pack.scale[i]))))
      rest[n \in 0 .. 7] == IF n = 0 THEN One ELSE Times(rest[n - 1], One - part(order[n]))
  IN  One - rest[7]

NoiseDamp(score, noise) == Times(score, One - Clamp(noise))

Rank == [None |-> 0, Low |-> 1, Medium |-> 2, High |-> 3, Critical |-> 4]

Band(pack, sal) ==
  LET reached == {b \in DOMAIN pack.bands : sal >= pack.bands[b]}
  IN  IF reached = {} THEN "None" ELSE CHOOSE b \in reached : \A c \in reached : Rank[c] <= Rank[b]

----------------------------------------------------------------------------
(* A block, with the kind of its element (no profile forces a type on it), and
   where in its document it stands.  A word has no space in it. *)
Blocks ==
  [kind : DOMAIN DefaultWeight \ {"Price", "Date", "Number"},
   words : Seq(Tokens \ {Space}), href : Seq(Tokens), struck : BOOLEAN, moved : BOOLEAN]

Spots == [depth : Nat, maxDepth : Nat, index : Nat, blocks : Nat]

NoAction == "no_action"
NoCat == "no_cat"

(* classify. *)
Category(u, pack) ==
  LET named == {k \in Hits(pack, Present(u)) \cup Hits(pack, Prior(u)) :
                  pack.rules[k].cat # NoCat}
  IN  CASE named # {} -> pack.rules[FirstOf(named)].cat
        [] named = {} /\ u.num # NoNumber /\ u.ty = "Price" ->
             IF u.num[1].to > u.num[1].from THEN "price_increase"
             ELSE IF u.num[1].to < u.num[1].from THEN "price_decrease" ELSE "content_edit"
        [] OTHER ->
             IF Negated(Present(u))
             THEN IF Says(u, Deprecations) THEN "api_deprecation"
                  ELSE IF Says(u, Breakages) THEN "api_breaking" ELSE "content_edit"
             ELSE IF u.ct \in {"Reordered", "Restyled"} THEN "cosmetic" ELSE "content_edit"

Cost ==
  [ignore |-> 0, notify |-> 1, refetch_linked |-> 2, reembed_kb |-> 3, re_run_downstream |-> 4,
   open_ticket |-> 5, escalate_human |-> 6, page_oncall |-> 7]

(* The rules that would have an action taken, of those the dearest ones. *)
Acting(pack, toks) == {k \in Hits(pack, toks) : pack.rules[k].act # NoAction}

Sticky(pack, toks) == {k \in Acting(pack, toks) : pack.rules[k].sticky}

Dearest(pack, toks) ==
  {k \in Acting(pack, toks) :
     \A j \in Acting(pack, toks) : Cost[pack.rules[j].act] <= Cost[pack.rules[k].act]}

RowApplies_InAnyBand(pack, cat, mat) == cat \in DOMAIN pack.rows
RowApplies(pack, cat, mat) == mat # "None" /\ cat \in DOMAIN pack.rows

(* action_for_cat over action_for. *)
Decision(u, pack, cat, mat) ==
  LET by(who, act) == [by |-> who, act |-> act]
      rule(places) == pack.rules[FirstOf(places)]
      sticky == Sticky(pack, Present(u))
      dearest == Dearest(pack, Present(u))
  IN  CASE sticky # {} -> by(rule(sticky).id, rule(sticky).act)
        [] sticky = {} /\ dearest # {} -> by(rule(dearest).id, rule(dearest).act)
        [] OTHER ->
             IF RowApplies(pack, cat, mat) THEN by("row", pack.rows[cat].act)
             ELSE by("band", pack.bandAction[mat])

(* c_align: what comes or goes has no counterpart to be similar to. *)
Alignment_BySimilarity(u, clean) == IF u.sim = One THEN clean ELSE u.sim
Alignment(u, clean) == IF u.ct \in {"Added", "Removed"} \/ u.sim = One THEN clean ELSE u.sim

Confidence(u, anchored, alignRate) ==
  LET align == Alignment(u, IF anchored THEN One ELSE 9000)
      match == IF u.delta.enc = "idiff" THEN Ratio(u.sim, 6200) ELSE One
      parse == CASE u.ty \in {"Price", "Number"} -> IF u.num # NoNumber THEN 9700 ELSE 7000
                 [] u.ty = "Date" -> 9700
                 [] OTHER -> One
      stability == IF alignRate < 9000 THEN 6000 ELSE One
  IN  Times(Times(Times(align, match), parse), stability)

(* score_doc for one unit: where its block is missing from the new document
   it counts as the first and outermost, found by structure. *)
Scored(u, pack, spot, anchored, alignRate) ==
  LET gone == u.ct = "Removed"
      place == IF gone THEN [spot EXCEPT !.depth = 0, !.index = 0] ELSE spot
      sal == NoiseDamp(NoisyOr(Signals(u, pack, place), pack), Noise(u))
      mat == Band(pack, sal)
      cat == Category(u, pack)
  IN  [ct |-> u.ct, ty |-> u.ty, noise |-> Noise(u), sal |-> sal, mat |-> mat, cat |-> cat,
       decision |-> Decision(u, pack, cat, mat),
       conf |-> Confidence(u, anchored /\ ~gone, alignRate)]

----------------------------------------------------------------------------
(* packs.rs: a layer's entries win over those of the layer below, its rules
   come after them; a row without an action takes the band's. *)
RulesOf_ChildFirst(pack, raw) == raw.rules \o pack.rules
RulesOf(pack, raw) == pack.rules \o raw.rules

Over(f, g) == [x \in DOMAIN f \cup DOMAIN g |-> IF x \in DOMAIN f THEN f[x] ELSE g[x]]

ApplyLayer(pack, raw) ==
  LET bandAction == Over(raw.bandAction, pack.bandAction)
      row(c) == [mat |-> raw.rows[c].mat,
                 act |-> IF raw.rows[c].act = NoAction THEN bandAction[raw.rows[c].mat]
                                                       ELSE raw.rows[c].act]
  IN  [bands |-> Over(raw.bands, pack.bands), bandAction |-> bandAction,
       weight |-> Over(raw.weight, pack.weight), scale |-> Over(raw.scale, pack.scale),
       rules |-> RulesOf(pack, raw),
       rows |-> Over([c \in DOMAIN raw.rows |-> row(c)], pack.rows)]

DefaultPack ==
  [bands |-> [Critical |-> 9000, High |-> 7000, Medium |-> 4000, Low |-> 1500],
   bandAction |-> [None |-> "ignore", Low |-> "notify", Medium |-> "notify",
                   High |-> "re_run_downstream", Critical |-> "escalate_human"],
   weight |-> DefaultWeight, scale |-> [i \in DOMAIN Affinity |-> One],
   rules |-> <<>>, rows |-> <<>>]

KwRule ==
  [id : STRING, phrases : SUBSET Seq(SUBSET Tokens), weight : Int,
   act : DOMAIN Cost \cup {NoAction}, sticky : BOOLEAN, cat : STRING]

Entries(f, keys) == DOMAIN f \subseteq keys /\ \A x \in DOMAIN f : f[x] \in Int

IsStack(layers) ==
  /\ Len(layers) \in Nat /\ DOMAIN layers = 1 .. Len(layers)
  /\ \A n \in DOMAIN layers :
       /\ layers[n].rules \in Seq(KwRule)
       /\ Entries(layers[n].weight, DOMAIN DefaultWeight)
       /\ Entries(layers[n].scale, DOMAIN Affinity)
       /\ Entries(layers[n].bands, DOMAIN DefaultPack.bands)

Resolve(layers) ==
  LET upTo[n \in 0 .. Len(layers)] ==
        IF n = 0 THEN DefaultPack ELSE ApplyLayer(upTo[n - 1], layers[n])
  IN  upTo[Len(layers)]
============================================================================
