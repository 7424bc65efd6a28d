------------------------------ MODULE Salience ------------------------------
(***************************************************************************)
(* One block of a watched page, edited word by word by its author, and the *)
(* checks that diff it against the version seen last, score the change and *)
(* recommend an action under the site's rule pack.                         *)
(***************************************************************************)
EXTENDS Scoring

CONSTANTS
  Sites,       \* [block, layers, spot, anchored]: what is watched at first
  Vocabulary,  \* the words an author may write
  Hrefs,       \* the targets a link may be given
  AlignRates,  \* the shares of the other blocks that may survive
  MaxWords,    \* bound: the words of a block
  MaxEdits     \* bound: the edits of a behaviour

ASSUME SitesAssumption ==
  \A s \in Sites : IsStack(s.layers) /\ s.block \in Blocks /\ s.spot \in Spots
ASSUME EditsAssumption == Vocabulary \subseteq Tokens \ {Space} /\ Hrefs \subseteq Seq(Tokens)
ASSUME RatesAssumption == AlignRates \subseteq 0 .. One

VARIABLES
  site,   \* what is watched, and under which layers of rules
  seen,   \* the block as the last check stored it; without words, absent
  page,   \* the block as the page has it now
  edits,  \* how often the author has edited
  event   \* what the last check told of the block

vars == <<site, seen, page, edits, event>>

NoEvent == [ct |-> "none"]

(* One pack for each stack of layers, resolved once. *)
Packs == [layers \in {s.layers : s \in Sites} |-> Resolve(layers)]

Init ==
  /\ site \in Sites
  /\ seen = site.block /\ page = site.block
  /\ edits = 0 /\ event = NoEvent

Publish(block) ==
  /\ edits < MaxEdits /\ Len(block.words) <= MaxWords
  /\ page' = block /\ edits' = edits + 1 /\ event' = NoEvent
  /\ UNCHANGED <<site, seen>>

Write(words) == Publish([page EXCEPT !.words = words])

Reword(k) == \E w \in Vocabulary : Write([page.words EXCEPT ![k] = w])
AddWord(k) == \E w \in Vocabulary : Write(InsertAt(page.words, k, w))
DropWord(k) == Write(RemoveAt(page.words, k))
TakeDown == page.words # <<>> /\ Write(<<>>)
PutBack == page.words = <<>> /\ Write(site.block.words)

Retarget ==
  /\ page.kind = "Link" /\ page.words # <<>>
  /\ \E href \in Hrefs : Publish([page EXCEPT !.href = href])

Strike == page.words # <<>> /\ Publish([page EXCEPT !.struck = ~@])
Shift == page.words # <<>> /\ Publish([page EXCEPT !.moved = ~@])

(* A block of no words is in no document: the diff finds nothing there. *)
Differs == page # seen /\ (page.words # <<>> \/ seen.words # <<>>)

Check ==
  /\ Differs
  /\ \E u \in UnitsOf(seen, page), rate \in AlignRates :
       event' = [told |-> Scored(u, Packs[site.layers], site.spot, site.anchored, rate),
                 ct |-> u.ct, ty |-> u.ty, rate |-> rate]
  /\ seen' = page
  /\ UNCHANGED <<site, page, edits>>

Next ==
  \/ \E k \in DOMAIN page.words : Reword(k) \/ DropWord(k)
  \/ \E k \in 1 .. Len(page.words) + 1 : AddWord(k)
  \/ TakeDown \/ PutBack \/ Retarget \/ Strike \/ Shift
  \/ Check

Spec == Init /\ [][Next]_vars

----------------------------------------------------------------------------
(* A step that is a check, and what it tells. *)
Checked == seen' # seen
Told == event'.told

(* The words and signs of a block but for its numbers. *)
Wording(b) ==
  FlattenSeq([k \in DOMAIN b.words |->
                IF b.words[k] \in Digits \cup Points THEN <<>> ELSE <<b.words[k]>>])

Text(b) == Tokenize(b.words)

SaysIn(toks, stem) == ToSet(Lowered(toks)) \cap stem # {}

(***************************************************************************)
(* A single word that turns the meaning around makes its block critical,   *)
(* wherever it is put in: whatever script the token diff takes, whatever   *)
(* it elides, and no noise damps it.  Of a block that comes the word is    *)
(* among the first that are told; links are left out: of a link that       *)
(* changes only the target is scored.                                      *)
(***************************************************************************)
Turning == {phrase[1] : phrase \in {p \in Negations : Len(p) = 1}}

(* What is told of the page: all of it, unless it is new. *)
Shown == IF event'.ct = "Added" THEN Whole(Text(page)).a ELSE Text(page)

(* What packs must leave alone for that: the weight of a negation, and the
   critical band up to what the least noise leaves of the highest score. *)
NegationsCount ==
  \A s \in Sites : \A n \in DOMAIN s.layers :
    LET layer == s.layers[n]
    IN  /\ "neg" \in DOMAIN layer.scale => layer.scale["neg"] >= One
        /\ "Critical" \in DOMAIN layer.bands => layer.bands["Critical"] <= 9500

FlipsAreCritical ==
  [][Checked /\ event'.ct \in {"Added", "Modified"} /\ event'.ty # "Link"
       => \A stem \in Turning :
            SaysIn(Shown, stem) /\ ~SaysIn(Text(seen), stem) => Told.mat = "Critical"]_vars

(***************************************************************************)
(* signals.rs says the same of every phrase that is introduced, of several *)
(* words too, "regardless of byte size", and of an add that "the token     *)
(* merely being present on the new side is a flip".                        *)
(***************************************************************************)
Introduced(phrase) == Has(Lowered(Text(page)), phrase) /\ ~Has(Lowered(Text(seen)), phrase)

PhrasesFlip ==
  [][Checked /\ event'.ct = "Modified" /\ event'.ty # "Link"
       => \A phrase \in Negations : Introduced(phrase) => Told.mat = "Critical"]_vars

AddsFlip ==
  [][Checked /\ event'.ct = "Added" /\ event'.ty # "Link"
       => \A phrase \in Negations : Introduced(phrase) => Told.mat = "Critical"]_vars

(***************************************************************************)
(* noise_score damps an edit only where nothing was said: the wording is   *)
(* the same but for case, or but for digits, and the points among them, in *)
(* a text without a salient key.  The sign of a price is part of the       *)
(* wording, and so is what a date has but digits.                          *)
(***************************************************************************)
Keyed(b) == SalientKey(Text(b))
Salient(b) == SalientType(TypeOf(b)) \/ Keyed(b)

OnlyCountersAreDamped ==
  [][Checked /\ event'.ct = "Modified" /\ event'.ty # "Link" /\ Told.noise > 500
       => \/ Lowered(page.words) = Lowered(seen.words)
          \/ Wording(page) = Wording(seen) /\ ~Salient(page) /\ ~Keyed(seen)]_vars

(***************************************************************************)
(* A live counter wakes nobody: if only numbers of a block change, where   *)
(* they stand, and it reads like a counter, the change is below every band *)
(* and is ignored unless a rule of the pack with an action matches; in     *)
(* another short block it does not rise above the low band.  They change   *)
(* to numbers the block did not have: where many numbers shift past a      *)
(* word, a shortest script may keep them and take the word out instead.    *)
(***************************************************************************)
Ticks ==
  /\ Checked /\ event'.ct = "Modified" /\ event'.ty # "Link"
  /\ Len(page.words) = Len(seen.words)
  /\ \A k \in DOMAIN page.words :
       \/ page.words[k] = seen.words[k]
       \/ /\ {page.words[k], seen.words[k]} \subseteq Digits
          /\ page.words[k] \notin ToSet(seen.words)
  /\ ~Salient(page) /\ ~Keyed(seen)

CountersStayQuiet ==
  [][Ticks => IF ToSet(page.words) \cap Cues # {}
              THEN /\ Told.mat = "None"
                   /\ Told.decision.by \in {"row", "band"} => Told.decision.act = "ignore"
              ELSE Len(page.words) <= ShortBlock => Rank[Told.mat] <= Rank["Low"]]_vars

(***************************************************************************)
(* The sticky rules of every layer stay in force under the layers above    *)
(* it: the first one that a new block matches decides, whatever the noise, *)
(* the band, the category and the rules of later layers say.               *)
(***************************************************************************)
StickyIn(rules, toks) ==
  {k \in DOMAIN rules : rules[k].sticky /\ rules[k].act # NoAction /\ Matches(rules[k], toks)}

(* The rule of a layer that is the first sticky one to match. *)
Decides(layers, n, k, toks) ==
  /\ k \in StickyIn(layers[n].rules, toks)
  /\ \A j \in StickyIn(layers[n].rules, toks) : k <= j
  /\ \A m \in 1 .. n - 1 : StickyIn(layers[m].rules, toks) = {}

StickiesDecide ==
  [][Checked /\ event'.ct = "Added"
       => \A n \in DOMAIN site.layers : \A k \in DOMAIN site.layers[n].rules :
            Decides(site.layers, n, k, Whole(Text(page)).a) =>
              LET r == site.layers[n].rules[k]
              IN  Told.decision = [by |-> r.id, act |-> r.act]]_vars

(***************************************************************************)
(* A block that comes or goes on a page that else aligns is told with a    *)
(* confidence above the 0.6 an agent filters at, although there is no      *)
(* counterpart it could be similar to.                                     *)
(***************************************************************************)
ComingsAndGoingsAreTrusted ==
  [][Checked /\ event'.ct \in {"Added", "Removed"} /\ event'.rate >= 9000
       => Told.conf > 6000]_vars
=============================================================================
