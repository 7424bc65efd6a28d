---------------------------- MODULE Observation ----------------------------
(***************************************************************************)
(* One observation of a page, as the pure pipeline of cf-core computes it: *)
(* given the stored document and the new one, which change events there    *)
(* are and whether the observation is a baseline, a change or nothing.     *)
(*                                                                         *)
(* The documents of a model keep their blocks in order, below 32 changed   *)
(* rows of a table, with no text shared by a removed and an added block    *)
(* (PagesHaveNoTwins) and no two of them similar, so that the moves, the   *)
(* similarity matches and the clusters of the diff do not arise.  Module   *)
(* Diff models these, and MCDiff checks that the two agree on such pages.  *)
(***************************************************************************)
EXTENDS Documents

CONSTANTS
  SlotMat,     \* SlotMat[s]: materiality the pack scores a change of slot s at
  Ignored,     \* slots the target's ignore rules drop before the diff
  WholePage    \* the empty seg.fp of the redesign guard's event

Materiality == 0..4       \* None, Low, Medium, High, Critical
None == 0
Low == 1
High == 3
Critical == 4

ASSUME SlotMatAssumption == SlotMat \in [Slots -> Materiality]
ASSUME SlotsAssumption == WholePage \notin Slots /\ Ignored \subseteq Slots

----------------------------------------------------------------------------
(* mask::apply_rules: a selector rule drops the blocks it matches. *)
Mask(doc) == Restrict(doc, DOMAIN doc \ Ignored)

(***************************************************************************)
(* The anchored part of the diff: equal doc_hash gives no unit; otherwise  *)
(* one unit for every slot key whose block is added, removed, or differs   *)
(* in its text, its value or its presentation.                             *)
(***************************************************************************)
ChangedSlots(prior, new) ==
  {s \in DOMAIN Mask(prior) \cup DOMAIN Mask(new) :
      BlockAt(prior, s) # BlockAt(new, s)}

ScoredEvents(prior, new) ==
  {[slot |-> s, from |-> BlockAt(prior, s), to |-> BlockAt(new, s),
    mat |-> SlotMat[s]] : s \in ChangedSlots(prior, new)}

(***************************************************************************)
(* The redesign guard: no block left, or a Jaccard overlap of the slot     *)
(* keys below 0.3, on the documents before masking.                        *)
(***************************************************************************)
Redesigned(prior, new) ==
  \/ DOMAIN new = {}
  \/ /\ DOMAIN prior # {}
     /\ 10 * Cardinality(DOMAIN prior \cap DOMAIN new)
          < 3 * Cardinality(DOMAIN prior \cup DOMAIN new)

GuardEvent == [slot |-> WholePage, from |-> Absent, to |-> Absent, mat |-> High]

Event ==
  [slot : Slots \cup {WholePage}, from : Block \cup {Absent},
   to : Block \cup {Absent}, mat : Materiality]

(***************************************************************************)
(* observe_body.  The guard comes after the test for an empty diff and     *)
(* before the gate on --min-salience, which it therefore escapes.          *)
(***************************************************************************)
Outcome(kind, events) == [kind |-> kind, events |-> events]

Material_Ungated(events, minSalience) == events
Material(events, minSalience) == {e \in events : e.mat >= minSalience}

Observe_WithoutEmptyTest(prior, new, minSalience) ==
  IF prior = NoDoc THEN Outcome("baseline", {})
  ELSE Outcome("changed", Material(ScoredEvents(prior, new), minSalience))

Observe(prior, new, minSalience) ==
  LET scored == ScoredEvents(prior, new)
      material == Material(scored, minSalience)
  IN  CASE prior = NoDoc          -> Outcome("baseline", {})
        [] OTHER ->
             CASE scored = {}            -> Outcome("no_change", {})
               [] scored # {} /\ Redesigned(prior, new)
                                         -> Outcome("changed", {GuardEvent})
               [] scored # {} /\ ~Redesigned(prior, new) /\ material = {}
                                         -> Outcome("sub_threshold", {})
               [] OTHER                  -> Outcome("changed", material)

----------------------------------------------------------------------------
(***************************************************************************)
(* The idempotency key of an event of target t.  event_key_for looks the   *)
(* block up under the event's slot key on both sides and folds the two     *)
(* norm hashes, and nothing else of the blocks.  The guard's event has no  *)
(* slot key, hence no key: it is never suppressed.                         *)
(***************************************************************************)
Keyed(e) == e.slot # WholePage

(* What an event reports, and the part of it that its key remembers. *)
Transition(t, e) == [tid |-> t, slot |-> e.slot, from |-> e.from, to |-> e.to]

KeyOf(x) ==
  [tid |-> x.tid, slot |-> x.slot, from |-> NormOf(x.from), to |-> NormOf(x.to)]

EventKey(t, e) == KeyOf(Transition(t, e))
============================================================================
