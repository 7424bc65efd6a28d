----------------------------- MODULE MCSalience -----------------------------
(***************************************************************************)
(* Blocks of a few words under the shipped packs: counters, prices, stock  *)
(* lines, dates, notices and links, and two edits of each.  The context,   *)
(* the short block, what is told of a block and the texts are scaled down  *)
(* together: spans are elided, blocks are cut short and are too long to be *)
(* counters.                                                               *)
(***************************************************************************)
EXTENDS Salience

MCTokens ==
  {" ", ":", ".", "~", "$", "2026-05-", "12", "30", "viewing", "stock", "Plan", "plan",
   "deprecated", "undeprecated", "major", "outage", "no", "longer", "/plans", "#", "##"}

MCDigits == {"12", "30"}
Worth(t) == IF t = "12" THEN 12 ELSE 30

(* The sign "2026-05-" stands for a date up to its day, which follows it. *)
MCAdjoining ==
  (MCTokens \X {":"}) \cup ({"$", "2026-05-", "."} \X MCDigits) \cup (MCDigits \X {"."})

MCAmount ==
  [text \in {<<d>> : d \in MCDigits} \cup {<<d, ".">> : d \in MCDigits}
              \cup {<<d, ".", e>> : d \in MCDigits, e \in MCDigits} |->
     100 * Worth(text[1]) + IF Len(text) = 3 THEN Worth(text[3]) ELSE 0]

MCDay == [text \in {<<"2026-05-", d>> : d \in MCDigits} |-> 120 + Worth(text[2])]

MCLower == [t \in MCTokens |-> IF t = "Plan" THEN "plan" ELSE t]
MCSkeleton == [t \in MCTokens |-> IF t \in MCDigits THEN "##" ELSE t]

(* A word is part of the words that contain it. *)
Deprecated == <<{"deprecated", "undeprecated"}>>
NoLonger == <<{"no"}, {" "}, {"longer"}>>
MCNegations == {Deprecated, NoLonger}

Block(kind, words) ==
  [kind |-> kind, words |-> words, href |-> <<"/plans", "12">>, struck |-> FALSE, moved |-> FALSE]

Nothing == [x \in {} |-> 0]
Layer(rules, rows) ==
  [bands |-> Nothing, bandAction |-> Nothing, weight |-> Nothing, scale |-> Nothing,
   rules |-> rules, rows |-> rows]

Row(mat, act) == [mat |-> mat, act |-> act]
Rule(id, phrases, act, sticky, cat) ==
  [id |-> id, phrases |-> phrases, weight |-> One, act |-> act, sticky |-> sticky, cat |-> cat]

Base == Layer(<<>>, [content_edit |-> Row("Low", "notify"), cosmetic |-> Row("None", "ignore")])

Pricing ==
  [Layer(<<Rule("plan.removed", {NoLonger}, "escalate_human", TRUE, "plan_removed")>>,
         [price_increase |-> Row("High", "re_run_downstream")])
   EXCEPT !.weight = [TableRow |-> 9000]]

StatusPage ==
  Layer(<<Rule("incident.open", {<<{"major"}, {" "}, {"outage"}>>}, "page_oncall", TRUE, "incident_open"),
          Rule("incident.update", {<<{"plan"}>>}, NoAction, FALSE, "incident_update")>>,
        [incident_open |-> Row("Critical", "page_oncall")])

(* A layer of the user's for one target. *)
Target ==
  [Layer(<<Rule("quiet", {<<{"outage"}>>}, "ignore", TRUE, NoCat),
           Rule("ticket", {<<{"plan"}>>}, "open_ticket", FALSE, NoCat),
           Rule("reembed", {<<{"major"}>>}, "reembed_kb", FALSE, NoCat)>>,
         [incident_update |-> Row("High", NoAction)])
   EXCEPT !.bands = [High |-> 5500, Critical |-> 8000]]

Top == [depth |-> 0, maxDepth |-> 4, index |-> 0, blocks |-> 9]
Deep == [depth |-> 4, maxDepth |-> 4, index |-> 8, blocks |-> 9]

Site(block, layers, spot, anchored) ==
  [block |-> block, layers |-> layers, spot |-> spot, anchored |-> anchored]

MCSites ==
  {Site(Block("Heading", <<"12", "viewing">>), <<Base>>, Top, TRUE),
   Site(Block("Paragraph", <<"stock", ":", "12">>), <<Base, Pricing>>, Deep, FALSE),
   Site(Block("Paragraph", <<"$", "12">>), <<Base, Pricing>>, Top, TRUE),
   Site(Block("Text", <<"2026-05-", "12">>), <<Base>>, Deep, TRUE),
   Site(Block("Link", <<"Plan", "12">>), <<Base, Pricing>>, Deep, TRUE),
   Site(Block("Paragraph", <<>>), <<Base, StatusPage, Target>>, Top, TRUE),
   Site(Block("TableRow", <<"plan", "no", "plan", "longer">>), <<Base, Pricing>>, Top, FALSE),
   Site(Block("ListItem", <<"plan", "12", "plan", "deprecated">>), <<Base>>, Deep, TRUE),
   Site(Block("Text", <<"major", "outage", "plan", "12">>), <<Base, StatusPage, Target>>, Deep, FALSE)}

ASSUME NegationsCount

MCVocabulary == {"12", "30", "$", "2026-05-", ".", "viewing", "Plan", "undeprecated", "outage", "major"}
MCHrefs == {<<"/plans", "30">>, <<"#">>}
=============================================================================
