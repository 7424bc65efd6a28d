------------------------------- MODULE MCDiff -------------------------------
(***************************************************************************)
(* The instance of Diff that TLC checks: every pair of pages of at most    *)
(* two of the blocks below, and families of longer ones for the spine, for *)
(* the matching of residual blocks, and for tables.                        *)
(***************************************************************************)
EXTENDS DiffObservation

MCKeys == 1..13
MCTypes == {"p", "a", "h", "li", "table", "tr"}
MCNorms == {"x", "y", "z", "d1", "d2", "d"}
MCVals == {"mirror", "href1", "href2", "cells", "at1", "at2"}
MCMarks == {"plain", "struck"}
MCSchemes == {"anchor", "struct"}
MCLevels == {"none", "h2"}
MCRedact == [n \in MCNorms |-> IF n \in {"d1", "d2"} THEN "d" ELSE n]
MCStrip == [v \in MCVals |-> v]

(* x and y are near each other; x and z as near as the threshold allows. *)
MCTextSim ==
  [p \in MCNorms \X MCNorms |->
     CASE p[1] = p[2] -> 85
       [] {p[1], p[2]} = {"x", "y"} -> 60
       [] {p[1], p[2]} = {"x", "z"} -> 50
       [] OTHER -> 10]

MCSignature ==
  [n \in MCNorms |->
     CASE n \in {"x", "y"} -> {1} [] n = "z" -> {2} [] OTHER -> {3}]

B(key, type, norm, val) ==
  [key |-> key, parent |-> NoKey, type |-> type, norm |-> norm, val |-> val,
   mark |-> "plain", scheme |-> "struct", level |-> "none"]

P(key, norm) == B(key, "p", norm, "mirror")

Struck(b) == [b EXCEPT !.mark = "struck"]
Anchored(b) == [b EXCEPT !.scheme = "anchor"]
Heading(b) == [b EXCEPT !.type = "h", !.level = "h2"]
Item(b) == [b EXCEPT !.type = "li"]

(* Paragraphs, links that differ in their target, a dated line, an         *)
(* advertisement, and an anchor that is a paragraph, a heading or a list   *)
(* item: the mask drops the advertisement, and list items.                 *)
Blocks ==
  {P(1, "x"), Struck(P(1, "x")), P(2, "y"), P(2, "d1"), P(2, "d2"),
   Anchored(P(3, "z")), Heading(Anchored(P(3, "x"))), Item(Anchored(P(3, "z"))),
   B(4, "a", "x", "href1"),
   B(4, "a", "x", "href2"), B(5, "a", "x", "href2"), P(6, "x")}

PagesOf(blocks, lengths) == UNION {[1..n -> blocks] : n \in lengths}

(* Reorderings and edits of a page of three, and permutations of five. *)
Three == {<<P(1, "x"), P(2, "y"), Anchored(P(3, "z"))>>}
Edited ==
  PagesOf({b \in Blocks : b.key \notin {4, 6} /\ b.norm \notin {"d1", "d2"}}, {3})

Five == {p \in PagesOf({P(k, "x") : k \in 1..5}, {5}) : Distinct(p)}

(* Pages that share no slot key. *)
Left == PagesOf({P(1, "x"), P(2, "y"), Anchored(P(3, "z"))}, {3})
Right == PagesOf({P(7, "y"), P(8, "x"), Heading(P(9, "y"))}, {3})

(* Tables of at most two rows each, after which a paragraph follows. *)
Rows(c, rows) ==
  {[i \in DOMAIN s |-> [s[i] EXCEPT !.parent = c]] : s \in PagesOf(rows, 0..2)}
Row(key, norm) == B(key, "tr", norm, "cells")
Table(c, norm, rows) == {<<B(c, "table", norm, "mirror")>> \o s : s \in Rows(c, rows)}

OneTable ==
  {t \o <<P(1, "x")>> :
     t \in UNION {Table(10, n, {Row(7, "x"), Row(7, "y"), Row(8, "x"), Row(9, "z")}) :
                    n \in {"d1", "z"}}}
TwoTables ==
  {s \o t : s \in Table(10, "z", {Row(7, "x"), Row(8, "y")}),
            t \in Table(13, "z", {Row(11, "x"), Row(12, "z")})}

(* A table the mask drops, and its rows. *)
DroppedTable ==
  {t \o <<P(1, "x")>> : t \in Table(6, "z", {Row(7, "x"), Row(8, "y")})}

(* A table of one row, whose cells hold the time its text shows. *)
Stamped(norm, at) ==
  <<B(10, "table", norm, "mirror"),
    [B(7, "tr", norm, at) EXCEPT !.parent = 10]>>

MCInputs ==
  UNION {PagesOf(Blocks, 0..2) \X PagesOf(Blocks, 0..2),
         Three \X Edited, Edited \X Three,
         {[i \in 1..5 |-> P(i, "x")]} \X Five,
         Left \X Right, OneTable \X OneTable, TwoTables \X TwoTables,
         DroppedTable \X DroppedTable,
         {<<Stamped("d1", "at1"), Stamped("d2", "at2")>>}}

----------------------------------------------------------------------------
(***************************************************************************)
(* What mask.rs says of an ignore regex: the diff never sees the ignored   *)
(* content.  Where the texts of two blocks agree for the mask hides what   *)
(* differs, nothing is told of them but the target of a link.              *)
(***************************************************************************)
Redacted == {Redact[n] : n \in {m \in Norms : Redact[m] # m}}

RedactedStaysHidden ==
  \A i \in DOMAIN units :
    LET u == units[i] IN
    u.ct = "modified" /\ u.from = u.to /\ u.from \in Redacted =>
      old[u.oi].type = "a" /\ old[u.oi].val # new[u.ni].val

(***************************************************************************)
(* What diff/mod.rs says of a moved block: a reorder has identical content *)
(* in a changed position.  So a link has the target it had.                *)
(***************************************************************************)
MovesAreIdentical ==
  \A i \in DOMAIN units :
    LET u == units[i] IN
    u.ct = "reordered" => SameContent(old[u.oi], new[u.ni])
=============================================================================
