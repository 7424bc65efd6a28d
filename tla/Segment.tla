------------------------------ MODULE Segment -------------------------------
(***************************************************************************)
(* From the normalized forest to the blocks of a canonical document.  The  *)
(* walk is in document order; it carries the heading path and the counters *)
(* that number the blocks of a section, and with them makes the slot keys  *)
(* the whole of the diff joins on.                                         *)
(***************************************************************************)
EXTENDS Normalize

CONSTANT
  Kind           \* Kind[w]: "currency", "amount", "date", or "word"

ASSUME KindAssumption == Kind \in [Words -> {"currency", "amount", "date", "word"}]

----------------------------------------------------------------------------
HeadingLevel == [h1 |-> 1, h2 |-> 2, h3 |-> 3, h4 |-> 4, h5 |-> 5, h6 |-> 6]
LeafType == [p |-> "Paragraph", li |-> "ListItem", pre |-> "Code", code |-> "Code", a |-> "Link"]

(* classify_element *)
Role(tag) ==
  CASE tag \in DOMAIN HeadingLevel -> "heading"
    [] tag = "table"               -> "table"
    [] tag \in DOMAIN LeafType     -> "leaf"
    [] OTHER                       -> "transparent"

(* normalized_subtree_text: the words below a node.  The texts of code keep
   their spacing, which is part of a word here. *)
Spelled(text) == [k \in DOMAIN text.words |-> <<text.words[k], text.spaced>>]

SubtreeText(forest, i) ==
  LET texts == InOrder(forest, {j \in Below(forest, i) : IsText(forest[j])})
  IN  FlattenSeq([n \in DOMAIN texts |-> Spelled(forest[texts[n]].text)])

(* restyle_sig_of *)
RestyleSig(forest, i) ==
  LET tags == {forest[j].tag : j \in Subtree(forest, i)}
  IN  [strike |-> tags \cap {"del", "s", "strike"} # {}, insert |-> "ins" \in tags]

(* row_cells: the children that are cells. *)
RowCells(forest, i) ==
  LET cells == InOrder(forest, {j \in Below(forest, i) :
                 /\ forest[j].depth = forest[i].depth + 1
                 /\ forest[j].tag \in {"td", "th"}})
  IN  [n \in DOMAIN cells |-> SubtreeText(forest, cells[n])]

----------------------------------------------------------------------------
(* infer_value_type: a price before a date before a number. *)
KindAt(text, k) == IF k \in DOMAIN text THEN Kind[text[k][1]] ELSE "none"
ParsesAsPrice(text) == KindAt(text, 1) = "currency" /\ KindAt(text, 2) = "amount"
ParsesAsDate(text) ==
  /\ \E k \in DOMAIN text : KindAt(text, k) = "date"
  /\ \A k \in DOMAIN text : text[k][1] # Sentinel
ParsesAsNumber(text) == Len(text) = 1 /\ KindAt(text, 1) = "amount"

InferValueType(text, default) ==
  CASE ParsesAsPrice(text)                                       -> "Price"
    [] ~ParsesAsPrice(text) /\ ParsesAsDate(text)                -> "Date"
    [] ~ParsesAsPrice(text) /\ ~ParsesAsDate(text) /\ ParsesAsNumber(text) -> "Number"
    [] OTHER                                                     -> default

(* TypeOverrides: a type the profile forces on an id, else on a class. *)
NoType == "none"
TypeOverride(node, profile) ==
  IF node.id \in DOMAIN profile.typeOfId THEN profile.typeOfId[node.id]
  ELSE IF node.class \in DOMAIN profile.typeOfClass THEN profile.typeOfClass[node.class]
  ELSE NoType

(* resolve_type *)
ResolveType(node, default, text, profile) ==
  CASE TypeOverride(node, profile) # NoType -> TypeOverride(node, profile)
    [] TypeOverride(node, profile) = NoType /\ default = "Code" -> "Code"
    [] OTHER -> InferValueType(text, default)

----------------------------------------------------------------------------
(* SegmentCtx.  A block's anchor, heading path, type and ordinal are what its
   slot key hashes; an anchored block has no place in the counters. *)
NoOrdinals == [ty \in {} |-> 0]

Start == [blocks |-> <<>>, next |-> 0, path |-> <<>>, counts |-> NoOrdinals, inside |-> 0]

(* next_ordinal *)
Ordinal(counts, ty) == IF ty \in DOMAIN counts THEN counts[ty] ELSE 0
Counting_FromTheSecond(counts, ty) ==
  [t \in DOMAIN counts \cup {ty} |->
     IF t = ty THEN Ordinal(counts, ty) + (IF ty \in DOMAIN counts THEN 1 ELSE 0) ELSE counts[t]]
Counting(counts, ty) ==
  [t \in DOMAIN counts \cup {ty} |->
     IF t = ty THEN Ordinal(counts, ty) + 1 ELSE counts[t]]

(* refresh_breadcrumb: the texts of the path with a sign between them, so that
   a path of one heading without a text cannot be told from that of none. *)
Joint == <<">", FALSE>>

Breadcrumb(path) ==
  FlattenSeq([n \in DOMAIN path |->
                IF n = 1 THEN path[n].text ELSE <<Joint>> \o path[n].text])

SlotKey(ctx, node, ty) ==
  IF node.id # "" THEN [anchor |-> node.id, crumb |-> <<>>, ty |-> "", ord |-> 0]
  ELSE [anchor |-> "", crumb |-> Breadcrumb(ctx.path), ty |-> ty,
        ord |-> Ordinal(ctx.counts, ty)]

(* typed_value, where it tells more than the text does.  Only a row of a table
   has cells: a leaf that an override calls one has none. *)
TypedValue(forest, i, ty) ==
  [href |-> IF ty = "Link" THEN forest[i].href ELSE NoUrl,
   cells |-> IF forest[i].tag = "tr" THEN RowCells(forest, i) ELSE <<>>]

(* make_block *)
MakeBlock(ctx, forest, i, ty, level, children) ==
  [slot |-> SlotKey(ctx, forest[i], ty), ty |-> ty, level |-> level,
   text |-> SubtreeText(forest, i), value |-> TypedValue(forest, i, ty),
   restyle |-> RestyleSig(forest, i), children |-> children,
   preorder |-> ctx.next, depth |-> forest[i].depth, at |-> forest[i].at]

Numbered(ctx, forest, i, ty) ==
  [ctx EXCEPT !.next = @ + 1,
              !.counts = IF forest[i].id = "" THEN Counting(@, ty) ELSE @]

Emit(ctx, forest, i, ty, level, children) ==
  [Numbered(ctx, forest, i, ty) EXCEPT
     !.blocks = Append(@, MakeBlock(ctx, forest, i, ty, level, children))]

(* A heading is numbered in the section it ends; it then opens its own, below
   the headings of a lower level. *)
Above(path, level) == Picked(path, {n \in DOMAIN path : path[n].level < level})

Opened_KeepsCounts(ctx, text, level) ==
  [ctx EXCEPT !.path = Append(Above(@, level), [level |-> level, text |-> text])]
Opened(ctx, text, level) ==
  [ctx EXCEPT !.path = Append(Above(@, level), [level |-> level, text |-> text]),
              !.counts = NoOrdinals]

Heading(ctx, forest, i) ==
  LET level == HeadingLevel[forest[i].tag]
  IN  Opened(Emit(ctx, forest, i, "Heading", level, <<>>), SubtreeText(forest, i), level)

(* walk_table_rows: the outermost rows of a table, numbered before it. *)
Rows(forest, i) ==
  InOrder(forest, {j \in Below(forest, i) :
                  /\ forest[j].tag = "tr" /\ SubtreeText(forest, j) # <<>>
                  /\ \A k \in Way(forest, i, j) \ {i, j} : forest[k].tag # "tr"})

Table(ctx, forest, i) ==
  LET rows == Rows(forest, i)
      upTo[n \in 0 .. Len(rows)] ==
        IF n = 0 THEN [ctx EXCEPT !.blocks = <<>>]
        ELSE Emit(upTo[n - 1], forest, rows[n], "TableRow", 0, <<>>)
      done == upTo[Len(rows)]
  IN  Emit([done EXCEPT !.blocks = ctx.blocks], forest, i, "Table", 0, done.blocks)

Leaf(ctx, forest, i, profile) ==
  LET text == SubtreeText(forest, i)
      ty == ResolveType(forest[i], LeafType[forest[i].tag], text, profile)
  IN  IF text = <<>> THEN ctx ELSE Emit(ctx, forest, i, ty, 0, <<>>)

(* walk: `inside' is the last node of an element already dealt with. *)
LastBelow(forest, i) == i + Cardinality(Below(forest, i))

Visit_DescendsIntoLeaves(ctx, forest, i, profile) ==
  IF IsText(forest[i]) THEN ctx
  ELSE CASE Role(forest[i].tag) = "transparent" -> ctx
         [] Role(forest[i].tag) = "heading" -> Heading(ctx, forest, i)
         [] Role(forest[i].tag) = "table"   -> Table(ctx, forest, i)
         [] Role(forest[i].tag) = "leaf"    -> Leaf(ctx, forest, i, profile)

Visit(ctx, forest, i, profile) ==
  LET done == [ctx EXCEPT !.inside = LastBelow(forest, i)]
  IN  IF i <= ctx.inside \/ IsText(forest[i]) THEN ctx
      ELSE CASE Role(forest[i].tag) = "transparent" -> ctx
             [] Role(forest[i].tag) = "heading" -> Heading(done, forest, i)
             [] Role(forest[i].tag) = "table"   -> Table(done, forest, i)
             [] Role(forest[i].tag) = "leaf"    -> Leaf(done, forest, i, profile)

Segment(forest, profile) ==
  LET upTo[n \in 0 .. Len(forest)] ==
        IF n = 0 THEN Start ELSE Visit(upTo[n - 1], forest, n, profile)
  IN  upTo[Len(forest)].blocks

----------------------------------------------------------------------------
(* fold_doc_hash: all of a block but its place in the walk. *)
Folded_WithoutRestyle(b) ==
  [slot |-> b.slot, ty |-> b.ty, level |-> b.level, text |-> b.text, value |-> b.value]
Folded(b) ==
  [slot |-> b.slot, ty |-> b.ty, level |-> b.level, text |-> b.text, value |-> b.value,
   restyle |-> b.restyle]

DocHash(blocks) ==
  [n \in DOMAIN blocks |->
     [block |-> Folded(blocks[n]),
      rows |-> [m \in DOMAIN blocks[n].children |-> Folded(blocks[n].children[m])]]]
=============================================================================
