------------------------------ MODULE Canonical -----------------------------
(***************************************************************************)
(* A page that is edited and the canonical document cf check makes of it   *)
(* at every visit.  What an edit may and must do to the document is what   *)
(* the diff and the reports rest on: one key for a block, no key changed   *)
(* by an edit elsewhere, nothing volatile seen and nothing else missed.    *)
(***************************************************************************)
EXTENDS Segment

CONSTANTS
  Sites,         \* pages and the profiles they are watched with
  Snippets,      \* what an edit may put in: trees of a few nodes, depth 0 first
  Texts, Ids, Urls,   \* what it may change a text, an id or an href to
  Retagged,      \* pairs of tags an edit may exchange
  MaxEdits

ASSUME SitesAssumption ==
  \A site \in Sites : /\ site.page \in Seq(Node)
                      /\ site.profile.strategy \in {"full", "readability", "selector"}
ASSUME EditsAssumption ==
  /\ Snippets \subseteq Seq(Node) /\ Texts \subseteq AnyText
  /\ Ids \subseteq STRING /\ Urls \subseteq AnyUrl /\ Retagged \subseteq STRING \X STRING

VARIABLES
  page, profile,
  doc,           \* the blocks of the canonical document
  splice,        \* the last edit: cut nodes at a place gave way to put others
  edits
vars == <<page, profile, doc, splice, edits>>

(* pipeline::canonicalize *)
Forest(dom, prof) == Normalize(Extract(dom, prof), prof)
Canonicalize(dom, prof) == Segment(Forest(dom, prof), prof)

NoSplice == [at |-> 1, cut |-> 0, put |-> 0]

Init ==
  /\ \E site \in Sites : page = site.page /\ profile = site.profile /\ CanExtract(profile)
  /\ doc = Canonicalize(page, profile)
  /\ splice = NoSplice /\ edits = 0

Spliced(dom, at, cut, nodes) ==
  SubSeq(dom, 1, at - 1) \o nodes \o SubSeq(dom, at + cut, Len(dom))

(* An edit, and the visit after it. *)
Replace(at, cut, nodes) ==
  /\ edits < MaxEdits
  /\ page' = Spliced(page, at, cut, nodes)
  /\ doc' = Canonicalize(page', profile)
  /\ splice' = [at |-> at, cut |-> cut, put |-> Len(nodes)]
  /\ edits' = edits + 1
  /\ UNCHANGED profile

Change(i, node) == node # page[i] /\ Replace(i, 1, <<node>>)

Rewrite(i) ==
  /\ IsText(page[i])
  /\ \E text \in Texts : Change(i, [page[i] EXCEPT !.text = text])

Rename(i) == IsElement(page[i]) /\ \E id \in Ids : Change(i, [page[i] EXCEPT !.id = id])
Relink(i) == page[i].tag = "a" /\ \E url \in Urls : Change(i, [page[i] EXCEPT !.href = url])

Retag(i) ==
  \E pair \in Retagged : pair[1] = page[i].tag /\ Change(i, [page[i] EXCEPT !.tag = pair[2]])

(* A tree comes in at the place of a node, as its elder sibling, or a node
   goes with all below it. *)
PutIn(i) ==
  \E tree \in Snippets :
    Replace(i, 0, [n \in DOMAIN tree |-> [tree[n] EXCEPT !.depth = @ + page[i].depth]])

TakeOut(i) == Replace(i, Cardinality(Subtree(page, i)), <<>>)

Next ==
  \E i \in 2 .. Len(page) :
    Rewrite(i) \/ Rename(i) \/ Relink(i) \/ Retag(i) \/ PutIn(i) \/ TakeOut(i)

Spec == Init /\ [][Next]_vars

----------------------------------------------------------------------------
Texted(blocks) == FlattenSeq([n \in DOMAIN blocks |-> blocks[n].text])

WithRows(blocks) ==
  FlattenSeq([n \in DOMAIN blocks |-> blocks[n].children \o <<blocks[n]>>])

Semantic(n) == Role(n.tag) # "transparent"

(* The texts of a forest that stand in a heading, a table or a leaf. *)
Readings(forest) ==
  InOrder(forest, {j \in DOMAIN forest :
     IsText(forest[j]) /\ \E k \in Way(forest, 1, j) : Semantic(forest[k])})

(***************************************************************************)
(* The blocks hold every such text once, in the order of the page: a leaf  *)
(* in a leaf, a row in a row or a code in a paragraph tells no text twice, *)
(* and none gets lost between the outer element and the inner one.         *)
(***************************************************************************)
TextIsToldOnce ==
  LET forest == Forest(page, profile)
      texts == Readings(forest)
  IN  Texted(doc) = FlattenSeq([n \in DOMAIN texts |-> Spelled(forest[texts[n]].text)])

(* The places of the blocks of a document, that of a row being in its table. *)
Places(blocks) == UNION {{n} \X (0 .. Len(blocks[n].children)) : n \in DOMAIN blocks}

BlockAt(blocks, p) ==
  IF p[2] = 0 THEN blocks[p[1]] ELSE blocks[p[1]].children[p[2]]

(* Nothing is selected twice, on its own and below what else is. *)
RootsApart(dom, prof) ==
  prof.strategy = "selector" =>
    \A i, j \in Matching(dom, prof.root) : j \notin Below(dom, i)

IdsDiffer(dom) ==
  \A i, j \in DOMAIN dom : dom[i].id = dom[j].id /\ dom[i].id # "" => i = j

(* A heading that its section can be known by: it has a text, without the
   sign that joins the texts of a path, and no other has the same. *)
Tells(text) == text # <<>> /\ \A k \in DOMAIN text : text[k][1] # Joint[1]

HeadingsTell(blocks) ==
  \A p \in Places(blocks) : BlockAt(blocks, p).ty = "Heading" =>
    /\ Tells(BlockAt(blocks, p).text)
    /\ \A q \in Places(blocks) :
         /\ BlockAt(blocks, q).ty = "Heading"
         /\ BlockAt(blocks, q).text = BlockAt(blocks, p).text
         => p = q

(***************************************************************************)
(* Slot keys are the join key of the diff, the dedup and the events.  On a *)
(* page whose ids differ, whose headings tell sections apart, and of which *)
(* no part is extracted twice, no two blocks have the same one, table rows *)
(* included.                                                               *)
(***************************************************************************)
KeysDiffer ==
  RootsApart(page, profile) /\ IdsDiffer(page) /\ HeadingsTell(doc) =>
    \A p, q \in Places(doc) : BlockAt(doc, p).slot = BlockAt(doc, q).slot => p = q

HeadingsOf(blocks) == SelectSeq(blocks, LAMBDA b : b.ty = "Heading")

----------------------------------------------------------------------------
(* Where a node of the page before the edit is after it; 0 if it is gone. *)
Moved(i) ==
  CASE i < splice'.at                 -> i
    [] i >= splice'.at + splice'.cut  -> i - splice'.cut + splice'.put
    [] OTHER                          -> IF splice'.cut = 1 /\ splice'.put = 1 THEN i ELSE 0

OneNode == splice'.cut = 1 /\ splice'.put = 1
Place == splice'.at

(* What a reader of the page would call the same, whatever the stages do:
   a word but for the times that pass, a URL but for what tracks or busts a
   cache, an id but for those made up. *)
SameWords(a, b) ==
  /\ Len(a) = Len(b)
  /\ \A k \in DOMAIN a : a[k] = b[k] \/ {a[k], b[k]} \subseteq Relative \cup {Sentinel}

Times(p, query) == Cardinality({k \in DOMAIN query : query[k] = p})

SameLink(u, v) ==
  /\ u.host = v.host /\ u.path = v.path
  /\ \A p \in (ToSet(u.query) \cup ToSet(v.query)) \ Tracking : Times(p, u.query) = Times(p, v.query)

SameId(a, b) == a = b \/ {a, b} \subseteq Generated \cup {""}

SameText(dom, i, a, b) ==
  IF InCode(dom, i) THEN a = b ELSE SameWords(a.words, b.words)

SameNode(dom, i, a, b) ==
  /\ SameId(a.id, b.id) /\ SameLink(a.href, b.href) /\ SameText(dom, i, a.text, b.text)
  /\ [a EXCEPT !.id = "", !.href = NoUrl, !.text = 0] = [b EXCEPT !.id = "", !.href = NoUrl, !.text = 0]

NeverShown(n) == n.tag \in HardStripTags \cup {"comment"} \/ n.class \in Boilerplate

Hidden(dom, at, n) ==
  \A j \in at .. at + n - 1 : \E k \in Way(dom, 1, j) : NeverShown(dom[k])

Volatile ==
  \/ Hidden(page, Place, splice'.cut) /\ Hidden(page', Place, splice'.put)
  \/ OneNode /\ SameNode(page, Place, page[Place], page'[Place])

(***************************************************************************)
(* Two visits between which only the volatile changed give the same        *)
(* doc_hash, and the check ends without a diff.  (Readability is another   *)
(* matter: it weighs texts before they are normalized.)                    *)
(***************************************************************************)
VolatileIsUnseen ==
  [][profile.strategy # "readability" /\ Volatile => DocHash(doc') = DocHash(doc)]_vars

(***************************************************************************)
(* The doc_hash that lets a check end early never hides a change of what   *)
(* blocks hold: of a word in any of them, of a strike or an insertion in   *)
(* one, of a heading's level, of where a link block leads.                 *)
(***************************************************************************)
Told(dom, i) ==
  LET forest == Forest(dom, profile) IN
  \E j \in DOMAIN forest :
     forest[j].at = i /\ \E k \in Way(forest, 1, j) : Semantic(forest[k])

IsBlock(blocks, i, ty) == \E n \in DOMAIN blocks : blocks[n].at = i /\ blocks[n].ty = ty

Both(ty) == IsBlock(doc, Place, ty) /\ IsBlock(doc', Place, ty)

Restyling(a, b) == {a, b} \cap {"del", "ins"} # {} /\ {a, b} \cap {"span"} # {}

Visible ==
  LET old == page[Place]
      new == page'[Place]
  IN  /\ OneNode /\ Told(page, Place) /\ Told(page', Place)
      /\ \/ IsText(old) /\ ~SameText(page, Place, old.text, new.text)
         \/ Restyling(old.tag, new.tag) /\ SubtreeText(page, Place) # <<>>
         \/ Both("Heading") /\ old.tag # new.tag
         \/ Both("Link") /\ ~SameLink(old.href, new.href)

ContentIsSeen ==
  [][profile.strategy # "readability" /\ Visible => DocHash(doc') # DocHash(doc)]_vars

----------------------------------------------------------------------------
(***************************************************************************)
(* An edit moves no slot key beyond its section: an edit of no heading     *)
(* leaves the keys before it and from the next heading on, an edit of      *)
(* headings those before it and past the next heading of their level.      *)
(* (That heading is itself keyed in the section before it.)                *)
(***************************************************************************)
Touched(blocks, dom, n) ==
  {b \in ToSet(HeadingsOf(blocks)) :
     b.at \in Place .. Place + n - 1 \/ Place \in Below(dom, b.at)}

LevelsTouched ==
  {b.level : b \in Touched(doc, page, splice'.cut) \cup Touched(doc', page', splice'.put)}

(* The places from which the keys are as before. *)
Beyond ==
  LET later == {b \in ToSet(HeadingsOf(doc)) : b.at >= Place + splice'.cut}
      closing == {b.at : b \in {h \in later : \A l \in LevelsTouched : h.level <= l}}
      end == CHOOSE i \in closing : \A j \in closing : i <= j
  IN  IF closing = {} THEN {}
      ELSE (IF LevelsTouched = {} THEN {end} ELSE {}) \cup end + 1 .. Len(page)

EditsStayInTheirSection ==
  [][profile.strategy # "readability" =>
       LET beyond == Beyond
           kept == {<<c.at, c.slot>> : c \in ToSet(WithRows(doc'))}
       IN  \A b \in ToSet(WithRows(doc)) :
             \/ b.at < Place /\ Place \notin Below(page, b.at)
             \/ b.at \in beyond
             => <<Moved(b.at), b.slot>> \in kept]_vars

(***************************************************************************)
(* Nothing of what is stripped regardless of the strategy reaches a block. *)
(***************************************************************************)
StrippedStaysOut ==
  \A b \in ToSet(WithRows(doc)) :
    \A k \in Way(page, 1, b.at) : ~NeverShown(page[k])
=============================================================================
