----------------------------- MODULE RenderHint -----------------------------
(***************************************************************************)
(* needs_render: does a body look like the shell of a page that scripts    *)
(* fill in?  A body is a sequence of tokens, each a record with its kind,  *)
(* the name of its element if it is a tag, and its size in bytes, which    *)
(* for text is the number of its characters, none of them white space.     *)
(***************************************************************************)
EXTENDS Integers, SequencesExt

CONSTANTS
  MinText,       \* RENDER_MIN_TEXT_CHARS
  TextShare      \* 1 / RENDER_TEXT_RATIO

Hidden == {"script", "style"}

(* skip_element: after an opening tag of a hidden element, nothing shows up
   to the closing tag of the same name, or to the end. *)
Skip(inside, tok) ==
  IF inside # "" THEN IF tok.kind = "close" /\ tok.name = inside THEN "" ELSE inside
  ELSE IF tok.kind = "open" /\ tok.name \in Hidden THEN tok.name ELSE ""

Shown(html) ==
  LET inside[i \in 0..Len(html)] == IF i = 0 THEN "" ELSE Skip(inside[i - 1], html[i])
  IN  {i \in DOMAIN html : inside[i - 1] = "" /\ html[i].kind \in {"text", "space"}}

(* A run of white space counts for one character, and none at the start. *)
VisibleTextLen(html) ==
  LET shown == Shown(html)
      count(acc, i) ==
        IF i \notin shown THEN acc
        ELSE IF html[i].kind = "text" THEN [n |-> acc.n + html[i].size, ws |-> FALSE]
        ELSE [n |-> acc.n + IF acc.ws THEN 0 ELSE 1, ws |-> TRUE]
  IN  FoldLeftDomain(count, [n |-> 0, ws |-> TRUE], html).n

Bytes(html) == FoldLeft(LAMBDA n, tok : n + tok.size, 0, html)

(* The first opening tag of each kind of hydration root, and what stands
   between it and the next closing tag of its element, a nested one's too. *)
EmptyHydrationRoot(html) ==
  \E i \in DOMAIN html :
    /\ html[i].kind = "root"
    /\ \A j \in 1..(i - 1) : html[j] # html[i]
    /\ \E k \in (i + 1)..Len(html) :
         /\ html[k].kind = "close" /\ html[k].name = html[i].name
         /\ \A j \in (i + 1)..(k - 1) : html[j].kind = "space"

NeedsRender(html) ==
  /\ Bytes(html) # 0
  /\ \/ /\ VisibleTextLen(html) * TextShare < Bytes(html)
        /\ VisibleTextLen(html) < MinText
     \/ EmptyHydrationRoot(html)
=============================================================================
