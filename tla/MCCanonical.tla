---------------------------- MODULE MCCanonical -----------------------------
(***************************************************************************)
(* Pages of a dozen nodes under each strategy, and all that one or two     *)
(* edits make of them.                                                     *)
(***************************************************************************)
EXTENDS Canonical, TLC

MCWords == {"usd", "five", "six", "june", "alpha", "beta", "gamma", "delta", "ago", "soon", "~TS~"}

MCKind ==
  [w \in MCWords |-> CASE w = "usd"             -> "currency"
                       [] w \in {"five", "six"} -> "amount"
                       [] w = "june"            -> "date"
                       [] OTHER                 -> "word"]

MCChars == [w \in MCWords |-> IF w \in {"usd", "five", "six"} THEN 1 ELSE 30]

Said(words) == [words |-> words, spaced |-> FALSE]
Spaced(words) == [words |-> words, spaced |-> TRUE]
Silence == Said(<<>>)

Url(path, query) == [NoUrl EXCEPT !.path = path, !.query = query]
MCUrls ==
  {Url("plans", <<1>>), Url("plans", <<1, 3>>), Url("plans", <<2, 1>>),
   [Url("plans", <<1>>) EXCEPT !.hash = 7], Url("docs", <<>>)}

Element(depth, tag) ==
  [depth |-> depth, tag |-> tag, class |-> "", id |-> "", href |-> NoUrl,
   text |-> Silence, at |-> 0]

Classed(class, node) == [node EXCEPT !.class = class]
Anchored(id, node) == [node EXCEPT !.id = id]
Link(depth, url) == [Element(depth, "a") EXCEPT !.href = url]
Text(depth, text) == [Element(depth, "text") EXCEPT !.text = text]

(* An element that holds one text. *)
Of(node, words) == <<node, Text(node.depth + 1, Said(words))>>
Simple(depth, tag, words) == Of(Element(depth, tag), words)

Body == <<Element(0, "body")>>

Article ==
  Body \o Simple(1, "h1", <<"alpha">>)
       \o Simple(1, "h2", <<"beta">>) \o Simple(1, "p", <<"gamma", "ago">>)
       \o Of(Link(1, Url("plans", <<1>>)), <<"delta">>)
       \o Simple(1, "h2", <<"gamma">>) \o <<Element(1, "comment")>>
       \o Simple(1, "p", <<"beta">>)

Tables ==
  Body \o <<Element(1, "article"), Element(2, "table"), Element(3, "tr")>>
       \o Simple(4, "td", <<"alpha">>) \o Simple(4, "td", <<"usd", "six">>)
       \o <<Element(3, "tr")>> \o Simple(4, "td", <<"june">>)
       \o Simple(2, "h2", <<"beta">>)
       \o <<Element(2, "code")>> \o <<Text(3, Spaced(<<"gamma", "ago">>))>>

Nested ==
  Body \o <<Classed("cookie-banner", Element(1, "div")), Element(2, "section")>>
       \o Simple(3, "p", <<"alpha", "beta", "gamma">>)
       \o <<Element(1, "div"), Anchored("plan", Element(2, "li")), Text(3, Said(<<"beta">>)),
            Element(3, "span")>>
       \o <<Text(4, Said(<<"gamma">>)), Anchored("radix-1", Element(2, "p")), Element(3, "code"),
            Text(4, Spaced(<<"delta">>))>>

Profile(strategy, root) ==
  [strategy |-> strategy, root |-> root, stripAttrs |-> {},
   typeOfId |-> [id \in {"plan"} |-> "Text"], typeOfClass |-> [class \in {} |-> ""]]

MCSites ==
  [page : {Article, Nested}, profile : {Profile("full", "")}]
    \cup [page : {Tables}, profile : {Profile("selector", "article"), Profile("selector", "")}]
    \cup [page : {Nested}, profile : {Profile("readability", "")}]

MCSnippets ==
  {Simple(0, "h2", <<"delta">>), Simple(0, "p", <<"usd", "six">>),
   Simple(0, "tr", <<"alpha">>), Simple(0, "script", <<"soon">>),
   Of(Classed("cookie-banner", Element(0, "p")), <<"soon">>)}

MCTexts ==
  {Said(<<"usd", "six">>), Spaced(<<"gamma", "soon">>), Silence}

MCIds == {"", "plan", "radix-1", "radix-2"}

MCRetagged ==
  {<<"h1", "h2">>, <<"h2", "h1">>, <<"h2", "h3">>, <<"p", "h2">>, <<"p", "li">>,
   <<"span", "del">>, <<"code", "span">>}
=============================================================================
