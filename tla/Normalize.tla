----------------------------- MODULE Normalize ------------------------------
(***************************************************************************)
(* From the extracted forest to the one in which the volatile is gone:     *)
(* generated ids, relative times, white space outside code, and the parts  *)
(* of a URL that vary from fetch to fetch.                                 *)
(***************************************************************************)
EXTENDS Extract

CONSTANTS
  Relative,      \* words that stand for "3 minutes ago" and its like
  Sentinel,      \* TS_SENTINEL, the word they become
  Generated,     \* ids that frameworks make up or that look like tokens
  Tracking       \* query parameters that track, or bust a cache

ASSUME RelativeAssumption == Relative \subseteq Words /\ Sentinel \in Words \ Relative

----------------------------------------------------------------------------
(* A URL is a path with a content hash in it or not (0), relative to a host
   or not, the query in the order written, and a fragment.  "" is no URL. *)
NoUrl == [host |-> "", path |-> "", hash |-> 0, query |-> <<>>, fragment |-> ""]

(* is_tracking_param, is_cache_buster_param: names and values tell. *)
Tracks(p) == p \in Tracking

(* sort_and_strip_query: parameters are numbers, in the order of their names. *)
Query_KeepsTracking(query) == SortSeq(query, <)
Query(query) == SortSeq(SelectSeq(query, LAMBDA p : ~Tracks(p)), <)

(* canonicalize_url and canonicalize_unparsed: the same rules, with or
   without a host to resolve against. *)
CanonicalUrl(url, base) ==
  IF url = NoUrl THEN NoUrl
  ELSE [url EXCEPT !.host = IF @ = "" THEN base ELSE @,
                   !.hash = 0, !.query = Query(@), !.fragment = ""]

(* find_base_href: the first <base> with an href, in document order. *)
BaseOf(forest) ==
  LET bases == {i \in DOMAIN forest : forest[i].tag = "base" /\ forest[i].href # NoUrl}
  IN  IF bases = {} THEN ""
      ELSE forest[CHOOSE i \in bases : \A j \in bases : i <= j].href.host

----------------------------------------------------------------------------
CodeTags == {"pre", "code"}

InCode(forest, i) ==
  \E k \in 1 .. i : i \in Below(forest, k) /\ forest[k].tag \in CodeTags

Steady(word) == IF word \in Relative THEN Sentinel ELSE word

(* normalize_text: in code only the composition of characters is settled. *)
NormalText_InCodeToo(text, inCode) ==
  [words |-> [k \in DOMAIN text.words |-> Steady(text.words[k])], spaced |-> FALSE]

NormalText(text, inCode) ==
  IF inCode THEN text
  ELSE [words |-> [k \in DOMAIN text.words |-> Steady(text.words[k])], spaced |-> FALSE]

(* is_high_entropy_value and the patterns of the frameworks' ids. *)
MadeUp(id) == id \in Generated

(* is_volatile_attr, for the attributes a block is made from. *)
StableId(id, profile) ==
  IF MadeUp(id) \/ "id" \in profile.stripAttrs THEN "" ELSE id

NormalNode(forest, i, base, profile) ==
  [forest[i] EXCEPT
     !.id = StableId(@, profile),
     !.class = IF "class" \in profile.stripAttrs THEN "" ELSE @,
     !.href = IF "href" \in profile.stripAttrs THEN NoUrl ELSE CanonicalUrl(@, base),
     !.text = NormalText(@, InCode(forest, i))]

Normalize(forest, profile) ==
  LET base == BaseOf(forest)
  IN  WrittenOut([i \in DOMAIN forest |-> NormalNode(forest, i, base, profile)])
=============================================================================
