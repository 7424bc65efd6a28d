----------------------------- MODULE MCReaders ------------------------------
(***************************************************************************)
(* A ring of two versions of a page with a price and a blurb, and feeds of *)
(* one target and of two, with pages of none to three rows.  The clock was *)
(* set back before the last version of "t".                                *)
(***************************************************************************)
EXTENDS Readers, TLC

CONSTANTS price, blurb, low, high, words, other, plain

MCSlotMat == (price :> Critical) @@ (blurb :> Low)

Text(n) == [norm |-> n, detail |-> plain]
Page(p, b) == (price :> Text(p)) @@ (blurb :> Text(b))

MCPages == {Page(low, words), Page(high, other)}

Feed(targets, since, min, limit, sorted) ==
  [cmd |-> "feed", targets |-> targets, since |-> since, min |-> min,
   limit |-> limit, sorted |-> sorted]

MCFetchedAt == ("t" :> (0 :> 3 @@ 1 :> 4 @@ 2 :> 2 @@ 3 :> 5)) @@ ("u" :> [r \in 0..3 |-> r])

Rev(r) == [by |-> "rev", at |-> r]
Time(at) == [by |-> "time", at |-> at]

MCFeeds ==
  {Feed(<<"t">>, NoSince, None, 1, FALSE), Feed(<<"t">>, Rev(1), None, 2, FALSE),
   Feed(<<"t">>, Time(3), None, 1, FALSE), Feed(<<"t", "u">>, Time(1), High, 1, FALSE),
   Feed(<<"t", "u">>, NoSince, None, 3, TRUE), Feed(<<"t">>, NoSince, None, 0, FALSE)}
=============================================================================
