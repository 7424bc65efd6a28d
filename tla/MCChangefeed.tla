---------------------------- MODULE MCChangefeed ----------------------------
(***************************************************************************)
(* Instances of Changefeed for TLC.  A pricing page: the price is material *)
(* at any threshold up to Critical, the blurb only at the default one; an  *)
(* ignore rule drops the advertisement; the notice is what a redesigned    *)
(* page has in the place of everything else.                               *)
(***************************************************************************)
EXTENDS Changefeed, TLC

CONSTANTS price, blurb, ad, notice    \* the slots
CONSTANTS low, high, words, other, promo, gone   \* norm hashes
CONSTANTS plain, link                 \* details

MCSlotMat ==
  [s \in Slots |-> CASE s = price  -> Critical
                     [] s = blurb  -> Low
                     [] s = ad     -> Low
                     [] s = notice -> Low]

Text(n) == [norm |-> n, detail |-> plain]

Cheap == (price :> Text(low)) @@ (blurb :> Text(words))
Dear == (price :> Text(high)) @@ (blurb :> Text(words))
Reworded == (price :> Text(low)) @@ (blurb :> Text(other))
WithAd == Cheap @@ (ad :> Text(promo))
NoPrice == (blurb :> Text(words))
Relinked == (price :> Text(low)) @@ (blurb :> [norm |-> words, detail |-> link])
Redesign == (notice :> Text(gone))

(* One change of each kind: a material removal, one below High, one that an
   ignore rule masks, and all of the page. *)
FewPages == {Cheap, NoPrice, Reworded, WithAd, Redesign}

(* The price only goes up and comes back. *)
TwoPages == {Cheap, Dear}

(* The link behind the blurb changes, and its text does not. *)
LinkPages == {Cheap, Dear, Relinked}

Symmetry == Permutations(Procs)
=============================================================================
