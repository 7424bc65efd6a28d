-------------------------------- MODULE Diff --------------------------------
(***************************************************************************)
(* The block diff of cf-core, one action for each turn of each of its      *)
(* loops: over the anchors, over the residuals with equal texts, over the  *)
(* scored pairs, and over what is left; then the clustering of cascades.   *)
(*                                                                         *)
(* The texts of a unit's delta, its noise, magnitude and numeric change    *)
(* are left out.  oi and ni are the indices of its blocks, 0 for none.     *)
(***************************************************************************)
EXTENDS Alignment

CONSTANTS
  Inputs,      \* the pairs of documents diff is called with
  EmptyNorm,   \* NormHash::of("")
  MaxChildren

VARIABLES
  old, new,    \* the masked, flattened documents
  phase,       \* the loop that runs
  todo,        \* the indices it has yet to visit
  scored,      \* the scored pairs not yet visited
  oldDone, newDone,   \* residual blocks already paired
  units,       \* the drafts, in the order they are pushed
  changeset    \* what diff returns

vars == <<old, new, phase, todo, scored, oldDone, newDone, units, changeset>>

Doc == Seq(Block)

ASSUME InputsAssumption == Inputs \subseteq Doc \X Doc
(* The segmenter makes rows of what stands in tables, and of nothing else. *)
ASSUME RowsAssumption ==
  \A p \in Inputs : \A doc \in {p[1], p[2]} : \A i \in DOMAIN doc :
    doc[i].parent # NoKey <=> doc[i].type = TableRow
ASSUME MaxChildrenAssumption == MaxChildren \in Nat

Phases ==
  {"align", "anchors", "same", "similar", "removed", "added", "cluster", "done"}

ChangeTypes == {"added", "removed", "modified", "reordered", "restyled"}

NoCounts == [added |-> 0, removed |-> 0, modified |-> 0]

Unit(ct, o, n, moved) ==
  [key |-> IF n = 0 THEN old[o].key ELSE new[n].key, ct |-> ct,
   from |-> IF o = 0 THEN EmptyNorm ELSE old[o].norm,
   to |-> IF n = 0 THEN EmptyNorm ELSE new[n].norm,
   oi |-> o, ni |-> n, moved |-> moved, counts |-> NoCounts]

----------------------------------------------------------------------------
(* The first element of a set, in the order the loops visit it. *)
First(i, S) == i \in S /\ \A j \in S : i <= j

Visit(i) == First(i, todo) /\ todo' = todo \ {i}

Init ==
  \E p \in Inputs :
    /\ old = Masked(p[1])
    /\ new = Masked(p[2])
    /\ phase = IF DocHash(p[1]) = DocHash(p[2]) THEN "done" ELSE "align"
    /\ todo = {} /\ scored = {} /\ oldDone = {} /\ newDone = {}
    /\ units = <<>>
    /\ changeset = <<>>

Align ==
  /\ phase = "align"
  /\ phase' = "anchors"
  /\ todo' = AnchoredOld(old, new)
  /\ UNCHANGED <<old, new, scored, oldDone, newDone, units, changeset>>

(***************************************************************************)
(* The loop over the anchors of run.                                       *)
(***************************************************************************)
SameContent_TextOnly(a, b) == a.norm = b.norm
SameContent(a, b) == a.norm = b.norm /\ a.val = b.val

AnchorUnit(o, n) ==
  LET a == old[o]
      b == new[n]
      moved == MovedRun(old, new, o)
  IN  CASE ~SameContent(a, b) -> <<Unit("modified", o, n, moved)>>
        [] SameContent(a, b) /\ a.mark # b.mark
                              -> <<Unit("restyled", o, n, FALSE)>>
        [] SameContent(a, b) /\ a.mark = b.mark /\ moved
                              -> <<Unit("reordered", o, n, TRUE)>>
        [] OTHER              -> <<>>

Anchor ==
  /\ phase = "anchors"
  /\ \E p \in Anchors(old, new) :
       /\ Visit(p[1])
       /\ units' = units \o AnchorUnit(p[1], p[2])
  /\ UNCHANGED <<old, new, phase, scored, oldDone, newDone, changeset>>

EndAnchors ==
  /\ phase = "anchors" /\ todo = {}
  /\ phase' = "same"
  /\ todo' = OldResidual(old, new)
  /\ UNCHANGED <<old, new, scored, oldDone, newDone, units, changeset>>

----------------------------------------------------------------------------
Pair(o, n, unit) ==
  /\ oldDone' = oldDone \cup {o}
  /\ newDone' = newDone \cup {n}
  /\ units' = Append(units, unit)

(***************************************************************************)
(* 3a: a residual block is paired with the first free new one of its text, *)
(* if that has its type.                                                   *)
(***************************************************************************)
SameText_AmongAnchors(o) ==
  {n \in DOMAIN new \ newDone : new[n].norm = old[o].norm}
SameText(o) ==
  {n \in NewResidual(old, new) \ newDone : new[n].norm = old[o].norm}

Move ==
  /\ phase = "same"
  /\ \E o \in todo : \E n \in SameText(o) :
       /\ Visit(o)
       /\ First(n, SameText(o))
       /\ new[n].type = old[o].type
       /\ Pair(o, n, Unit("reordered", o, n, TRUE))
  /\ UNCHANGED <<old, new, phase, scored, changeset>>

KeepResidual ==
  /\ phase = "same"
  /\ \E o \in todo :
       /\ Visit(o)
       /\ \A n \in SameText(o) :
            First(n, SameText(o)) => new[n].type # old[o].type
  /\ UNCHANGED <<old, new, phase, scored, oldDone, newDone, units, changeset>>

EndSame ==
  /\ phase = "same" /\ todo = {}
  /\ phase' = "similar"
  /\ scored' = Scored(old, new, OldResidual(old, new) \ oldDone,
                      NewResidual(old, new) \ newDone)
  /\ UNCHANGED <<old, new, todo, oldDone, newDone, units, changeset>>

----------------------------------------------------------------------------
(***************************************************************************)
(* 3b: the most similar pair first, ties by the old and the new index.     *)
(***************************************************************************)
SimOf(p) == Sim(old[p[1]], new[p[2]])

Ahead_Ascending(p, q) ==
  /\ SimOf(p) <= SimOf(q)
  /\ SimOf(p) = SimOf(q) => p[1] < q[1] \/ (p[1] = q[1] /\ p[2] < q[2])
Ahead(p, q) ==
  /\ SimOf(p) >= SimOf(q)
  /\ SimOf(p) = SimOf(q) => p[1] < q[1] \/ (p[1] = q[1] /\ p[2] < q[2])

Taken_OldSideOnly(p) == p[1] \in oldDone
Taken(p) == p[1] \in oldDone \/ p[2] \in newDone

PairSimilar ==
  /\ phase = "similar"
  /\ \E p \in scored :
       /\ \A q \in scored \ {p} : Ahead(p, q)
       /\ ~Taken(p)
       /\ scored' = scored \ {p}
       /\ Pair(p[1], p[2], Unit("modified", p[1], p[2],
                                Affinity(old[p[1]], new[p[2]]) < 50))
  /\ UNCHANGED <<old, new, phase, todo, changeset>>

SkipPair ==
  /\ phase = "similar"
  /\ \E p \in scored :
       /\ \A q \in scored \ {p} : Ahead(p, q)
       /\ Taken(p)
       /\ scored' = scored \ {p}
  /\ UNCHANGED <<old, new, phase, todo, oldDone, newDone, units, changeset>>

EndSimilar ==
  /\ phase = "similar" /\ scored = {}
  /\ phase' = "removed"
  /\ todo' = OldResidual(old, new) \ oldDone
  /\ UNCHANGED <<old, new, scored, oldDone, newDone, units, changeset>>

(***************************************************************************)
(* 3c: what is left was removed or added.                                  *)
(***************************************************************************)
TellRemoved ==
  /\ phase = "removed"
  /\ \E o \in todo :
       Visit(o) /\ units' = Append(units, Unit("removed", o, 0, FALSE))
  /\ UNCHANGED <<old, new, phase, scored, oldDone, newDone, changeset>>

EndRemoved ==
  /\ phase = "removed" /\ todo = {}
  /\ phase' = "added"
  /\ todo' = NewResidual(old, new) \ newDone
  /\ UNCHANGED <<old, new, scored, oldDone, newDone, units, changeset>>

TellAdded ==
  /\ phase = "added"
  /\ \E n \in todo :
       Visit(n) /\ units' = Append(units, Unit("added", 0, n, FALSE))
  /\ UNCHANGED <<old, new, phase, scored, oldDone, newDone, changeset>>

EndAdded ==
  /\ phase = "added" /\ todo = {}
  /\ phase' = "cluster"
  /\ UNCHANGED <<old, new, todo, scored, oldDone, newDone, units, changeset>>

----------------------------------------------------------------------------
(* The order of units: by slot key, then change type, then as pushed. *)
Rank == [ct \in ChangeTypes |->
           CASE ct = "added" -> 0 [] ct = "removed" -> 1 [] ct = "modified" -> 2
             [] ct = "reordered" -> 3 [] ct = "restyled" -> 4]

Sooner(us, i, j) ==
  \/ us[i].key < us[j].key
  \/ us[i].key = us[j].key /\ Rank[us[i].ct] < Rank[us[j].ct]
  \/ us[i].key = us[j].key /\ us[i].ct = us[j].ct /\ i < j

InOrder(us) ==
  [n \in DOMAIN us |->
     us[CHOOSE i \in DOMAIN us :
          Cardinality({j \in DOMAIN us : Sooner(us, j, i)}) = n - 1]]

(* index_tree: the container of a slot key; a later block overrides. *)
Container(doc, key) ==
  LET held == {i \in DOMAIN doc : doc[i].key = key /\ doc[i].parent # NoKey}
  IN  IF held = {} THEN NoKey
      ELSE doc[CHOOSE i \in held : \A j \in held : j <= i].parent

ContainerNorm(doc, key) ==
  LET held == {i \in DOMAIN doc : /\ doc[i].key = key
                                  /\ i < Len(doc) /\ doc[i + 1].parent = key}
  IN  IF held = {} THEN EmptyNorm
      ELSE doc[CHOOSE i \in held : \A j \in held : j <= i].norm

ContainerOf_InNewOnly(u) == Container(new, u.key)
ContainerOf(u) ==
  IF u.ct # "removed" /\ Container(new, u.key) # NoKey
  THEN Container(new, u.key) ELSE Container(old, u.key)

(***************************************************************************)
(* cluster_cascades: the units of a container's children, when there are   *)
(* more than MaxChildren, and the first unit of the container itself, give *)
(* way to one unit that counts them.                                       *)
(***************************************************************************)
Members(us, c) == {i \in DOMAIN us : ContainerOf(us[i]) = c}

Cascades(us) == {c \in Keys : Cardinality(Members(us, c)) > MaxChildren}

Own_Stays(us, c) == {}
Own(us, c) == {i \in DOMAIN us : First(i, {j \in DOMAIN us : us[j].key = c})}

Struct(us, c) ==
  LET Count(cts) == Cardinality({i \in Members(us, c) : us[i].ct \in cts})
      counts == [added |-> Count({"added"}), removed |-> Count({"removed"}),
                 modified |-> Count({"modified", "reordered", "restyled"})]
      only(f) == \A g \in DOMAIN counts : counts[g] > 0 <=> g = f
  IN  [key |-> c, ct |-> IF only("removed") THEN "removed"
                         ELSE IF only("added") THEN "added" ELSE "modified",
       from |-> ContainerNorm(old, c), to |-> ContainerNorm(new, c),
       oi |-> 0, ni |-> 0, moved |-> FALSE, counts |-> counts]

Sorted(S) ==
  [n \in 1..Cardinality(S) |->
     CHOOSE x \in S : Cardinality({y \in S : y < x}) = n - 1]

Clustered(us) ==
  LET dropped == UNION {Members(us, c) \cup Own(us, c) : c \in Cascades(us)}
      kept == Sorted(DOMAIN us \ dropped)
      full == Sorted(Cascades(us))
  IN  InOrder([n \in DOMAIN kept |-> us[kept[n]]]
                \o [n \in DOMAIN full |-> Struct(us, full[n])])

ClusterCascades ==
  /\ phase = "cluster"
  /\ phase' = "done"
  /\ changeset' = Clustered(InOrder(units))
  /\ UNCHANGED <<old, new, todo, scored, oldDone, newDone, units>>
----------------------------------------------------------------------------
Next ==
  \/ Align \/ Anchor \/ EndAnchors
  \/ Move \/ KeepResidual \/ EndSame
  \/ PairSimilar \/ SkipPair \/ EndSimilar
  \/ TellRemoved \/ EndRemoved \/ TellAdded \/ EndAdded
  \/ ClusterCascades

Spec == Init /\ [][Next]_vars

----------------------------------------------------------------------------
UnitType ==
  [key : Keys, ct : ChangeTypes, from : Norms \cup {EmptyNorm},
   to : Norms \cup {EmptyNorm}, oi : Nat, ni : Nat, moved : BOOLEAN,
   counts : [added : Nat, removed : Nat, modified : Nat]]

(* Every variable holds a value of its kind. *)
TypeOK ==
  /\ old \in Doc /\ new \in Doc
  /\ phase \in Phases
  /\ todo \subseteq Nat
  /\ scored \subseteq (DOMAIN old) \X (DOMAIN new)
  /\ oldDone \subseteq OldResidual(old, new)
  /\ newDone \subseteq NewResidual(old, new)
  /\ units \in Seq(UnitType)
  /\ changeset \in Seq(UnitType)

(***************************************************************************)
(* No block is told twice: the phases share the residual, and 3b tries     *)
(* each block against many, yet a block of either document is in at most   *)
(* one unit.                                                               *)
(***************************************************************************)
EachBlockOnce ==
  \A i, j \in DOMAIN units :
    i # j => /\ units[i].oi # 0 => units[i].oi # units[j].oi
             /\ units[i].ni # 0 => units[i].ni # units[j].ni

(***************************************************************************)
(* Silence means sameness: when the loops are over, a block in no unit is  *)
(* anchored to one of the same text, value and presentation.               *)
(***************************************************************************)
Unchanged(o, n) ==
  /\ <<o, n>> \in Anchors(old, new)
  /\ old[o].norm = new[n].norm
  /\ old[o].val = new[n].val
  /\ old[o].mark = new[n].mark

SilentMeansSame ==
  phase = "cluster" =>
    /\ \A o \in DOMAIN old :
         \/ \E i \in DOMAIN units : units[i].oi = o
         \/ \E n \in DOMAIN new : Unchanged(o, n)
    /\ \A n \in DOMAIN new :
         \/ \E i \in DOMAIN units : units[i].ni = n
         \/ \E o \in DOMAIN old : Unchanged(o, n)

(***************************************************************************)
(* The spine the patience sort leaves is an increasing set of anchors, and *)
(* a longest one.                                                          *)
(***************************************************************************)
Increasing(S) ==
  \A a, b \in S : a < b => Position(old, new, a) < Position(old, new, b)

SpineIsLongest ==
  phase = "same" =>
    LET spine == Spine(old, new) IN
    /\ spine \subseteq AnchoredOld(old, new)
    /\ Increasing(spine)
    /\ \A S \in SUBSET AnchoredOld(old, new) :
         Increasing(S) => Cardinality(S) <= Cardinality(spine)

(***************************************************************************)
(* The greedy matching is stable: of two near residual blocks of one type  *)
(* that are similar enough, one is in a unit with the other, or with a     *)
(* block of its text, or with one at least as similar.  In particular they *)
(* are not told as a removal and an addition.                              *)
(***************************************************************************)
Candidate(o, n) ==
  /\ old[o].type = new[n].type
  /\ Near(o, n)
  /\ Sim(old[o], new[n]) >= Tau(old[o].type)

Settled(o, n) ==
  \E i \in DOMAIN units :
    LET u == units[i] IN
    /\ u.oi # 0 /\ u.ni # 0
    /\ \/ u.oi = o /\ u.ni = n
       \/ /\ u.oi = o \/ u.ni = n
          /\ u.ct = "reordered" \/ SimOf(<<u.oi, u.ni>>) >= SimOf(<<o, n>>)

NoBlockingPair ==
  phase = "cluster" =>
    \A o \in OldResidual(old, new), n \in NewResidual(old, new) :
      Candidate(o, n) => Settled(o, n)

(***************************************************************************)
(* Where no slot key repeats, a changeset has at most one unit for a slot: *)
(* no event of a check can then be suppressed as the twin of another.      *)
(***************************************************************************)
Distinct(doc) == \A i \in DOMAIN doc : Once(doc, i)

OneUnitPerSlot ==
  Distinct(old) /\ Distinct(new) =>
    \A i, j \in DOMAIN changeset :
      changeset[i].key = changeset[j].key => i = j

(***************************************************************************)
(* The counts of a clustered table balance: where the documents have one   *)
(* table, and it is the same, the rows added less the rows removed are the *)
(* rows it grew by.  A slot key that an id gives may pass from a row to a  *)
(* block outside the table; it then counts as a row modified.              *)
(***************************************************************************)
Children(doc, c) == {i \in DOMAIN doc : doc[i].parent = c}

OnlyContainer(doc, c) ==
  /\ \A i \in DOMAIN doc : doc[i].parent \in {NoKey, c}
  /\ \E i \in DOMAIN doc : doc[i].key = c

KeepsItsRows(c) ==
  \A o \in DOMAIN old, n \in DOMAIN new :
    old[o].key = new[n].key => (old[o].parent = c <=> new[n].parent = c)

Balanced(us) ==
  \A i \in DOMAIN us :
    LET u == us[i]
        c == u.key
    IN  /\ u.counts # NoCounts
        /\ Distinct(old) /\ Distinct(new)
        /\ OnlyContainer(old, c) /\ OnlyContainer(new, c) /\ KeepsItsRows(c)
        => u.counts.added - u.counts.removed
             = Cardinality(Children(new, c)) - Cardinality(Children(old, c))

StructCountsBalance == Balanced(changeset)
=============================================================================
