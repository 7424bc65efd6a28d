-------------------------- MODULE DiffObservation --------------------------
(***************************************************************************)
(* The diff against what the model of cf check takes it to be.  Module     *)
(* Observation finds the changed slots of two documents by looking under   *)
(* each slot key; Diff runs the loops of the code.  Slots and Pages only   *)
(* type the documents of Observation, and play no part here.               *)
(***************************************************************************)
EXTENDS Diff

Obs ==
  INSTANCE Observation WITH
    Slots <- {}, Pages <- {}, Details <- Vals \X Marks, Ignored <- {},
    Absent <- [norm |-> EmptyNorm], NoDoc <- EmptyNorm,
    SlotMat <- <<>>, WholePage <- NoKey

(* A document as a function from its slot keys. *)
AsSlots(doc) ==
  [k \in {doc[i].key : i \in DOMAIN doc} |->
     LET b == doc[CHOOSE i \in DOMAIN doc : doc[i].key = k] IN
     [norm |-> b.norm, detail |-> <<b.val, b.mark>>]]

(* The pages module Changefeed assumes. *)
PlainPages ==
  LET os == OldResidual(old, new)
      ns == NewResidual(old, new)
  IN  /\ Distinct(old) /\ Distinct(new)
      /\ Increasing(AnchoredOld(old, new))
      /\ \A o \in os, n \in ns : old[o].norm # new[n].norm
      /\ Scored(old, new, os, ns) = {}

(***************************************************************************)
(* On pages whose slot keys are distinct and in one order, whose removed   *)
(* and added blocks are neither twins nor similar, and where no container  *)
(* is clustered, the slots of the units diff returns are those whose       *)
(* blocks differ.                                                          *)
(***************************************************************************)
AgreesWithObservation ==
  phase = "done" /\ PlainPages /\ Cascades(units) = {} =>
    {changeset[i].key : i \in DOMAIN changeset}
      = Obs!ChangedSlots(AsSlots(old), AsSlots(new))
=============================================================================
