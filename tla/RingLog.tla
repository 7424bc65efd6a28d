------------------------------- MODULE RingLog -------------------------------
(***************************************************************************)
(* What the versions table promises to `cf diff', `cf feed', `cf explain'  *)
(* and `cf show': per target, a log of documents numbered from 0, of which *)
(* a window with the youngest RingN entries can be read.                   *)
(***************************************************************************)
EXTENDS Integers

CONSTANTS Targets, Pages, RingN

VARIABLES
  window,      \* window[t]: the retained entries, by revision
  next         \* next[t]: the revision of the entry to be appended

Window(n) == {r \in 0..(n - 1) : n <= r + RingN}

Init ==
  /\ window = [t \in Targets |-> [r \in Window(0) |-> 0]]
  /\ next = [t \in Targets |-> 0]

(* A new entry; the oldest one goes when the window is full. *)
Append(t, doc) ==
  /\ next' = [next EXCEPT ![t] = @ + 1]
  /\ window' = [window EXCEPT ![t] =
       [r \in Window(next[t] + 1) |-> IF r = next[t] THEN doc ELSE @[r]]]

(* A retained entry is replaced: what overlapping writers do to the log. *)
Amend(t, r, doc) ==
  /\ r \in Window(next[t])
  /\ window' = [window EXCEPT ![t][r] = doc]
  /\ UNCHANGED next

AppendAny == \E t \in Targets, doc \in Pages : Append(t, doc)
AmendAny == \E t \in Targets, doc \in Pages : \E r \in Window(next[t]) : Amend(t, r, doc)

Spec == Init /\ [][AppendAny \/ AmendAny]_<<window, next>>

AppendOnlySpec == Init /\ [][AppendAny]_<<window, next>>
==============================================================================
