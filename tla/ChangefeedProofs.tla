-------------------------- MODULE ChangefeedProofs --------------------------
(***************************************************************************)
(* Theorems about Changefeed, for every set of processes, targets, pages   *)
(* and thresholds, every ring size and every size of the seen-set.         *)
(***************************************************************************)
EXTENDS Changefeed, StoreLemmas, SequenceTheorems

----------------------------------------------------------------------------
(* The statements of SqliteStore on a ring that is a window below n.       *)

(* SELECT MAX(rev) finds the youngest revision. *)
LEMMA HeadOfWindow ==
  ASSUME NEW n \in Nat, NEW rows, DOMAIN rows = Log!Window(n)
  PROVE  HeadRev(rows) = n - 1
<1>1. Log!Window(n) = Youngest(n)
  BY DEF Log!Window, Youngest
<1> QED  BY <1>1, HeadOfYoungest

(* A put of the next revision slides the window. *)
LEMMA PutNext ==
  ASSUME NEW n \in Nat, NEW rows, DOMAIN rows = Log!Window(n), NEW doc
  PROVE  PutRows(rows, n, doc) =
           [r \in Log!Window(n + 1) |-> IF r = n THEN doc ELSE rows[r]]
<1>1. Log!Window(n) = Youngest(n) /\ Log!Window(n + 1) = Youngest(n + 1)
  BY DEF Log!Window, Youngest
<1> QED  BY <1>1, PutSlides

(* A put of a retained revision replaces its document and nothing else. *)
LEMMA PutRetained ==
  ASSUME NEW n \in Nat, NEW rows, DOMAIN rows = Log!Window(n),
         NEW r \in Log!Window(n), NEW doc
  PROVE  PutRows(rows, r, doc) =
           [q \in Log!Window(n) |-> IF q = r THEN doc ELSE rows[q]]
<1> DEFINE up == Upsert(rows, r, doc)
<1>1. DOMAIN up = Log!Window(n) /\ \A q \in DOMAIN up :
        up[q] = IF q = r THEN doc ELSE rows[q]
  BY DEF Upsert
<1>2. \A q \in DOMAIN up :
        q \in 0..(n - 1) /\ {x \in DOMAIN up : x > q} = (q + 1)..(n - 1)
  BY <1>1, RingNAssumption DEF Log!Window
<1>3. \A q \in DOMAIN up : Cardinality(Newer(up, q)) = n - 1 - q
  BY <1>2, NewerInRun
<1>4. {q \in DOMAIN up : Cardinality(Newer(up, q)) < RingN} = Log!Window(n)
  BY <1>1, <1>2, <1>3, RingNAssumption DEF Log!Window
<1> QED  BY <1>1, <1>4 DEF PutRows, EvictBeyondRing, Restrict

(* A put below the window is evicted by the transaction that made it. *)
LEMMA PutTooLate ==
  ASSUME NEW n \in Nat, NEW rows, DOMAIN rows = Log!Window(n),
         rows = [q \in DOMAIN rows |-> rows[q]],
         NEW r \in Nat, r < n, r \notin Log!Window(n), NEW doc
  PROVE  PutRows(rows, r, doc) = rows
<1> DEFINE up == Upsert(rows, r, doc)
<1>1. DOMAIN up = Log!Window(n) \cup {r} /\ \A q \in DOMAIN up :
        up[q] = IF q = r THEN doc ELSE rows[q]
  BY DEF Upsert
<1>2. n > r + RingN /\ \A q \in Log!Window(n) : q > r
  BY RingNAssumption DEF Log!Window
<1>3. \A q \in Log!Window(n) :
        q \in 0..(n - 1) /\ {x \in DOMAIN up : x > q} = (q + 1)..(n - 1)
  BY <1>1, <1>2, RingNAssumption DEF Log!Window
<1>4. \A q \in Log!Window(n) : Cardinality(Newer(up, q)) = n - 1 - q
  BY <1>3, NewerInRun
<1>5. Cardinality(Newer(up, r)) = RingN
  <2>1. Newer(up, r) = (n - RingN)..(n - 1)
    BY <1>1, <1>2, RingNAssumption DEF Newer, Log!Window
  <2>2. n - RingN \in Int /\ n - 1 \in Int
    BY RingNAssumption
  <2>3. Cardinality((n - RingN)..(n - 1)) =
          IF n - RingN > n - 1 THEN 0 ELSE n - 1 - (n - RingN) + 1
    BY <2>2, FS_Interval
  <2> QED  BY <2>1, <2>3, RingNAssumption
<1>6. {q \in DOMAIN up : Cardinality(Newer(up, q)) < RingN} = Log!Window(n)
  BY <1>1, <1>2, <1>3, <1>4, <1>5, RingNAssumption DEF Log!Window
<1> QED  BY <1>1, <1>2, <1>6 DEF PutRows, EvictBeyondRing, Restrict

----------------------------------------------------------------------------
(* What the pure pipeline and the seen-set hand on.                        *)

(* A page is a document, and so a function on the slots it has. *)
LEMMA PagesAreDocs ==
  ASSUME NEW doc \in Pages
  PROVE  /\ doc # NoDoc
         /\ DOMAIN doc \subseteq Slots
         /\ \A s \in Slots : BlockAt(doc, s) \in Block \cup {Absent}
BY PagesAssumption, AbsentAssumption DEF Doc, BlockAt

(* What observe_body derives from two pages are events of their slots. *)
LEMMA ObservedEvents ==
  ASSUME NEW prior \in Pages \cup {NoDoc}, NEW new \in Pages,
         NEW m \in Materiality
  PROVE  Observe(prior, new, m).events \subseteq Event
<1>1. CASE prior = NoDoc
  BY <1>1 DEF Observe, Outcome
<1>2. CASE prior # NoDoc
  <2>1. prior \in Pages
    BY <1>2
  <2>2. ChangedSlots(prior, new) \subseteq Slots
    BY <2>1, PagesAreDocs DEF ChangedSlots, Mask, Restrict
  <2>3. ScoredEvents(prior, new) \subseteq Event
    BY <2>1, <2>2, PagesAreDocs, SlotMatAssumption DEF ScoredEvents, Event
  <2>4. GuardEvent \in Event
    BY DEF GuardEvent, Event, High, Materiality
  <2> QED  BY <1>2, <2>3, <2>4 DEF Observe, Outcome, Material
<1> QED  BY <1>1, <1>2

(* The text of a block, or of none, has a norm hash. *)
LEMMA NormsOfBlocks ==
  ASSUME NEW b \in Block \cup {Absent}
  PROVE  NormOf(b) \in Norms \cup {EmptyNorm}
BY AbsentAssumption DEF NormOf, Block

(* An event of a target makes a transition, and a key if it has one. *)
LEMMA TransitionType ==
  ASSUME NEW t \in Targets, NEW e \in Event
  PROVE  /\ Transition(t, e) \in Transitions
         /\ Keyed(e) => EventKey(t, e) \in EventKeys
BY NormsOfBlocks DEF Transition, Transitions, Event, Keyed, EventKey, KeyOf, EventKeys

(* INSERT OR IGNORE and the eviction bring in no key but the marked one. *)
LEMMA MarkedKeys ==
  ASSUME NEW S, NEW keys \in Seq(S), NEW k \in S
  PROVE  /\ MarkEvent(keys, k) \in Seq(S)
         /\ Range(MarkEvent(keys, k)) \subseteq Range(keys) \cup {k}
<1> DEFINE all == IF SeenEvent(keys, k) THEN keys ELSE Append(keys, k)
<1>1. all \in Seq(S) /\ Range(all) \subseteq Range(keys) \cup {k}
  <2>1. Append(keys, k) \in Seq(S) /\ Len(Append(keys, k)) = Len(keys) + 1
        /\ \A i \in 1..(Len(keys) + 1) :
             Append(keys, k)[i] = IF i <= Len(keys) THEN keys[i] ELSE k
    OBVIOUS
  <2>2. Range(Append(keys, k)) \subseteq Range(keys) \cup {k}
    BY <2>1 DEF Range
  <2> QED  BY <2>1, <2>2
<1> DEFINE from == Len(all) - SeenN + 1
<1>2. CASE Len(all) > SeenN
  <2>1. from \in Int /\ Len(all) \in Int /\ from \in 1..Len(all)
    BY <1>1, <1>2, SeenNAssumption
  <2>2. \A i \in from..Len(all) : all[i] \in S /\ all[i] \in Range(all)
    BY <1>1, <2>1 DEF Range
  <2>3. SubSeq(all, from, Len(all)) \in Seq(S)
    BY <2>1, <2>2, SubSeqProperties
  <2>4. SubSeq(all, from, Len(all)) \in Seq(Range(all))
    BY <2>1, <2>2, SubSeqProperties
  <2>5. KeepLast(all) = SubSeq(all, from, Len(all))
    BY <1>2, <2>1, SeenNAssumption DEF KeepLast
  <2>6. Range(KeepLast(all)) \subseteq Range(all)
    BY <2>4, <2>5, RangeOfSeq
  <2> QED  BY <1>1, <2>3, <2>5, <2>6 DEF MarkEvent
<1>3. CASE Len(all) <= SeenN
  BY <1>1, <1>3 DEF MarkEvent, KeepLast
<1> QED  BY <1>1, <1>2, <1>3, SeenNAssumption

----------------------------------------------------------------------------
(***************************************************************************)
(* The inductive invariant.  RingIsWindow alone is not inductive: a put is *)
(* harmless only because the revision it was planned with, however old, is *)
(* not above next_rev, and that rests on the head a process reads, which   *)
(* is the top of the window.                                               *)
(***************************************************************************)
Inv == TypeOK /\ RingIsWindow /\ PlansOK

(* A process moves on: the plans of the others outlive a growing next_rev. *)
LEMMA ProcMoves ==
  ASSUME proc \in [Procs -> ProcState], PlansOK, nextRev \in [Targets -> Nat],
         nextRev' \in [Targets -> Nat],
         \A t \in Targets : nextRev[t] <= nextRev'[t],
         NEW p \in Procs, NEW q \in ProcState, PlanOK(q, nextRev'), Goto(p, q)
  PROVE  proc' \in [Procs -> ProcState] /\ PlansOK'
<1>1. proc' \in [Procs -> ProcState]
  BY DEF Goto
<1>2. ASSUME NEW r \in Procs  PROVE PlanOK(proc'[r], nextRev')
  <2>1. CASE r = p
    BY <2>1 DEF Goto
  <2>2. CASE r # p
    <3>1. proc'[r] = proc[r] /\ proc[r] \in ProcState
      BY <2>2 DEF Goto
    <3>2. PlanOK(proc[r], nextRev)
      BY DEF PlansOK
    <3>3. /\ proc[r].tid \in Targets /\ proc[r].rev \in Int /\ proc[r].head \in Int
          /\ nextRev[proc[r].tid] <= nextRev'[proc[r].tid]
          /\ nextRev[proc[r].tid] \in Int /\ nextRev'[proc[r].tid] \in Int
      BY <3>1 DEF ProcState, NoRev
    <3> QED  BY <3>1, <3>2, <3>3 DEF PlanOK
  <2> QED  BY <2>1, <2>2
<1> QED  BY <1>1, <1>2 DEF PlansOK

(* A step that leaves the store alone, and moves one process at most. *)
LEMMA QuietStep ==
  ASSUME Inv, NEW p \in Procs, NEW q \in ProcState, PlanOK(q, nextRev), Goto(p, q),
         UNCHANGED <<page, versions, nextRev>>, seen' \in Seq(EventKeys),
         absorbed' \subseteq Transitions, delivered' \subseteq Transitions,
         lost' \subseteq Transitions, spent' \in [edits : Nat, snapshots : Nat, faults : Nat]
  PROVE  Inv'
<1>1. proc' \in [Procs -> ProcState] /\ PlansOK'
  BY ProcMoves DEF Inv, TypeOK
<1>2. TypeOK'
  BY <1>1 DEF Inv, TypeOK, RowsOK
<1>3. RingIsWindow'
  BY DEF Inv, RingIsWindow
<1> QED  BY <1>1, <1>2, <1>3 DEF Inv

(* A process between two invocations holds nothing and plans nothing. *)
LEMMA IdleType ==
  Idle \in ProcState /\ PlanOK(Idle, nextRev)
BY TargetsAssumption DEF Idle, ProcState, PC, None, Materiality, NoRev, PlanOK

(* The counters of bounded events stay natural numbers. *)
LEMMA SpendType ==
  ASSUME spent \in [edits : Nat, snapshots : Nat, faults : Nat],
         NEW what \in {"edits", "snapshots", "faults"}, Spend(what)
  PROVE  spent' \in [edits : Nat, snapshots : Nat, faults : Nat]
BY DEF Spend

(* What a process may still have to report are transitions. *)
LEMMA OwesType ==
  ASSUME NEW q \in ProcState
  PROVE  Owes(q) \subseteq Transitions
BY TransitionType DEF Owes, ProcState

(* The invariant holds of a store that was just created. *)
LEMMA InvInit == Init => Inv
<1> SUFFICES ASSUME Init PROVE Inv
  OBVIOUS
<1>1. NoRows \in [{} -> Pages] /\ DOMAIN NoRows = {} /\ Log!Window(0) = {}
  BY DEF NoRows, Log!Window
<1>3. TypeOK
  <2>1. proc \in [Procs -> ProcState]
    BY IdleType DEF Init
  <2>2. seen \in Seq(EventKeys)
    BY DEF Init
  <2> QED  BY <1>1, <2>1, <2>2 DEF Init, TypeOK, RowsOK
<1>4. RingIsWindow
  BY <1>1 DEF Init, RingIsWindow
<1>5. PlansOK
  BY DEF Init, PlansOK, PlanOK, Idle
<1> QED  BY <1>3, <1>4, <1>5 DEF Inv

(* Starting a command keeps the invariant: it has planned nothing yet. *)
LEMMA InvBegin ==
  ASSUME Inv, NEW p \in Procs, Begin(p)
  PROVE  Inv'
<1> USE DEF Inv
<1>1. ASSUME NEW t \in Targets, NEW peek \in BOOLEAN, NEW m \in MinSaliences,
             BeginCheck(p, t, peek, m)
      PROVE  Inv'
  <2> DEFINE q == [Idle EXCEPT !.pc = "fetch", !.tid = t, !.peek = peek, !.min = m]
  <2>1. q \in ProcState /\ PlanOK(q, nextRev)
    <3>1. Idle \in ProcState /\ m \in Materiality /\ "fetch" \in PC
      BY IdleType, MinSaliencesAssumption DEF PC
    <3>2. q \in ProcState
      BY <3>1, Zenon DEF ProcState
    <3>3. q.pc = "fetch" /\ q.cmd \in {"check", "snapshot"}
          /\ (q.cmd = "check" \/ Writes(q))
      BY DEF Idle, Writes
    <3> QED  BY <3>2, <3>3 DEF PlanOK
  <2> QED  BY <1>1, <2>1, QuietStep DEF BeginCheck, storeVars, history, TypeOK
<1>2. ASSUME NEW t \in Targets, NEW m \in MinSaliences,
             BeginCheckWithoutStore(p, t, m)
      PROVE  Inv'
  <2> DEFINE q == [Idle EXCEPT !.pc = "fetch", !.tid = t, !.disk = FALSE, !.min = m]
  <2>1. q \in ProcState /\ PlanOK(q, nextRev)
    <3>1. Idle \in ProcState /\ m \in Materiality /\ "fetch" \in PC /\ FALSE \in BOOLEAN
      BY IdleType, MinSaliencesAssumption DEF PC
    <3>2. q \in ProcState
      BY <3>1, Zenon DEF ProcState
    <3>3. q.pc = "fetch" /\ q.cmd \in {"check", "snapshot"}
          /\ (q.cmd = "check" \/ Writes(q))
      BY DEF Idle, Writes
    <3> QED  BY <3>2, <3>3 DEF PlanOK
  <2> QED  BY <1>2, <2>1, QuietStep, SpendType
           DEF BeginCheckWithoutStore, storeVars, history, TypeOK
<1>3. ASSUME NEW t \in Targets, BeginSnapshot(p, t)
      PROVE  Inv'
  <2> DEFINE q == [Idle EXCEPT !.pc = "fetch", !.tid = t, !.cmd = "snapshot"]
  <2>1. q \in ProcState /\ PlanOK(q, nextRev)
    <3>1. Idle \in ProcState /\ "fetch" \in PC
      BY IdleType DEF PC
    <3>2. q \in ProcState
      BY <3>1, Zenon DEF ProcState
    <3>3. q.pc = "fetch" /\ q.cmd \in {"check", "snapshot"}
          /\ (q.cmd = "check" \/ Writes(q))
      BY DEF Idle, Writes
    <3> QED  BY <3>2, <3>3 DEF PlanOK
  <2> QED  BY <1>3, <2>1, QuietStep, SpendType
           DEF BeginSnapshot, storeVars, history, TypeOK
<1> QED  BY <1>1, <1>2, <1>3 DEF Begin

(* Fetching, or failing to, keeps the invariant. *)
LEMMA InvFetch ==
  ASSUME Inv, NEW p \in Procs, Fetch(p) \/ FetchFails(p) \/ ReadHead(p)
  PROVE  Inv'
<1> USE DEF Inv
<1>1. CASE Fetch(p)
  <2> DEFINE q == [proc[p] EXCEPT !.body = page[proc[p].tid],
                     !.pc = IF proc[p].cmd = "check" THEN "head" ELSE "next_rev"]
  <2>1. proc[p] \in ProcState /\ page[proc[p].tid] \in Pages
    BY DEF TypeOK, ProcState
  <2>2. q \in ProcState
    BY <2>1 DEF ProcState, PC
  <2>3. q.pc \in {"head", "next_rev"} /\ q.body \in Pages
        /\ (q.pc = "next_rev" => q.cmd = "snapshot")
    BY <2>1 DEF ProcState
  <2>4. q.cmd = "snapshot" => Writes(q)
    BY <2>1 DEF TypeOK, PlansOK, PlanOK, ProcState, Writes
  <2>5. PlanOK(q, nextRev)
    BY <2>3, <2>4 DEF PlanOK
  <2> QED  BY <1>1, <2>2, <2>5, QuietStep DEF Fetch, storeVars, history, TypeOK
<1>2. CASE FetchFails(p)
  BY <1>2, IdleType, QuietStep, SpendType
     DEF FetchFails, Finish, storeVars, history, TypeOK
<1>3. CASE ReadHead(p)
  <2> DEFINE rows == versions[proc[p].tid]
             q == [proc[p] EXCEPT
                     !.head = IF proc[p].disk THEN HeadRev(rows) ELSE NoRev,
                     !.pc = "prior"]
  <2>1. /\ proc[p] \in ProcState /\ proc[p].tid \in Targets
        /\ nextRev[proc[p].tid] \in Nat
        /\ PlanOK(proc[p], nextRev) /\ proc[p].pc = "head"
    BY <1>3 DEF TypeOK, ProcState, PlansOK, ReadHead, At
  <2>2. HeadRev(rows) = nextRev[proc[p].tid] - 1
    BY <2>1, HeadOfWindow DEF RingIsWindow
  <2>3. q.head \in Nat \cup {NoRev} /\ q.head < nextRev[proc[p].tid]
    BY <2>1, <2>2 DEF NoRev, ProcState
  <2>4. q \in ProcState
    BY <2>1, <2>3 DEF ProcState, PC
  <2>5. PlanOK(q, nextRev)
    BY <2>1, <2>3 DEF PlanOK, ProcState, Writes
  <2> QED  BY <1>3, <2>4, <2>5, QuietStep DEF ReadHead, storeVars, history, TypeOK
<1> QED  BY <1>1, <1>2, <1>3

(* Reading the prior document keeps it: the revision planned fits the window. *)
LEMMA InvReadPrior ==
  ASSUME Inv, NEW p \in Procs, ReadPrior(p)
  PROVE  Inv'
<1> USE DEF Inv
<1> DEFINE q == proc[p]
           read == IF q.head = NoRev THEN NoDoc ELSE SnapshotAt(versions[q.tid], q.head)
           seenIt == Observe(read, q.body, q.min)
           store == [q EXCEPT !.prior = read,
                              !.rev = RevToWrite(read, q.head),
                              !.todo = seenIt.events, !.pc = "put"]
           probe == [q EXCEPT !.prior = read, !.kept = seenIt.events, !.pc = "print"]
<1>1. /\ q \in ProcState /\ q.pc = "prior" /\ PlanOK(q, nextRev)
      /\ q.tid \in Targets /\ nextRev[q.tid] \in Nat
      /\ q.head \in Nat \cup {NoRev} /\ q.min \in Materiality
  BY DEF TypeOK, ProcState, PlansOK, ReadPrior, At
<1>2. q.body \in Pages /\ q.head < nextRev[q.tid]
  BY <1>1 DEF PlanOK
<1>3. read \in Pages \cup {NoDoc}
  BY <1>1 DEF TypeOK, RowsOK, SnapshotAt
<1>4. seenIt.events \subseteq Event
  BY <1>1, <1>2, <1>3, ObservedEvents
<1>5. CASE Finish(p)
  BY <1>5, IdleType, QuietStep DEF Finish, ReadPrior, storeVars, history, TypeOK
<1>6. CASE Goto(p, store) /\ Writes(q)
  <2>1. store.rev \in Nat /\ store.rev <= nextRev[q.tid]
    BY <1>1, <1>2 DEF NoRev, ProcState, RevToWrite
  <2>2. store \in ProcState
    <3> HIDE DEF read, seenIt
    <3> QED  BY <1>1, <1>3, <1>4, <2>1 DEF ProcState, PC
  <2>3. PlanOK(store, nextRev)
    <3> HIDE DEF read, seenIt
    <3> QED  BY <1>1, <1>2, <1>6, <2>1 DEF PlanOK, ProcState, Writes
  <2> QED  BY <1>6, <2>2, <2>3, QuietStep DEF ReadPrior, storeVars, history, TypeOK
<1>7. CASE Goto(p, probe)
  <2>1. probe \in ProcState
    <3> HIDE DEF read, seenIt
    <3> QED  BY <1>1, <1>3, <1>4 DEF ProcState, PC
  <2>2. PlanOK(probe, nextRev)
    <3> HIDE DEF read, seenIt
    <3> QED  BY <1>1, <1>2 DEF PlanOK, ProcState, Writes
  <2> QED  BY <1>7, <2>1, <2>2, QuietStep DEF ReadPrior, storeVars, history, TypeOK
<1> QED
  <2> HIDE DEF seenIt
  <2> QED  BY <1>5, <1>6, <1>7 DEF ReadPrior, seenIt

(* The revision a snapshot reads is the next one, and fits the window. *)
LEMMA InvReadNextRev ==
  ASSUME Inv, NEW p \in Procs, ReadNextRev(p)
  PROVE  Inv'
<1> DEFINE q == [proc[p] EXCEPT !.rev = nextRev[proc[p].tid], !.pc = "put"]
<1>1. /\ proc[p] \in ProcState /\ proc[p].tid \in Targets
      /\ nextRev[proc[p].tid] \in Nat /\ proc[p].pc = "next_rev"
      /\ PlanOK(proc[p], nextRev)
  BY DEF Inv, TypeOK, ProcState, PlansOK, ReadNextRev, At
<1>2. q \in ProcState
  BY <1>1 DEF ProcState, PC
<1>3. Writes(q)
  BY <1>1 DEF PlanOK, Writes
<1>4. PlanOK(q, nextRev)
  BY <1>1, <1>3 DEF PlanOK, ProcState
<1> QED  BY <1>2, <1>4, QuietStep DEF ReadNextRev, storeVars, history, Inv, TypeOK

(***************************************************************************)
(* A put, whenever it comes, is a step of the log or leaves no trace, and  *)
(* the ring stays a window.                                                *)
(***************************************************************************)
LEMMA PutIsLogStep ==
  ASSUME Inv, NEW p \in Procs, Put(p)
  PROVE  /\ Log!AppendAny \/ Log!AmendAny \/ UNCHANGED <<versions, nextRev>>
         /\ versions' = [t \in Targets |-> versions'[t]]
         /\ \A t \in Targets : RowsOK(versions'[t])
         /\ nextRev' \in [Targets -> Nat]
         /\ \A t \in Targets : nextRev[t] <= nextRev'[t]
         /\ RingIsWindow'
<1> DEFINE q == proc[p]
           t == q.tid
           n == nextRev[t]
           rows == versions[t]
<1>1. /\ q \in ProcState /\ q.pc = "put" /\ PlanOK(q, nextRev)
      /\ t \in Targets /\ n \in Nat /\ q.rev \in Nat
      /\ DOMAIN rows = Log!Window(n)
      /\ rows \in [Log!Window(n) -> Pages]
  BY DEF Inv, TypeOK, ProcState, PlansOK, RingIsWindow, RowsOK, Put, At
<1>2. q.body \in Pages /\ q.rev <= n
  BY <1>1 DEF PlanOK
<1>3. /\ versions' = [versions EXCEPT ![t] = PutRows(rows, q.rev, q.body)]
      /\ nextRev' = [nextRev EXCEPT ![t] = BumpNextRev(n, q.rev)]
  BY DEF Put
<1>4. /\ versions = [u \in Targets |-> versions[u]]
      /\ nextRev \in [Targets -> Nat]
      /\ \A u \in Targets : RowsOK(versions[u]) /\ DOMAIN versions[u] = Log!Window(nextRev[u])
  BY DEF Inv, TypeOK, RingIsWindow
<1> HIDE DEF q, t, n, rows
<1>5. CASE q.rev = n
  <2>1. PutRows(rows, n, q.body) =
          [r \in Log!Window(n + 1) |-> IF r = n THEN q.body ELSE rows[r]]
    BY <1>1, PutNext
  <2>2. BumpNextRev(n, n) = n + 1
    BY <1>1 DEF BumpNextRev
  <2>3. Log!Append(t, q.body)
    BY <1>1, <1>3, <1>4, <1>5, <2>1, <2>2 DEF Log!Append, n, rows
  <2>4. PutRows(rows, n, q.body) \in [Log!Window(n + 1) -> Pages]
        /\ Log!Window(n + 1) \subseteq Nat
    <3>1. Log!Window(n + 1) \subseteq Log!Window(n) \cup {n}
          /\ Log!Window(n + 1) \subseteq Nat
      BY <1>1, RingNAssumption DEF Log!Window
    <3> QED  BY <1>1, <1>2, <2>1, <3>1
  <2>5. RowsOK(PutRows(rows, n, q.body))
    BY <2>4 DEF RowsOK
  <2> QED  BY <1>1, <1>2, <1>3, <1>4, <1>5, <2>2, <2>3, <2>4, <2>5
           DEF Log!AppendAny, RingIsWindow, n
<1>6. CASE q.rev # n /\ q.rev \in Log!Window(n)
  <2>1. PutRows(rows, q.rev, q.body) =
          [r \in Log!Window(n) |-> IF r = q.rev THEN q.body ELSE rows[r]]
    BY <1>1, <1>6, PutRetained
  <2>2. BumpNextRev(n, q.rev) = n
    BY <1>1, <1>2, <1>6 DEF BumpNextRev
  <2>3. nextRev' = nextRev
    BY <1>3, <1>4, <2>2 DEF n
  <2>4. Log!Amend(t, q.rev, q.body)
    <3>1. [rows EXCEPT ![q.rev] = q.body] = PutRows(rows, q.rev, q.body)
      BY <1>1, <2>1
    <3> QED  BY <1>1, <1>3, <1>6, <2>3, <3>1 DEF Log!Amend, n, rows
  <2>5. PutRows(rows, q.rev, q.body) \in [Log!Window(n) -> Pages]
        /\ Log!Window(n) \subseteq Nat
    BY <1>1, <1>2, <2>1 DEF Log!Window
  <2>6. RowsOK(PutRows(rows, q.rev, q.body))
    BY <2>5 DEF RowsOK
  <2>7. Log!AmendAny
    BY <1>1, <1>2, <1>6, <2>4 DEF Log!AmendAny, n
  <2> QED  BY <1>1, <1>3, <1>4, <2>3, <2>5, <2>6, <2>7 DEF RingIsWindow, n
<1>7. CASE q.rev # n /\ q.rev \notin Log!Window(n)
  <2>1. PutRows(rows, q.rev, q.body) = rows
    BY <1>1, <1>2, <1>7, PutTooLate
  <2>2. BumpNextRev(n, q.rev) = n
    BY <1>1, <1>2, <1>7 DEF BumpNextRev
  <2>3. nextRev' = nextRev /\ versions' = versions
    BY <1>1, <1>3, <1>4, <2>1, <2>2 DEF n, rows
  <2> QED  BY <1>4, <2>3 DEF RingIsWindow
<1> QED  BY <1>5, <1>6, <1>7

(* put_with_html keeps the window, wherever in it the revision falls. *)
LEMMA InvPut ==
  ASSUME Inv, NEW p \in Procs, Put(p)
  PROVE  Inv'
<1> DEFINE q == proc[p]
           report == [q EXCEPT !.pc = "print"]
           dedup == [q EXCEPT !.pc = "dedup"]
<1>1. /\ q \in ProcState /\ q.pc = "put" /\ PlanOK(q, nextRev) /\ q.tid \in Targets
      /\ q.todo \subseteq Event
  BY DEF Inv, TypeOK, ProcState, PlansOK, Put, At
<1>2. absorbed' \subseteq Transitions
  <2>1. absorbed' = absorbed \cup {Transition(q.tid, e) : e \in q.todo}
    BY DEF Put
  <2>2. \A e \in q.todo : Transition(q.tid, e) \in Transitions
    BY <1>1, TransitionType
  <2> QED  BY <2>1, <2>2 DEF Inv, TypeOK
<1>3. \E r \in ProcState : Goto(p, r) /\ PlanOK(r, nextRev')
  <2>1. Finish(p) \/ Goto(p, report) \/ Goto(p, dedup)
    BY DEF Put
  <2>2. Idle \in ProcState /\ PlanOK(Idle, nextRev')
    BY IdleType DEF PlanOK, Idle
  <2>3. report \in ProcState /\ dedup \in ProcState
    BY <1>1 DEF ProcState, PC
  <2>4. PlanOK(report, nextRev') /\ PlanOK(dedup, nextRev')
    BY <1>1 DEF PlanOK, ProcState, Writes
  <2> QED  BY <2>1, <2>2, <2>3, <2>4 DEF Finish
<1>4. proc' \in [Procs -> ProcState] /\ PlansOK'
  BY <1>3, PutIsLogStep, ProcMoves DEF Inv, TypeOK
<1>5. UNCHANGED <<page, seen, delivered, lost, spent>>
  BY DEF Put
<1> QED  BY <1>2, <1>4, <1>5, PutIsLogStep DEF Inv, TypeOK

(* A turn of the deduplication loop keeps the invariant. *)
LEMMA InvDedup ==
  ASSUME Inv, NEW p \in Procs,
         \/ \E e \in proc[p].todo : Suppress(p, e) \/ FindUnseen(p, e) \/ KeepUnkeyed(p, e)
         \/ Mark(p) \/ EndDedup(p)
  PROVE  Inv'
<1>1. /\ proc[p] \in ProcState /\ PlanOK(proc[p], nextRev) /\ proc[p].tid \in Targets
      /\ proc[p].todo \subseteq Event
  BY DEF Inv, TypeOK, ProcState, PlansOK
<1>2. ASSUME NEW e \in proc[p].todo, Suppress(p, e)
      PROVE  Inv'
  <2> DEFINE q == [proc[p] EXCEPT !.todo = @ \ {e}]
  <2>1. q \in ProcState
    BY <1>1 DEF ProcState
  <2>2. PlanOK(q, nextRev)
    BY <1>1, <1>2 DEF PlanOK, ProcState, Suppress, At, Writes
  <2> QED  BY <1>2, <2>1, <2>2, QuietStep DEF Suppress, storeVars, history, Inv, TypeOK
<1>3. ASSUME NEW e \in proc[p].todo, FindUnseen(p, e)
      PROVE  Inv'
  <2> DEFINE q == [proc[p] EXCEPT !.cur = {e}, !.pc = "mark"]
  <2>1. q \in ProcState
    BY <1>1 DEF ProcState, PC
  <2>2. PlanOK(q, nextRev)
    BY <1>1, <1>3 DEF PlanOK, ProcState, FindUnseen, At, Writes
  <2> QED  BY <1>3, <2>1, <2>2, QuietStep DEF FindUnseen, storeVars, history, Inv, TypeOK
<1>4. ASSUME NEW e \in proc[p].todo, KeepUnkeyed(p, e)
      PROVE  Inv'
  <2> DEFINE q == [proc[p] EXCEPT !.todo = @ \ {e}, !.kept = @ \cup {e}]
  <2>1. q \in ProcState
    BY <1>1 DEF ProcState
  <2>2. PlanOK(q, nextRev)
    BY <1>1, <1>4 DEF PlanOK, ProcState, KeepUnkeyed, At, Writes
  <2> QED  BY <1>4, <2>1, <2>2, QuietStep DEF KeepUnkeyed, storeVars, history, Inv, TypeOK
<1>5. CASE Mark(p)
  <2>1. PICK e \in proc[p].cur :
          /\ seen' = MarkEvent(seen, EventKey(proc[p].tid, e))
          /\ Goto(p, [proc[p] EXCEPT !.todo = @ \ {e}, !.kept = @ \cup {e},
                                     !.cur = {}, !.pc = "dedup"])
    BY <1>5 DEF Mark
  <2> DEFINE q == [proc[p] EXCEPT !.todo = @ \ {e}, !.kept = @ \cup {e},
                                  !.cur = {}, !.pc = "dedup"]
  <2>2. e \in proc[p].todo /\ e \in Event /\ Keyed(e)
    BY <1>1, <1>5, <2>1 DEF PlanOK, Mark, At
  <2>3. seen' \in Seq(EventKeys)
    BY <1>1, <2>1, <2>2, TransitionType, MarkedKeys DEF Inv, TypeOK
  <2>4. q \in ProcState
    BY <1>1, <2>2 DEF ProcState, PC
  <2>5. PlanOK(q, nextRev)
    BY <1>1, <1>5 DEF PlanOK, ProcState, Mark, At, Writes
  <2> QED  BY <1>5, <2>1, <2>3, <2>4, <2>5, QuietStep DEF Mark, history, Inv, TypeOK
<1>6. CASE EndDedup(p)
  <2> DEFINE q == [proc[p] EXCEPT !.pc = "print"]
  <2>1. Finish(p) \/ Goto(p, q)
    BY <1>6 DEF EndDedup
  <2>2. q \in ProcState
    BY <1>1 DEF ProcState, PC
  <2>3. PlanOK(q, nextRev)
    BY <1>1, <1>6 DEF PlanOK, ProcState, EndDedup, At, Writes
  <2>4. \E r \in ProcState : Goto(p, r) /\ PlanOK(r, nextRev)
    BY <2>1, <2>2, <2>3, IdleType DEF Finish
  <2> QED  BY <1>6, <2>4, QuietStep DEF EndDedup, storeVars, history, Inv, TypeOK
<1> QED  BY <1>2, <1>3, <1>4, <1>5, <1>6

(* Printing, a kill or an error ends a process and leaves the store alone. *)
LEMMA InvEnd ==
  ASSUME Inv, NEW p \in Procs, Emit(p) \/ Abort(p)
  PROVE  Inv'
<1>1. Owes(proc[p]) \subseteq Transitions
  BY OwesType DEF Inv, TypeOK
<1>2. CASE Emit(p)
  BY <1>1, <1>2, IdleType, QuietStep DEF Emit, Finish, storeVars, Inv, TypeOK
<1>3. CASE Abort(p)
  BY <1>1, <1>3, IdleType, QuietStep, SpendType DEF Abort, Finish, storeVars, Inv, TypeOK
<1> QED  BY <1>2, <1>3

(* An edit of the page touches nothing of ours. *)
LEMMA InvEdit ==
  ASSUME Inv, NEW t \in Targets, NEW doc \in Pages, EditPage(t, doc)
  PROVE  Inv'
<1>1. TypeOK'
  BY SpendType DEF EditPage, storeVars, history, Inv, TypeOK, RowsOK
<1>2. RingIsWindow' /\ PlansOK'
  BY DEF EditPage, storeVars, Inv, RingIsWindow, PlansOK
<1> QED  BY <1>1, <1>2 DEF Inv

(* Every step keeps the invariant. *)
LEMMA InvNext == Inv /\ [Next]_vars => Inv'
<1> SUFFICES ASSUME Inv, [Next]_vars  PROVE Inv'
  OBVIOUS
<1>1. ASSUME NEW t \in Targets, NEW doc \in Pages, EditPage(t, doc)
      PROVE  Inv'
  BY <1>1, InvEdit
<1>2. ASSUME NEW p \in Procs, Begin(p) \/ Step(p) \/ FetchFails(p) \/ Abort(p)
      PROVE  Inv'
  BY <1>2, InvBegin, InvFetch, InvReadPrior, InvReadNextRev, InvPut, InvDedup, InvEnd
     DEF Step
<1>3. CASE UNCHANGED vars
  <2>1. TypeOK'
    BY <1>3 DEF vars, Inv, TypeOK, RowsOK
  <2> QED  BY <1>3, <2>1 DEF vars, Inv, RingIsWindow, PlansOK
<1> QED  BY <1>1, <1>2, <1>3 DEF Next

(* However processes overlap, die or fall back to a store of their own,    *)
(* every variable keeps its type, and what a process carries over the      *)
(* steps of others fits the store when it is used.                         *)
THEOREM Invariance == Spec => []Inv
<1> QED  BY InvInit, InvNext, PTL DEF Spec

(* In particular every variable keeps its type. *)
THEOREM TypeCorrect == Spec => []TypeOK
<1>1. Inv => TypeOK
  BY DEF Inv
<1> QED  BY Invariance, <1>1, PTL

(***************************************************************************)
(* A head read or a revision planned earlier is never ahead of the store,  *)
(* whoever has written in between, and a probe never comes to a write.     *)
(***************************************************************************)
THEOREM PlansFit == Spec => []PlansOK
<1>1. Inv => PlansOK
  BY DEF Inv
<1> QED  BY Invariance, <1>1, PTL

(* The ring has no gaps and next_rev is its top plus one, for every number *)
(* of overlapping writers and every ring size.                             *)
THEOREM RingStaysWindow == Spec => []RingIsWindow
<1>1. Inv => RingIsWindow
  BY DEF Inv
<1> QED  BY Invariance, <1>1, PTL

----------------------------------------------------------------------------
(* The versions table implements a log with a window.                      *)

(* An empty table is an empty log. *)
LEMMA InitIsLogInit == Init => Log!Init
<1> SUFFICES ASSUME Init PROVE Log!Init
  OBVIOUS
<1>1. Log!Window(0) = {}
  BY DEF Log!Window
<1>2. NoRows = [r \in Log!Window(0) |-> 0]
  BY <1>1 DEF NoRows
<1> QED  BY <1>2 DEF Init, Log!Init

(* Only Put touches the table. *)
LEMMA OnlyPutWrites ==
  ASSUME Next, \A p \in Procs : ~Put(p)
  PROVE  UNCHANGED <<versions, nextRev>>
<1>1. ASSUME NEW p \in Procs, Begin(p)
      PROVE  UNCHANGED <<versions, nextRev>>
  BY <1>1 DEF Begin, BeginCheck, BeginCheckWithoutStore, BeginSnapshot, storeVars
<1>2. ASSUME NEW p \in Procs, Step(p), ~Put(p)
      PROVE  UNCHANGED <<versions, nextRev>>
  BY <1>2 DEF Step, Fetch, ReadHead, ReadPrior, ReadNextRev, Suppress, FindUnseen,
              KeepUnkeyed, Mark, EndDedup, Emit, storeVars
<1>3. ASSUME NEW p \in Procs, FetchFails(p) \/ Abort(p)
      PROVE  UNCHANGED <<versions, nextRev>>
  BY <1>3 DEF FetchFails, Abort, storeVars
<1>4. ASSUME NEW t \in Targets, NEW doc \in Pages, EditPage(t, doc)
      PROVE  UNCHANGED <<versions, nextRev>>
  BY <1>4 DEF EditPage, storeVars
<1> QED  BY <1>1, <1>2, <1>3, <1>4 DEF Next

(***************************************************************************)
(* For every number of overlapping checks and snapshots, their readers see *)
(* a log: appended to, amended inside the window, never with a gap.        *)
(***************************************************************************)
THEOREM RingLogImplemented == Spec => ImplementsRingLog
<1>1. Inv /\ [Next]_vars => [Log!AppendAny \/ Log!AmendAny]_<<versions, nextRev>>
  <2> SUFFICES ASSUME Inv, [Next]_vars
               PROVE  [Log!AppendAny \/ Log!AmendAny]_<<versions, nextRev>>
    OBVIOUS
  <2>1. CASE \E p \in Procs : Put(p)
    BY <2>1, PutIsLogStep
  <2>2. CASE Next /\ \A p \in Procs : ~Put(p)
    BY <2>2, OnlyPutWrites
  <2>3. CASE UNCHANGED vars
    BY <2>3 DEF vars
  <2> QED  BY <2>1, <2>2, <2>3
<1> QED  BY <1>1, Invariance, InitIsLogInit, PTL DEF Spec, ImplementsRingLog, Log!Spec

----------------------------------------------------------------------------
(* Invocations that do not overlap never rewrite a revision.               *)

OneAtATime == \A p, r \in Procs : p = r

(* What a process knows about the ring is up to date when it uses it. *)
Fresh(q, next) ==
  /\ q.pc = "prior" /\ q.disk => q.head = next[q.tid] - 1
  /\ q.pc = "put" => q.rev = next[q.tid]

AllFresh == \A p \in Procs : Fresh(proc[p], nextRev)

(* A put planned on the present head appends to the log. *)
LEMMA FreshPutAppends ==
  ASSUME Inv, NEW p \in Procs, Put(p), Fresh(proc[p], nextRev)
  PROVE  Log!AppendAny
<1> DEFINE t == proc[p].tid
           n == nextRev[t]
<1>1. /\ t \in Targets /\ n \in Nat /\ proc[p].body \in Pages /\ proc[p].rev = n
      /\ DOMAIN versions[t] = Log!Window(n)
  BY DEF Inv, TypeOK, ProcState, PlansOK, PlanOK, RingIsWindow, Put, At, Fresh
<1>2. PutRows(versions[t], n, proc[p].body) =
        [r \in Log!Window(n + 1) |-> IF r = n THEN proc[p].body ELSE versions[t][r]]
  BY <1>1, PutNext
<1>3. BumpNextRev(n, n) = n + 1
  BY <1>1 DEF BumpNextRev
<1>4. /\ versions' = [versions EXCEPT ![t] = PutRows(versions[t], n, proc[p].body)]
      /\ nextRev' = [nextRev EXCEPT ![t] = BumpNextRev(n, n)]
  BY <1>1 DEF Put
<1>5. Log!Append(t, proc[p].body)
  BY <1>2, <1>3, <1>4 DEF Log!Append
<1> QED  BY <1>1, <1>5 DEF Log!AppendAny

(* With nothing in between, the revision planned is the next one. *)
LEMMA FreshReadPrior ==
  ASSUME Inv, NEW p \in Procs, ReadPrior(p), Fresh(proc[p], nextRev)
  PROVE  \E q \in ProcState : Goto(p, q) /\ Fresh(q, nextRev)
<1> DEFINE q == proc[p]
           n == nextRev[q.tid]
           read == IF q.head = NoRev THEN NoDoc ELSE SnapshotAt(versions[q.tid], q.head)
           seenIt == Observe(read, q.body, q.min)
           store == [q EXCEPT !.prior = read,
                              !.rev = RevToWrite(read, q.head),
                              !.todo = seenIt.events, !.pc = "put"]
           probe == [q EXCEPT !.prior = read, !.kept = seenIt.events, !.pc = "print"]
<1>1. /\ q \in ProcState /\ q.pc = "prior" /\ q.tid \in Targets /\ n \in Nat
      /\ q.min \in Materiality /\ q.body \in Pages
      /\ q.head \in Nat \cup {NoRev}
      /\ DOMAIN versions[q.tid] = Log!Window(n)
      /\ versions[q.tid] \in [Log!Window(n) -> Pages]
  BY DEF Inv, TypeOK, RowsOK, RingIsWindow, ProcState, PlansOK, PlanOK, ReadPrior, At
<1>2. read \in Pages \cup {NoDoc}
  BY <1>1 DEF SnapshotAt
<1>3. seenIt.events \subseteq Event
  BY <1>1, <1>2, ObservedEvents
<1>4. Finish(p) \/ (Goto(p, store) /\ Writes(q)) \/ Goto(p, probe)
  <2> HIDE DEF seenIt
  <2> QED  BY DEF ReadPrior, seenIt
<1>5. q.disk => RevToWrite(read, q.head) = n
  <2> USE DEF RevToWrite
  <2>1. CASE q.head = NoRev
    BY <1>1, <2>1 DEF Fresh, NoRev
  <2>2. CASE q.disk /\ q.head # NoRev
    <3>1. q.head = n - 1 /\ q.head \in Nat
      BY <1>1, <2>2 DEF Fresh
    <3>2. q.head \in Log!Window(n)
      BY <1>1, <3>1, RingNAssumption DEF Log!Window
    <3>3. read \in Pages
      BY <1>1, <2>2, <3>2 DEF SnapshotAt
    <3> QED  BY <1>1, <3>1, <3>3, PagesAreDocs
  <2> QED  BY <2>1, <2>2
<1>6. Idle \in ProcState /\ Fresh(Idle, nextRev)
  BY IdleType DEF Fresh, Idle
<1> HIDE DEF read, seenIt
<1>7. probe \in ProcState /\ Fresh(probe, nextRev)
  BY <1>1, <1>2, <1>3 DEF ProcState, PC, Fresh
<1>8. Writes(q) => store \in ProcState /\ Fresh(store, nextRev)
  <2>1. Writes(q) => store.rev = n /\ store.tid = q.tid /\ store.pc = "put"
    BY <1>1, <1>5 DEF ProcState, Writes
  <2>2. Writes(q) => store \in ProcState
    BY <1>1, <1>2, <1>3, <1>5 DEF ProcState, PC, Writes
  <2> QED  BY <2>1, <2>2 DEF Fresh
<1> QED  BY <1>4, <1>6, <1>7, <1>8 DEF Finish

(* Only what is planned can be stale. *)
LEMMA FreshWithoutPlan ==
  ASSUME proc \in [Procs -> ProcState], NEW p, Procs = {p},
         NEW q, q.pc \notin {"prior", "put"}, Goto(p, q)
  PROVE  AllFresh'
BY DEF AllFresh, Fresh, Goto

(* With one process, a plan stays fresh until it is used. *)
LEMMA FreshNext ==
  ASSUME OneAtATime, Inv, AllFresh, Next
  PROVE  AllFresh'
<1> USE DEF At, Finish, Fresh, AllFresh
<1>1. ASSUME NEW t \in Targets, NEW doc \in Pages, EditPage(t, doc)
      PROVE  AllFresh'
  BY <1>1 DEF EditPage, storeVars
<1>2. ASSUME NEW p \in Procs, Begin(p) \/ Step(p) \/ FetchFails(p) \/ Abort(p)
      PROVE  AllFresh'
  <2>1. /\ Procs = {p} /\ proc[p] \in ProcState /\ proc \in [Procs -> ProcState]
        /\ proc[p].tid \in Targets /\ nextRev[proc[p].tid] \in Nat
        /\ DOMAIN versions[proc[p].tid] = Log!Window(nextRev[proc[p].tid])
    BY <1>2 DEF OneAtATime, Inv, TypeOK, ProcState, RingIsWindow
  <2>2. CASE Begin(p)
    <3>1. ASSUME NEW t \in Targets, NEW peek \in BOOLEAN, NEW m \in MinSaliences,
                 BeginCheck(p, t, peek, m)
          PROVE  AllFresh'
      <4> DEFINE q == [Idle EXCEPT !.pc = "fetch", !.tid = t, !.peek = peek, !.min = m]
      <4>1. q.pc = "fetch"
        BY DEF Idle
      <4>2. Goto(p, q)
        BY <3>1 DEF BeginCheck
      <4> QED  BY <2>1, <4>1, <4>2, FreshWithoutPlan
    <3>2. ASSUME NEW t \in Targets, NEW m \in MinSaliences,
                 BeginCheckWithoutStore(p, t, m)
          PROVE  AllFresh'
      <4> DEFINE q == [Idle EXCEPT !.pc = "fetch", !.tid = t, !.disk = FALSE, !.min = m]
      <4>1. q.pc = "fetch"
        BY DEF Idle
      <4>2. Goto(p, q)
        BY <3>2 DEF BeginCheckWithoutStore
      <4> QED  BY <2>1, <4>1, <4>2, FreshWithoutPlan
    <3>3. ASSUME NEW t \in Targets, BeginSnapshot(p, t)
          PROVE  AllFresh'
      <4> DEFINE q == [Idle EXCEPT !.pc = "fetch", !.tid = t, !.cmd = "snapshot"]
      <4>1. q.pc = "fetch"
        BY DEF Idle
      <4>2. Goto(p, q)
        BY <3>3 DEF BeginSnapshot
      <4> QED  BY <2>1, <4>1, <4>2, FreshWithoutPlan
    <3> QED  BY <2>2, <3>1, <3>2, <3>3 DEF Begin
  <2>3. CASE Fetch(p)
    BY <2>1, <2>3 DEF Fetch, Goto, ProcState
  <2>4. CASE ReadHead(p)
    <3>1. HeadRev(versions[proc[p].tid]) = nextRev[proc[p].tid] - 1
      BY <2>1, HeadOfWindow
    <3> QED  BY <2>1, <2>4, <3>1 DEF ReadHead, Goto, storeVars, ProcState
  <2>5. CASE ReadPrior(p)
    <3>1. PICK q \in ProcState : Goto(p, q) /\ Fresh(q, nextRev)
      BY <2>5, FreshReadPrior
    <3> QED  BY <2>1, <2>5, <3>1 DEF ReadPrior, Goto, storeVars
  <2>6. CASE ReadNextRev(p)
    BY <2>1, <2>6 DEF ReadNextRev, Goto, storeVars, ProcState
  <2>7. CASE Put(p)
    BY <2>1, <2>7 DEF Put, Goto, Idle, ProcState
  <2>8. CASE \E e \in proc[p].todo : Suppress(p, e) \/ FindUnseen(p, e) \/ KeepUnkeyed(p, e)
    <3>1. \E q : Goto(p, q) /\ q.pc \in {"dedup", "mark"}
      <4>1. proc[p].pc = "dedup"
        BY <2>8 DEF Suppress, FindUnseen, KeepUnkeyed
      <4>2. PICK e \in proc[p].todo :
              Suppress(p, e) \/ FindUnseen(p, e) \/ KeepUnkeyed(p, e)
        BY <2>8
      <4>3. CASE Suppress(p, e)
        <5> WITNESS [proc[p] EXCEPT !.todo = @ \ {e}]
        <5> QED  BY <2>1, <4>1, <4>3 DEF Suppress, ProcState
      <4>4. CASE FindUnseen(p, e)
        <5> WITNESS [proc[p] EXCEPT !.cur = {e}, !.pc = "mark"]
        <5> QED  BY <2>1, <4>4 DEF FindUnseen, ProcState
      <4>5. CASE KeepUnkeyed(p, e)
        <5> WITNESS [proc[p] EXCEPT !.todo = @ \ {e}, !.kept = @ \cup {e}]
        <5> QED  BY <2>1, <4>1, <4>5 DEF KeepUnkeyed, ProcState
      <4> QED  BY <4>2, <4>3, <4>4, <4>5
    <3> QED  BY <2>1, <3>1, FreshWithoutPlan
  <2>9. CASE Mark(p) \/ EndDedup(p) \/ Emit(p) \/ FetchFails(p) \/ Abort(p)
    <3>1. \E q : Goto(p, q) /\ q.pc \in {"dedup", "print", "idle"}
      <4>1. Idle.pc = "idle"
        BY DEF Idle
      <4>2. CASE Mark(p)
        <5>1. PICK e \in proc[p].cur :
                Goto(p, [proc[p] EXCEPT !.todo = @ \ {e}, !.kept = @ \cup {e},
                                        !.cur = {}, !.pc = "dedup"])
          BY <4>2 DEF Mark
        <5> WITNESS [proc[p] EXCEPT !.todo = @ \ {e}, !.kept = @ \cup {e},
                                    !.cur = {}, !.pc = "dedup"]
        <5> QED  BY <2>1, <5>1 DEF ProcState
      <4>3. CASE EndDedup(p)
        <5>1. CASE Goto(p, [proc[p] EXCEPT !.pc = "print"])
          <6> WITNESS [proc[p] EXCEPT !.pc = "print"]
          <6> QED  BY <2>1, <5>1 DEF ProcState
        <5> QED  BY <4>1, <4>3, <5>1 DEF EndDedup
      <4>4. CASE Emit(p) \/ FetchFails(p) \/ Abort(p)
        BY <4>1, <4>4 DEF Emit, FetchFails, Abort
      <4> QED  BY <2>9, <4>2, <4>3, <4>4
    <3> QED  BY <2>1, <3>1, FreshWithoutPlan
  <2> QED  BY <1>2, <2>2, <2>3, <2>4, <2>5, <2>6, <2>7, <2>8, <2>9 DEF Step
<1> QED  BY <1>1, <1>2 DEF Next

(***************************************************************************)
(* One invocation at a time, and the log is only ever appended to: nothing *)
(* that was stored under a revision is replaced, for any ring size and     *)
(* any number of kills between the read of the head and the put.           *)
(***************************************************************************)
THEOREM AppendOnlyWhenSequential ==
  ASSUME OneAtATime
  PROVE  Spec => ImplementsAppendOnlyLog
<1>1. Init => AllFresh
  BY DEF Init, AllFresh, Fresh, Idle
<1>2. Inv /\ AllFresh /\ [Next]_vars => AllFresh'
  <2>1. CASE UNCHANGED vars
    BY <2>1 DEF vars, AllFresh
  <2> QED  BY <2>1, FreshNext
<1>3. Inv /\ AllFresh /\ [Next]_vars => [Log!AppendAny]_<<versions, nextRev>>
  <2> SUFFICES ASSUME Inv, AllFresh, [Next]_vars
               PROVE  [Log!AppendAny]_<<versions, nextRev>>
    OBVIOUS
  <2>1. CASE \E p \in Procs : Put(p)
    BY <2>1, FreshPutAppends DEF AllFresh
  <2>2. CASE Next /\ \A p \in Procs : ~Put(p)
    BY <2>2, OnlyPutWrites
  <2>3. CASE UNCHANGED vars
    BY <2>3 DEF vars
  <2> QED  BY <2>1, <2>2, <2>3
<1> QED  BY <1>1, <1>2, <1>3, Invariance, InitIsLogInit, PTL
         DEF Spec, ImplementsAppendOnlyLog, Log!AppendOnlySpec

----------------------------------------------------------------------------
(***************************************************************************)
(* No absorbed change goes unaccounted for.  AbsorbedIsAccounted is not    *)
(* inductive: a process drops an event because its key is in the seen-set, *)
(* so the marks themselves must be accounted for (SeenIsAccounted), by     *)
(* events already kept, not by the dropped one.                            *)
(***************************************************************************)
SnapshotHoldsNothing ==
  \A p \in Procs : proc[p].cmd = "snapshot" =>
    proc[p].todo = {} /\ proc[p].pc \in {"fetch", "next_rev", "put"}

AccountInv == SnapshotHoldsNothing /\ SeenIsAccounted /\ AbsorbedIsAccounted

(* More transitions have more keys. *)
LEMMA KeysGrow ==
  ASSUME NEW A, NEW B, A \subseteq B
  PROVE  Keys(A) \subseteq Keys(B)
BY DEF Keys

(* A process hands its debts to the history or keeps them. *)
LEMMA DebtsKept ==
  ASSUME proc \in [Procs -> ProcState], NEW p \in Procs, NEW q, Goto(p, q),
         delivered \subseteq delivered', lost \subseteq lost',
         Owes(proc[p]) \subseteq delivered' \cup lost' \cup Owes(q),
         Reporting(proc[p]) \subseteq delivered' \cup lost' \cup Reporting(q)
  PROVE  Accounted \subseteq Accounted' /\ SpokenFor \subseteq SpokenFor'
<1>1. proc'[p] = q /\ \A r \in Procs : r # p => proc'[r] = proc[r]
  BY DEF Goto
<1>2. \A r \in Procs : Owes(proc[r]) \subseteq Accounted'
  <2>1. ASSUME NEW r \in Procs, r # p  PROVE Owes(proc[r]) \subseteq Accounted'
    BY <1>1, <2>1 DEF Accounted
  <2>2. Owes(proc[p]) \subseteq Accounted'
    BY <1>1 DEF Accounted
  <2> QED  BY <2>1, <2>2
<1>3. \A r \in Procs : Reporting(proc[r]) \subseteq SpokenFor'
  <2>1. ASSUME NEW r \in Procs, r # p  PROVE Reporting(proc[r]) \subseteq SpokenFor'
    BY <1>1, <2>1 DEF SpokenFor
  <2>2. Reporting(proc[p]) \subseteq SpokenFor'
    BY <1>1 DEF SpokenFor
  <2> QED  BY <2>1, <2>2
<1>4. delivered \cup lost \subseteq Accounted' /\ delivered \cup lost \subseteq SpokenFor'
  BY DEF Accounted, SpokenFor
<1> QED  BY <1>2, <1>3, <1>4 DEF Accounted, SpokenFor

(* When nothing is absorbed or marked, keeping the debts is enough. *)
LEMMA AccountKept ==
  ASSUME AccountInv, proc \in [Procs -> ProcState], NEW p \in Procs, NEW q, Goto(p, q),
         delivered \subseteq delivered', lost \subseteq lost',
         Owes(proc[p]) \subseteq delivered' \cup lost' \cup Owes(q),
         Reporting(proc[p]) \subseteq delivered' \cup lost' \cup Reporting(q),
         absorbed' = absorbed, seen' = seen,
         q.cmd = "snapshot" => q.todo = {} /\ q.pc \in {"fetch", "next_rev", "put"}
  PROVE  AccountInv'
<1>1. Keys(Accounted) \subseteq Keys(Accounted') /\ Keys(SpokenFor) \subseteq Keys(SpokenFor')
  BY DebtsKept, KeysGrow
<1>2. Keys(absorbed') \subseteq Keys(Accounted') /\ Range(seen') \subseteq Keys(SpokenFor')
  BY <1>1 DEF AccountInv, AbsorbedIsAccounted, SeenIsAccounted
<1>3. SnapshotHoldsNothing'
  BY DEF AccountInv, SnapshotHoldsNothing, Goto
<1> QED  BY <1>2, <1>3 DEF AccountInv, AbsorbedIsAccounted, SeenIsAccounted, Keys

(* A process that has not stored a version owes no report. *)
LEMMA NothingOwed ==
  ASSUME NEW q, q.pc \notin {"dedup", "mark", "print"} \/ ~Writes(q)
  PROVE  Owes(q) = {} /\ Reporting(q) = {}
BY DEF Owes, Reporting

(* Steps before the put leave the accounts alone. *)
LEMMA AccountRead ==
  ASSUME Inv, AccountInv, NEW p \in Procs,
         Begin(p) \/ Fetch(p) \/ ReadHead(p) \/ ReadPrior(p) \/ ReadNextRev(p)
         \/ FetchFails(p)
  PROVE  AccountInv'
<1>1. /\ proc \in [Procs -> ProcState] /\ proc[p] \in ProcState
      /\ Owes(proc[p]) = {} /\ Reporting(proc[p]) = {}
  BY NothingOwed DEF Inv, TypeOK, Begin, BeginCheck, BeginCheckWithoutStore,
     BeginSnapshot, Fetch, ReadHead, ReadPrior, ReadNextRev, FetchFails, At
<1>2. proc[p].cmd = "snapshot" =>
        proc[p].todo = {} /\ proc[p].pc \in {"fetch", "next_rev", "put"}
  BY DEF AccountInv, SnapshotHoldsNothing
<1>3. UNCHANGED <<seen, absorbed, delivered, lost>>
  BY DEF Begin, BeginCheck, BeginCheckWithoutStore, BeginSnapshot, Fetch, ReadHead,
     ReadPrior, ReadNextRev, FetchFails, storeVars, history
<1>4. \E q : /\ Goto(p, q)
             /\ q.cmd = "snapshot" => q.todo = {} /\ q.pc \in {"fetch", "next_rev", "put"}
  <2>1. Idle.cmd = "check"
    BY DEF Idle
  <2>2. CASE Begin(p)
    <3>1. ASSUME NEW t \in Targets, NEW peek \in BOOLEAN, NEW m \in MinSaliences
          PROVE  [Idle EXCEPT !.pc = "fetch", !.tid = t, !.peek = peek, !.min = m].cmd = "check"
      BY DEF Idle
    <3>2. ASSUME NEW t \in Targets, NEW m \in MinSaliences
          PROVE  [Idle EXCEPT !.pc = "fetch", !.tid = t, !.disk = FALSE, !.min = m].cmd = "check"
      BY DEF Idle
    <3>3. ASSUME NEW t \in Targets
          PROVE  LET q == [Idle EXCEPT !.pc = "fetch", !.tid = t, !.cmd = "snapshot"]
                 IN  q.todo = {} /\ q.pc = "fetch"
      BY DEF Idle
    <3>4. CASE \E t \in Targets, peek \in BOOLEAN, m \in MinSaliences :
                 BeginCheck(p, t, peek, m)
      BY <3>1, <3>4 DEF BeginCheck
    <3>5. CASE \E t \in Targets, m \in MinSaliences : BeginCheckWithoutStore(p, t, m)
      BY <3>2, <3>5 DEF BeginCheckWithoutStore
    <3>6. CASE \E t \in Targets : BeginSnapshot(p, t)
      BY <3>3, <3>6 DEF BeginSnapshot
    <3> QED  BY <2>2, <3>4, <3>5, <3>6 DEF Begin
  <2>3. CASE Fetch(p)
    <3> DEFINE q == [proc[p] EXCEPT !.body = page[proc[p].tid],
                       !.pc = IF proc[p].cmd = "check" THEN "head" ELSE "next_rev"]
    <3>1. Goto(p, q)
      BY <2>3 DEF Fetch
    <3>2. q.cmd = "snapshot" => q.todo = {} /\ q.pc = "next_rev"
      BY <1>1, <1>2 DEF ProcState
    <3> HIDE DEF q
    <3> QED  BY <3>1, <3>2
  <2>4. CASE ReadHead(p)
    <3>1. proc[p].cmd = "check"
      BY <1>1, <1>2, <2>4 DEF ReadHead, At, ProcState
    <3> WITNESS [proc[p] EXCEPT
          !.head = IF proc[p].disk THEN HeadRev(versions[proc[p].tid]) ELSE NoRev,
          !.pc = "prior"]
    <3> QED  BY <1>1, <2>4, <3>1 DEF ReadHead, ProcState
  <2>5. CASE ReadPrior(p)
    <3>1. proc[p].cmd = "check"
      BY <1>1, <1>2, <2>5 DEF ReadPrior, At, ProcState
    <3> DEFINE q == proc[p]
               read == IF q.head = NoRev THEN NoDoc ELSE SnapshotAt(versions[q.tid], q.head)
               seenIt == Observe(read, q.body, q.min)
               store == [q EXCEPT !.prior = read,
                                  !.rev = RevToWrite(read, q.head),
                                  !.todo = seenIt.events, !.pc = "put"]
               probe == [q EXCEPT !.prior = read, !.kept = seenIt.events, !.pc = "print"]
    <3>2. Finish(p) \/ Goto(p, store) \/ Goto(p, probe)
      <4> HIDE DEF seenIt
      <4> QED  BY <2>5 DEF ReadPrior, seenIt
    <3>3. store.cmd = "check" /\ probe.cmd = "check"
      <4> HIDE DEF read, seenIt
      <4> QED  BY <1>1, <3>1 DEF ProcState
    <3> QED  BY <2>1, <3>2, <3>3 DEF Finish
  <2>6. CASE ReadNextRev(p)
    <3> WITNESS [proc[p] EXCEPT !.rev = nextRev[proc[p].tid], !.pc = "put"]
    <3> QED  BY <1>1, <1>2, <2>6 DEF ReadNextRev, ProcState
  <2>7. CASE FetchFails(p)
    BY <2>1, <2>7 DEF FetchFails, Finish
  <2> QED  BY <2>2, <2>3, <2>4, <2>5, <2>6, <2>7
<1> QED  BY <1>1, <1>3, <1>4, AccountKept

(* A put moves a change from the page to what the process owes. *)
LEMMA AccountPut ==
  ASSUME Inv, AccountInv, NEW p \in Procs, Put(p)
  PROVE  AccountInv'
<1> DEFINE q == proc[p]
           report == [q EXCEPT !.pc = "print"]
           dedup == [q EXCEPT !.pc = "dedup"]
           new == {Transition(q.tid, e) : e \in q.todo}
<1>1. /\ proc \in [Procs -> ProcState] /\ q \in ProcState /\ q.pc = "put" /\ Writes(q)
      /\ q.cmd = "snapshot" => q.todo = {}
  BY DEF Inv, TypeOK, PlansOK, PlanOK, AccountInv, SnapshotHoldsNothing, Put, At
<1>2. Owes(q) = {} /\ Reporting(q) = {}
  BY <1>1, NothingOwed
<1>3. /\ absorbed' = absorbed \cup new /\ UNCHANGED <<seen, delivered, lost>>
      /\ \/ q.cmd = "snapshot" /\ Goto(p, Idle)
         \/ q.cmd = "check" /\ (Goto(p, report) \/ Goto(p, dedup))
  BY DEF Put, Finish
<1>4. PICK r : /\ Goto(p, r) /\ r.cmd = "check" /\ new \subseteq Owes(r)
  <2>1. CASE q.cmd = "snapshot" /\ Goto(p, Idle)
    BY <1>1, <2>1 DEF Idle
  <2>2. report.cmd = q.cmd /\ dedup.cmd = q.cmd
    BY <1>1 DEF ProcState
  <2>3. new \subseteq Owes(report) /\ new \subseteq Owes(dedup)
    BY <1>1 DEF Owes, Writes, ProcState
  <2> QED  BY <1>3, <2>1, <2>2, <2>3
<1>5. Accounted \subseteq Accounted' /\ SpokenFor \subseteq SpokenFor'
  BY <1>1, <1>2, <1>3, <1>4, DebtsKept
<1>6. new \subseteq Accounted'
  BY <1>1, <1>4 DEF Accounted, Goto
<1>7. Keys(absorbed') \subseteq Keys(Accounted')
  <2>1. Keys(absorbed) \subseteq Keys(Accounted') /\ Keys(new) \subseteq Keys(Accounted')
    BY <1>5, <1>6, KeysGrow DEF AccountInv, AbsorbedIsAccounted
  <2> QED  BY <1>3, <2>1 DEF Keys
<1>8. Range(seen') \subseteq Keys(SpokenFor')
  BY <1>3, <1>5, KeysGrow DEF AccountInv, SeenIsAccounted
<1>9. SnapshotHoldsNothing'
  BY <1>1, <1>4 DEF AccountInv, SnapshotHoldsNothing, Goto
<1> QED  BY <1>7, <1>8, <1>9 DEF AccountInv, AbsorbedIsAccounted, SeenIsAccounted, Keys

(* An event is dropped only when its key was accounted for already. *)
LEMMA AccountDedup ==
  ASSUME Inv, AccountInv, NEW p \in Procs,
         \/ \E e \in proc[p].todo : Suppress(p, e) \/ FindUnseen(p, e) \/ KeepUnkeyed(p, e)
         \/ Mark(p) \/ EndDedup(p)
  PROVE  AccountInv'
<1> DEFINE t == proc[p].tid
           Of(events) == {Transition(t, e) : e \in events}
<1>1. /\ proc \in [Procs -> ProcState] /\ proc[p] \in ProcState /\ Writes(proc[p])
      /\ proc[p].pc \in {"dedup", "mark"} /\ proc[p].cmd = "check"
      /\ PlanOK(proc[p], nextRev) /\ t \in Targets /\ proc[p].todo \subseteq Event
  BY DEF Inv, TypeOK, PlansOK, PlanOK, AccountInv, SnapshotHoldsNothing, ProcState,
     Suppress, FindUnseen, KeepUnkeyed, Mark, EndDedup, At
<1>2. Owes(proc[p]) = Of(proc[p].todo \cup proc[p].kept) /\ Reporting(proc[p]) = Of(proc[p].kept)
  BY <1>1 DEF Owes, Reporting
<1>3. ASSUME NEW e \in proc[p].todo, Suppress(p, e)
      PROVE  AccountInv'
  <2> DEFINE q == [proc[p] EXCEPT !.todo = @ \ {e}]
  <2>1. /\ Goto(p, q) /\ UNCHANGED <<seen, absorbed, delivered, lost>>
        /\ EventKey(t, e) \in Range(seen)
    BY <1>3 DEF Suppress, storeVars, history, SeenEvent
  <2>2. /\ q.cmd = "check" /\ q.tid = t /\ q.kept = proc[p].kept /\ q.pc = proc[p].pc
        /\ q.todo = proc[p].todo \ {e} /\ Writes(q)
    BY <1>1 DEF ProcState, Writes
  <2>3. /\ Owes(q) = Of((proc[p].todo \ {e}) \cup proc[p].kept)
        /\ Reporting(q) = Of(proc[p].kept)
    <3> HIDE DEF q
    <3> QED  BY <1>1, <2>2 DEF Owes, Reporting
  <2> HIDE DEF q
  <2>4. SpokenFor \subseteq SpokenFor' /\ SpokenFor' \subseteq Accounted'
    <3>1. proc'[p] = q /\ \A r \in Procs : r # p => proc'[r] = proc[r]
      BY <1>1, <2>1 DEF Goto
    <3>2. \A r \in Procs : Reporting(proc'[r]) = Reporting(proc[r])
      BY <1>2, <2>3, <3>1
    <3>3. \A r \in Procs : Reporting(proc'[r]) \subseteq Owes(proc'[r])
      BY DEF Reporting, Owes
    <3>4. SpokenFor \subseteq SpokenFor'
      BY <2>1, <3>2 DEF SpokenFor
    <3>5. SpokenFor' \subseteq Accounted'
      BY <3>3 DEF SpokenFor, Accounted
    <3> QED  BY <3>4, <3>5
  <2>5. Keys(SpokenFor) \subseteq Keys(SpokenFor') /\ Keys(SpokenFor') \subseteq Keys(Accounted')
    BY <2>4, KeysGrow
  <2>6. EventKey(t, e) \in Keys(Accounted')
    BY <2>1, <2>5 DEF AccountInv, SeenIsAccounted
  <2>7. Accounted \subseteq Accounted' \cup {Transition(t, e)}
    <3>1. proc'[p] = q /\ \A r \in Procs : r # p => proc'[r] = proc[r]
      BY <1>1, <2>1 DEF Goto
    <3>2. \A r \in Procs : Owes(proc[r]) \subseteq Owes(proc'[r]) \cup {Transition(t, e)}
      BY <1>2, <2>3, <3>1
    <3> QED  BY <2>1, <3>2 DEF Accounted
  <2>8. Keys(Accounted) \subseteq Keys(Accounted')
    BY <2>6, <2>7 DEF Keys, EventKey
  <2>9. SnapshotHoldsNothing'
    BY <1>1, <2>1, <2>2 DEF AccountInv, SnapshotHoldsNothing, Goto
  <2>10. Keys(absorbed') \subseteq Keys(Accounted') /\ Range(seen') \subseteq Keys(SpokenFor')
    BY <2>1, <2>5, <2>8 DEF AccountInv, AbsorbedIsAccounted, SeenIsAccounted
  <2> QED  BY <2>9, <2>10 DEF AccountInv, AbsorbedIsAccounted, SeenIsAccounted, Keys
<1>4. ASSUME NEW e \in proc[p].todo, FindUnseen(p, e)
      PROVE  AccountInv'
  <2> DEFINE q == [proc[p] EXCEPT !.cur = {e}, !.pc = "mark"]
  <2>1. Goto(p, q) /\ UNCHANGED <<seen, absorbed, delivered, lost>>
    BY <1>4 DEF FindUnseen, storeVars, history
  <2>2. /\ q.cmd = "check" /\ q.tid = t /\ q.kept = proc[p].kept /\ q.pc = "mark"
        /\ q.todo = proc[p].todo /\ Writes(q)
    BY <1>1 DEF ProcState, Writes
  <2> HIDE DEF q
  <2>3. Owes(q) = Owes(proc[p]) /\ Reporting(q) = Reporting(proc[p])
    BY <1>1, <1>2, <2>2 DEF Owes, Reporting
  <2> QED  BY <1>1, <2>1, <2>2, <2>3, AccountKept
<1>5. ASSUME NEW e \in proc[p].todo, KeepUnkeyed(p, e)
      PROVE  AccountInv'
  <2> DEFINE q == [proc[p] EXCEPT !.todo = @ \ {e}, !.kept = @ \cup {e}]
  <2>1. Goto(p, q) /\ UNCHANGED <<seen, absorbed, delivered, lost>>
    BY <1>5 DEF KeepUnkeyed, storeVars, history
  <2>2. /\ q.cmd = "check" /\ q.tid = t /\ q.kept = proc[p].kept \cup {e}
        /\ q.pc = proc[p].pc /\ q.todo = proc[p].todo \ {e} /\ Writes(q)
    BY <1>1 DEF ProcState, Writes
  <2> HIDE DEF q
  <2>3. Owes(proc[p]) \subseteq Owes(q) /\ Reporting(proc[p]) \subseteq Reporting(q)
    BY <1>1, <1>2, <2>2 DEF Owes, Reporting
  <2> QED  BY <1>1, <2>1, <2>2, <2>3, AccountKept
<1>6. CASE Mark(p)
  <2>1. PICK e \in proc[p].cur :
          /\ seen' = MarkEvent(seen, EventKey(t, e))
          /\ Goto(p, [proc[p] EXCEPT !.todo = @ \ {e}, !.kept = @ \cup {e},
                                     !.cur = {}, !.pc = "dedup"])
    BY <1>6 DEF Mark
  <2> DEFINE q == [proc[p] EXCEPT !.todo = @ \ {e}, !.kept = @ \cup {e},
                                  !.cur = {}, !.pc = "dedup"]
  <2>2. e \in proc[p].todo /\ e \in Event /\ Keyed(e)
    BY <1>1, <1>6 DEF PlanOK, Mark, At
  <2>3. Range(seen') \subseteq Range(seen) \cup {EventKey(t, e)}
    BY <1>1, <2>1, <2>2, TransitionType, MarkedKeys DEF Inv, TypeOK
  <2>4. Goto(p, q) /\ UNCHANGED <<absorbed, delivered, lost>>
    BY <1>6, <2>1 DEF Mark, history
  <2>5. /\ q.cmd = "check" /\ q.tid = t /\ q.kept = proc[p].kept \cup {e}
        /\ q.pc = "dedup" /\ q.todo = proc[p].todo \ {e} /\ Writes(q)
    BY <1>1 DEF ProcState, Writes
  <2> HIDE DEF q
  <2>6. /\ Owes(proc[p]) \subseteq Owes(q) /\ Reporting(proc[p]) \subseteq Reporting(q)
        /\ Transition(t, e) \in Reporting(q)
    BY <1>1, <1>2, <2>2, <2>5 DEF Owes, Reporting
  <2>7. Accounted \subseteq Accounted' /\ SpokenFor \subseteq SpokenFor'
    BY <1>1, <2>4, <2>6, DebtsKept
  <2>8. Transition(t, e) \in SpokenFor'
    BY <1>1, <2>4, <2>6 DEF SpokenFor, Goto
  <2>9. Range(seen') \subseteq Keys(SpokenFor')
    <3>1. Keys(SpokenFor) \subseteq Keys(SpokenFor')
      BY <2>7, KeysGrow
    <3>2. EventKey(t, e) \in Keys(SpokenFor')
      BY <2>8 DEF Keys, EventKey
    <3> QED  BY <2>3, <3>1, <3>2 DEF AccountInv, SeenIsAccounted
  <2>10. Keys(absorbed') \subseteq Keys(Accounted')
    BY <2>4, <2>7, KeysGrow DEF AccountInv, AbsorbedIsAccounted
  <2>11. SnapshotHoldsNothing'
    BY <1>1, <2>4, <2>5 DEF AccountInv, SnapshotHoldsNothing, Goto
  <2> QED  BY <2>9, <2>10, <2>11 DEF AccountInv, AbsorbedIsAccounted, SeenIsAccounted, Keys
<1>7. CASE EndDedup(p)
  <2>1. UNCHANGED <<seen, absorbed, delivered, lost>> /\ proc[p].todo = {}
    BY <1>7 DEF EndDedup, storeVars, history
  <2>2. CASE proc[p].kept = {} /\ Goto(p, Idle)
    <3>1. Owes(proc[p]) = {} /\ Reporting(proc[p]) = {} /\ Idle.cmd = "check"
      BY <1>2, <2>1, <2>2 DEF Idle
    <3> QED  BY <1>1, <2>1, <2>2, <3>1, AccountKept
  <2>3. CASE Goto(p, [proc[p] EXCEPT !.pc = "print"])
    <3> DEFINE q == [proc[p] EXCEPT !.pc = "print"]
    <3>1. /\ q.cmd = "check" /\ q.tid = t /\ q.kept = proc[p].kept /\ q.pc = "print"
          /\ q.todo = proc[p].todo /\ Writes(q)
      BY <1>1 DEF ProcState, Writes
    <3> HIDE DEF q
    <3>2. Owes(q) = Owes(proc[p]) /\ Reporting(q) = Reporting(proc[p])
      BY <1>1, <1>2, <3>1 DEF Owes, Reporting
    <3> QED  BY <1>1, <2>1, <2>3, <3>1, <3>2, AccountKept DEF q
  <2> QED  BY <1>7, <2>2, <2>3 DEF EndDedup, Finish
<1> QED  BY <1>3, <1>4, <1>5, <1>6, <1>7

(* Printing pays the debts of a process, a kill records them as lost. *)
LEMMA AccountEnd ==
  ASSUME Inv, AccountInv, NEW p \in Procs, Emit(p) \/ Abort(p)
  PROVE  AccountInv'
<1>1. /\ proc \in [Procs -> ProcState] /\ Goto(p, Idle) /\ Idle.cmd = "check"
      /\ absorbed' = absorbed /\ seen' = seen
  BY DEF Inv, TypeOK, Emit, Abort, Finish, storeVars, Idle
<1>2. /\ delivered \subseteq delivered' /\ lost \subseteq lost'
      /\ Owes(proc[p]) \subseteq delivered' \cup lost'
  BY DEF Emit, Abort
<1>3. Reporting(proc[p]) \subseteq Owes(proc[p])
  BY DEF Reporting, Owes
<1> QED  BY <1>1, <1>2, <1>3, AccountKept

(* The accounts speak of nothing else. *)
LEMMA AccountFrame ==
  ASSUME AccountInv, UNCHANGED <<seen, proc, absorbed, delivered, lost>>
  PROVE  AccountInv'
BY DEF AccountInv, SnapshotHoldsNothing, SeenIsAccounted, AbsorbedIsAccounted, Keys,
       SpokenFor, Accounted

(* Every step keeps the accounts. *)
LEMMA AccountNext == Inv /\ AccountInv /\ [Next]_vars => AccountInv'
<1> SUFFICES ASSUME Inv, AccountInv, [Next]_vars  PROVE AccountInv'
  OBVIOUS
<1>1. ASSUME NEW t \in Targets, NEW doc \in Pages, EditPage(t, doc)
      PROVE  AccountInv'
  BY <1>1, AccountFrame DEF EditPage, storeVars, history
<1>2. ASSUME NEW p \in Procs, Begin(p) \/ Step(p) \/ FetchFails(p) \/ Abort(p)
      PROVE  AccountInv'
  BY <1>2, AccountRead, AccountPut, AccountDedup, AccountEnd DEF Step
<1>3. CASE UNCHANGED vars
  BY <1>3, AccountFrame DEF vars
<1> QED  BY <1>1, <1>2, <1>3 DEF Next

(* At first nothing is absorbed and nothing is seen. *)
LEMMA AccountInit == Init => AccountInv
<1> SUFFICES ASSUME Init PROVE AccountInv
  OBVIOUS
<1>1. absorbed = {} /\ Range(seen) = {}
  BY DEF Init, Range
<1>2. SnapshotHoldsNothing
  BY DEF Init, SnapshotHoldsNothing, Idle
<1> QED  BY <1>1, <1>2 DEF AccountInv, SeenIsAccounted, AbsorbedIsAccounted, Keys

(***************************************************************************)
(* Every key in the seen-set belongs to an event that was printed, is held *)
(* for printing, or was held by a process that died: for any number of     *)
(* processes racing through the deduplication, and with keys evicted.      *)
(***************************************************************************)
THEOREM MarksAreAccounted == Spec => []SeenIsAccounted
<1>1. AccountInv => SeenIsAccounted
  BY DEF AccountInv
<1> QED  BY <1>1, AccountInit, AccountNext, Invariance, PTL DEF Spec

(***************************************************************************)
(* No change that a stored version absorbed is dropped in silence: one     *)
(* with its key was printed, will be, or died with its process.            *)
(***************************************************************************)
THEOREM NothingUnaccounted == Spec => []AbsorbedIsAccounted
<1>1. AccountInv => AbsorbedIsAccounted
  BY DEF AccountInv
<1> QED  BY <1>1, AccountInit, AccountNext, Invariance, PTL DEF Spec

----------------------------------------------------------------------------
(***************************************************************************)
(* --min-salience.  The guard's event escapes the gate, so what is proved  *)
(* is bounded by its materiality: with a threshold of at most High nothing *)
(* below the threshold is ever kept.  At Critical it is not true.          *)
(***************************************************************************)
MeetsThreshold(q) ==
  /\ q.min <= High
  /\ \A e \in q.todo \cup q.kept : e.mat >= q.min

ThresholdInv == \A p \in Procs : MeetsThreshold(proc[p])

(* What an observation lets through is at the threshold or above it. *)
LEMMA ObservedMeetsThreshold ==
  ASSUME NEW prior, NEW new, NEW m \in Materiality, m <= High,
         NEW e \in Observe(prior, new, m).events
  PROVE  e.mat >= m
<1>1. CASE prior = NoDoc
  BY <1>1 DEF Observe, Outcome
<1>2. CASE prior # NoDoc
  <2>1. GuardEvent.mat >= m
    BY DEF GuardEvent, High, Materiality
  <2>2. e = GuardEvent \/ e \in Material(ScoredEvents(prior, new), m)
    BY <1>2 DEF Observe, Outcome
  <2> QED  BY <2>1, <2>2 DEF Material
<1> QED  BY <1>1, <1>2

(* Between commands there is nothing to report and no threshold. *)
LEMMA IdleMeetsThreshold == MeetsThreshold(Idle)
BY DEF MeetsThreshold, Idle, High, None

(* One process moves and still meets its threshold. *)
LEMMA ThresholdKept ==
  ASSUME Inv, ThresholdInv, NEW p \in Procs, NEW q, Goto(p, q), MeetsThreshold(q)
  PROVE  ThresholdInv'
<1>1. proc \in [Procs -> ProcState] /\ proc' = [proc EXCEPT ![p] = q]
  BY DEF Inv, TypeOK, Goto
<1>2. ASSUME NEW r \in Procs  PROVE MeetsThreshold(proc'[r])
  BY <1>1 DEF ThresholdInv
<1> QED  BY <1>2 DEF ThresholdInv, MeetsThreshold

(* A step that gathers no new event keeps the thresholds. *)
LEMMA ThresholdSame ==
  ASSUME Inv, ThresholdInv, NEW p \in Procs, NEW q, Goto(p, q),
         q.min = proc[p].min, q.todo \cup q.kept \subseteq proc[p].todo \cup proc[p].kept
  PROVE  ThresholdInv'
<1>1. MeetsThreshold(q)
  BY DEF ThresholdInv, MeetsThreshold
<1> QED  BY <1>1, ThresholdKept

(* Every step of a process keeps the thresholds. *)
LEMMA ThresholdStep ==
  ASSUME Inv, ThresholdInv, NEW p \in Procs, Step(p)
  PROVE  ThresholdInv'
<1>1. proc[p] \in ProcState /\ PlanOK(proc[p], nextRev)
  BY DEF Inv, TypeOK, PlansOK
<1>2. CASE Fetch(p)
  <2>1. PICK pc \in PC : Goto(p, [proc[p] EXCEPT !.body = page[proc[p].tid], !.pc = pc])
    BY <1>2 DEF Fetch, PC
  <2> QED  BY <1>1, <2>1, ThresholdSame DEF ProcState
<1>3. CASE ReadHead(p)
  <2>1. PICK head : Goto(p, [proc[p] EXCEPT !.head = head, !.pc = "prior"])
    BY <1>3 DEF ReadHead
  <2> QED  BY <1>1, <2>1, ThresholdSame DEF ProcState
<1>4. CASE ReadPrior(p)
  <2> DEFINE q == proc[p]
             read == IF q.head = NoRev THEN NoDoc ELSE SnapshotAt(versions[q.tid], q.head)
             seenIt == Observe(read, q.body, q.min)
             store == [q EXCEPT !.prior = read,
                                !.rev = RevToWrite(read, q.head),
                                !.todo = seenIt.events, !.pc = "put"]
             probe == [q EXCEPT !.prior = read, !.kept = seenIt.events, !.pc = "print"]
  <2>1. q \in ProcState /\ q.min \in Materiality /\ MeetsThreshold(q)
    BY <1>1 DEF ProcState, ThresholdInv
  <2>2. \A e \in seenIt.events : e.mat >= q.min
    BY <2>1, ObservedMeetsThreshold DEF MeetsThreshold
  <2>3. Finish(p) \/ Goto(p, store) \/ Goto(p, probe)
    <3> HIDE DEF seenIt
    <3> QED  BY <1>4 DEF ReadPrior, seenIt
  <2> HIDE DEF seenIt, read
  <2>4. MeetsThreshold(store) /\ MeetsThreshold(probe)
    BY <2>1, <2>2 DEF MeetsThreshold, ProcState
  <2> QED  BY <2>3, <2>4, IdleMeetsThreshold, ThresholdKept DEF Finish
<1>5. CASE ReadNextRev(p)
  <2>1. PICK rev : Goto(p, [proc[p] EXCEPT !.rev = rev, !.pc = "put"])
    BY <1>5 DEF ReadNextRev
  <2> QED  BY <1>1, <2>1, ThresholdSame DEF ProcState
<1>6. CASE Put(p)
  <2>1. Finish(p) \/ \E pc \in PC : Goto(p, [proc[p] EXCEPT !.pc = pc])
    BY <1>6 DEF Put, PC
  <2>2. ASSUME NEW pc \in PC, Goto(p, [proc[p] EXCEPT !.pc = pc])
        PROVE  ThresholdInv'
    BY <1>1, <2>2, ThresholdSame DEF ProcState
  <2> QED  BY <2>1, <2>2, IdleMeetsThreshold, ThresholdKept DEF Finish
<1>7. ASSUME NEW e \in proc[p].todo,
             Suppress(p, e) \/ FindUnseen(p, e) \/ KeepUnkeyed(p, e)
      PROVE  ThresholdInv'
  <2>1. CASE Suppress(p, e)
    BY <1>1, <2>1, ThresholdSame DEF Suppress, ProcState
  <2>2. CASE FindUnseen(p, e)
    BY <1>1, <2>2, ThresholdSame DEF FindUnseen, ProcState
  <2>3. CASE KeepUnkeyed(p, e)
    BY <1>1, <2>3, ThresholdSame DEF KeepUnkeyed, ProcState
  <2> QED  BY <1>7, <2>1, <2>2, <2>3
<1>8. CASE Mark(p)
  <2>1. PICK e \in proc[p].cur :
          Goto(p, [proc[p] EXCEPT !.todo = @ \ {e}, !.kept = @ \cup {e},
                                  !.cur = {}, !.pc = "dedup"])
    BY <1>8 DEF Mark
  <2>2. e \in proc[p].todo
    BY <1>1, <1>8, <2>1 DEF PlanOK, Mark, At
  <2> QED  BY <1>1, <2>1, <2>2, ThresholdSame DEF ProcState
<1>9. CASE EndDedup(p)
  <2>1. CASE Goto(p, [proc[p] EXCEPT !.pc = "print"])
    BY <1>1, <2>1, ThresholdSame DEF ProcState
  <2> QED  BY <1>9, <2>1, IdleMeetsThreshold, ThresholdKept DEF EndDedup, Finish
<1>10. CASE Emit(p)
  BY <1>10, IdleMeetsThreshold, ThresholdKept DEF Emit, Finish
<1> QED  BY <1>2, <1>3, <1>4, <1>5, <1>6, <1>7, <1>8, <1>9, <1>10 DEF Step

(* Every step of the system keeps the thresholds. *)
LEMMA ThresholdNext ==
  ASSUME \A m \in MinSaliences : m <= High
  PROVE  Inv /\ ThresholdInv /\ [Next]_vars => ThresholdInv'
<1> SUFFICES ASSUME Inv, ThresholdInv, [Next]_vars  PROVE ThresholdInv'
  OBVIOUS
<1>1. CASE UNCHANGED proc
  BY <1>1 DEF ThresholdInv, MeetsThreshold
<1>2. ASSUME NEW p \in Procs, Begin(p)
      PROVE  ThresholdInv'
  <2>1. None <= High /\ Idle.todo = {} /\ Idle.kept = {} /\ Idle.min = None
    BY DEF Idle, None, High
  <2>2. PICK q : Goto(p, q) /\ q.todo = {} /\ q.kept = {} /\ q.min \in MinSaliences \cup {None}
    <3>1. ASSUME NEW t \in Targets, NEW peek \in BOOLEAN, NEW m \in MinSaliences,
                 BeginCheck(p, t, peek, m)
          PROVE  \E q : Goto(p, q) /\ q.todo = {} /\ q.kept = {}
                        /\ q.min \in MinSaliences \cup {None}
      <4> WITNESS [Idle EXCEPT !.pc = "fetch", !.tid = t, !.peek = peek, !.min = m]
      <4> QED  BY <3>1 DEF BeginCheck, Idle
    <3>2. ASSUME NEW t \in Targets, NEW m \in MinSaliences,
                 BeginCheckWithoutStore(p, t, m)
          PROVE  \E q : Goto(p, q) /\ q.todo = {} /\ q.kept = {}
                        /\ q.min \in MinSaliences \cup {None}
      <4> WITNESS [Idle EXCEPT !.pc = "fetch", !.tid = t, !.disk = FALSE, !.min = m]
      <4> QED  BY <3>2 DEF BeginCheckWithoutStore, Idle
    <3>3. ASSUME NEW t \in Targets, BeginSnapshot(p, t)
          PROVE  \E q : Goto(p, q) /\ q.todo = {} /\ q.kept = {}
                        /\ q.min \in MinSaliences \cup {None}
      <4> WITNESS [Idle EXCEPT !.pc = "fetch", !.tid = t, !.cmd = "snapshot"]
      <4> QED  BY <3>3 DEF BeginSnapshot, Idle
    <3> QED  BY <1>2, <3>1, <3>2, <3>3 DEF Begin
  <2>3. MeetsThreshold(q)
    BY <2>1, <2>2 DEF MeetsThreshold
  <2> QED  BY <2>2, <2>3, ThresholdKept
<1>3. ASSUME NEW p \in Procs, FetchFails(p) \/ Abort(p)
      PROVE  ThresholdInv'
  BY <1>3, IdleMeetsThreshold, ThresholdKept DEF FetchFails, Abort, Finish
<1> QED  BY <1>1, <1>2, <1>3, ThresholdStep DEF Next, EditPage, vars

(***************************************************************************)
(* With --min-salience at most high, no process ever holds an event below  *)
(* its threshold, through every interleaving, kill and stale read.         *)
(***************************************************************************)
THEOREM ThresholdUpToHigh ==
  ASSUME \A m \in MinSaliences : m <= High
  PROVE  Spec => []ReportsMeetThreshold
<1>1. Init => ThresholdInv
  BY IdleMeetsThreshold DEF Init, ThresholdInv
<1>2. ThresholdInv => ReportsMeetThreshold
  BY DEF ThresholdInv, MeetsThreshold, ReportsMeetThreshold
<1> QED  BY <1>1, <1>2, ThresholdNext, Invariance, PTL DEF Spec

----------------------------------------------------------------------------
(***************************************************************************)
(* A revision stands for a change, as long as checks do not overlap and    *)
(* nobody takes snapshots.  RevMeansChange is not inductive: the document  *)
(* a process is about to put must differ from the one it compared with,    *)
(* and that one must still be the entry below the planned revision.        *)
(***************************************************************************)
BringsChange(q, rows) ==
  q.pc = "put" /\ q.rev > 0 =>
    q.rev - 1 \in DOMAIN rows /\ rows[q.rev - 1] # q.body

OnlyChecks == \A p \in Procs : proc[p].cmd = "check"

ChangeInv ==
  /\ AllFresh /\ OnlyChecks /\ RevMeansChange
  /\ \A p \in Procs : BringsChange(proc[p], versions[proc[p].tid])

(* A page compared with itself has not changed. *)
LEMMA SamePageNoChange ==
  ASSUME NEW d \in Pages, NEW m \in Materiality
  PROVE  Observe(d, d, m).kind = "no_change"
<1>1. ScoredEvents(d, d) = {}
  BY DEF ScoredEvents, ChangedSlots
<1> QED  BY <1>1, PagesAreDocs DEF Observe, Outcome

(* Whatever starts or ends a process other than a snapshot leaves a check. *)
LEMMA PlanlessChecks ==
  ASSUME Inv, ChangeInv, NEW p, Procs = {p}, NEW q, Goto(p, q), AllFresh',
         q.cmd = "check", q.pc # "put", UNCHANGED <<versions, nextRev>>
  PROVE  ChangeInv'
<1>1. proc'[p] = q
  BY DEF Inv, TypeOK, Goto
<1>2. OnlyChecks' /\ BringsChange(proc'[p], versions'[proc'[p].tid])
  BY <1>1 DEF OnlyChecks, BringsChange
<1>3. RevMeansChange'
  BY DEF ChangeInv, RevMeansChange
<1> QED  BY <1>2, <1>3 DEF ChangeInv

(* What a check plans to put differs from the entry it will follow. *)
LEMMA ChangePlanned ==
  ASSUME Inv, ChangeInv, NEW p, Procs = {p}, ReadPrior(p), AllFresh'
  PROVE  ChangeInv'
<1> DEFINE q == proc[p]
           rows == versions[q.tid]
           read == IF q.head = NoRev THEN NoDoc ELSE SnapshotAt(rows, q.head)
           seenIt == Observe(read, q.body, q.min)
           store == [q EXCEPT !.prior = read,
                              !.rev = RevToWrite(read, q.head),
                              !.todo = seenIt.events, !.pc = "put"]
           probe == [q EXCEPT !.prior = read, !.kept = seenIt.events, !.pc = "print"]
<1>1. /\ q \in ProcState /\ q.pc = "prior" /\ q.tid \in Targets
      /\ q.min \in Materiality /\ q.body \in Pages /\ q.cmd = "check"
      /\ q.head \in Nat \cup {NoRev} /\ nextRev[q.tid] \in Nat
      /\ DOMAIN rows = Log!Window(nextRev[q.tid])
      /\ rows \in [Log!Window(nextRev[q.tid]) -> Pages]
      /\ proc \in [Procs -> ProcState] /\ Fresh(q, nextRev)
  BY DEF Inv, TypeOK, RowsOK, RingIsWindow, ProcState, PlansOK, PlanOK, ReadPrior, At,
         ChangeInv, OnlyChecks, AllFresh
<1>2. UNCHANGED <<versions, nextRev>>
  BY DEF ReadPrior, storeVars
<1>3. \/ Finish(p)
      \/ Goto(p, store) /\ Writes(q) /\ seenIt.kind # "no_change"
      \/ Goto(p, probe)
  <2> HIDE DEF seenIt
  <2> QED  BY DEF ReadPrior, seenIt
<1>4. CASE Finish(p)
  <2>1. Idle.cmd = "check" /\ Idle.pc # "put"
    BY DEF Idle
  <2> QED  BY <1>2, <1>4, <2>1, PlanlessChecks DEF Finish
<1>5. CASE Goto(p, probe)
  <2>1. probe.cmd = "check" /\ probe.pc # "put"
    <3> HIDE DEF seenIt, read
    <3> QED  BY <1>1 DEF ProcState
  <2> QED  BY <1>2, <1>5, <2>1, PlanlessChecks
<1>6. CASE Goto(p, store) /\ Writes(q) /\ seenIt.kind # "no_change"
  <2>1. CASE q.head = NoRev
    <3>1. read = NoDoc
      BY <2>1
    <3>2. RevToWrite(read, q.head) = 0
      BY <3>1 DEF RevToWrite
    <3> QED  BY <1>1, <1>2, <1>6, <3>2
             DEF ProcState, Goto, ChangeInv, OnlyChecks, BringsChange, RevMeansChange
  <2>2. CASE q.head # NoRev
    <3>1. q.head = nextRev[q.tid] - 1 /\ q.head \in Nat
      BY <1>1, <1>6, <2>2 DEF Fresh, Writes
    <3>2. q.head \in DOMAIN rows
      BY <1>1, <3>1, RingNAssumption DEF Log!Window
    <3>3. read = rows[q.head] /\ read \in Pages
      BY <1>1, <2>2, <3>2 DEF SnapshotAt
    <3>4. read # q.body
      BY <1>1, <1>6, <3>3, SamePageNoChange
    <3>5. RevToWrite(read, q.head) = q.head + 1
      BY <3>3, PagesAreDocs DEF RevToWrite
    <3> HIDE DEF seenIt, read, rows
    <3>6. /\ store.rev = q.head + 1 /\ store.body = q.body /\ store.tid = q.tid
          /\ store.cmd = "check"
      BY <1>1, <3>5 DEF ProcState
    <3> HIDE DEF store
    <3>7. BringsChange(store, rows)
      BY <3>1, <3>2, <3>3, <3>4, <3>6 DEF BringsChange
    <3>8. proc'[p] = store /\ versions'[store.tid] = rows
      BY <1>1, <1>2, <1>6, <3>6 DEF Goto, rows
    <3>9. RevMeansChange'
      BY <1>2 DEF ChangeInv, RevMeansChange
    <3> QED  BY <3>6, <3>7, <3>8, <3>9 DEF ChangeInv, OnlyChecks
  <2> QED  BY <2>1, <2>2
<1> QED  BY <1>3, <1>4, <1>5, <1>6

(* The put appends what was planned, and it differs from its neighbour. *)
LEMMA ChangePut ==
  ASSUME Inv, ChangeInv, NEW p, Procs = {p}, Put(p), AllFresh'
  PROVE  ChangeInv'
<1>1. PICK t \in Targets, n \in Nat, body \in Pages \cup {NoDoc} :
        /\ t = proc[p].tid /\ n = nextRev[t] /\ body = proc[p].body
        /\ proc[p].rev = n /\ DOMAIN versions[t] = Log!Window(n)
        /\ proc[p] \in ProcState /\ proc \in [Procs -> ProcState]
        /\ proc[p].cmd = "check"
        /\ n > 0 => n - 1 \in DOMAIN versions[t] /\ versions[t][n - 1] # body
  BY DEF Inv, TypeOK, ProcState, RingIsWindow, Put, At, ChangeInv, OnlyChecks, AllFresh,
         Fresh, BringsChange
<1>2. versions' = [versions EXCEPT ![t] =
        [r \in Log!Window(n + 1) |-> IF r = n THEN body ELSE versions[t][r]]]
  <2>1. PutRows(versions[t], n, body) =
          [r \in Log!Window(n + 1) |-> IF r = n THEN body ELSE versions[t][r]]
    BY <1>1, PutNext
  <2>2. versions' = [versions EXCEPT ![t] = PutRows(versions[t], n, body)]
    BY <1>1 DEF Put
  <2> QED  BY <2>1, <2>2
<1>3. RevMeansChange'
  <2>1. ASSUME NEW u \in Targets, NEW r \in DOMAIN versions'[u],
               r + 1 \in DOMAIN versions'[u]
        PROVE  versions'[u][r] # versions'[u][r + 1]
    <3>1. versions = [x \in Targets |-> versions[x]]
      BY DEF Inv, TypeOK
    <3>2. CASE u # t
      BY <2>1, <3>1, <3>2, <1>2 DEF ChangeInv, RevMeansChange
    <3>3. CASE u = t
      <4>1. versions'[u] =
              [x \in Log!Window(n + 1) |-> IF x = n THEN body ELSE versions[t][x]]
        BY <3>1, <3>3, <1>2
      <4>2. r \in Log!Window(n + 1) /\ r + 1 \in Log!Window(n + 1)
        BY <2>1, <4>1
      <4>3. r \in Nat /\ r < n /\ r + 1 <= n
        BY <1>1, <4>2 DEF Log!Window
      <4>4. CASE r + 1 = n
        <5>1. r = n - 1 /\ n > 0
          BY <1>1, <4>3, <4>4
        <5> QED  BY <1>1, <4>1, <4>2, <4>3, <4>4, <5>1
      <4>5. CASE r + 1 # n
        <5>1. r \in DOMAIN versions[t] /\ r + 1 \in DOMAIN versions[t]
          BY <1>1, <4>2, <4>3, <4>5, RingNAssumption DEF Log!Window
        <5>2. versions[t][r] # versions[t][r + 1]
          BY <1>1, <5>1 DEF ChangeInv, RevMeansChange
        <5> QED  BY <4>1, <4>2, <4>3, <4>5, <5>2
      <4> QED  BY <4>4, <4>5
    <3> QED  BY <3>2, <3>3
  <2> QED  BY <2>1 DEF RevMeansChange
<1>4. proc'[p].cmd = "check" /\ proc'[p].pc # "put"
  BY <1>1 DEF Put, Finish, Goto, Idle, ProcState
<1> QED  BY <1>3, <1>4 DEF ChangeInv, OnlyChecks, BringsChange

(* Every step keeps it, when one process runs and none takes a snapshot. *)
LEMMA ChangeNext ==
  ASSUME OneAtATime, MaxSnapshots = 0
  PROVE  Inv /\ ChangeInv /\ [Next]_vars => ChangeInv'
<1> SUFFICES ASSUME Inv, ChangeInv, [Next]_vars  PROVE ChangeInv'
  OBVIOUS
<1>1. CASE UNCHANGED vars
  BY <1>1 DEF vars, ChangeInv, AllFresh, OnlyChecks, RevMeansChange
<1>2. ASSUME Next  PROVE AllFresh'
  BY <1>2, FreshNext DEF ChangeInv
<1>3. ASSUME NEW t \in Targets, NEW doc \in Pages, EditPage(t, doc)
      PROVE  ChangeInv'
  BY <1>3 DEF EditPage, storeVars, ChangeInv, AllFresh, OnlyChecks, RevMeansChange
<1>4. ASSUME NEW p \in Procs, Begin(p) \/ Step(p) \/ FetchFails(p) \/ Abort(p)
      PROVE  ChangeInv'
  <2>1. /\ Procs = {p} /\ AllFresh' /\ Inv' /\ proc[p].cmd = "check"
        /\ proc[p] \in ProcState /\ proc \in [Procs -> ProcState]
        /\ PlanOK(proc[p], nextRev)
    <3>1. Next
      BY <1>4 DEF Next
    <3> QED  BY <1>2, <1>4, <3>1, InvNext
             DEF OneAtATime, Inv, TypeOK, PlansOK, ChangeInv, OnlyChecks
  <2>2. CASE ReadPrior(p)
    BY <2>1, <2>2, ChangePlanned
  <2>3. CASE Put(p)
    BY <2>1, <2>3, ChangePut
  <2>4. CASE ~ReadPrior(p) /\ ~Put(p)
    <3>1. UNCHANGED <<versions, nextRev>>
      <4>1. Next /\ \A r \in Procs : ~Put(r)
        BY <1>4, <2>1, <2>4 DEF Next
      <4> QED  BY <4>1, OnlyPutWrites
    <3>2. \A t \in Targets : ~BeginSnapshot(p, t)
      BY DEF BeginSnapshot, Inv, TypeOK
    <3>3. ~ReadNextRev(p)
      BY <2>1 DEF ReadNextRev, At, PlanOK
    <3>4. Idle.cmd = "check" /\ Idle.pc = "idle"
      BY DEF Idle
    <3>5. ASSUME Begin(p)
          PROVE  proc'[p].cmd = "check" /\ proc'[p].pc # "put"
      <4>1. ASSUME NEW t \in Targets, NEW peek \in BOOLEAN, NEW m \in MinSaliences,
                   BeginCheck(p, t, peek, m)
            PROVE  proc'[p].cmd = "check" /\ proc'[p].pc # "put"
        BY <2>1, <4>1 DEF BeginCheck, Goto, Idle
      <4>2. ASSUME NEW t \in Targets, NEW m \in MinSaliences,
                   BeginCheckWithoutStore(p, t, m)
            PROVE  proc'[p].cmd = "check" /\ proc'[p].pc # "put"
        BY <2>1, <4>2 DEF BeginCheckWithoutStore, Goto, Idle
      <4> QED  BY <3>2, <3>5, <4>1, <4>2 DEF Begin
    <3>6. ASSUME Fetch(p) \/ ReadHead(p)
          PROVE  proc'[p].cmd = "check" /\ proc'[p].pc # "put"
      <4>1. ASSUME Fetch(p)
            PROVE  proc'[p].cmd = "check" /\ proc'[p].pc # "put"
        BY <2>1, <4>1 DEF Fetch, Goto, ProcState
      <4>2. ASSUME ReadHead(p)
            PROVE  proc'[p].cmd = "check" /\ proc'[p].pc # "put"
        BY <2>1, <4>2 DEF ReadHead, Goto, ProcState
      <4> QED  BY <3>6, <4>1, <4>2
    <3>7. ASSUME \E e \in proc[p].todo : Suppress(p, e) \/ FindUnseen(p, e) \/ KeepUnkeyed(p, e)
          PROVE  proc'[p].cmd = "check" /\ proc'[p].pc # "put"
      <4>1. PICK e \in proc[p].todo :
              Suppress(p, e) \/ FindUnseen(p, e) \/ KeepUnkeyed(p, e)
        BY <3>7
      <4>2. proc[p].pc = "dedup"
        BY <4>1 DEF Suppress, FindUnseen, KeepUnkeyed, At
      <4>3. ASSUME Suppress(p, e)
            PROVE  proc'[p].cmd = "check" /\ proc'[p].pc # "put"
        BY <2>1, <4>2, <4>3 DEF Suppress, Goto, ProcState
      <4>4. ASSUME FindUnseen(p, e)
            PROVE  proc'[p].cmd = "check" /\ proc'[p].pc # "put"
        BY <2>1, <4>4 DEF FindUnseen, Goto, ProcState
      <4>5. ASSUME KeepUnkeyed(p, e)
            PROVE  proc'[p].cmd = "check" /\ proc'[p].pc # "put"
        BY <2>1, <4>2, <4>5 DEF KeepUnkeyed, Goto, ProcState
      <4> QED  BY <4>1, <4>3, <4>4, <4>5
    <3>8. ASSUME Mark(p) \/ EndDedup(p)
          PROVE  proc'[p].cmd = "check" /\ proc'[p].pc # "put"
      <4>1. ASSUME Mark(p)
            PROVE  proc'[p].cmd = "check" /\ proc'[p].pc # "put"
        <5>1. PICK e \in proc[p].cur :
                Goto(p, [proc[p] EXCEPT !.todo = @ \ {e}, !.kept = @ \cup {e},
                                        !.cur = {}, !.pc = "dedup"])
          BY <4>1 DEF Mark
        <5> QED  BY <2>1, <5>1 DEF Goto, ProcState
      <4>2. ASSUME EndDedup(p)
            PROVE  proc'[p].cmd = "check" /\ proc'[p].pc # "put"
        <5>1. Finish(p) \/ Goto(p, [proc[p] EXCEPT !.pc = "print"])
          BY <4>2 DEF EndDedup
        <5>2. CASE Finish(p)
          BY <2>1, <3>4, <5>2 DEF Finish, Goto
        <5>3. CASE Goto(p, [proc[p] EXCEPT !.pc = "print"])
          BY <2>1, <5>3 DEF Goto, ProcState
        <5> QED  BY <5>1, <5>2, <5>3
      <4> QED  BY <3>8, <4>1, <4>2
    <3>9. ASSUME Emit(p) \/ FetchFails(p) \/ Abort(p)
          PROVE  proc'[p].cmd = "check" /\ proc'[p].pc # "put"
      <4>1. Finish(p)
        BY <3>9 DEF Emit, FetchFails, Abort
      <4> QED  BY <2>1, <3>4, <4>1 DEF Finish, Goto
    <3>10. /\ proc'[p].cmd = "check" /\ proc'[p].pc # "put"
      BY <1>4, <2>4, <3>3, <3>5, <3>6, <3>7, <3>8, <3>9 DEF Step
    <3>11. RevMeansChange'
      BY <3>1 DEF ChangeInv, RevMeansChange
    <3> QED  BY <2>1, <3>10, <3>11 DEF ChangeInv, OnlyChecks, BringsChange
  <2> QED  BY <2>2, <2>3, <2>4
<1> QED  BY <1>1, <1>3, <1>4 DEF Next

(***************************************************************************)
(* Checks that do not overlap, and no `cf snapshot': neighbouring          *)
(* revisions differ, for any ring size, page, ignore rule and threshold,   *)
(* and wherever a check was killed.                                        *)
(***************************************************************************)
THEOREM RevsMeanChanges ==
  ASSUME OneAtATime, MaxSnapshots = 0
  PROVE  Spec => []RevMeansChange
<1>1. Init => ChangeInv
  BY DEF Init, ChangeInv, AllFresh, Fresh, OnlyChecks, RevMeansChange, BringsChange,
         Idle, NoRows
<1>2. ChangeInv => RevMeansChange
  BY DEF ChangeInv
<1> QED  BY <1>1, <1>2, ChangeNext, Invariance, PTL DEF Spec

----------------------------------------------------------------------------
(***************************************************************************)
(* No transition twice.  That a printed key is in the seen-set is not      *)
(* inductive: what is held for printing must be marked, too, and not yet   *)
(* printed; an event between its query and its mark must still be new, and *)
(* that is where a second invocation would break it.                       *)
(***************************************************************************)
UntoldHeld(q, keys, told) ==
  Writes(q) =>
    \A e \in q.kept : Keyed(e) => EventKey(q.tid, e) \in keys \ told

NewBeforeMark(q, keys) ==
  q.pc = "mark" => \A e \in q.cur : EventKey(q.tid, e) \notin keys

HoldsInPhase(q) ==
  /\ q.pc \notin {"dedup", "mark", "print"} => q.kept = {}
  /\ q.pc \notin {"put", "dedup", "mark", "print"} => q.todo = {}
  /\ q.pc = "put" /\ q.prior = NoDoc => q.todo = {}
  /\ q.pc = "print" /\ Writes(q) => q.todo = {}

OnceOK(q, keys, told) ==
  HoldsInPhase(q) /\ UntoldHeld(q, keys, told) /\ NewBeforeMark(q, keys)

Told == Keys(Keyful(delivered))

OnceInv ==
  /\ Told \subseteq Range(seen)
  /\ \A p \in Procs : OnceOK(proc[p], Range(seen), Told)

(* No key leaves the seen-set. *)
Remembers == Range(seen) \subseteq Range(seen')

(* A key that was not there is there once it is marked. *)
LEMMA MarkedIsSeen ==
  ASSUME NEW S, NEW keys \in Seq(S), NEW k \in S, k \notin Range(keys)
  PROVE  k \in Range(MarkEvent(keys, k))
<1> DEFINE all == Append(keys, k)
           from == Len(all) - SeenN + 1
<1>1. /\ all \in Seq(S) /\ Len(all) = Len(keys) + 1 /\ all[Len(all)] = k
      /\ Len(all) \in Nat /\ DOMAIN all = 1..Len(all)
  OBVIOUS
<1>2. MarkEvent(keys, k) = KeepLast(all)
  BY DEF MarkEvent, SeenEvent
<1> HIDE DEF all
<1>3. CASE Len(all) <= SeenN
  <2>1. KeepLast(all) = all /\ Len(all) \in DOMAIN all
    BY <1>1, <1>3 DEF KeepLast
  <2> QED  BY <1>1, <1>2, <2>1 DEF Range
<1>4. CASE Len(all) > SeenN
  <2>1. from \in Int /\ from \in 1..Len(all) /\ Len(all) \in Int
    BY <1>1, <1>4, SeenNAssumption
  <2>2. \A i \in from..Len(all) : all[i] \in S
    BY <1>1, <2>1
  <2> DEFINE kept == SubSeq(all, from, Len(all))
             last == Len(all) - from + 1
  <2>3. /\ kept \in Seq(S) /\ Len(kept) = last
        /\ \A i \in 1..last : kept[i] = all[from + i - 1]
    BY <2>1, <2>2, SubSeqProperties
  <2>4. last \in 1..last /\ from + last - 1 = Len(all)
    BY <1>1, <2>1
  <2>5. KeepLast(all) = kept
    BY <1>1, <1>4, SeenNAssumption DEF KeepLast
  <2> HIDE DEF kept, last
  <2>6. last \in DOMAIN kept /\ kept[last] = k
    BY <1>1, <2>1, <2>3, <2>4
  <2> QED  BY <1>2, <2>5, <2>6 DEF Range
<1> QED  BY <1>1, <1>3, <1>4, SeenNAssumption

(* A process that holds nothing, or writes nothing, repeats nothing. *)
LEMMA NothingHeld ==
  ASSUME NEW q, NEW keys, NEW told, q.kept = {}, q.todo = {}, q.pc # "mark"
  PROVE  OnceOK(q, keys, told)
BY DEF OnceOK, HoldsInPhase, UntoldHeld, NewBeforeMark

(* With one process, its step is what is to be looked at. *)
LEMMA OnceMoves ==
  ASSUME proc \in [Procs -> ProcState], NEW p, Procs = {p}, NEW q, Goto(p, q),
         Told' \subseteq Range(seen'), OnceOK(q, Range(seen'), Told')
  PROVE  OnceInv'
BY DEF OnceInv, Goto

(* The same, when nothing is printed and nothing is marked. *)
LEMMA OnceQuiet ==
  ASSUME proc \in [Procs -> ProcState], OnceInv, NEW p, Procs = {p}, NEW q, Goto(p, q),
         UNCHANGED <<seen, delivered>>, OnceOK(q, Range(seen), Told)
  PROVE  OnceInv'
<1>1. Told' = Told /\ Range(seen') = Range(seen)
  BY DEF Told, Keys, Keyful
<1> QED  BY <1>1, OnceMoves DEF OnceInv

(* Up to the put a process holds what the pipeline found, and of a baseline *)
(* nothing.                                                                 *)
LEMMA OnceRead ==
  ASSUME Inv, OnceInv, NEW p, Procs = {p},
         Begin(p) \/ Fetch(p) \/ ReadHead(p) \/ ReadPrior(p) \/ ReadNextRev(p)
         \/ FetchFails(p)
  PROVE  OnceInv'
<1>1. /\ proc \in [Procs -> ProcState] /\ proc[p] \in ProcState
      /\ proc[p].pc \in {"idle", "fetch", "head", "prior", "next_rev"}
  BY DEF Inv, TypeOK, Begin, BeginCheck, BeginCheckWithoutStore,
     BeginSnapshot, Fetch, ReadHead, ReadPrior, ReadNextRev, FetchFails, At
<1>2. proc[p].kept = {} /\ proc[p].todo = {}
  BY <1>1 DEF OnceInv, OnceOK, HoldsInPhase
<1>3. UNCHANGED <<seen, delivered>>
  BY DEF Begin, BeginCheck, BeginCheckWithoutStore, BeginSnapshot, Fetch, ReadHead,
     ReadPrior, ReadNextRev, FetchFails, storeVars, history
<1>4. ASSUME NEW q, Goto(p, q), q.kept = {}, q.todo = {}, q.pc # "mark"
      PROVE  OnceInv'
  BY <1>1, <1>3, <1>4, NothingHeld, OnceQuiet
<1>5. Idle.kept = {} /\ Idle.todo = {} /\ Idle.pc = "idle"
  BY DEF Idle
<1>6. ASSUME NEW t \in Targets, NEW peek \in BOOLEAN, NEW m \in MinSaliences,
             BeginCheck(p, t, peek, m)
      PROVE  OnceInv'
  <2> DEFINE q == [Idle EXCEPT !.pc = "fetch", !.tid = t, !.peek = peek, !.min = m]
  <2>1. Goto(p, q) /\ q.kept = {} /\ q.todo = {} /\ q.pc = "fetch"
    BY <1>6 DEF BeginCheck, Idle
  <2> QED  BY <1>4, <2>1
<1>7. ASSUME NEW t \in Targets, NEW m \in MinSaliences, BeginCheckWithoutStore(p, t, m)
      PROVE  OnceInv'
  <2> DEFINE q == [Idle EXCEPT !.pc = "fetch", !.tid = t, !.disk = FALSE, !.min = m]
  <2>1. Goto(p, q) /\ q.kept = {} /\ q.todo = {} /\ q.pc = "fetch"
    BY <1>7 DEF BeginCheckWithoutStore, Idle
  <2> QED  BY <1>4, <2>1
<1>8. ASSUME NEW t \in Targets, BeginSnapshot(p, t)
      PROVE  OnceInv'
  <2> DEFINE q == [Idle EXCEPT !.pc = "fetch", !.tid = t, !.cmd = "snapshot"]
  <2>1. Goto(p, q) /\ q.kept = {} /\ q.todo = {} /\ q.pc = "fetch"
    BY <1>8 DEF BeginSnapshot, Idle
  <2> QED  BY <1>4, <2>1
<1>9. CASE Fetch(p)
  <2> DEFINE pc == IF proc[p].cmd = "check" THEN "head" ELSE "next_rev"
             q == [proc[p] EXCEPT !.body = page[proc[p].tid], !.pc = pc]
  <2>1. Goto(p, q) /\ pc # "mark"
    BY <1>9 DEF Fetch
  <2> HIDE DEF pc
  <2>2. q.kept = {} /\ q.todo = {} /\ q.pc = pc
    BY <1>1, <1>2 DEF ProcState
  <2> QED  BY <1>4, <2>1, <2>2
<1>10. CASE ReadHead(p)
  <2> DEFINE head == IF proc[p].disk THEN HeadRev(versions[proc[p].tid]) ELSE NoRev
             q == [proc[p] EXCEPT !.head = head, !.pc = "prior"]
  <2>1. Goto(p, q)
    BY <1>10 DEF ReadHead
  <2> HIDE DEF head
  <2>2. q.kept = {} /\ q.todo = {} /\ q.pc = "prior"
    BY <1>1, <1>2 DEF ProcState
  <2> QED  BY <1>4, <2>1, <2>2
<1>11. CASE ReadNextRev(p)
  <2> DEFINE q == [proc[p] EXCEPT !.rev = nextRev[proc[p].tid], !.pc = "put"]
  <2>1. Goto(p, q)
    BY <1>11 DEF ReadNextRev
  <2>2. q.kept = {} /\ q.todo = {} /\ q.pc = "put"
    BY <1>1, <1>2 DEF ProcState
  <2> QED  BY <1>4, <2>1, <2>2
<1>12. CASE FetchFails(p)
  BY <1>4, <1>5, <1>12 DEF FetchFails, Finish
<1>13. CASE ReadPrior(p)
  <2> DEFINE q == proc[p]
             read == IF q.head = NoRev THEN NoDoc ELSE SnapshotAt(versions[q.tid], q.head)
             found == Observe(read, q.body, q.min).events
             rev == RevToWrite(read, q.head)
             store == [q EXCEPT !.prior = read, !.rev = rev,
                                !.todo = found, !.pc = "put"]
             probe == [q EXCEPT !.prior = read, !.kept = found, !.pc = "print"]
  <2>1. Finish(p) \/ Goto(p, store) \/ (Goto(p, probe) /\ ~Writes(q))
    BY <1>13 DEF ReadPrior
  <2>2. read = NoDoc => found = {}
    BY DEF Observe, Outcome
  <2> HIDE DEF read, found, rev
  <2>3. OnceOK(store, Range(seen), Told)
    <3>1. store.kept = {} /\ store.todo = found /\ store.prior = read /\ store.pc = "put"
      BY <1>1, <1>2 DEF ProcState
    <3> HIDE DEF store
    <3> QED  BY <2>2, <3>1 DEF OnceOK, HoldsInPhase, UntoldHeld, NewBeforeMark
  <2>4. ~Writes(q) => OnceOK(probe, Range(seen), Told)
    <3>1. /\ probe.todo = {} /\ probe.pc = "print"
          /\ probe.disk = q.disk /\ probe.peek = q.peek
      BY <1>1, <1>2 DEF ProcState
    <3> HIDE DEF probe
    <3> QED  BY <3>1 DEF OnceOK, HoldsInPhase, UntoldHeld, NewBeforeMark, Writes
  <2> HIDE DEF store, probe
  <2> QED  BY <1>1, <1>3, <1>4, <1>5, <2>1, <2>3, <2>4, OnceQuiet DEF Finish
<1> QED  BY <1>6, <1>7, <1>8, <1>9, <1>10, <1>11, <1>12, <1>13 DEF Begin

(* A put prints nothing; after a baseline there is nothing to print. *)
LEMMA OncePut ==
  ASSUME Inv, OnceInv, NEW p, Procs = {p}, Put(p)
  PROVE  OnceInv'
<1> DEFINE q == proc[p]
           report == [q EXCEPT !.pc = "print"]
           dedup == [q EXCEPT !.pc = "dedup"]
<1>1. /\ proc \in [Procs -> ProcState] /\ q \in ProcState /\ q.pc = "put"
      /\ UNCHANGED <<seen, delivered>>
  BY DEF Inv, TypeOK, Put, At
<1>2. q.kept = {} /\ (q.prior = NoDoc => q.todo = {})
  BY <1>1 DEF OnceInv, OnceOK, HoldsInPhase
<1>3. \/ Goto(p, Idle)
      \/ q.prior = NoDoc /\ Goto(p, report)
      \/ Goto(p, dedup)
  BY DEF Put, Finish
<1>4. q.prior = NoDoc => OnceOK(report, Range(seen), Told)
  <2>1. report.kept = {} /\ report.todo = q.todo /\ report.pc = "print"
    BY <1>1, <1>2 DEF ProcState
  <2> HIDE DEF report
  <2> QED  BY <1>2, <2>1 DEF OnceOK, HoldsInPhase, UntoldHeld, NewBeforeMark
<1>5. OnceOK(dedup, Range(seen), Told)
  <2>1. dedup.kept = {} /\ dedup.pc = "dedup"
    BY <1>1, <1>2 DEF ProcState
  <2> HIDE DEF dedup
  <2> QED  BY <2>1 DEF OnceOK, HoldsInPhase, UntoldHeld, NewBeforeMark
<1>6. OnceOK(Idle, Range(seen), Told)
  BY NothingHeld DEF Idle
<1> HIDE DEF report, dedup
<1> QED  BY <1>1, <1>3, <1>4, <1>5, <1>6, OnceQuiet

(* The loop over the events keeps a keyed one only after marking it. *)
LEMMA OnceDedup ==
  ASSUME Inv, OnceInv, Remembers, NEW p, Procs = {p},
         \/ \E e \in proc[p].todo : Suppress(p, e) \/ FindUnseen(p, e) \/ KeepUnkeyed(p, e)
         \/ Mark(p) \/ EndDedup(p)
  PROVE  OnceInv'
<1> DEFINE t == proc[p].tid
<1>1. /\ proc \in [Procs -> ProcState] /\ proc[p] \in ProcState /\ Writes(proc[p])
      /\ proc[p].pc \in {"dedup", "mark"} /\ PlanOK(proc[p], nextRev)
      /\ t \in Targets /\ proc[p].todo \subseteq Event
  BY DEF Inv, TypeOK, PlansOK, PlanOK, ProcState,
     Suppress, FindUnseen, KeepUnkeyed, Mark, EndDedup, At
<1>2. /\ OnceOK(proc[p], Range(seen), Told) /\ Told \subseteq Range(seen)
      /\ UntoldHeld(proc[p], Range(seen), Told)
  BY DEF OnceInv, OnceOK
<1>3. ASSUME NEW e \in proc[p].todo, Suppress(p, e)
      PROVE  OnceInv'
  <2> DEFINE q == [proc[p] EXCEPT !.todo = @ \ {e}]
  <2>1. Goto(p, q) /\ UNCHANGED <<seen, delivered>> /\ proc[p].pc = "dedup"
    BY <1>3 DEF Suppress, storeVars, history, At
  <2>2. /\ q.tid = t /\ q.kept = proc[p].kept /\ q.pc = "dedup" /\ Writes(q)
    BY <1>1, <2>1 DEF ProcState, Writes
  <2> HIDE DEF q
  <2>3. OnceOK(q, Range(seen), Told)
    BY <1>1, <1>2, <2>2 DEF OnceOK, HoldsInPhase, UntoldHeld, NewBeforeMark
  <2> QED  BY <1>1, <2>1, <2>3, OnceQuiet
<1>4. ASSUME NEW e \in proc[p].todo, FindUnseen(p, e)
      PROVE  OnceInv'
  <2> DEFINE q == [proc[p] EXCEPT !.cur = {e}, !.pc = "mark"]
  <2>1. /\ Goto(p, q) /\ UNCHANGED <<seen, delivered>>
        /\ EventKey(t, e) \notin Range(seen)
    BY <1>4 DEF FindUnseen, storeVars, history, SeenEvent
  <2>2. /\ q.tid = t /\ q.kept = proc[p].kept /\ q.pc = "mark" /\ q.cur = {e}
        /\ Writes(q)
    BY <1>1 DEF ProcState, Writes
  <2> HIDE DEF q
  <2>3. OnceOK(q, Range(seen), Told)
    BY <1>1, <1>2, <2>1, <2>2 DEF OnceOK, HoldsInPhase, UntoldHeld, NewBeforeMark
  <2> QED  BY <1>1, <2>1, <2>3, OnceQuiet
<1>5. ASSUME NEW e \in proc[p].todo, KeepUnkeyed(p, e)
      PROVE  OnceInv'
  <2> DEFINE q == [proc[p] EXCEPT !.todo = @ \ {e}, !.kept = @ \cup {e}]
  <2>1. /\ Goto(p, q) /\ UNCHANGED <<seen, delivered>> /\ proc[p].pc = "dedup"
        /\ ~Keyed(e)
    BY <1>5 DEF KeepUnkeyed, storeVars, history, At
  <2>2. /\ q.tid = t /\ q.kept = proc[p].kept \cup {e} /\ q.pc = "dedup" /\ Writes(q)
    BY <1>1, <2>1 DEF ProcState, Writes
  <2> HIDE DEF q
  <2>3. OnceOK(q, Range(seen), Told)
    BY <1>1, <1>2, <2>1, <2>2 DEF OnceOK, HoldsInPhase, UntoldHeld, NewBeforeMark
  <2> QED  BY <1>1, <2>1, <2>3, OnceQuiet
<1>6. CASE Mark(p)
  <2>1. PICK e \in proc[p].cur :
          /\ seen' = MarkEvent(seen, EventKey(t, e))
          /\ Goto(p, [proc[p] EXCEPT !.todo = @ \ {e}, !.kept = @ \cup {e},
                                     !.cur = {}, !.pc = "dedup"])
    BY <1>6 DEF Mark
  <2> DEFINE q == [proc[p] EXCEPT !.todo = @ \ {e}, !.kept = @ \cup {e},
                                  !.cur = {}, !.pc = "dedup"]
             k == EventKey(t, e)
  <2>2. /\ e \in Event /\ Keyed(e) /\ delivered' = delivered
        /\ k \notin Range(seen)
    BY <1>1, <1>2, <1>6 DEF PlanOK, Mark, At, history, OnceOK, NewBeforeMark
  <2>3. k \in Range(seen') /\ Range(seen) \subseteq Range(seen') /\ Told' = Told
    <3>1. seen \in Seq(EventKeys) /\ k \in EventKeys
      BY <1>1, <2>2, TransitionType DEF Inv, TypeOK
    <3>2. k \in Range(MarkEvent(seen, k))
      BY <2>2, <3>1, MarkedIsSeen
    <3> QED  BY <2>1, <2>2, <3>2 DEF Remembers, Told, Keys, Keyful
  <2>4. k \notin Told
    BY <1>2, <2>2
  <2>5. /\ q.tid = t /\ q.kept = proc[p].kept \cup {e} /\ q.pc = "dedup" /\ Writes(q)
        /\ Goto(p, q)
    BY <1>1, <2>1 DEF ProcState, Writes
  <2> HIDE DEF q
  <2>6. OnceOK(q, Range(seen'), Told')
    BY <1>1, <1>2, <2>3, <2>4, <2>5 DEF OnceOK, HoldsInPhase, UntoldHeld, NewBeforeMark
  <2> QED  BY <1>1, <1>2, <2>3, <2>5, <2>6, OnceMoves
<1>7. CASE EndDedup(p)
  <2>1. UNCHANGED <<seen, delivered>> /\ proc[p].todo = {}
    BY <1>7 DEF EndDedup, storeVars, history
  <2>2. CASE Goto(p, Idle)
    <3>1. OnceOK(Idle, Range(seen), Told)
      BY NothingHeld DEF Idle
    <3> QED  BY <1>1, <2>1, <2>2, <3>1, OnceQuiet
  <2>3. CASE Goto(p, [proc[p] EXCEPT !.pc = "print"])
    <3> DEFINE q == [proc[p] EXCEPT !.pc = "print"]
    <3>1. /\ q.tid = t /\ q.kept = proc[p].kept /\ q.pc = "print" /\ q.todo = {}
          /\ Writes(q) /\ Goto(p, q)
      BY <1>1, <2>1, <2>3 DEF ProcState, Writes
    <3> HIDE DEF q
    <3>2. OnceOK(q, Range(seen), Told)
      BY <1>1, <1>2, <3>1 DEF OnceOK, HoldsInPhase, UntoldHeld, NewBeforeMark
    <3> QED  BY <1>1, <2>1, <3>1, <3>2, OnceQuiet
  <2> QED  BY <1>7, <2>2, <2>3 DEF EndDedup, Finish
<1> QED  BY <1>3, <1>4, <1>5, <1>6, <1>7

(* What a process is about to print has not been printed. *)
LEMMA OwesUntold ==
  ASSUME Inv, OnceInv, NEW p \in Procs, Emit(p)
  PROVE  Keys(Keyful(Owes(proc[p]))) \subseteq Range(seen) \ Told
<1> SUFFICES ASSUME NEW x \in Owes(proc[p]), Keyed(x)
             PROVE  KeyOf(x) \in Range(seen) \ Told
  BY DEF Keys, Keyful
<1>1. proc[p].pc = "print" /\ Writes(proc[p])
  BY DEF Emit, At, Owes
<1>2. OnceOK(proc[p], Range(seen), Told)
  BY DEF OnceInv
<1>3. PICK e \in proc[p].kept : x = Transition(proc[p].tid, e)
  BY <1>1, <1>2 DEF Owes, OnceOK, HoldsInPhase
<1>4. Keyed(e)
  BY <1>3 DEF Keyed, Transition
<1> QED  BY <1>1, <1>2, <1>3, <1>4 DEF OnceOK, UntoldHeld, EventKey

(* Printing adds marked keys to what was told; a kill adds nothing. *)
LEMMA OnceEnd ==
  ASSUME Inv, OnceInv, NEW p, Procs = {p}, Emit(p) \/ Abort(p)
  PROVE  OnceInv'
<1>1. /\ proc \in [Procs -> ProcState] /\ Goto(p, Idle) /\ seen' = seen
  BY DEF Inv, TypeOK, Emit, Abort, Finish, storeVars
<1>2. Told' \subseteq Range(seen')
  <2>1. CASE Emit(p)
    <3>1. Keys(Keyful(Owes(proc[p]))) \subseteq Range(seen)
      BY <2>1, OwesUntold
    <3>2. Told' = Told \cup Keys(Keyful(Owes(proc[p])))
      BY <2>1 DEF Emit, Told, Keys, Keyful
    <3> QED  BY <1>1, <3>1, <3>2 DEF OnceInv
  <2>2. CASE Abort(p)
    BY <1>1, <2>2 DEF Abort, OnceInv, Told, Keys, Keyful
  <2> QED  BY <2>1, <2>2
<1>3. OnceOK(Idle, Range(seen'), Told')
  BY NothingHeld DEF Idle
<1> QED  BY <1>1, <1>2, <1>3, OnceMoves

(* Every step of the one process keeps it from repeating itself. *)
LEMMA OnceNext ==
  ASSUME OneAtATime, Inv, OnceInv, [Next]_vars, [Remembers]_vars
  PROVE  OnceInv'
<1>1. CASE UNCHANGED <<seen, proc, delivered>>
  BY <1>1 DEF OnceInv, Told, Keys, Keyful
<1>2. CASE \E t \in Targets, doc \in Pages : EditPage(t, doc)
  BY <1>1, <1>2 DEF EditPage, storeVars, history
<1>3. ASSUME NEW p \in Procs, Begin(p) \/ Step(p) \/ FetchFails(p) \/ Abort(p),
             Remembers
      PROVE  OnceInv'
  <2>1. Procs = {p}
    BY DEF OneAtATime
  <2> QED  BY <1>3, <2>1, OnceRead, OncePut, OnceDedup, OnceEnd DEF Step
<1>4. CASE UNCHANGED vars
  BY <1>1, <1>4 DEF vars
<1> QED  BY <1>2, <1>3, <1>4 DEF Next

(***************************************************************************)
(* Invocations that do not overlap print no transition of a slot twice, as *)
(* long as the seen-set forgets none: whatever was killed between the put, *)
(* the marks and the write to stdout.                                      *)
(***************************************************************************)
THEOREM NothingTwice ==
  ASSUME OneAtATime
  PROVE  Spec /\ [][Remembers]_vars => ReportedOnce
<1>1. Init => OnceInv
  <2> SUFFICES ASSUME Init PROVE OnceInv
    OBVIOUS
  <2>1. Told = {} /\ \A p \in Procs : proc[p] = Idle
    BY DEF Init, Told, Keys, Keyful
  <2>2. OnceOK(Idle, Range(seen), Told)
    BY NothingHeld DEF Idle
  <2> QED  BY <2>1, <2>2 DEF OnceInv
<1>2. Inv /\ OnceInv /\ [Next]_vars /\ [Remembers]_vars => OnceInv'
  BY OnceNext
<1>3. Inv /\ OnceInv =>
        [\A p \in Procs : Emit(p) =>
           Keys(Keyful(Owes(proc[p]))) \cap Keys(Keyful(delivered)) = {}]_vars
  BY OwesUntold DEF Told
<1> QED  BY <1>1, <1>2, <1>3, Invariance, PTL DEF Spec, ReportedOnce
=============================================================================
