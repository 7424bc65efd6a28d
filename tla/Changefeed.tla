----------------------------- MODULE Changefeed -----------------------------
(***************************************************************************)
(* Concurrent runs of `cf check` and `cf snapshot' over one store.db.      *)
(*                                                                         *)
(* A process is one invocation of the binary for one target.  Its steps    *)
(* are the points between which another process can run: the HTTP request, *)
(* and each SQL statement or transaction it issues.  What it holds between *)
(* them (the body, the prior document, the revision it will write, the     *)
(* events it has not dealt with) may be stale when it is used.             *)
(***************************************************************************)
EXTENDS Observation, VersionStore

CONSTANTS
  Procs,           \* invocations that may run at the same time
  Targets,         \* watched pages
  MinSaliences,    \* values passed as --min-salience
  MaxEdits,        \* bound: how often the pages change
  MaxSnapshots,    \* bound: how many `cf snapshot' are run
  MaxFaults        \* bound: kills, storage and fetch errors

ASSUME TargetsAssumption == Targets # {}
ASSUME MinSaliencesAssumption == MinSaliences \subseteq Materiality
ASSUME BoundsAssumption ==
  MaxEdits \in Nat /\ MaxSnapshots \in Nat /\ MaxFaults \in Nat

VARIABLES
  page,        \* page[t]: what the origin serves for target t
  versions,    \* versions[t]: the retained snapshots, by revision
  nextRev,     \* nextRev[t]: targets.next_rev
  seen,        \* seen_events, oldest first
  proc,        \* proc[p]: the local state of process p
  absorbed,    \* history: transitions a stored version absorbed
  delivered,   \* history: transitions written to stdout by storing checks
  lost,        \* history: absorbed transitions a process died holding
  spent        \* how much of each bound is used

(* The store as its readers see it. *)
Log == INSTANCE RingLog WITH window <- versions, next <- nextRev

storeVars == <<versions, nextRev, seen>>
history == <<absorbed, delivered, lost>>
vars == <<page, versions, nextRev, seen, proc, absorbed, delivered, lost, spent>>

----------------------------------------------------------------------------
PC == {"idle", "fetch", "head", "prior", "next_rev", "put", "dedup", "mark",
       "print"}

ProcState ==
  [pc    : PC,
   cmd   : {"check", "snapshot"},
   tid   : Targets,
   peek  : BOOLEAN,                  \* --no-store or --peek
   disk  : BOOLEAN,                  \* FALSE: the in-memory fallback store
   min   : Materiality,
   body  : Pages \cup {NoDoc},
   head  : Nat \cup {NoRev},
   prior : Pages \cup {NoDoc},
   rev   : Nat,
   todo  : SUBSET Event,             \* events still to be deduplicated
   kept  : SUBSET Event,             \* events that will be printed
   cur   : SUBSET Event]             \* the event between seen and mark

Idle ==
  [pc |-> "idle", cmd |-> "check", tid |-> CHOOSE t \in Targets : TRUE,
   peek |-> FALSE, disk |-> TRUE, min |-> None, body |-> NoDoc,
   head |-> NoRev, prior |-> NoDoc, rev |-> 0,
   todo |-> {}, kept |-> {}, cur |-> {}]

Transitions == [tid : Targets, slot : Slots \cup {WholePage},
                from : Block \cup {Absent}, to : Block \cup {Absent}]

At(p, pc) == proc[p].pc = pc
Goto(p, q) == proc' = [proc EXCEPT ![p] = q]
Finish(p) == Goto(p, Idle)

(* Whether the process writes to store.db at all. *)
Writes(q) == q.disk /\ ~q.peek

(* The transitions process p has absorbed and must still account for. *)
Owes(q) ==
  IF q.pc \in {"dedup", "mark", "print"} /\ Writes(q)
  THEN {Transition(q.tid, e) : e \in q.todo \cup q.kept}
  ELSE {}

Spend(what) == spent' = [spent EXCEPT ![what] = @ + 1]

----------------------------------------------------------------------------
Init ==
  /\ page \in [Targets -> Pages]
  /\ versions = [t \in Targets |-> NoRows]
  /\ nextRev = [t \in Targets |-> 0]
  /\ seen = <<>>
  /\ proc = [p \in Procs |-> Idle]
  /\ absorbed = {} /\ delivered = {} /\ lost = {}
  /\ spent = [edits |-> 0, snapshots |-> 0, faults |-> 0]

(* The origin: the page canonicalizes to another document from now on. *)
EditPage(t, doc) ==
  /\ spent.edits < MaxEdits
  /\ doc # page[t]
  /\ page' = [page EXCEPT ![t] = doc]
  /\ Spend("edits")
  /\ UNCHANGED <<storeVars, proc, history>>

----------------------------------------------------------------------------
(* cf check [--no-store] --min-salience m t, with a store that opens. *)
BeginCheck(p, t, peek, m) ==
  /\ At(p, "idle")
  /\ Goto(p, [Idle EXCEPT !.pc = "fetch", !.tid = t,
                                     !.peek = peek, !.min = m])
  /\ UNCHANGED <<page, storeVars, history, spent>>

(* The same with a store that does not: an empty in-memory one replaces it. *)
BeginCheckWithoutStore(p, t, m) ==
  /\ At(p, "idle")
  /\ spent.faults < MaxFaults
  /\ Goto(p, [Idle EXCEPT !.pc = "fetch", !.tid = t,
                                     !.disk = FALSE, !.min = m])
  /\ Spend("faults")
  /\ UNCHANGED <<page, storeVars, history>>

BeginSnapshot(p, t) ==
  /\ At(p, "idle")
  /\ spent.snapshots < MaxSnapshots
  /\ Goto(p, [Idle EXCEPT !.pc = "fetch", !.tid = t,
                                     !.cmd = "snapshot"])
  /\ Spend("snapshots")
  /\ UNCHANGED <<page, storeVars, history>>

(* The body is read from the origin and canonicalized. *)
Fetch(p) ==
  /\ At(p, "fetch")
  /\ Goto(p, [proc[p] EXCEPT
        !.body = page[proc[p].tid],
        !.pc = IF proc[p].cmd = "check" THEN "head" ELSE "next_rev"])
  /\ UNCHANGED <<page, storeVars, history, spent>>

(* Timeout, 4xx, 5xx, robots, a page that needs a browser: nothing is stored. *)
FetchFails(p) ==
  /\ At(p, "fetch")
  /\ spent.faults < MaxFaults
  /\ Finish(p)
  /\ Spend("faults")
  /\ UNCHANGED <<page, storeVars, history>>

(* Store::latest, its first query. *)
ReadHead(p) ==
  /\ At(p, "head")
  /\ Goto(p, [proc[p] EXCEPT
        !.head = IF proc[p].disk THEN HeadRev(versions[proc[p].tid]) ELSE NoRev,
        !.pc = "prior"])
  /\ UNCHANGED <<page, storeVars, history, spent>>

(* The revision a check writes: one above the prior's, or 0 for a baseline. *)
RevToWrite_NotAboveThePrior(read, head) == head
RevToWrite(read, head) == IF read = NoDoc THEN 0 ELSE head + 1

(***************************************************************************)
(* Store::latest, its second query, and everything up to the first write:  *)
(* the revision to write is settled and the pure pipeline compares the     *)
(* body with the prior.  An unchanged or sub-threshold observation ends    *)
(* here; a probe goes on to print.                                         *)
(***************************************************************************)
ReadPrior(p) ==
  /\ At(p, "prior")
  /\ LET q == proc[p]
         prior == SnapshotAt(versions[q.tid], q.head)
         read == IF q.head = NoRev THEN NoDoc ELSE prior
         seenIt == Observe(read, q.body, q.min)
     IN  \/ /\ seenIt.kind \in {"no_change", "sub_threshold"}
            /\ Finish(p)
         \/ /\ seenIt.kind \in {"baseline", "changed"}
            /\ Writes(q)
            /\ Goto(p, [q EXCEPT !.prior = read,
                                 !.rev = RevToWrite(read, q.head),
                                 !.todo = seenIt.events,
                                 !.pc = "put"])
         \/ /\ seenIt.kind \in {"baseline", "changed"}
            /\ ~Writes(q)
            /\ Goto(p, [q EXCEPT !.prior = read,
                                 !.kept = seenIt.events,
                                 !.pc = "print"])
  /\ UNCHANGED <<page, storeVars, history, spent>>

(* cf snapshot: SELECT next_rev. *)
ReadNextRev(p) ==
  /\ At(p, "next_rev")
  /\ Goto(p, [proc[p] EXCEPT !.rev = nextRev[proc[p].tid], !.pc = "put"])
  /\ UNCHANGED <<page, storeVars, history, spent>>

----------------------------------------------------------------------------
(***************************************************************************)
(* put_with_html, one transaction.  The baseline has moved from here on:   *)
(* the events still in memory will not be derived again.                   *)
(***************************************************************************)
Put(p) ==
  /\ At(p, "put")
  /\ LET q == proc[p]
         t == q.tid
     IN  /\ versions' = [versions EXCEPT ![t] = PutRows(@, q.rev, q.body)]
         /\ nextRev' = [nextRev EXCEPT ![t] = BumpNextRev(@, q.rev)]
         /\ absorbed' = absorbed \cup {Transition(t, e) : e \in q.todo}
         /\ \/ q.cmd = "snapshot" /\ Finish(p)
            \/ /\ q.cmd = "check" /\ q.prior = NoDoc
               /\ Goto(p, [q EXCEPT !.pc = "print"])
            \/ /\ q.cmd = "check" /\ q.prior # NoDoc
               /\ Goto(p, [q EXCEPT !.pc = "dedup"])
  /\ UNCHANGED <<page, seen, delivered, lost, spent>>

(* The loop over the events, in an order fixed by the hash of the slots. *)
Suppress(p, e) ==
  /\ At(p, "dedup") /\ e \in proc[p].todo
  /\ Keyed(e) /\ SeenEvent(seen, EventKey(proc[p].tid, e))
  /\ Goto(p, [proc[p] EXCEPT !.todo = @ \ {e}])
  /\ UNCHANGED <<page, storeVars, history, spent>>

FindUnseen(p, e) ==
  /\ At(p, "dedup") /\ e \in proc[p].todo
  /\ Keyed(e) /\ ~SeenEvent(seen, EventKey(proc[p].tid, e))
  /\ Goto(p, [proc[p] EXCEPT !.cur = {e}, !.pc = "mark"])
  /\ UNCHANGED <<page, storeVars, history, spent>>

KeepUnkeyed(p, e) ==
  /\ At(p, "dedup") /\ e \in proc[p].todo
  /\ ~Keyed(e)
  /\ Goto(p, [proc[p] EXCEPT !.todo = @ \ {e}, !.kept = @ \cup {e}])
  /\ UNCHANGED <<page, storeVars, history, spent>>

(* mark_event, one transaction. *)
Mark_ForgetsTheEvent(p) ==
  /\ At(p, "mark")
  /\ \E e \in proc[p].cur :
       /\ seen' = MarkEvent(seen, EventKey(proc[p].tid, e))
       /\ Goto(p, [proc[p] EXCEPT !.todo = @ \ {e}, !.cur = {}, !.pc = "dedup"])
  /\ UNCHANGED <<page, versions, nextRev, history, spent>>

Mark(p) ==
  /\ At(p, "mark")
  /\ \E e \in proc[p].cur :
       /\ seen' = MarkEvent(seen, EventKey(proc[p].tid, e))
       /\ Goto(p, [proc[p] EXCEPT !.todo = @ \ {e}, !.kept = @ \cup {e},
                                  !.cur = {}, !.pc = "dedup"])
  /\ UNCHANGED <<page, versions, nextRev, history, spent>>

EndDedup(p) ==
  /\ At(p, "dedup") /\ proc[p].todo = {}
  /\ \/ proc[p].kept = {} /\ Finish(p)
     \/ proc[p].kept # {} /\ Goto(p, [proc[p] EXCEPT !.pc = "print"])
  /\ UNCHANGED <<page, storeVars, history, spent>>

(* One write to stdout: the baseline's envelope, or every kept event. *)
Emit(p) ==
  /\ At(p, "print")
  /\ delivered' = delivered \cup Owes(proc[p])
  /\ Finish(p)
  /\ UNCHANGED <<page, storeVars, absorbed, lost, spent>>

----------------------------------------------------------------------------
(***************************************************************************)
(* The process is killed, or a statement or the write to stdout fails and  *)
(* `?' returns: the transaction under way is rolled back, the ones before  *)
(* it stay, and what the process held in memory is gone.                   *)
(***************************************************************************)
Abort(p) ==
  /\ proc[p].pc # "idle"
  /\ spent.faults < MaxFaults
  /\ lost' = lost \cup Owes(proc[p])
  /\ Finish(p)
  /\ Spend("faults")
  /\ UNCHANGED <<page, storeVars, absorbed, delivered>>

----------------------------------------------------------------------------
(* What a running process does next, as long as nothing goes wrong. *)
Step(p) ==
  \/ Fetch(p) \/ ReadHead(p) \/ ReadPrior(p) \/ ReadNextRev(p)
  \/ Put(p)
  \/ \E e \in proc[p].todo :
       Suppress(p, e) \/ FindUnseen(p, e) \/ KeepUnkeyed(p, e)
  \/ Mark(p) \/ EndDedup(p) \/ Emit(p)

Begin(p) ==
  \/ \E t \in Targets, peek \in BOOLEAN, m \in MinSaliences :
       BeginCheck(p, t, peek, m)
  \/ \E t \in Targets, m \in MinSaliences : BeginCheckWithoutStore(p, t, m)
  \/ \E t \in Targets : BeginSnapshot(p, t)

Next ==
  \/ \E t \in Targets, doc \in Pages : EditPage(t, doc)
  \/ \E p \in Procs : Begin(p) \/ Step(p) \/ FetchFails(p) \/ Abort(p)

Spec == Init /\ [][Next]_vars

----------------------------------------------------------------------------
(***************************************************************************)
(* Fairness.  A started process is scheduled until it ends; somebody, a    *)
(* timer or the agent's loop, polls every target again and again with the  *)
(* default --min-salience.  cf itself never polls.                         *)
(***************************************************************************)
Poll(t) == \E p \in Procs : BeginCheck(p, t, FALSE, Low)

FairSpec ==
  /\ Spec
  /\ \A p \in Procs : WF_vars(Step(p))
  /\ \A t \in Targets : SF_vars(Poll(t))

----------------------------------------------------------------------------
(* Every variable holds a value of its kind. *)
RowsOK(rows) ==
  /\ DOMAIN rows \subseteq Nat
  /\ rows \in [DOMAIN rows -> Pages]

EventKeys == [tid : Targets, slot : Slots, from : Norms \cup {EmptyNorm},
              to : Norms \cup {EmptyNorm}]

TypeOK ==
  /\ page \in [Targets -> Pages]
  /\ versions = [t \in Targets |-> versions[t]]
  /\ \A t \in Targets : RowsOK(versions[t])
  /\ nextRev \in [Targets -> Nat]
  /\ seen \in Seq(EventKeys)
  /\ proc \in [Procs -> ProcState]
  /\ absorbed \subseteq Transitions
  /\ delivered \subseteq Transitions
  /\ lost \subseteq Transitions
  /\ spent \in [edits : Nat, snapshots : Nat, faults : Nat]

(***************************************************************************)
(* However many processes store under revisions they planned earlier, the  *)
(* ring holds the last RingN revisions without a gap, and next_rev is one  *)
(* above the newest: `cf diff', `cf feed' and `cf explain' count on it.    *)
(***************************************************************************)
RingIsWindow ==
  \A t \in Targets : DOMAIN versions[t] = Log!Window(nextRev[t])

(***************************************************************************)
(* What a process carries over other processes' steps still fits the store *)
(* when it is used: the head it read and the revision it planned are never *)
(* ahead of next_rev, and only a process that may write gets to a write.   *)
(***************************************************************************)
PlanOK(q, next) ==
  /\ q.pc \notin {"idle", "fetch"} => q.body \in Pages
  /\ q.pc = "prior" => q.head < next[q.tid]
  /\ q.pc = "put" => q.rev <= next[q.tid]
  /\ q.pc = "next_rev" => q.cmd = "snapshot"
  /\ q.cmd = "snapshot" \/ q.pc \in {"put", "dedup", "mark"} => Writes(q)
  /\ q.pc = "mark" => q.cur \subseteq {e \in q.todo : Keyed(e)}

PlansOK == \A p \in Procs : PlanOK(proc[p], nextRev)

(***************************************************************************)
(* put_with_html absorbs a change into the baseline before it is reported, *)
(* and one process may hold its tongue because another marked the key.     *)
(* Still every absorbed transition has one with its key that was printed,  *)
(* is about to be, or was in the hands of a process that died.             *)
(***************************************************************************)
Accounted == delivered \cup lost \cup UNION {Owes(proc[p]) : p \in Procs}
Keys(transitions) == {KeyOf(x) : x \in transitions}

AbsorbedIsAccounted == Keys(absorbed) \subseteq Keys(Accounted)

(***************************************************************************)
(* Why a key in the seen-set may silence others: the process that marked   *)
(* it has printed the event, holds it for printing, or died with it.       *)
(***************************************************************************)
Reporting(q) ==
  IF q.pc \in {"dedup", "mark", "print"} /\ Writes(q)
  THEN {Transition(q.tid, e) : e \in q.kept}
  ELSE {}

SpokenFor == delivered \cup lost \cup UNION {Reporting(proc[p]) : p \in Procs}

SeenIsAccounted == Range(seen) \subseteq Keys(SpokenFor)

(***************************************************************************)
(* The same for the transitions themselves, as the comment on              *)
(* event_key_for has it: a new transition is never taken for a known one.  *)
(***************************************************************************)
EveryTransitionReported == absorbed \subseteq Accounted

(* With one invocation at a time and no key forgotten, no transition of a  *)
(* slot is printed twice, whatever was killed in between.                  *)
Keyful(transitions) == {x \in transitions : Keyed(x)}

ReportedOnce ==
  [][\A p \in Procs : Emit(p) =>
       Keys(Keyful(Owes(proc[p]))) \cap Keys(Keyful(delivered)) = {}]_vars

(***************************************************************************)
(* Nothing below --min-salience is kept for printing, nor absorbed as an   *)
(* event: the option says "emit/exit-signal only if salience >= LEVEL".    *)
(***************************************************************************)
ReportsMeetThreshold ==
  \A p \in Procs : \A e \in proc[p].todo \cup proc[p].kept :
    e.mat >= proc[p].min

(***************************************************************************)
(* The versions table is a log of which the last RingN entries are kept:   *)
(* a put adds an entry, rewrites a retained one, or comes too late to      *)
(* leave a trace.  As long as invocations do not overlap none is rewritten.*)
(***************************************************************************)
ImplementsRingLog == Log!Spec
ImplementsAppendOnlyLog == Log!AppendOnlySpec

(***************************************************************************)
(* A revision number stands for a change: neighbours in the ring differ.   *)
(* Holds for checks that do not overlap; `cf snapshot' does not compare.   *)
(***************************************************************************)
RevMeansChange ==
  \A t \in Targets : \A r \in DOMAIN versions[t] :
    r + 1 \in DOMAIN versions[t] => versions[t][r] # versions[t][r + 1]

(***************************************************************************)
(* Once a page stays as it is, the stored head catches up with it: from    *)
(* some point on, no check at the default threshold would find a change,   *)
(* whatever stale bodies and stale revisions were stored on the way.       *)
(***************************************************************************)
Baseline(t) == SnapshotAt(versions[t], HeadRev(versions[t]))
Settled(t) == Observe(Baseline(t), page[t], Low).kind \in {"no_change", "sub_threshold"}

Settles == \A t \in Targets : <>[]Settled(t)
============================================================================
