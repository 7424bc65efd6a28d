------------------------------ MODULE Readers -------------------------------
(***************************************************************************)
(* The commands that read the version store: cf diff, explain, show, rules *)
(* and feed.  Each is a few SQL statements, outside any transaction, while *)
(* cf check goes on storing versions.  An agent pages through cf feed with *)
(* the cursor it is handed.                                                *)
(*                                                                         *)
(* The writers are reduced to their puts, one invocation at a time, so a   *)
(* stored revision keeps its document.                                     *)
(***************************************************************************)
EXTENDS VersionStore, Observation, SequencesExt

CONSTANTS
  Targets,
  FetchedAt,   \* when a revision of a target was fetched, in whatever order
  Feeds,       \* the argument lists of cf feed
  MaxPuts      \* bound on the versions of a target

VARIABLES
  versions, nextRev,   \* the tables of the store
  log,         \* history: all that was ever stored
  pc,          \* "idle", or the statement the command is at
  args,        \* its command and arguments
  head, old,   \* the revision and the document it has read
  todo,        \* feed: the targets left, the current one first
  revs,        \* feed: its retained revisions not yet compared
  rows,        \* feed: what has been derived
  cursor,      \* feed: the offset to start at
  result,      \* what the last command came to
  puts,        \* history: the puts since the command began
  shifted,     \* history: whether one of them may have moved a feed's rows
  delivered    \* history: what the pages of this feed have held

storeVars == <<versions, nextRev, log>>
feedVars == <<todo, revs, rows, cursor, delivered>>
readVars == <<pc, args, head, old, result, feedVars>>
vars == <<storeVars, readVars, puts, shifted>>

Unset == -1      \* no --rev, no cursor
NoSince == [by |-> "none", at |-> 0]
Nothing == [kind |-> "none", events |-> <<>>]
NoCommand == [cmd |-> "none"]
FeedArgs ==
  [cmd : {"feed"}, targets : Seq(Targets),
   since : [by : {"none", "rev", "time"}, at : Nat],
   min : Materiality, limit : Nat, sorted : BOOLEAN]

ASSUME FetchedAtAssumption == FetchedAt \in [Targets -> [0..MaxPuts -> Nat]]
ASSUME FeedsAssumption == Feeds \subseteq FeedArgs /\ \A f \in Feeds : f.targets # <<>>

Init ==
  /\ versions = [t \in Targets |-> NoRows]
  /\ nextRev = [t \in Targets |-> 0]
  /\ log = [t \in Targets |-> <<>>]
  /\ pc = "idle" /\ args = NoCommand
  /\ head = NoRev /\ old = NoDoc
  /\ todo = <<>> /\ revs = <<>> /\ rows = <<>> /\ cursor = 0
  /\ result = Nothing
  /\ puts = 0 /\ shifted = FALSE /\ delivered = <<>>

----------------------------------------------------------------------------
(* What was ever stored under a revision. *)
Logged(t, r) == IF r + 1 \in DOMAIN log[t] THEN log[t][r + 1] ELSE NoDoc

Retained(t) == DOMAIN versions[t]

(* A row's place in the feed depends on the rows before it: a put moves it
   if it evicts, if another target's rows follow, or if the rows are sorted. *)
Shifts(t) ==
  /\ args.cmd = "feed"
  /\ \/ args.sorted \/ Len(args.targets) > 1
     \/ Cardinality(Retained(t)) >= RingN

Put(t, doc) ==
  /\ nextRev[t] < MaxPuts
  /\ versions' = [versions EXCEPT ![t] = PutRows(@, nextRev[t], doc)]
  /\ nextRev' = [nextRev EXCEPT ![t] = BumpNextRev(@, @)]
  /\ log' = [log EXCEPT ![t] = Append(@, doc)]
  /\ \/ /\ pc # "idle"
        /\ puts' = puts + 1
        /\ shifted' = (shifted \/ Shifts(t))
        /\ UNCHANGED readVars
     \/ /\ pc = "idle"
        /\ args' = NoCommand /\ result' = Nothing
        /\ head' = NoRev /\ rows' = <<>> /\ cursor' = 0 /\ delivered' = <<>>
        /\ puts' = 0 /\ shifted' = FALSE
        /\ UNCHANGED <<pc, old, todo, revs>>

----------------------------------------------------------------------------
Answer(kind, events) ==
  /\ result' = [kind |-> kind, events |-> events]
  /\ pc' = "idle"

Begin(a, at) ==
  /\ pc = "idle"
  /\ args' = a /\ pc' = at
  /\ head' = NoRev /\ old' = NoDoc /\ cursor' = 0
  /\ puts' = 0 /\ shifted' = FALSE
  /\ result' = Nothing /\ delivered' = <<>> /\ rows' = <<>> /\ revs' = <<>>

BeginRead(cmd, t, rev) ==
  /\ rev # Unset => cmd = "diff"
  /\ Begin([cmd |-> cmd, target |-> t, rev |-> rev], "head")
  /\ UNCHANGED <<storeVars, todo>>

T == args.target
OldRev_TwoBack == IF args.cmd = "diff" /\ args.rev # Unset THEN args.rev ELSE head - 2

(* diff takes --rev or the revision before the head, saturating at 0. *)
OldRev ==
  IF args.cmd = "diff" /\ args.rev # Unset THEN args.rev
  ELSE IF head = 0 THEN 0 ELSE head - 1

NewRev_Latest == HeadRev(versions[T])
NewRev == head

(* head_rev; what each command makes of there being none, or only one. *)
ReadHead ==
  LET h == HeadRev(versions[T]) IN
  /\ pc = "head"
  /\ head' = h
  /\ IF h = NoRev
     THEN Answer(IF args.cmd = "rules" THEN "usage" ELSE "not_found", <<>>)
     ELSE /\ pc' = CASE args.cmd = "show" -> "retained"
                     [] args.cmd = "rules" -> "html"
                     [] OTHER -> "old"
          /\ UNCHANGED result
  /\ UNCHANGED <<storeVars, args, old, feedVars, puts, shifted>>

ReadOld ==
  /\ pc = "old"
  /\ IF args.cmd = "explain" /\ head = 0 THEN Answer("usage", <<>>) /\ UNCHANGED old
     ELSE IF OldRev = head THEN Answer("first_obs", <<>>) /\ UNCHANGED old
     ELSE IF args.cmd = "explain" /\ SnapshotAt(versions[T], OldRev) = NoDoc
          THEN Answer("panic", <<>>) /\ UNCHANGED old
     ELSE pc' = "new" /\ old' = SnapshotAt(versions[T], OldRev) /\ UNCHANGED result
  /\ UNCHANGED <<storeVars, args, head, feedVars, puts, shifted>>

(* The events in some fixed order, for want of a document's. *)
AsRows(t, r, events) ==
  [i \in DOMAIN SetToSeq(events) |->
     [tid |-> t, rev |-> r, event |-> SetToSeq(events)[i]]]

(* explain has no redesign guard and prints what diff_and_score returns. *)
EventsOf(cmd, a, b) ==
  IF cmd = "explain" THEN ScoredEvents(a, b) ELSE Observe(a, b, None).events

ReadNew ==
  LET new == SnapshotAt(versions[T], NewRev)
      events == EventsOf(args.cmd, old, new)
  IN  /\ pc = "new"
      /\ IF new = NoDoc \/ old = NoDoc
         THEN Answer(IF args.cmd = "explain" THEN "panic" ELSE "not_found", <<>>)
         ELSE Answer(IF events = {} THEN "no_change" ELSE "change",
                     AsRows(T, head, events))
      /\ UNCHANGED <<storeVars, args, head, old, feedVars, puts, shifted>>

(* show: the head was another statement. *)
ReadRetained ==
  /\ pc = "retained"
  /\ Answer(IF head \in Retained(T) THEN "shown" ELSE "torn", <<>>)
  /\ UNCHANGED <<storeVars, args, head, old, feedVars, puts, shifted>>

(* rules: latest's second statement, and then the html of its revision. *)
ReadHtml ==
  /\ pc = "html"
  /\ Answer(IF head \in Retained(T) THEN "shown" ELSE "usage", <<>>)
  /\ UNCHANGED <<storeVars, args, head, old, feedVars, puts, shifted>>

----------------------------------------------------------------------------
BeginFeed(f) ==
  /\ Begin(f, "list")
  /\ todo' = f.targets
  /\ UNCHANGED storeVars

(* retained_revs of the next target, in ascending order. *)
ListRevs ==
  /\ pc = "list" /\ todo # <<>>
  /\ revs' = RetainedRevs(versions[Head(todo)])
  /\ pc' = "window"
  /\ UNCHANGED <<storeVars, args, head, old, todo, rows, cursor, result,
                 puts, shifted, delivered>>

ReadPrev ==
  /\ pc = "window" /\ Len(revs) >= 2
  /\ old' = SnapshotAt(versions[Head(todo)], revs[1])
  /\ pc' = "cur"
  /\ UNCHANGED <<storeVars, args, head, feedVars, result, puts, shifted>>

SinceIncludes_OfThePrior(t, since, rev) ==
  \/ since.by = "none"
  \/ since.by = "rev" /\ rev - 1 > since.at
  \/ since.by = "time" /\ FetchedAt[t][rev - 1] > since.at

(* --since names a revision or a time; the later of the two versions counts. *)
SinceIncludes(t, since, rev) ==
  \/ since.by = "none"
  \/ since.by = "rev" /\ rev > since.at
  \/ since.by = "time" /\ FetchedAt[t][rev] > since.at

ReadCur ==
  LET t == Head(todo)
      cur == revs[2]
      new == SnapshotAt(versions[t], cur)
      skip == old = NoDoc \/ new = NoDoc \/ ~SinceIncludes(t, args.since, cur)
  IN  /\ pc = "cur"
      /\ rows' = IF skip THEN rows
                 ELSE rows \o AsRows(t, cur, Observe(old, new, args.min).events)
      /\ revs' = Tail(revs)
      /\ old' = NoDoc
      /\ pc' = "window"
      /\ UNCHANGED <<storeVars, args, head, todo, cursor, result,
                     puts, shifted, delivered>>

EndTarget ==
  /\ pc = "window" /\ Len(revs) < 2
  /\ todo' = Tail(todo) /\ revs' = <<>>
  /\ pc' = "list"
  /\ UNCHANGED <<storeVars, args, head, old, rows, cursor, result,
                 puts, shifted, delivered>>

(* --max-salience-first: a stable sort, the most salient rows first. *)
Outranks(s, j, i) ==
  \/ s[j].event.mat > s[i].event.mat
  \/ s[j].event.mat = s[i].event.mat /\ j < i

BySalience(s) ==
  [n \in DOMAIN s |->
     s[CHOOSE i \in DOMAIN s : Cardinality({j \in DOMAIN s : Outranks(s, j, i)}) = n - 1]]

Sorted(s) == IF args.sorted THEN BySalience(s) ELSE s

Least(a, b) == IF a <= b THEN a ELSE b

More_ThanOne(end, total) == end + 1 < total
More_AtTheEnd(end, total) == end <= total
More(end, total) == end < total

(* A page, and the cursor if more rows follow. *)
DeliverPage ==
  LET all == Sorted(rows)
      start == Least(cursor, Len(all))
      end == Least(start + args.limit, Len(all))
      page == SubSeq(all, start + 1, end)
  IN  /\ pc = "list" /\ todo = <<>>
      /\ delivered' = delivered \o page
      /\ rows' = all
      /\ cursor' = IF More(end, Len(all)) THEN end ELSE Unset
      /\ result' = [kind |-> IF page = <<>> THEN "no_change" ELSE "change",
                    events |-> page]
      /\ pc' = IF More(end, Len(all)) THEN "resume" ELSE "idle"
      /\ UNCHANGED <<storeVars, args, head, old, todo, revs, puts, shifted>>

(* The agent runs cf feed again, with --after-cursor. *)
Resume ==
  /\ pc = "resume"
  /\ pc' = "list"
  /\ todo' = args.targets /\ rows' = <<>>
  /\ UNCHANGED <<storeVars, args, head, old, revs, cursor, result,
                 puts, shifted, delivered>>

ReaderStep ==
  \/ ReadHead \/ ReadOld \/ ReadNew \/ ReadRetained \/ ReadHtml
  \/ ListRevs \/ ReadPrev \/ ReadCur \/ EndTarget \/ DeliverPage \/ Resume

Next ==
  \/ \E t \in Targets, doc \in Pages : Put(t, doc)
  \/ \E cmd \in {"diff", "explain", "show", "rules"}, t \in Targets,
        rev \in 0..MaxPuts \cup {Unset} :
       BeginRead(cmd, t, rev)
  \/ \E f \in Feeds : BeginFeed(f)
  \/ ReaderStep

(* A command runs to its end, and the agent comes back for the next page. *)
Spec == Init /\ [][Next]_vars /\ WF_vars(ReaderStep)

----------------------------------------------------------------------------
(***************************************************************************)
(* Whatever is stored and evicted between its statements, a command tells  *)
(* the changes between the versions it names and no others: what the log   *)
(* holds under them, compared as cf check compared them.                   *)
(***************************************************************************)
EventsTold(t, r) ==
  {result.events[i].event : i \in {n \in DOMAIN result.events :
     result.events[n].tid = t /\ result.events[n].rev = r}}

ReadersTellTheLog ==
  /\ args.cmd \in {"diff", "explain"} /\ result.kind \in {"change", "no_change"} =>
       EventsTold(T, head) = EventsOf(args.cmd, Logged(T, OldRev), Logged(T, head))
  /\ args.cmd = "feed" =>
       \A i \in DOMAIN result.events :
         LET row == result.events[i] IN
         row.event \in Observe(Logged(row.tid, row.rev - 1), Logged(row.tid, row.rev),
                               args.min).events

(***************************************************************************)
(* A version that was there when the head was read is still there when it  *)
(* is, or its html, unless the store has taken the puts it needs to evict  *)
(* it: one for each version it is above the bottom of a full ring.  So     *)
(* cf explain cannot panic and the others cannot contradict themselves in  *)
(* a ring of more than one without such a race.                            *)
(***************************************************************************)
Missing(cmd, kind) == args.cmd = cmd /\ head # NoRev /\ result.kind = kind

Asked == IF args.cmd = "diff" /\ args.rev # Unset THEN args.rev ELSE head - 1

EvictionTakesPuts ==
  /\ Missing("show", "torn") \/ Missing("rules", "usage") => puts >= RingN
  /\ Missing("explain", "panic") \/ Missing("diff", "not_found") =>
       Asked > head \/ puts >= RingN - (head - Asked)

(***************************************************************************)
(* The pages of a feed are the feed: no row is skipped or repeated, and    *)
(* the last page ends it, as long as no put has moved rows behind the      *)
(* cursor.                                                                 *)
(***************************************************************************)
PagesCoverTheFeed ==
  args.cmd = "feed" /\ pc \in {"idle", "resume"} /\ ~shifted /\ args.limit > 0 =>
    /\ IsPrefix(delivered, rows)
    /\ pc = "idle" => delivered = rows

(* A feed holds every change of the versions in the ring that is newer than
   the revision or the time of --since, if no version was stored while it was
   derived. *)
NewerThan(since, t, r) ==
  /\ since.by = "rev" => r > since.at
  /\ since.by = "time" => FetchedAt[t][r] > since.at

FeedIsComplete ==
  args.cmd = "feed" /\ pc \in {"idle", "resume"} /\ puts = 0 =>
    \A i \in DOMAIN args.targets : \A r \in Retained(args.targets[i]) :
      r - 1 \in Retained(args.targets[i]) /\ NewerThan(args.since, args.targets[i], r) =>
        \A e \in Observe(Logged(args.targets[i], r - 1), Logged(args.targets[i], r), args.min).events :
          [tid |-> args.targets[i], rev |-> r, event |-> e] \in Range(rows)

(* An agent that follows the cursors comes to the end of the feed. *)
PagingEnds == (args.cmd = "feed" /\ args.limit > 0) ~> (pc = "idle")
=============================================================================
