------------------------------ MODULE MCFetch -------------------------------
(***************************************************************************)
(* Three users of one site.  An author writes its robots.txt line by line; *)
(* threads of a program share a fetcher; cf check goes through a list of   *)
(* targets, with a fetcher for each.                                       *)
(***************************************************************************)
EXTENDS CheckLoop, RobotsMeaning, TLC

CONSTANTS
  Users,       \* those of the instance
  MaxLines,    \* bound on the lines the author writes
  CheckClock   \* bound on the clock for cf check

VARIABLE user

Slash == "/"
Path(s) == <<Slash>> \o s
PathA == Path(<<"a">>)

Pat(segs, anchored) == [segs |-> segs, anchored |-> anchored]
Prefix(s) == Pat(<<s>>, FALSE)
Rule(field, pattern) == [field |-> field, pattern |-> pattern]
Agent(name) == [field |-> "user-agent", agent |-> name]
DelayOf(n) == [field |-> "crawl-delay", secs |-> n]
OtherLine == [field |-> "sitemap"]

(* In force by turns: nothing but a delay, a rule and a longer delay. *)
MCLines ==
  "slow" :> <<Agent("*"), DelayOf(1)>>
  @@ "closed" :> <<Agent("*"), Rule("disallow", Prefix(PathA)), DelayOf(2)>>

MCUrls ==
  {[host |-> "h", path |-> PathA], [host |-> "h", path |-> Path(<<>>)],
   [host |-> NoHost, path |-> Path(<<>>)]}

Ask(url, cond) == [url |-> url, cond |-> cond]
MCRequests == {Ask(u, FALSE) : u \in MCUrls} \cup {Ask([host |-> "h", path |-> Path(<<>>)], TRUE)}

MCUrlOf == "t1" :> [host |-> "h", path |-> Path(<<>>)]
        @@ "t2" :> [host |-> "h", path |-> PathA]
        @@ "t3" :> [host |-> NoHost, path |-> Path(<<>>)]
MCLists == {<<"t1", "t2">>, <<"t3", Unknown, "t1">>}

Tag(kind, name, size) == [kind |-> kind, name |-> name, size |-> size]
Txt(n) == [kind |-> "text", name |-> "", size |-> n]

(* A page; the shell of one, a script that never ends; a root left empty. *)
MCBodies ==
  {<<Tag("open", "p", 1), Txt(4), Tag("close", "p", 1)>>,
   <<Txt(1), Tag("open", "script", 9), Txt(20)>>,
   <<Txt(9), Tag("root", "div", 2), Tag("space", "", 1), Tag("close", "div", 1)>>}

----------------------------------------------------------------------------
(* The lines an author picks from: us, anybody and somebody else, and rules
   that overlap, some with a wildcard, one with an end. *)
MCDraftLines ==
  {Agent("*"), Agent("us"), Agent("other"), DelayOf(1), OtherLine,
   Rule("disallow", Prefix(PathA)), Rule("allow", Prefix(PathA)),
   Rule("disallow", Prefix(Path(<<>>))), Rule("disallow", EmptyPattern),
   Rule("allow", Pat(<<Path(<<>>), <<"a", "b">> >>, FALSE)),
   Rule("disallow", Pat(<<PathA>>, TRUE)),
   Rule("disallow", Pat(<< <<>>, <<"b">>, <<"a">> >>, FALSE))}

(* A rule for what ends in a letter, wherever else it has it. *)
MCEndedLines == {Agent("*"), Rule("disallow", Pat(<< <<>>, <<"b">> >>, TRUE))}

Symmetry == Permutations(Callers \ {Self})

MCPaths == {Path(s) : s \in SeqOf({"a", "b"}, 3)}
MCChars == {Slash, "a", "b"}

NoLoop ==
  /\ todo = <<>> /\ strict = FALSE
  /\ at = "list" /\ worst = "NoChange" /\ exit = NoExit /\ codes = <<>>

MCInit ==
  /\ user \in Users
  /\ AuthorInit
  /\ \/ user = "check" /\ LoopInit /\ mode.render = "auto"
     \/ user = "program" /\ Init /\ NoLoop /\ mode.respect /\ mode.render = "auto"
        /\ served["h"] # Missing
     \/ /\ user = "author" /\ Init /\ NoLoop
        /\ mode = [render |-> "auto", respect |-> TRUE] /\ served["h"] = Missing

(* Bounds for the program: robots.txt is replaced once, by another, or fails
   to arrive once, and every GET yields a page. *)
NothingYet == \A h \in Hosts, t \in AnyText : t # served[h] => inForce[h][t] = Never

Bounded ==
  /\ served' # served => NothingYet /\ \A h \in Hosts : served'[h] # Missing
  /\ \A h \in Hosts : inForce'[h][Missing] # inForce[h][Missing] => NothingYet
  /\ \A c \in Callers :
       /\ outcome'[c].kind \in {"none", "Body", "Robots", "RateLimit"}
       /\ req'[c].cond = FALSE
  /\ pc'[Self] = "idle"

MCNext ==
  \/ user = "author" /\ AuthorNext /\ Len(draft') <= MaxLines /\ UNCHANGED <<vars, user>>
  \/ user = "program" /\ Next /\ Bounded /\ UNCHANGED <<loopVars, user, draft>>
  \/ user = "check" /\ LoopNext /\ clock' <= CheckClock /\ UNCHANGED <<user, draft>>

MCSpec == MCInit /\ [][MCNext]_<<vars, user, draft>>

=============================================================================
