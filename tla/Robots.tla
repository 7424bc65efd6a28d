------------------------------- MODULE Robots -------------------------------
(***************************************************************************)
(* robots.txt as the fetcher reads it: the parser, the choice of a group,  *)
(* and the matcher of path patterns.  Texts are sequences of lines, paths  *)
(* sequences of characters; a pattern is what splitting it at `*' leaves,  *)
(* and whether a final `$' was cut off it.                                 *)
(***************************************************************************)
EXTENDS Integers, SequencesExt

CONSTANTS
  OwnTokens    \* the agent names but `*' that occur in the fetcher's User-Agent

AnyAgent == "*"
ASSUME TokensAssumption == AnyAgent \notin OwnTokens

NoDelay == -1
NoGroup == [agents |-> <<>>, rules |-> <<>>, delay |-> NoDelay]
AllowAll == <<>>

----------------------------------------------------------------------------
(* Robots::parse, line by line.  `open' is whether there is a
   current group, `ruled' is last_was_rule. *)
Start == [groups |-> <<>>, cur |-> NoGroup, open |-> FALSE, ruled |-> FALSE]

Close(st) ==
  [st EXCEPT !.groups = IF st.open THEN Append(@, st.cur) ELSE @,
             !.cur = NoGroup, !.open = FALSE, !.ruled = FALSE]

AgentLine_NeverCloses(st, agent) ==
  [st EXCEPT !.cur.agents = Append(@, agent), !.open = TRUE, !.ruled = FALSE]

AgentLine(st, agent) ==
  LET base == IF st.ruled THEN Close(st) ELSE st
  IN  [base EXCEPT !.cur.agents = Append(@, agent), !.open = TRUE]

RuleLine(st, rule) ==
  [st EXCEPT !.cur.rules = Append(@, rule), !.open = TRUE, !.ruled = TRUE]

(* A delay that is no number leaves the group's; it still ends the agents. *)
DelayLine(st, secs) ==
  [st EXCEPT !.cur.delay = IF secs = NoDelay THEN @ ELSE secs,
             !.open = TRUE, !.ruled = TRUE]

ReadLine(st, line) ==
  CASE line.field = "user-agent"  -> AgentLine(st, line.agent)
    [] line.field = "allow"       -> RuleLine(st, [allow |-> TRUE, pattern |-> line.pattern])
    [] line.field = "disallow"    -> RuleLine(st, [allow |-> FALSE, pattern |-> line.pattern])
    [] line.field = "crawl-delay" -> DelayLine(st, line.secs)
    [] OTHER                      -> st

Parse(text) ==
  LET upTo[n \in 0..Len(text)] ==
        IF n = 0 THEN Start ELSE ReadLine(upTo[n - 1], text[n])
  IN  Close(upTo[Len(text)]).groups

----------------------------------------------------------------------------
(* group_for: the first group naming us, else the last one naming `*'. *)
Naming(groups, names) ==
  {i \in DOMAIN groups : Range(groups[i].agents) \cap names # {}}

GroupFor(groups) ==
  LET own == Naming(groups, OwnTokens)
      star == Naming(groups, {AnyAgent})
  IN  IF own # {} THEN groups[CHOOSE i \in own : \A j \in own : i <= j]
      ELSE IF star # {} THEN groups[CHOOSE i \in star : \A j \in star : i >= j]
      ELSE NoGroup

CrawlDelaySecs(groups) == GroupFor(groups).delay

----------------------------------------------------------------------------
(* pattern_match_len, NoMatch for None. *)
NoMatch == -1

EmptyPattern == [segs |-> << <<>> >>, anchored |-> FALSE]

Occurs(seg, path, at) ==
  at + Len(seg) <= Len(path) /\ SubSeq(path, at + 1, at + Len(seg)) = seg

(* find: the first place at or after pos. *)
FirstAfter(seg, path, pos) ==
  LET places == {at \in pos..(Len(path) - Len(seg)) : Occurs(seg, path, at)}
  IN  IF places = {} THEN NoMatch
      ELSE (CHOOSE at \in places : \A q \in places : at <= q) + Len(seg)

(* Where the matcher stands after each segment, the first one a prefix. *)
Positions(pat, path) ==
  LET pos[i \in DOMAIN pat.segs] ==
        LET seg == pat.segs[i] IN
        IF i = 1 THEN IF IsPrefix(seg, path) THEN Len(seg) ELSE NoMatch
        ELSE IF pos[i - 1] = NoMatch \/ seg = <<>> THEN pos[i - 1]
        ELSE FirstAfter(seg, path, pos[i - 1])
  IN  pos

LiteralLen(pat) ==
  LET upTo[n \in 0..Len(pat.segs)] ==
        IF n = 0 THEN 0 ELSE upTo[n - 1] + Len(pat.segs[n])
  IN  upTo[Len(pat.segs)]

PatternMatchLen(pat, path) ==
  LET stop == Last(Positions(pat, path)) IN
  IF \/ pat = EmptyPattern
     \/ stop = NoMatch
     \/ pat.anchored /\ stop # Len(path)
  THEN NoMatch
  ELSE LiteralLen(pat)

(* The longest match wins, and an Allow over a Disallow of its length. *)
Better_OnLength(rule, best, path) ==
  PatternMatchLen(rule.pattern, path) > PatternMatchLen(best.pattern, path)

Better(rule, best, path) ==
  LET len == PatternMatchLen(rule.pattern, path)
      top == PatternMatchLen(best.pattern, path)
  IN  \/ len > top
      \/ len = top /\ len # NoMatch /\ rule.allow /\ ~best.allow

NoRule == [allow |-> TRUE, pattern |-> EmptyPattern]

Best(rules, path) ==
  LET upTo[n \in 0..Len(rules)] ==
        IF n = 0 THEN NoRule
        ELSE LET best == upTo[n - 1]
             IN  IF Better(rules[n], best, path) THEN rules[n] ELSE best
  IN  upTo[Len(rules)]

Allowed(groups, path) == Best(GroupFor(groups).rules, path).allow
=============================================================================
