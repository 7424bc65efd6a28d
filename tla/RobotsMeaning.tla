--------------------------- MODULE RobotsMeaning ----------------------------
(***************************************************************************)
(* What a robots.txt means, without a parser or a matcher.  A rule is for  *)
(* the agents named in the lines above it, with no rule between; a path    *)
(* matches a pattern if its segments can be laid out in it in order; it is *)
(* allowed unless some Disallow is longer than every Allow.  An author     *)
(* writes such a file line by line.                                        *)
(***************************************************************************)
EXTENDS Robots

CONSTANTS
  DraftLines,  \* the lines the author may write
  Paths,       \* the paths that are judged
  Chars        \* what they are made of

IsAgentLine(l) == l.field = "user-agent"
IsPathRule(l) == l.field \in {"allow", "disallow"}
IsRule(l) == IsPathRule(l) \/ l.field = "crawl-delay"

Patterns == [segs : Seq(Seq(Chars)) \ {<<>>}, anchored : BOOLEAN]

ASSUME DraftAssumption ==
  /\ Paths \subseteq Seq(Chars)
  /\ \A l \in DraftLines :
       /\ IsPathRule(l) => l.pattern \in Patterns
       /\ l.field = "crawl-delay" => l.secs \in Nat \cup {NoDelay}

VARIABLE draft

AuthorInit == draft = <<>>
WriteLine(line) == draft' = Append(draft, line)
AuthorNext == \E l \in DraftLines : WriteLine(l)
AuthorSpec == AuthorInit /\ [][AuthorNext]_draft

----------------------------------------------------------------------------
AgentLines(text, names) ==
  {a \in DOMAIN text : IsAgentLine(text[a]) /\ text[a].agent \in names}

(* A rule above, a line below that names an agent: two different groups. *)
Apart(text, a, n) ==
  \E k \in a..n : \E r \in a..(k - 1) : IsRule(text[r]) /\ IsAgentLine(text[k])

RulesFor(text, names) ==
  {text[i] : i \in {n \in DOMAIN text :
     /\ IsPathRule(text[n])
     /\ \E a \in AgentLines(text, names) : a < n /\ ~Apart(text, a, n)}}

Fits(pat, path) ==
  /\ pat # EmptyPattern
  /\ \E start \in [DOMAIN pat.segs -> 0..Len(path)] :
       /\ start[1] = 0
       /\ \A i \in DOMAIN pat.segs :
            /\ Occurs(pat.segs[i], path, start[i])
            /\ i > 1 => start[i] >= start[i - 1] + Len(pat.segs[i - 1])
       /\ pat.anchored =>
            \/ Len(pat.segs) > 1 /\ Last(pat.segs) = <<>>
            \/ start[Len(pat.segs)] + Len(Last(pat.segs)) = Len(path)

MeansAllowed(text, path) ==
  LET names == IF AgentLines(text, OwnTokens) # {} THEN OwnTokens ELSE {AnyAgent}
      rules == RulesFor(text, names)
      lens(field) == {LiteralLen(r.pattern) :
                        r \in {q \in rules : q.field = field /\ Fits(q.pattern, path)}}
  IN  \A d \in lens("disallow") : \E a \in lens("allow") : a >= d

(* At most one line is ours and at most one is for anybody. *)
OneGroupEach(text) ==
  \A names \in {OwnTokens, {AnyAgent}} : \A i, j \in AgentLines(text, names) : i = j

(* No pattern has both a `*' and a final `$'. *)
EndsAreWhole(text) ==
  \A n \in DOMAIN text :
    IsPathRule(text[n]) /\ text[n].pattern.anchored => Len(text[n].pattern.segs) = 1

JudgedAsMeant(text) ==
  \A path \in Paths : Allowed(Parse(text), path) = MeansAllowed(text, path)

(***************************************************************************)
(* The judgement of the parser, the choice of a group and the matcher is   *)
(* that meaning.  A pattern with both a `*' and a final `$' is excluded:   *)
(* for those the matcher stops at the first place a segment occurs.        *)
(***************************************************************************)
JudgesAsMeant == OneGroupEach(draft) /\ EndsAreWhole(draft) => JudgedAsMeant(draft)

(***************************************************************************)
(* The comment above pattern_match_len excludes none: it "supports `*'     *)
(* (any run) and a trailing `$' (end-anchor)".                             *)
(***************************************************************************)
JudgesEveryPattern == OneGroupEach(draft) => JudgedAsMeant(draft)
=============================================================================
