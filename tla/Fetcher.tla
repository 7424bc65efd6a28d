------------------------------ MODULE Fetcher -------------------------------
(***************************************************************************)
(* One HttpFetcher: the look-up of robots in its cache, the fetch of       *)
(* robots.txt when the entry is missing or old, the judgement and the gate *)
(* on the crawl delay, the GET, and what is made of the answer.  Time is   *)
(* counted in ticks.  The fetcher is made to be shared by threads, its     *)
(* cache behind a lock; no command of the program does share one.          *)
(*                                                                         *)
(* The watched sites may replace their robots.txt at any time.  Redirects, *)
(* time-outs and resets are answers of a kind; credentials, validators and *)
(* the timing of a response are left out.                                  *)
(***************************************************************************)
EXTENDS Robots, RenderHint

CONSTANTS
  Callers,      \* the threads that share the fetcher
  Hosts, NoHost,   \* NoHost: a URL that does not parse
  Urls,         \* records with a host and a path
  Requests,     \* a URL each, and whether with a validator
  Texts, Lines, \* the robots.txt there may be, and what they hold
  Missing,      \* a robots.txt that is not there, or that fails to arrive
  Bodies,       \* bodies of at most 5 MB
  TooBig,       \* a longer one, or one cut off
  Ttl,          \* ROBOTS_TTL_MS
  TicksPerSec,
  MaxClock      \* bound on the clock

ASSUME TimeAssumption == Ttl \in Nat \ {0} /\ TicksPerSec \in Nat \ {0} /\ MaxClock \in Nat
ASSUME SitesAssumption ==
  /\ NoHost \notin Hosts /\ Missing \notin Texts
  /\ Urls \subseteq [host : Hosts \cup {NoHost}, path : {u.path : u \in Urls}]
  /\ Requests \subseteq [url : Urls, cond : BOOLEAN]
ASSUME LinesAssumption ==
  \A t \in Texts :
    /\ Lines[t] \in Seq(Range(Lines[t]))
    /\ \A l \in Range(Lines[t]) : l.field = "crawl-delay" => l.secs \in Nat \cup {NoDelay}

VARIABLES
  clock,
  served,      \* served[h]: the robots.txt of a host
  cache,       \* robots: its entries by host
  mode,        \* the fetcher's render mode, and whether it respects robots
  pc, req,     \* per caller: where it stands, and its request
  now,         \* the time its look-up in the cache took
  asked,       \* the time it came to the gate
  held,        \* the robots it then holds
  outcome,     \* what its last call returned
  (* history *)
  inForce,     \* the last time a robots.txt was in force, or failed to arrive
  lastLet,     \* when the last request came that the gate let through
  sameEntry,   \* whether the host's entry is still the one it then had
  told         \* the time at which the gate said to come back

netVars == <<clock, served, inForce>>
callVars == <<pc, req, now, asked, held, outcome>>
gateVars == <<cache, lastLet, sameEntry, told>>
fetchVars == <<netVars, callVars, gateVars, mode>>

Never == -1
NoEntry == [robots |-> Missing, at |-> Never, last |-> Never]
NoReply == [until |-> Never, delay |-> NoDelay]
NoRequest == [url |-> [host |-> NoHost, path |-> <<>>], cond |-> FALSE]
Modes == [render : {"auto", "never", "chromium"}, respect : BOOLEAN]
NoRetry == -1
Ended(kind) == [kind |-> kind, retry |-> NoRetry]
Outcomes ==
  [kind : {"none", "Body", "NotModified", "Robots", "Auth", "RateLimit",
           "SoftFetch", "RenderNeeded"},
   retry : Nat \cup {NoRetry}]

AnyText == Texts \cup {Missing}

(* An entry, and what a caller holds, are named by the text they stem from. *)
RobotsOf == [t \in AnyText |-> IF t = Missing THEN AllowAll ELSE Parse(Lines[t])]
DelaySecs == [t \in AnyText |-> CrawlDelaySecs(RobotsOf[t])]

----------------------------------------------------------------------------
Init ==
  /\ clock = 0
  /\ served \in [Hosts -> AnyText]
  /\ inForce = [h \in Hosts |-> [t \in AnyText |-> Never]]
  /\ mode \in Modes
  /\ cache = [h \in Hosts |-> NoEntry]
  /\ pc = [c \in Callers |-> "idle"]
  /\ req = [c \in Callers |-> NoRequest]
  /\ now = [c \in Callers |-> 0]
  /\ asked = [c \in Callers |-> 0]
  /\ held = [c \in Callers |-> Missing]
  /\ outcome = [c \in Callers |-> Ended("none")]
  /\ lastLet = [h \in Hosts |-> Never]
  /\ sameEntry = [h \in Hosts |-> FALSE]
  /\ told = [h \in Hosts |-> NoReply]

Tick ==
  /\ clock < MaxClock
  /\ clock' = clock + 1
  /\ UNCHANGED <<served, inForce, callVars, gateVars, mode>>

PublishRobots(h, t) ==
  /\ t # served[h]
  /\ served' = [served EXCEPT ![h] = t]
  /\ inForce' = [inForce EXCEPT ![h][served[h]] = clock]
  /\ UNCHANGED <<clock, callVars, gateVars, mode>>

----------------------------------------------------------------------------
Goto(c, where) == pc' = [pc EXCEPT ![c] = where]

(* What a caller holds of the robots goes out of scope, and with the end of
   the call its request. *)
DropRobots(c) ==
  /\ now' = [now EXCEPT ![c] = 0]
  /\ asked' = [asked EXCEPT ![c] = 0]
  /\ held' = [held EXCEPT ![c] = Missing]

Return(c, result) ==
  /\ Goto(c, "idle")
  /\ outcome' = [outcome EXCEPT ![c] = result]
  /\ req' = [req EXCEPT ![c] = NoRequest]
  /\ DropRobots(c)

Host(c) == req[c].url.host
Delay(c) == DelaySecs[held[c]] * TicksPerSec
HasDelay(c) == DelaySecs[held[c]] # NoDelay

Begin_UnparsedUrl(c, q) ==
  /\ pc[c] = "idle"
  /\ Goto(c, IF mode.respect THEN "robots" ELSE "get")
  /\ req' = [req EXCEPT ![c] = q]
  /\ outcome' = [outcome EXCEPT ![c] = Ended("none")]
  /\ UNCHANGED <<netVars, now, asked, held, gateVars, mode>>

(* fetch_inner up to the robots: no tier renders, and the URL must parse. *)
Begin(c, q) ==
  /\ pc[c] = "idle"
  /\ IF mode.render = "chromium" THEN Return(c, Ended("RenderNeeded"))
     ELSE IF q.url.host = NoHost THEN Return(c, Ended("SoftFetch"))
     ELSE /\ Goto(c, IF mode.respect THEN "robots" ELSE "get")
          /\ req' = [req EXCEPT ![c] = q]
          /\ outcome' = [outcome EXCEPT ![c] = Ended("none")]
          /\ UNCHANGED <<now, asked, held>>
  /\ UNCHANGED <<netVars, gateVars, mode>>

Fresh_Always(entry) == entry # NoEntry
Fresh(entry) == entry # NoEntry /\ clock - entry.at < Ttl

FindRobots(c) ==
  /\ pc[c] = "robots"
  /\ now' = [now EXCEPT ![c] = clock]
  /\ LET entry == cache[Host(c)] IN
     IF Fresh(entry)
     THEN Goto(c, "judge") /\ held' = [held EXCEPT ![c] = entry.robots]
     ELSE Goto(c, "ask") /\ UNCHANGED held
  /\ UNCHANGED <<netVars, req, asked, outcome, gateVars, mode>>

(* robots.txt arrives, or anything but a success does, which allows all.
   The new entry forgets when the host was last fetched. *)
RobotsArrive(c, t) ==
  LET h == Host(c) IN
  /\ pc[c] = "ask"
  /\ t \in {served[h], Missing}
  /\ cache' = [cache EXCEPT ![h] =
       [robots |-> t, at |-> now[c], last |-> Never]]
  /\ held' = [held EXCEPT ![c] = t]
  /\ inForce' = [inForce EXCEPT ![h][t] = clock]
  /\ sameEntry' = [sameEntry EXCEPT ![h] = FALSE]
  /\ told' = [told EXCEPT ![h] = NoReply]
  /\ Goto(c, "judge")
  /\ UNCHANGED <<clock, served, req, now, asked, outcome, lastLet, mode>>

Disallow(c) ==
  /\ pc[c] = "judge"
  /\ ~Allowed(RobotsOf[held[c]], req[c].url.path)
  /\ Return(c, Ended("Robots"))
  /\ UNCHANGED <<netVars, gateVars, mode>>

LetThrough(c) ==
  /\ pc[c] = "judge"
  /\ Allowed(RobotsOf[held[c]], req[c].url.path)
  /\ ~HasDelay(c)
  /\ Goto(c, "get") /\ DropRobots(c)
  /\ UNCHANGED <<netVars, req, outcome, gateVars, mode>>

(***************************************************************************)
(* crawl_delay_gate: it reads the clock, and then takes the lock.  Under   *)
(* the lock a request that came too soon gets the rest of the wait in      *)
(* whole seconds, and the stamp stays.                                     *)
(***************************************************************************)
EnterGate(c) ==
  /\ pc[c] = "judge"
  /\ Allowed(RobotsOf[held[c]], req[c].url.path)
  /\ HasDelay(c)
  /\ Goto(c, "gate")
  /\ asked' = [asked EXCEPT ![c] = clock]
  /\ UNCHANGED <<netVars, req, now, held, outcome, gateVars, mode>>

Elapsed(c) == asked[c] - cache[Host(c)].last

TooSoon_OffByOne(c) ==
  cache[Host(c)].last # Never /\ Elapsed(c) + 1 < Delay(c)

TooSoon(c) == cache[Host(c)].last # Never /\ Elapsed(c) < Delay(c)

RetryAfter_Truncated(c) == (Delay(c) - Elapsed(c)) \div TicksPerSec

RetryAfter(c) == (Delay(c) - Elapsed(c) + TicksPerSec - 1) \div TicksPerSec

Refuse(c) ==
  LET h == Host(c) IN
  /\ pc[c] = "gate" /\ TooSoon(c)
  /\ Return(c, [kind |-> "RateLimit", retry |-> RetryAfter(c)])
  /\ told' = [told EXCEPT ![h] =
       [until |-> asked[c] + RetryAfter(c) * TicksPerSec, delay |-> Delay(c)]]
  /\ UNCHANGED <<netVars, cache, lastLet, sameEntry, mode>>

PassGate(c) ==
  LET h == Host(c) IN
  /\ pc[c] = "gate" /\ ~TooSoon(c)
  /\ Goto(c, "get") /\ DropRobots(c)
  /\ cache' = [cache EXCEPT ![h].last = asked[c]]
  /\ lastLet' = [lastLet EXCEPT ![h] = asked[c]]
  /\ sameEntry' = [sameEntry EXCEPT ![h] = TRUE]
  /\ told' = [told EXCEPT ![h] = NoReply]
  /\ UNCHANGED <<netVars, req, outcome, mode>>

----------------------------------------------------------------------------
Shells == {b \in Bodies : NeedsRender(b)}

(* The answers to a GET; only a conditional one gets a 304. *)
Statuses == {304, 401, 403, 404, 429, 503}

Reply(c, status) ==
  /\ pc[c] = "get"
  /\ status = 304 => req[c].cond
  /\ Return(c, Ended(CASE status = 304          -> "NotModified"
                       [] status \in {401, 403} -> "Auth"
                       [] status = 429          -> "RateLimit"
                       [] OTHER                 -> "SoftFetch"))
  /\ UNCHANGED <<netVars, gateVars, mode>>

ReplyBody(c, body) ==
  /\ pc[c] = "get"
  /\ Return(c, Ended(IF body = TooBig THEN "SoftFetch"
                     ELSE IF mode.render # "never" /\ body \in Shells
                     THEN "RenderNeeded" ELSE "Body"))
  /\ UNCHANGED <<netVars, gateVars, mode>>

(* DNS, TLS, a time-out, a fourth redirect. *)
TransportError(c) ==
  /\ pc[c] = "get"
  /\ Return(c, Ended("SoftFetch"))
  /\ UNCHANGED <<netVars, gateVars, mode>>

FetchStep(c) ==
  \/ FindRobots(c)
  \/ \E t \in AnyText : RobotsArrive(c, t)
  \/ Disallow(c) \/ LetThrough(c)
  \/ EnterGate(c) \/ Refuse(c) \/ PassGate(c)
  \/ \E s \in Statuses : Reply(c, s)
  \/ \E b \in Bodies \cup {TooBig} : ReplyBody(c, b)
  \/ TransportError(c)

World == Tick \/ \E h \in Hosts, t \in AnyText : PublishRobots(h, t)

Next ==
  \/ World
  \/ \E c \in Callers, q \in Requests : Begin(c, q)
  \/ \E c \in Callers : FetchStep(c)

Spec == Init /\ [][Next]_fetchVars

----------------------------------------------------------------------------
(* Times lie in the past, a caller in flight asks for a host, and one at the
   gate has a delay to keep. *)
Times == 0..MaxClock
Places == {"idle", "robots", "ask", "judge", "gate", "get"}
Entries == [robots : AnyText, at : Times \cup {Never}, last : Times \cup {Never}]

TypeOK ==
  /\ clock \in Times
  /\ served \in [Hosts -> AnyText]
  /\ inForce \in [Hosts -> [AnyText -> 0..clock \cup {Never}]]
  /\ mode \in Modes
  /\ cache \in [Hosts -> Entries]
  /\ \A h \in Hosts : cache[h].at <= clock /\ cache[h].last <= clock
  /\ pc \in [Callers -> Places]
  /\ req \in [Callers -> Requests \cup {NoRequest}]
  /\ \A c \in Callers : pc[c] # "idle" => Host(c) \in Hosts
  /\ now \in [Callers -> 0..clock]
  /\ asked \in [Callers -> 0..clock]
  /\ held \in [Callers -> AnyText]
  /\ \A c \in Callers : pc[c] = "gate" => HasDelay(c)
  /\ outcome \in [Callers -> Outcomes]
  /\ lastLet \in [Hosts -> 0..clock \cup {Never}]
  /\ sameEntry \in [Hosts -> BOOLEAN]
  /\ told \in [Hosts -> [until : Nat \cup {Never}, delay : Nat \cup {NoDelay}]]

(* Some caller is let through to the GET in this step. *)
Lets(c) == pc[c] \in {"judge", "gate"} /\ pc'[c] = "get"
Refuses(c) == pc[c] = "gate" /\ outcome'[c].kind = "RateLimit" /\ pc'[c] = "idle"

(***************************************************************************)
(* Robots are respected: a request goes out only to a path that a          *)
(* robots.txt allows which was in force, or could not be had, less than    *)
(* the Ttl before the caller looked the host up.                           *)
(***************************************************************************)
InForceSince(h, t, from) == served[h] = t \/ inForce[h][t] >= from

RobotsObeyed ==
  [][\A c \in Callers : Lets(c) =>
       \E t \in AnyText :
         /\ InForceSince(Host(c), t, now[c] - Ttl + 1)
         /\ Allowed(RobotsOf[t], req[c].url.path)]_fetchVars

(***************************************************************************)
(* The crawl delay is a floor under the spacing of the requests that the   *)
(* gate of one fetcher lets through, by the time each came to the gate and *)
(* in whatever order they got the lock: as long as the host's entry is not *)
(* replaced by a fresh one in between.                                     *)
(***************************************************************************)
GateSpacesRequests ==
  [][\A c \in Callers : Lets(c) /\ HasDelay(c) /\ sameEntry[Host(c)] =>
       asked[c] >= lastLet[Host(c)] + Delay(c)]_fetchVars

(***************************************************************************)
(* A caller that waits for as long as retry_after says is not refused      *)
(* again, unless another request has passed in the meantime.               *)
(***************************************************************************)
WaitSuffices ==
  [][\A c \in Callers : Refuses(c) =>
       LET reply == told[Host(c)] IN
       \/ reply = NoReply
       \/ reply.delay < Delay(c)
       \/ asked[c] < reply.until]_fetchVars

(***************************************************************************)
(* What DESIGN.md says of Crawl-delay: it is honored as a floor on the     *)
(* spacing of requests, and one-shot checks remember the last one.         *)
(***************************************************************************)
CrawlDelayHonored ==
  [][\A c \in Callers : Lets(c) /\ HasDelay(c) /\ lastLet[Host(c)] # Never =>
       asked[c] >= lastLet[Host(c)] + Delay(c)]_fetchVars
=============================================================================
