----------------------------- MODULE CheckLoop ------------------------------
(***************************************************************************)
(* cf check over several targets: one after the other, each with a fetcher *)
(* of its own, and the exit code made of theirs.  Self is the only caller  *)
(* of those fetchers.  What the comparison of a body with the baseline     *)
(* comes to is left open: Changefeed has it.                               *)
(***************************************************************************)
EXTENDS Fetcher

CONSTANTS
  Self,         \* the process
  UrlOf,        \* the URL of each target that is configured, or given as one
  Unknown,      \* a name that is neither
  Lists         \* the target lists of an invocation

ASSUME SelfAssumption == Self \in Callers
ASSUME ListsAssumption ==
  /\ Unknown \notin DOMAIN UrlOf
  /\ Lists \subseteq Seq(DOMAIN UrlOf \cup {Unknown})
  /\ \A t \in DOMAIN UrlOf : [url |-> UrlOf[t], cond |-> FALSE] \in Requests

VARIABLES
  todo,      \* the targets not yet done with, the current one first
  at,        \* "list", or what run_one_check is at for the current target
  strict,    \* --fail-on-fetch-error
  worst,
  exit,
  codes      \* history: the exit codes of the targets checked

loopVars == <<todo, at, strict, worst, exit, codes>>
vars == <<fetchVars, loopVars>>

(* ExitCode, in the order of worse_of's rank. *)
Ranking ==
  <<"NoChange", "FirstObs", "SubThreshold", "Change", "SoftFetch", "RateLimit",
    "Robots", "Auth", "RenderNeeded", "NotFound", "Usage">>
ExitCodes == Range(Ranking)
Observed == {"NoChange", "FirstObs", "SubThreshold", "Change"}
Failures == ExitCodes \ Observed
NoExit == "none"

Rank(code) == CHOOSE i \in DOMAIN Ranking : Ranking[i] = code

WorseOf_Latest(a, b) == b
WorseOf(a, b) == IF Rank(a) >= Rank(b) THEN a ELSE b

----------------------------------------------------------------------------
LoopInit ==
  /\ Init
  /\ todo \in Lists
  /\ strict \in BOOLEAN
  /\ at = "list" /\ worst = "NoChange" /\ exit = NoExit /\ codes = <<>>

(* A target is done with: the next one. *)
Record(code) ==
  /\ worst' = WorseOf(worst, code)
  /\ codes' = Append(codes, code)
  /\ todo' = Tail(todo)
  /\ at' = "list"
  /\ UNCHANGED <<strict, exit>>

(* The `?' in the loop: the code of the error, whatever came before. *)
AbortWith(code) ==
  /\ exit' = code
  /\ at' = "end"
  /\ UNCHANGED <<todo, strict, worst, codes>>

Take == at = "list" /\ todo # <<>>

TakeUnknown ==
  /\ Take /\ Head(todo) = Unknown
  /\ AbortWith("NotFound")
  /\ UNCHANGED fetchVars

TakeChromium ==
  /\ Take /\ Head(todo) # Unknown
  /\ Record("RenderNeeded")
  /\ UNCHANGED fetchVars

(* do_fetch: a fetcher of its own, nothing in its cache, for a target that
   is not to be rendered. *)
TakeTarget(render) ==
  /\ Take /\ Head(todo) # Unknown
  /\ at' = "fetch"
  /\ mode' = [mode EXCEPT !.render = render]
  /\ cache' = [h \in Hosts |-> NoEntry]
  /\ sameEntry' = [h \in Hosts |-> FALSE]
  /\ told' = [h \in Hosts |-> NoReply]
  /\ outcome' = [outcome EXCEPT ![Self] = Ended("none")]
  /\ UNCHANGED <<netVars, pc, req, now, asked, held, lastLet, todo, strict, worst, exit, codes>>

Fetching == at = "fetch" /\ pc[Self] = "idle"

(* No stored document has a validator, so no request is conditional. *)
SendRequest ==
  /\ Fetching /\ outcome[Self].kind = "none"
  /\ Begin(Self, [url |-> UrlOf[Head(todo)], cond |-> FALSE])
  /\ UNCHANGED loopVars

(* The HTTP client does not build. *)
NoFetcher ==
  /\ Fetching /\ outcome[Self].kind = "none"
  /\ AbortWith("Usage")
  /\ UNCHANGED fetchVars

CodeOf(kind) ==
  CASE kind = "NotModified"           -> "NoChange"
    [] kind = "SoftFetch" /\ strict   -> "Usage"
    [] OTHER                          -> kind

FetchEnds ==
  /\ Fetching /\ outcome[Self].kind \notin {"none", "Body"}
  /\ Record(CodeOf(outcome[Self].kind))
  /\ UNCHANGED fetchVars

FetchYieldsBody ==
  /\ Fetching /\ outcome[Self].kind = "Body"
  /\ at' = "observe"
  /\ UNCHANGED <<fetchVars, todo, strict, worst, exit, codes>>

(* The envelope of a rate limit, or of an observation, is not written; or
   the store fails under it. *)
Fails ==
  /\ \/ at = "observe"
     \/ Fetching /\ outcome[Self].kind = "RateLimit"
  /\ AbortWith("Usage")
  /\ UNCHANGED fetchVars

(* A body that yields no document is an exit 1 that ends nothing. *)
ObserveBody(code) ==
  /\ at = "observe"
  /\ code \in Observed \cup {"Usage"}
  /\ Record(code)
  /\ UNCHANGED fetchVars

End ==
  /\ at = "list" /\ todo = <<>>
  /\ exit' = worst /\ at' = "end"
  /\ UNCHANGED <<fetchVars, todo, strict, worst, codes>>

LoopStep ==
  \/ TakeUnknown \/ TakeChromium \/ \E r \in {"auto", "never"} : TakeTarget(r)
  \/ SendRequest \/ NoFetcher \/ FetchEnds \/ FetchYieldsBody \/ Fails
  \/ \E code \in ExitCodes : ObserveBody(code)
  \/ End

LoopNext ==
  \/ World /\ UNCHANGED loopVars
  \/ FetchStep(Self) /\ UNCHANGED loopVars
  \/ LoopStep

LoopSpec == LoopInit /\ [][LoopNext]_vars

----------------------------------------------------------------------------
(***************************************************************************)
(* The one exit code a loop over targets ends with says the worst of them  *)
(* all: 0 means that each was observed and none had changed, 10 that none  *)
(* failed, no failure is hidden by a milder code, and targets that were    *)
(* not even tried show as an error of the invocation.                      *)
(***************************************************************************)
ExitTellsTheWorst ==
  exit # NoExit =>
    /\ todo # <<>> => exit \in {"Usage", "NotFound"}
    /\ exit = "NoChange" => Range(codes) \subseteq {"NoChange"}
    /\ Range(codes) \cap Failures # {} => exit \in Failures
    /\ "Change" \in Range(codes) => exit \in {"Change"} \cup Failures
=============================================================================
