# changefeed in TLA+

`cf` watches web pages. Each `cf check` fetches a page, canonicalizes it into a
tree of blocks, diffs it against the version stored last, scores what changed,
stores the new version and prints the changes that are material and new. This
directory holds TLA+ modules of that program, the TLC configurations that check
them on small instances, and TLAPS proofs for every instance.

All paths below are relative to `src/`.

## Inventory

| Component | Code | State it keeps | Operations | What makes it correct |
|---|---|---|---|---|
| Check and snapshot commands | `crates/cf/src/cli.rs` | none between invocations; within one: the body, the prior document, the planned revision, the events left to handle | `cmd_check`, `run_one_check`, `emit_result`, `cmd_snapshot` | every change absorbed into the baseline is reported once, or an earlier report covers it; nothing below the threshold is reported |
| Version store | `crates/cf/src/store_sqlite.rs` | `versions`, `targets.next_rev`, `seen_events`, `host_politeness` | `latest`, `next_rev`, `put_with_html`, `seen_event`, `mark_event`, `retained_revs`, `snapshot_at` | the last N revisions, numbered without a gap; a revision keeps its content; the seen-set forgets the oldest key first |
| Observation pipeline | `crates/cf-core/src/pipeline.rs` | none | `canonicalize`, `diff_and_score`, `observe_body`, `redesign_guard_event` | baseline, no-change, guard and gate exclude each other and are tried in the right order |
| Event identity | `model.rs` (`EventKey`), `cli.rs` (`event_key_for`) | none | `derive` | equal keys exactly for equal transitions |
| Block diff | `crates/cf-core/src/diff/` | none | mask, align on slot keys, LIS spine, moved runs, similarity fill, clustering | no block is told twice, none that changed goes untold; the spine is a longest one; the matching is stable |
| Texts and noise of a unit | `diff/intra.rs`, `diff/noise.rs` | none | tokens, edit script, suppression, coalescing, elision, noise score | what later stages read back from the report is what changed; only counters are damped |
| Salience | `crates/cf-core/src/salience/` | none | signals, noisy-or, noise, bands, category, action, confidence | a flip of meaning is critical, a counter is not; sticky rules decide; what comes or goes is trusted |
| Segmenter | `crates/cf-core/src/segment.rs` | section path and counters during a walk | slot keys, typed values, `doc_hash` | a text is in one block; distinct blocks get distinct keys; an edit moves no key beyond its section; `doc_hash` sees all that is shown and nothing volatile |
| Extraction, normalisation | `extract.rs`, `normalize.rs` | none | strip, select, readability, URL, text and attribute rules | what varies from fetch to fetch is gone, nothing else is; what is stripped never reaches a block |
| Fetcher and robots | `crates/cf/src/fetch_http.rs` | robots cache with time stamps, per host, behind a lock | `fetch_inner`, `robots_for`, `crawl_delay_gate`, `Robots::parse`, `allowed`, `needs_render` | requests are allowed and spaced; a caller that waits as told is let through; the longest rule wins |
| Feed, diff, show, explain, rules | `cli.rs` | none; `cf feed` hands out a cursor | read the ring, statement by statement | what is told is in the log; a reader paging through the feed sees every row once and comes to its end |
| Exit codes | `cli.rs` (`worse_of`), `model.rs` | none | composition over targets | the worst outcome wins, and no failure passes for none |
| Configuration, rule packs | `config.rs`, `config_io.rs`, `packs.rs` | files | parse, validate, append a target; layer rule packs | a layer above silences no sticky rule below |
| Events, rendering, clocks, ids | `event.rs`, `render.rs`, `ids_clock.rs` | none | serialization | not a state machine |

The parts interact as follows. A check is one process. It calls the fetcher
(network), then `Store::latest` (two SQL queries), then the pure pipeline
(canonicalize, mask, align, score, gate), and then, for a material change,
`put_with_html` (one transaction), and for each event `seen_event` (a query) and
`mark_event` (a transaction), and last of all writes stdout. Nothing serializes
two checks against each other except SQLite's lock around each statement or
transaction. The reading commands (`feed`, `diff`, `show`, `explain`, `rules`) meet the
checks only in the ring of stored versions. Within one check, the loop over
targets builds a fetcher for each, so that its cache of robots is its own. The cache
is behind a lock, and callers may share a fetcher; no command does.

What is hard about it:

* **Stale plans.** The revision to write is read before it is used; so is the
  document the diff compares with (`cli.rs:530`, `store_sqlite.rs:335`).
* **Partial failure.** The baseline advances before the events are
  deduplicated, marked and printed (`cli.rs:635`).
* **Check-then-act.** `seen_event` and `mark_event` are separate (`cli.rs:648`).
* **Bounded memory.** The ring keeps N versions, the seen-set 1000 keys for
  all targets together.
* **Time.** Robots entries expire and the site replaces them while a caller goes by
  them; the wait it is told must be long enough.
* **Reading while others write.** A reader's statements are in no transaction;
  a cursor is an offset into rows derived anew for each page.
* **Stability under edits.** Slot keys, `doc_hash` and the noise score each
  promise that some edits are seen and others are not.
* **Long histories.** Flaps are suppressed while the baseline moves on; keys
  forget part of what they identify; snapshots move the baseline in silence.

`PROJECT.json` lists each hazard at its line with the properties that cover it.

## Modules

Four groups of modules, each with an instance for TLC.

**The store and its writers**

| Module | Models | State and actions against the code |
|---|---|---|
| `Documents` | canonical documents | a document is a function from slot keys to blocks; a block is its `norm_hash` and, as one value, everything else `doc_hash` folds in (typed value, restyle signature). Equal `doc_hash` is equality. |
| `Observation` | `observe_body` and the part of the diff it needs; `event_key_for` | `Observe(prior, new, min)` returns the outcome (`baseline`, `no_change`, `sub_threshold`, `changed`) and the events. `Redesigned` is the Jaccard test in integers. `EventKey` is `EventKey::derive`. |
| `VersionStore` | each statement of `SqliteStore` | `PutRows` is the upsert and the `DELETE ... OFFSET ring_n`, `BumpNextRev` the `UPDATE`, `MarkEvent` the insert-or-ignore and the eviction. |
| `RingLog` | the abstract store | a log numbered from 0, of which the youngest `RingN` entries can be read; `Append` and `Amend`. |
| `Changefeed` | processes running `cf check` and `cf snapshot` over one store, and the page changing under them | below |
| `MCChangefeed` | | a pricing page with a price, a blurb, an advertisement under an ignore rule, and its redesign |

**Reading and fetching**

| Module | Models | State and actions against the code |
|---|---|---|
| `Readers` | `cf diff`, `explain`, `show`, `rules`, `feed`, and the agent that pages through a feed | below |
| `Robots` | `Robots::parse`, `group_for`, `allowed`, `pattern_match_len` | the parser is a recursive function over the lines, `Best` one over the rules of a group; a pattern is what splitting at `*` leaves |
| `RobotsMeaning` | | what a `robots.txt` means, with neither parser nor matcher, and an author who writes one line by line |
| `RenderHint` | `needs_render`, `visible_text_len`, `has_empty_hydration_root` | a body is a sequence of tags, texts and white space with their sizes |
| `Fetcher` | one `HttpFetcher` and its callers | below |
| `CheckLoop` | the loop of `cmd_check` over targets, `worse_of`, `fetch_err_to_exit` | below |
| `MCReaders`, `MCFetch` | | a ring of two under readers; an author of `robots.txt`, two callers of one fetcher, and a check of several targets |

**From a body to a document**

| Module | Models | State and actions against the code |
|---|---|---|
| `Extract` | the three strategies of `extract.rs`, stripping, the score of readability | a forest is its nodes in document order with their depths |
| `Normalize` | the URL, text and attribute rules of `normalize.rs` | words are told apart by what the tables of patterns find in them |
| `Segment` | the walk of `segment.rs`: roles, headings, tables, leaves, type inference, ordinals, slot keys, `doc_hash` | the walk's context is a record, `Visit` one step of its fold |
| `Canonical` | a page that is edited, and `canonicalize` at every visit | one action per kind of edit: `Rewrite`, `Rename`, `Relink`, `Retag`, `PutIn`, `TakeOut`; each is followed by the visit |
| `MCCanonical` | | an article, a page of tables and a nested one, under each strategy |

**From two documents to events**

| Module | Models | State and actions against the code |
|---|---|---|
| `Alignment` | the pure part of the diff: `mask.rs` (selectors by id and by type, `SelectorMatches`), `align.rs`, `lis.rs`, `lsh.rs`, the similarity of two blocks | a document is the sequence `flatten` returns; `Spine` is the patience sort with its back-pointers, as a recursive function over the old indices |
| `Diff` | `run`, `similarity_fill`, `similarity_match`, `finalize`, `cluster.rs` | below |
| `DiffObservation` | what ties `Diff` to `Observation` | the same pages as `Changefeed` has them, looked up by slot key |
| `TokenDiff` | `intra.rs`: tokens (`Joins`: what stands beside what without a space), edit script, suppression, coalescing, elision, and the two texts read back | the LCS is any longest one (external) |
| `Scoring` | `noise.rs`, `signals.rs`, `combine.rs`, `action.rs`, `confidence.rs`, the layering of `packs.rs` | fractions in ten-thousandths, rounded down; texts as below |
| `Salience` | a block edited word by word, and the checks that score it | `Reword`, `AddWord`, `DropWord`, `TakeDown`, `PutBack`, `Retarget`, `Strike`, `Shift`, `Check` |
| `MCDiff`, `MCSalience` | | pages for the diff; blocks under stacks of rule packs |

**Proofs**: `StoreLemmas` (what the statements of the store do to a ring without
a gap), `DataLemmas` (induction and recursion over numbers, joined sequences,
ranks in an order), `ChangefeedProofs`, `ReadersProofs`, `FetcherProofs` (with
the loop of `CheckLoop`), `DiffProofs` (masking and the patience sort included),
`CanonicalProofs`, `SalienceProofs`.

`Changefeed` composes `Observation` and `VersionStore`, which it extends, and
instantiates `RingLog` with `window <- versions, next <- nextRev`. `Readers`
extends the same two. `Fetcher` extends `Robots` and `RenderHint`, `CheckLoop`
extends `Fetcher`; `RobotsMeaning` extends `Robots`, and `MCFetch` has both side by
side. `Canonical` composes `Extract`, `Normalize` and `Segment`,
`Salience` composes `TokenDiff` and `Scoring`. `DiffObservation` extends `Diff` and
instantiates `Observation`, whose simple diff `Changefeed` uses.

### Changefeed

| Action | Code |
|---|---|
| `EditPage` | the origin (external) |
| `BeginCheck`, `BeginCheckWithoutStore` | `cmd_check` to the fetch; the in-memory store when `store.db` does not open |
| `BeginSnapshot` | `cmd_snapshot` to the fetch |
| `Fetch`, `FetchFails` | `do_fetch` and `canonicalize` |
| `ReadHead`, `ReadPrior` | the two queries of `Store::latest`; the second includes `to_rev`, `observe_body` and the outcomes that end the check without a write |
| `ReadNextRev` | `SqliteStore::next_rev`, called by `cmd_snapshot` |
| `Put` | `put_with_html`, and where each command goes after it |
| `Suppress`, `FindUnseen`, `KeepUnkeyed`, `Mark`, `EndDedup` | the deduplication loop of `emit_result`: the query and the transaction are separate steps |
| `Emit` | `write_stdout` |
| `Abort` | a kill, or any error that `?` returns, at any step |

A process record holds what the invocation holds in memory: body, head read,
prior document, revision to write, events to do, events kept, the event between
its query and its mark. `absorbed`, `delivered` and `lost` are history
variables: they record which transitions a stored version swallowed, which were
printed, and which died with a process. `spent` counts the bounded events.

An event is suppressed or kept in the order the scorer sorted the events; the
model takes any order, which includes that one. `--quiet` is not distinguished:
the exit code reports what stdout does not.

### Readers

| Action | Code |
|---|---|
| `Put` | a check or snapshot of another process, reduced to its transaction |
| `BeginRead`, `ReadHead` | the command and `head_rev` (for `rules`, the first query of `latest`) |
| `ReadOld`, `ReadNew` | the two `snapshot_at` of `cmd_diff` and `cmd_explain`, what they make of a version that is not there, and the comparison |
| `ReadRetained` | `retained_revs` in `cmd_show` |
| `ReadHtml` | the document and the html that `cmd_rules` reads |
| `BeginFeed`, `ListRevs`, `ReadPrev`, `ReadCur`, `EndTarget` | the loop of `cmd_feed` over the targets: `retained_revs` of one, then two `snapshot_at` for each pair of neighbours; `SinceIncludes` is `feed_since_includes` |
| `DeliverPage` | sorting, the page after the cursor, the next cursor |
| `Resume` | the agent's next call with `--after-cursor` (external) |

`log` remembers every document ever stored, `delivered` what the pages have
held, `puts` and `shifted` what was stored since the command began. `--since` is a
revision, a time or absent; `FetchedAt` gives the time each version was fetched at,
in whatever order: overlapping checks store out of order.

### Fetcher and CheckLoop

| Action | Code |
|---|---|
| `Tick`, `PublishRobots` | the clock and the site (external) |
| `Begin` | `fetch_inner` up to the robots: render mode, URL |
| `FindRobots`, `RobotsArrive` | `robots_for`: the cache under its lock; then, outside it, the GET of `robots.txt` and the new entry, stamped with the time the look-up took |
| `Disallow`, `LetThrough` | `allowed`; no delay to keep |
| `EnterGate`, `Refuse`, `PassGate` | `crawl_delay_gate`: the clock is read before the lock is taken, the stamp is read and moved under it |
| `Reply`, `ReplyBody`, `TransportError` | the status, the body and its size, `needs_render` |
| `TakeUnknown`, `TakeChromium`, `TakeTarget` | resolving a target; `do_fetch` builds a fetcher for it |
| `SendRequest`, `NoFetcher`, `FetchEnds`, `FetchYieldsBody`, `Fails` | `do_fetch`, its outcomes, and the errors that `?` returns |
| `ObserveBody`, `End` | what a body comes to (left open here: `Changefeed` has it); the exit code |

Entries of the cache are named by the text they were parsed from. `inForce`,
`lastLet`, `sameEntry` and `told` are history.

Callers that share a fetcher are what its lock is for, and the properties of the
cache and the gate hold for any number of them; `cf` has one caller for each.

### Diff

`Diff` has one action for each turn of each loop of the diff, in the order the
code runs them; `phase` says which loop runs and `todo` what it has yet to visit.

| Action | Code |
|---|---|
| `Align` | `align::align`, `lis::longest_increasing`, `compute_moved_runs` |
| `Anchor`, `EndAnchors` | the loop over the anchors in `run`: modified, restyled, reordered or nothing |
| `Move`, `KeepResidual`, `EndSame` | 3a: equal texts among the residual blocks; then the candidates are scored |
| `PairSimilar`, `SkipPair`, `EndSimilar` | 3b: the scored pairs, best first |
| `TellRemoved`, `EndRemoved`, `TellAdded`, `EndAdded` | 3c |
| `ClusterCascades` | `finalize` and `cluster_cascades` |

A unit keeps what later steps or the event key read of it: its slot key, change
type, two norm hashes, `moved`, the counts of a `struct` delta, and the indices of
its blocks, which the code has as references while it drafts. Similarities are a
constant, `TextSim`, in hundredths; so are the MinHash signatures, the effect of
the ignore regexes on a text (`Redact`) and of ignored attributes on a value
(`Strip`). The proofs hold for any of them.

### Scoring

A text is a sequence of tokens. `intra.rs` splits words from the signs around them,
and so do the blocks: a number is digits and the points among them, each a token; a
price begins with a currency sign; the year and month of a date are a token before
the digits of its day. `Adjoining` says which tokens stand without a space. So a price
in whole is no number to `Numeric`, as it is none to `is_numeric_token`; its digits are.

A phrase of a rule or of `NEG_TOKENS` is a sequence of sets of tokens, and it is in a
text if tokens of these sets follow each other there. Where the code matches a part
of a word, the set has every token with that part; where a phrase has a space, the
text must have that one space. The cut at 600 characters of a block that comes or
goes (`truncate_block`) is counted in tokens (`BlockTrunc`). Signed numbers and the
period after a price are left out.

Definitions with an underscore in their name (`HeadRev_ZeroWhenEmpty`,
`Mark_ForgetsTheEvent`, ...) stand for no code. Each is a plausible bug in the
definition after it, and is there to show that some property notices.

## Properties

| Property | Says |
|---|---|
| `TypeOK` | every variable holds a value of its kind |
| `RingIsWindow` | the retained revisions are exactly the last `RingN` below `next_rev` |
| `PlansOK` | a head or a revision read earlier is never ahead of the store when it is used; probes never write |
| `AbsorbedIsAccounted` | for every absorbed transition one with its key was printed, is held for printing, or died with its process |
| `SeenIsAccounted` | a key in the seen-set belongs to a transition printed, held for printing, or lost |
| `ReportedOnce` | no transition of a slot is printed twice (one invocation at a time, no key evicted) |
| `ReportsMeetThreshold` | nothing below `--min-salience` is held for printing |
| `RevMeansChange` | neighbouring revisions differ |
| `ImplementsRingLog` | the store refines `RingLog!Spec` |
| `ImplementsAppendOnlyLog` | without overlap it refines the append-only log |
| `Settles` | once a page rests, the stored head comes to agree with it and stays so |
| `ReadersTellTheLog` | whatever is evicted between its statements, a command tells the changes between the versions it names, and no others |
| `EvictionTakesPuts` | a version that was there when the head was read is missed only after the puts that evict it |
| `PagesCoverTheFeed` | unless a put moved rows, the pages of a feed are the feed: none skipped or repeated |
| `FeedIsComplete` | a feed derived while nothing is stored has every change in the ring newer than `--since`, be it a revision or a time |
| `PagingEnds` | an agent that follows the cursors comes to the end |
| `JudgesAsMeant` | parser, choice of a group and matcher agree with a definition of `robots.txt` that has none of them, if one line at most names us and one `*` (`OneGroupEach`), and no pattern has both `*` and `$` (`EndsAreWhole`) |
| `RobotsObeyed` | a request goes out only under rules that were in force, or could not be had, less than the lifetime of an entry before the look-up |
| `GateSpacesRequests` | requests under one entry of the cache are a crawl delay apart, by the time each came to the gate and in whatever order they got the lock |
| `WaitSuffices` | a caller that waits as long as it was told is not refused again, unless another passed |
| `ExitTellsTheWorst` | the exit code of a loop over targets hides no failure and no change, and targets not tried show as an error |
| `TextIsToldOnce` | the blocks hold every text of the page that is in a block once, in order; of a table this is about its text, not about its rows, which repeat it |
| `KeysDiffer` | no two blocks or rows share a slot key, if ids differ, the texts of headings tell their sections apart, and no part of the page is extracted twice |
| `VolatileIsUnseen` | an edit of scripts, banners, generated ids, tracking parameters or relative times leaves `doc_hash` as it was |
| `ContentIsSeen` | an edit of a word, a restyling, a heading's level or a link block's target changes it |
| `EditsStayInTheirSection` | an edit changes no slot key outside its section |
| `FlipsAreCritical` | a negation of one token that comes into a block makes the change critical; of a new block, if it is in the part that is told |
| `OnlyCountersAreDamped` | noise is above 0.05 only if nothing changed but case, or but digits and the points among them in a text without a salient key: a currency sign, a date's sign and a word are more than that |
| `CountersStayQuiet` | where digits change, each to some the block did not have: a counter is in the none band and ignored, unless a rule matches, and another short block is at most in the low band |
| `StickiesDecide` | the first sticky rule that matches, of the lowest layer that has one, decides the action |
| `ComingsAndGoingsAreTrusted` | what comes or goes on a page that aligns is told with a confidence above 0.6 |
| `EachBlockOnce` | a block of either document is in at most one unit |
| `SilentMeansSame` | after the loops a block in no unit is anchored to one of the same text, value and presentation |
| `SpineIsLongest` | the spine is a longest increasing set of anchors |
| `NoBlockingPair` | of two near similar residual blocks of one type, one is in a unit with the other, with its own text, or with a block at least as similar |
| `OneUnitPerSlot` | where no slot key repeats, no slot has two units after clustering |
| `StructCountsBalance` | rows added less rows removed, in the counts of a clustered table, are the rows it grew by, if no slot key passes between its rows and the blocks outside it |
| `AgreesWithObservation` | on the pages `Changefeed` assumes, the slots of the units are those `Observation!ChangedSlots` names |
| `EveryTransitionReported`, `RedactedStaysHidden`, `CrawlDelayHonored`, `PhrasesFlip` | what comments and documents say; refuted, see below |

## Runs

| Run | Instance | Shows |
|---|---|---|
| `concurrent` | 2 processes, 1 target, 2 pages, ring 2, seen-set 2, 3 edits, 1 snapshot, 1 fault | ring, plans, accounting and refinement under overlap |
| `sequential` | 1 process, 2 targets, 5 pages, threshold high, ring 2, 3 edits, 1 fault | append-only revisions, each a change; nothing below the threshold; no transition twice |
| `live` | 2 processes, 1 target, 2 pages, ring 1, seen-set 1, 2 edits, 1 fault | `Settles` |
| `readers` | one command at a time over 2 targets of 2 pages, ring 2, at most 3 versions of each; lists of arguments of `cf feed` with each form of `--since` | the five properties of readers |
| `fetch` | three users side by side: every `robots.txt` of at most 4 of 12 lines; two callers of one fetcher through 5 instants while the site replaces its file, or fails to send it, once; a check of lists of up to three targets | the judgement, the gate, and the exit code |
| `canonical` | 3 pages under 5 profiles, one of them with readability, two edits of each | the five properties of a canonical document |
| `salience` | 9 blocks under 3 stacks of packs, two edits of each | the five properties of scoring |
| `diff` | every pair of pages of at most two of eleven blocks; edits and reorderings of a page of three; permutations of five; pages of three that share no key; one and two tables of at most two rows | the diff's properties |
| `link_change` | 1 process, 3 pages that differ in a link | `EveryTransitionReported` fails |
| `diff_redaction` | as `diff` | `RedactedStaysHidden` fails |
| `crawl_delay` | the check of `fetch` alone | `CrawlDelayHonored` fails |
| `phrase_flip` | as `salience` | `PhrasesFlip` fails |

Why the bounds are enough. Two processes are the least that can hold stale plans
against each other, and a plan is one head and one revision, so that a third
adds no new kind of staleness to one plan; the proofs are for any number. A ring
of two with three edits, a baseline and a snapshot wraps, so that a late put
falls inside, at the edge of and below the window; a seen-set of two with three
transitions evicts. Two pages give a transition and its inverse, hence a flap;
the five pages of `sequential` add a removal, a change below the threshold, a
masked one, and a redesign. One fault at any step is enough for a property that
speaks of one process's debts. `MaxEdits`, `MaxSnapshots` and `MaxFaults` are the
only bounds; checks may be started without limit.

`readers`: with a ring of two, the third version of a target evicts the first,
between any two statements of a command, between two targets of a feed and
between two pages. A change has two events, so that a page of one row cuts a
revision in two. `MaxPuts` bounds the versions; commands are not bounded. The
proof of `EvictionTakesPuts` is for any ring; the run would not tell an
off-by-one in a larger one.

`fetch`: four lines are two groups with a rule each, or one group with two agents
and two rules that overlap, and the patterns have a wildcard, two of them, or an
end. `Ttl` is 3 ticks, delays are 1 and 2 seconds of 2 ticks: an entry expires
inside a delay, a delay ends inside a lifetime, and a wait is rounded. For
`cf check` the clock stands still (`CheckClock`): the exit code does not depend on
it, and two targets that are fetched in the same instant are enough for
`crawl_delay`. `Bounded` says what the two callers leave out, which
is failures of the GET after the gate.

`canonical`: two edits are an edit of an edited page, as one that renames an
element and then puts a heading before it; a page has a nested leaf, a banner, a
table with cells of a type, a comment, a code element and two levels of headings.
`salience`: two edits, so that a block is compared with one that has changed
already; the context kept around an edit is 2 tokens (6 in the code) and a short
block has 3 words (5 in the code), so that five words reach both sides of each; of a
block that comes or goes 5 tokens are told (600 characters in the code), so that a
phrase may stand across the cut or beyond it.

In the runs of `MCDiff` the constants of the code are scaled down so that five
blocks reach both sides of each: the window is 1 (32 in the code), a bucket holds
3 members (32), a run of 2 anchors is moved (3), and more than 1 changed child is
a cascade (32). The similarity thresholds are those of the code. The texts are
such that a pair is similar enough, just so only with the full affinity of its
slots, or not at all. Five blocks in any order are enough for a spine of every
length; tables of two rows lose, gain, exchange and edit rows, and the second
table gives a row a container to move to. Slot keys repeat in the first family.

Deadlock is checked in `readers`, where a command can always begin. The diff
ends, a page's and a block's edits are bounded, and so are the clock and the
author's lines: there a run that stops is no error. In the runs of `Changefeed`
it is off because, with all processes idle between checks and where what can
start is bounded, the system really may stop.

In `sequential` there are no snapshots, because `cf snapshot` takes a revision for
an unchanged page, and the threshold is `high`, because the redesign guard's
event ignores any above it. The seen-set holds 20 keys there, so that none is
evicted: `ReportedOnce` promises nothing of keys that were forgotten.

### Where code and documents disagree

Four runs show what a document or comment says violated by what the code does.

* `link_change`: `event_key_for` remembers the hashes of the two texts only. The
  link of an item changes, and changes back: both transitions have the key
  (slot, h, h), and the second is suppressed as known, although the comment at
  `cli.rs:704` says a new transition is not.
* `diff_redaction`: an ignore regex redacts a block's text, but of its values only
  those that mirror it. The cells of a row, a date, a price keep what the regex
  should hide, and the block is told as modified (`mask.rs:4`).
* `crawl_delay`: each target of a check has a fetcher, so a robots cache, of its
  own, and the time of a host's last fetch is nowhere else: `record_fetch` and
  `crawl_delay_violation` of the store have no caller. Two targets of one host
  are fetched at once (`DESIGN.md:1341`).
* `phrase_flip`: taking out the word inside a negation of two words ("no really
  longer") leaves a text with two spaces, in which the phrase is not found, although
  a negation that is introduced is to be decisive (`signals.rs:53`).

What else was met while modelling. The first eight contradict a document, too, and
in brackets is the definition that fails and the instance it fails on; they are
listed and not run.

* `cf snapshot` takes a revision for an unchanged page (`DESIGN.md:645`)
  [`RevMeansChange` in `sequential` with a snapshot]. That it tells nothing of what it
  absorbs is as documented.
* Step 3a of the diff compares texts and types, not values: a link whose target and
  slot change is told as a reorder, "content identical" (`mod.rs:510`)
  [`MovesAreIdentical` in `diff`].
* The robots matcher stops at the first place a literal occurs, so that a pattern with
  both `*` and `$` misses paths that hold the literal twice, although both are
  supported (`fetch_http.rs:737`): `Disallow: *b$` lets `/bb` be fetched
  [`JudgesEveryPattern` in `fetch` with `DraftLines <- MCEndedLines`].
* A negation beyond what is told of a new block is no flip (`signals.rs:195`)
  [`AddsFlip` in `salience`].
* Readability skips what is stripped as a candidate, but not what is inside it; a
  section of a cookie banner may be chosen as the article (`extract.rs:208`)
  [`StrippedStaysOut` in `canonical`].
* Of two overlapping checks, the later put replaces the document the earlier one
  stored and reported under the same `rev` [`ImplementsAppendOnlyLog` with two
  processes]. The ring keeps its shape, but not its content (`ARCHITECTURE.md:509`).
* The redesign guard's event escapes `--min-salience critical` (`DESIGN.md:225`)
  [`ReportsMeetThreshold` with threshold 4].
* Keys of all targets share one queue (`DESIGN.md:908`) [`ReportedOnce` with a
  small seen-set].
* No request is ever conditional: the loop stores no validator
  (`segment.rs:89`), and `NotModified` is never the answer to a check.
* `--limit 0` hands out the same cursor for ever; a put that evicts between two
  pages shifts the rows under the cursor. `cf explain` unwraps both versions and
  panics with a ring of one, or when the older is evicted between its statements.
* Blocks whose slot key repeats (two sections under one heading text) are never
  anchored, so that an unchanged one is told as reordered. `moved` is never true
  for a similarity match: two blocks of one type have an affinity of at least .6.
  A block that changes its type, but neither key, text nor value, is in no unit.
  A slot key that an id gives may pass from a row to a block outside the table:
  that counts as a row modified, and the counts of the table do not balance.
* Readability weighs texts before they are normalized; a heading is keyed in the
  section it closes; the target of a link inside a paragraph, or of one whose text
  reads as a price, is not in `doc_hash`; a text outside every leaf is in no block.
* Slot keys repeat where a heading repeats; where a selector's matches stand in
  one another; after a first heading without a text (a logo), whose path is that
  of the root; and where the text of a heading has the sign `›` that joins the
  texts of a path (`segment.rs:237`).
* The text of a removed block counts as present (`signals.rs:189`): taking down a
  notice matches the notice's rule and flips polarity.
* Cues are matched as parts of words; of a link whose text and target change only the
  target is told, and its digits count as a counter's; a deadline that moves in a
  short paragraph is damped as a counter; elision hides a rule's phrase far from
  the edit; a rule that is not sticky escalates a unit of the none band, although
  `action.rs:102` has that for sticky ones.

### Fairness

`FairSpec` is used by `live`. Weak fairness of each process's `Step`: a
started process is scheduled by the operating system until it ends, and none of
its steps waits for another process for ever. Strong fairness of `Poll(t)`, an
ordinary check of `t` at the default threshold: `cf` is a one-shot command,
polled by a timer or an agent's loop, so that somebody starts it again whenever
it keeps being possible to. Strong rather than weak, because with two processes
started by others a slot to run it in comes and goes. Nothing is assumed about
`EditPage`, kills or snapshots.

`Readers!Spec` has weak fairness of `ReaderStep`: a command, once begun, runs on,
and the agent that was handed a cursor asks for the next page. Puts may go on
between any two steps; that they are bounded by `MaxPuts` is not what makes
paging end, for every page moves the cursor on.

## Proofs

`StoreLemmas` says what the statements of the store do to a ring without a gap,
for every ring size: `HeadOfYoungest` (`MAX(rev)` is the youngest), `NewerInRun`,
`PutSlides` (the upsert and the `DELETE ... OFFSET` slide the window by one),
`RetainedOfYoungest` and `YoungestIsFull` (what `retained_revs` lists of it).

`DataLemmas` has what the other proofs need of recursive definitions. A set of
numbers has a least one (`LeastNumber`), hence `Induction`, which is stated for a
set of numbers instead of a predicate; `RecursionOnNat` says that a function
defined from its value at the number before exists and has that value;
`RecursionStays` that two such functions agree as far as their steps do, so that
what is read of a longer text is what was read of its beginning, and more;
`JoinedHolds`, `JoinedGrows`, `JoinedAgree`, `JoinedSplits` and `FlattenJoined` say
what joining a sequence of sequences yields, and `FlattenHolds` that the joined
sequence has the elements of each; `StrictOrderRanks` says that in a strict order of `n` elements
each rank from 0 to `n - 1` is that of exactly one element, so that what a model
sorts by ranks is a permutation.

`ChangefeedProofs` proves, for every set of processes, targets, pages and
thresholds, every ring size and every size of the seen-set:

* `TypeCorrect`, `PlansFit`, `RingStaysWindow`: `Spec => []TypeOK`, `[]PlansOK`,
  `[]RingIsWindow`. The inductive invariant is `Inv == TypeOK /\ RingIsWindow /\
  PlansOK`. `RingIsWindow` alone is not inductive: a put of a revision above
  `next_rev` would leave a gap. `PlansOK` says there is none, and needs the
  window itself, for a head that was read is below `next_rev` only because
  `MAX(rev)` of a window is its top. The lemmas `PutNext`, `PutRetained` and
  `PutTooLate` say what the upsert and the `DELETE ... OFFSET` do to a window
  when the revision is next, inside, or below it.
* `RingLogImplemented`: `Spec => Log!Spec`, each put being an `Append`, an
  `Amend` or a stutter by the three lemmas.
* `AppendOnlyWhenSequential`: with at most one process, `Spec =>
  Log!AppendOnlySpec`. The extra invariant `AllFresh` says that the head and the
  revision a process holds are those of the store.
* `MarksAreAccounted`, `NothingUnaccounted`: `Spec => []SeenIsAccounted` and
  `Spec => []AbsorbedIsAccounted`. The second is not inductive: a process drops
  an event because its key is in the seen-set, so the marks must be accounted
  for themselves, by events already kept. `SnapshotHoldsNothing` is needed for
  puts of `cf snapshot`, which end the process.
* `ThresholdUpToHigh`: `Spec => []ReportsMeetThreshold` if no threshold is above
  high. `ThresholdInv` adds to what is held that its events, those yet to handle
  included, meet the threshold of the process.
* `RevsMeanChanges`: `Spec => []RevMeansChange` with at most one process and no
  snapshot. `ChangeInv` carries `AllFresh`, that only checks run, and
  `BringsChange`: a process about to put holds a body that differs from the head.
* `NothingTwice`: with at most one process, `Spec /\ [][Remembers]_vars =>
  ReportedOnce`, where `Remembers` says that a step evicts no key from the
  seen-set. `OnceInv` says that the key of every transition told is in the
  seen-set, that those held to be told after their mark are not told yet
  (`UntoldHeld`), and that a key found unseen is still so at its mark
  (`NewBeforeMark`), which is where a second process would spoil it.

`ReadersProofs` proves `EvictionNeedsPuts`, `Spec => []EvictionTakesPuts`, for
every ring size and any number of targets and puts. The invariant says that the
ring has no gap (`StoreInv`), that the head a command carries lags behind
`next_rev` by no more than the puts since (`HeadInv`), and that an older version
it failed to find had been evicted by them (`OldInv`). For the same instances:

* `ReadersTell`: `Spec => []ReadersTellTheLog`. A version in the ring is the log's
  (`StoreInv`); what a command holds of an older one is what the log had, or that
  the ring no longer had it; so is every row a feed has derived.
* `FeedMissesNothing`: `Spec => []FeedIsComplete`. While nothing is stored, the rows
  derived are those of the pairs of neighbours visited so far (`RowsOf`, joined in
  the order of the listing), and what is left to visit is the rest of the listing.
* `PagesCover`: `Spec => []PagesCoverTheFeed`. `PageInv` says that what has been
  delivered is the feed up to the cursor, `SteadyInv` that as long as no put moved
  rows each page derives the feed of the first one, also in its order: sorting by
  salience is by ranks, and a rank depends on the rows alone.

`FetcherProofs` proves, for any number of callers and hosts, any texts and any
lifetime: `TypeCorrect`; `RobotsAreObeyed`, from `EntriesInForce` and
`HeldInForce` (the text behind an entry, or in a caller's hands, was in force
when it was fetched, at or after the look-up that stamps it); `GateSpaces`, from
`StampsAreLast` (while the entry is the one the last request passed under, its
stamp is the time that request came to the gate) and `GateIsAllowed` (who is at the
gate was allowed by what it holds); and `WaitingHelps`, from `WaitsCoverDelays`
(the wait that was told, in whole seconds, covers the rest of the delay).

Of the reading of a `robots.txt` it proves `RobotsAreUnderstood`, `AuthorSpec =>
[]JudgesAsMeant`, for every set of lines, patterns and paths and a text of any length.

* The matcher. It takes the first place a segment occurs at. By induction over the
  segments that place is at or before the segment's place in any layout of the
  pattern (`FirstIsSoonest`), so a layout exists just if the matcher comes to the
  end (`MatcherLaysOut`, `MatcherIsRight`); a final `$` needs a single segment,
  for which there is nothing to choose.
* The rules. What `Best` finds, the longest Allow and the longest Disallow that
  match, depends on the set of rules and not on their order (`BestDecides`).
* The parser. By induction over the lines: what is being collected tells whether a
  rule has been read since the last agent (`FlagsHold`), two agents are in one
  group just if no rule and then an agent line stand between them
  (`TogetherHolds`), a rule is in a group just if one of the group's agents is
  above it and not apart from it (`RulesAreBelow`, `GroupsHold`). With one line
  that names us there is one group to choose, and its rules are those the text
  means (`GroupIsRight`).

That the delay of a parsed group is a number or none (`DelayType`), on which the gate
rests, follows from the same reading of the lines.

It also proves `ExitIsHonest`, `LoopSpec => []ExitTellsTheWorst`, for
every list of targets. The invariant says that no code recorded ranks above
`worst` (`NoneIsWorse`), and that an exit is an error of the invocation or `worst`
with no target left (`ExitIsWorst`).

`DiffProofs` proves, for all documents, similarities, signatures, masks and bounds:

* `BlocksAreToldOnce` and `NothingIsHidden`: `Spec => []EachBlockOnce` and
  `Spec => []SilentMeansSame`. Both follow from one inductive invariant, which
  says how the loops hand the blocks on: `PendingOld` and `PendingNew` are the
  blocks a loop may still tell, no unit has one of them, and every other block is
  in a unit or unchanged. Each action takes off the pending exactly what it tells
  or finds unchanged (`StepTells`, `StepSilent`).
* `MatchingIsStable`: `Spec => []NoBlockingPair`. The invariant `Matching` says
  that every block that is done is in a unit of one text, or in one that no
  scored pair still to visit is more similar than; so a pair may be skipped, and a
  candidate that no longer waits is settled.
* `SpineHoldsTheMost`: `Spec => []SpineIsLongest`, from `SpineHolds`.
  The invariant of the patience sort, by induction over the old indices: the tops
  of the piles rise, along each pile the anchors descend, and every anchor on a
  pile but the first links to one before and below it on the pile before. The way
  back along the links is thus an increasing set with an anchor of each pile; and
  an increasing set has at most one anchor of a pile, so that none is longer.
* `OneUnitForASlot`: `Spec => []OneUnitPerSlot`. Where no key repeats, the units of
  one slot can only be those of an old and a new block of one key, which is an
  anchor, hence told once (`Sides`, `EachBlockOnce`). Sorting shuffles the units
  (`InOrder` is a permutation), and a clustered container takes the place of
  what it drops, its own unit included.
* `DiffTypes`: `Spec => []TypeOK`, for which `MaskedHolds` says that masking yields
  a sequence of blocks.
* `ObservationIsTheDiff`: `Spec => []AgreesWithObservation`, so that what
  `Changefeed` takes a check to find is what the diff returns. On the pages it
  assumes every anchor is on the spine and nothing moves (`AllOnTheSpine`,
  `NoneMoves`), and without twins nothing is paired: each unit is an anchor that
  changed or one residual block (`PlainUnits`). `Ended` says that a diff is done
  because the documents look alike, or when every block was told or found
  unchanged. Sorting, and clustering while nothing is full, keep the keys.
* `TablesBalance`: `Spec => []StructCountsBalance`. `Kinds` says what the change
  type of a unit tells of its blocks, and that paired blocks are anchored or of one
  type, hence both rows or neither; so the rows that are neither added nor removed
  go in pairs of one table (`Mates`), and are as many in both documents. Sorting
  changes no count (`InOrderCounts`), and only clustering makes units that count
  (`ClusteredCounts`). The rows must be where the segmenter puts them
  (`RowsAssumption`): a block has a container just if it is a table row.

`CanonicalProofs` proves `KeysAreDifferent`, `Spec => []KeysDiffer`, for every
page, profile, vocabulary and sequence of edits. That no key repeats is what the
diff's anchors rest on, and what `Documents` takes for granted where a document
is a function from slot keys.

* From page to forest. `ForestHolds` says that the nodes that are segmented come
  from different places of the page, in its order, whatever the strategy:
  `InOrderHolds` is about picking by document order, `PruneHolds` about a subtree
  less what is stripped, `SelectedHolds` about matches that do not stand in one
  another. Ids are those of the page or none.
* The walk. Its invariant is by induction over the forest (`VisitSound`).
  `Structure` says that the blocks told so far are of different nodes, all of them
  told; `Keys` that no two have one key, that in the section at hand the ordinals
  of each type are below its counter, and that every other section has another
  path. For a heading that opens a section this last part is `EndsOnce`: a path
  ends in the text of one heading, for a text has no sign that joins texts.
  A table keeps the same up row by row (`RowTold`), before it is told itself.
* The edits. `PageOK` says that the page is a sequence of nodes and the document
  that of the page; every edit keeps it up (`PageNext`).

It also proves `TextsAreToldOnce`, `Spec => []TextIsToldOnce`, for the same pages: what
segmentation drops or says twice, the diff can neither report nor place.

* The invariant `SoFarTold` says that the texts of the blocks told so far are those
  under the nodes told so far, in order, and that every node of a leaf's or a
  table's subtree which the walk has passed is one of those. A node that tells
  nothing (a container, or one inside what was told) leaves it as it was; for a
  heading, a leaf and a table `HeadingTells`, `LeafTells` and `TableTells` say that
  the block holds all texts of its subtree (`VisitTells`, `VisitKeepsTelling`).
* Subtrees nest or are apart (`LastBelowNests`, `CoversToLast`), so that the subtrees
  told one after the other cover the leaves of the forest once (`SubtreeTold`,
  `SegmentTells`).

`SalienceProofs` proves, for every site, vocabulary, table of the scorer and stack of
rule packs:

* `StickiesHold`: `Spec => StickiesDecide`. `ResolveClimbs` says that the recursive
  `Resolve` puts one layer after the other on the default pack; then, by induction
  over the layers, the sticky rules that match come in the order of the layers and
  of the rules within each (`FirstDecides`, with `LayersStack` for one more layer),
  so the first of them is the one the property names. `DecisionFollows` says that
  the decision takes it whatever the band, the category and the other rules are.
* `ComingsAndGoingsHold`: `Spec => ComingsAndGoingsAreTrusted`. A block that comes or
  goes is told as a whole and without a number (`ComingsAreWhole`), which leaves
  each of the four factors of its confidence at most two values (`ComingsAreSure`).
* `FlipsStandOut`: if the packs count negations (`NegationsCount`: no layer scales
  their signal down or puts the critical band above 95%), `Spec => FlipsAreCritical`.
  It is about negations of one token (`Turning`), and of a new block about those in the
  part that is told (`Shown`). The proof follows the token through the code. Whatever
  common subsequence the token diff takes, it pairs places that read the same (`ChainsHold`, `KeptHolds`), so
  each token of the new text is inserted by the script or stood in the old one
  (`ScriptHolds`: an induction over the old text whose invariant is `Covers`).
  Suppression, coalescing and elision lose no inserted token and put none of the new
  text on the old side (`SuppressedHolds`, `CoalescedHolds`, `ElidedHolds`,
  `ReportHolds`), hence the token is in the text after and not in the text before that
  `signals.rs` reads back (`ReportsTurn`). No digit or point is such a token, so the
  edit is not one of numbers alone and its noise is at most 5% (`EditsFlip`); a block
  that comes has none (`ComingsFlip`). Of the product that `combine.rs` forms, a full
  negation leaves nothing, whatever the other six signals are (`NegationSaturates`,
  with one lemma for each signal that it is a number), and what the noise leaves of
  the score reaches the critical band (`HighestBand`, `FlipsScore`).
* `CountersAloneAreDamped`: `Spec => OnlyCountersAreDamped`. The proof goes the other
  way, from the noise back to the words. What the library keeps lies in both texts
  and does not cross (`ChainsClear`, an induction over the chains; `KeptClear` with
  the common beginning and end). So the script is even all along (`EditEven`,
  `ScriptSays`: an induction over the old text with the invariant `Even`): up to the
  place it has come to in each, the two texts say the same but for a set of tokens,
  unless it deletes or inserts one that is not in the set. Such an edit would be in
  the report (`ReportShows`, `ReportSays`), and a report of digits and points alone
  has none. Tokenizing puts nothing but spaces between the words (`TokensSay`), so
  that the wording is the same (`WordingIsSaid`); and tokens that differ only in case
  are of words that do (`CaseOfWords`). `DampedEdits` puts this together with the
  branches of `noise.rs`.

The assumptions are those the modules name: pages are documents of finitely many
blocks and without twins, their rows and nothing else in tables, `Absent` is no
block, materialities are 0..4, the ring and the seen-set have room for one entry,
lifetimes are positive, every version has a time, a line of `robots.txt` that sets a
delay carries a natural number or none, our tokens do not include `*`, patterns are
sequences of segments, layers of packs are sequences of rules and give integers for
the weights, scales and bands they name, no digit, point, space or ellipsis is a
negation, lower case leaves space alone, what reads as an amount is of digits and
points and worth a natural number, dates are days, blocks have the kind of their element and words that are
tokens without a space, rates of alignment are fractions, sites and
edits are made of nodes. TLC evaluates them in every run.

Every invariant a passing run checks is a theorem. Only model-checked are `Settles`
and `PagingEnds`, which are liveness; the action properties of `canonical` that
compare a document with the one before the edit (`VolatileIsUnseen`,
`ContentIsSeen`, `EditsStayInTheirSection`); and of `salience` `CountersStayQuiet`.
Those of `canonical` rest on sorting of a URL's query and sums over a subtree, which
are folds and selections with a `LAMBDA`: the prover cannot expand those.
`CountersStayQuiet` bounds a score from above. It needs the script to edit nothing but
the numbers, hence that the subsequence is a longest one, which is a maximum over
chains, and packs that do not scale the other signals up. It is stated for numbers
that the block did not have before: in a text where three or more numbers on each
side of a word shift past it, a longest subsequence keeps the numbers and gives up
the word, and the change is then not damped.

## Not modelled

* **Texts.** Words, tokens and tags are told apart by what the code's tables and
  parsers find in them; the tables and parsers themselves (dates, prices, hashes,
  time stamps, Unicode composition, HTML) are given sets and functions. Of the
  attributes only `id`, `class` and `href` are modelled.
* **Composition.** `Changefeed` and `Readers` take documents and materialities as
  inputs instead of making them with `Canonical`, `Diff` and `Salience`.
  `Changefeed` uses only the part of the diff that is anchored by slot keys:
  `PagesHaveNoTwins` keeps moves and similarity matches out, and its pages are far
  below the 32 changed children at which rows are clustered; `Diff` models the
  rest, and `AgreesWithObservation` ties the two together. Similarities are a
  constant of `Diff`, whose rounding is left out, and the text of a changed block
  is in `TokenDiff` only.
* **Scores.** Fractions are rounded down to ten-thousandths where the code has
  floating point; the score of a page and the order of its events are left out.
* **Power loss.** A page after an `Abort` is what the committed transactions left;
  with `synchronous=NORMAL` a power loss may also undo the last commits.
* **The rest of the commands.** `init`, `watch`, `ls`, `schema`, `score` read or
  write one file once. Rendering, envelopes, the configuration's parser, event
  ids and the document codec turn one format into another.
  `host_politeness` is written by no command.

## Plan

Done: `Changefeed` over `Observation` and `VersionStore`, with `RingLog`; `Diff`
over `Alignment`; `Fetcher` over `Robots`, and `CheckLoop`; `Readers`; `Canonical`
over `Extract`, `Normalize` and `Segment`; `Salience` over `TokenDiff` and
`Scoring`; the proofs above.

Left, in order of what they would add:

1. Proofs: what compares a document with the one before an edit; the bound on the
   score of a counter.
2. The score of a page and the order of events by it, with the cut of
   `--max-salience-first`.
3. A power loss that undoes the last commits, as a fault of `Changefeed`.
