# Formal models of systemd-monitoring-mcp

TLA+ models, TLC runs and TLAPS proofs kept beside the source of
systemd-monitoring-mcp, a read-only MCP (JSON-RPC over HTTP) server through which
clients list systemd units and timers, read the journal and inspect Podman
containers on one host. Definitions are translated from the Rust source;
`PROJECT.json` maps each of them to its lines.

## 1. Inventory

| Component | State it keeps | Operations | What is hard about it |
|---|---|---|---|
| Rate limiter (`rate_limit.rs`) | one process-wide bucket: `tokens`, `last_refill` behind a mutex | `check`, `check_at`, the middleware | the clock is read before the mutex is taken, so samples arrive out of order; caps and rounding |
| Router, authentication, status (`lib.rs`, `auth.rs`, `http/handlers.rs`) | none across requests; a task per request | limiter, bearer check, `health`, discovery, status, `mcp_endpoint` | the order of layers; tasks interleave at awaits and are dropped when a client hangs up |
| JSON-RPC dispatch (`mcp/server.rs`, `mcp/rpc.rs`, `domain/tools.rs`, `domain/resources.rs`) | the batch in hand and its responses | decode, validate, dispatch, answer, audit | malformed messages that decode as notifications; early returns that skip the audit |
| Journal reader and pagination (`systemd_client.rs`, `domain/tools/logs.rs`) | a reader handle per page; the client keeps the cursor between pages | seek, scan, look-ahead row, `next_cursor` | the journal grows and is vacuumed meanwhile; boundary of page and window; expired cursors; failing calls |
| Unit and timer listing (`systemd_client.rs`, `tools/services.rs`, `tools/timers.rs`) | rows of one request | `ListUnits`, concurrent property reads, merge of scopes, filter, sort, page | a row is put together from reads of different times; partial failure of a property, a unit or a manager |
| Unit status (`get_unit_status`) | none | list, `GetUnit`, dependencies, transitions | five reads of different times, some of which may fail silently; a journal walked backwards while it grows |
| Logs since the last start (`unit_main_start`, `handle_list_logs`) | none | resolve the start, then read | resolved again for each page, while the unit may restart |
| Podman runner (`podman.rs`) | a child process | run, time out, bound, classify, project | timeout against exit; processes that keep the pipes open; bounds checked after capture |
| Argument normalisation, sorting, paging, grouping, summaries (`domain/utils.rs`, `responses.rs`, `domain/tools/`) | none | pure functions | boundaries of limits and windows; order of filter, sort, page and summary; what a client does with an advice |
| Configuration and startup (`config.rs`, `main.rs`) | `Config`, read once | parse, validate, probe systemd, bind | sequential; bounds that have to agree with the limiter's; systemd and the port may change between the steps |
| Errors and logging (`errors.rs`, `logging.rs`) | none | formatting | the limiter and audit lines they carry are modelled where they are emitted |

**Interactions.** Every HTTP request is a Tokio task. `build_app` puts the limiter
outside the bearer check and the handlers, so a request takes a token first and is
authenticated second. `mcp_endpoint` runs the messages of a batch one after another
through `handle_json_rpc_value`; tools and `resources/read` await a provider (D-Bus, a
blocking journal thread, a child process). Requests share nothing but the bucket and
the host they look at. The client owns all pagination state: the server keeps no
session.

**What makes each component correct.** The limiter: never more than the burst plus the
rate over any window of its own clock, no lost capacity, truthful `Retry-After`. The service: no host
work for a request that was not charged and authenticated, each message answered
exactly once and in order, malformed messages never executed, an audit event for each
action. Pagination: pages make up an exclusive walk, complete when it says so, refused
only for an expired cursor or a failed call. Listings: each row's fields were true of the unit during the
request, each unit of each reachable manager once. Podman: an answer within the timeout
and no child left behind.

## 2. Modules

```
ArrivalCurve  <-- implements --  RateLimiter  <-- INSTANCE --  HttpService -- EXTENDS --> JsonRpc
                                     ^                         ^
                              RateLimiterProofs  <-- INSTANCE --  HttpServiceProofs

LogWalk       <-- implements --  JournalLogs
    \________ EXTENDS LogQuery ______/

Startup       <-- EXTENDS --  HttpServiceProofs

PodmanRunner

Ordering      <-- EXTENDS --  UnitListing, UnitInspection, SinceStart
Ordering      <-- EXTENDS --  RowOps  <-- EXTENDS --  ServiceRows, TimerRows, LogCall
LogArguments  <-- EXTENDS --  LogCall, SinceStart

ToolCalls     -- INSTANCE -->  ServiceRows, TimerRows, LogCall, ArgvRedaction
```

Each state machine has an `MC` module that gives its constants their values, and each but
`Startup` a `Proofs` module that extends it (section 4); the proofs about `Startup` are the last
part of `HttpServiceProofs`, because they are about the same policy of the limiter.

`Ordering` puts a finite set into a sequence: `Arranged(S, Before)` by an order, and
`Enumerated(before)` by the function from each element to those before it. This is what a
`sort_by` makes of rows no two of which compare equal. The k-th element is defined as the one
with k - 1 others before it. Proofs can use that, while nothing is known of the permutation
that the library's sort chooses.

### ArrivalCurve, RateLimiter, RateLimiterProofs

`ArrivalCurve` is the promise: grants, dated by the limiter's own clock, form a history under
`Burst + Rate * (length of window)` for *every* window. `RateLimiter` is the code. A task
goes `idle -> sampled -> admitted | refused -> idle`: `Check` is `started_at.elapsed()`
(`rate_limit.rs:114`), `Admit` and `Refuse` are the two outcomes of `check_at` under the
mutex, `Finish` ends the request. `tokens` and `lastRefill` are the `BucketState`.
Time is in ticks, `Second` of them to a second, and tokens in units of `1/Second`, so
that the code's `as_secs_f64() * rate` is an integer. The rounding of `f64` is *not*
modelled. `grants`, `passed` and `refusal` are history variables.

There are two clocks. The bucket's time is `lastRefill`, and a grant is dated with it: a stale
sample neither rewinds it nor is it credited. The other is the clock on the wall, `now`, and
`passed` has for every admission when it was let through and how old its sample was. The curve
holds of the bucket's time (`StaysUnderCurve` of the proofs, `ImplementsCurve`). On the wall it
holds of windows that begin with the *sample* of their first admission (`WindowBound`): a task
that samples, waits for the mutex and is let through late stretches its window by its wait, so
that with a burst of 1 two requests may get through at one instant, one of them paid for by
the time it waited.

### LogQuery, LogWalk, JournalLogs

`LogQuery` holds the row test of `read_journal_logs`. `JournalLogs` is one client's walk:
`Request`, opening the reader (`OpenByTime`, `OpenByCursor`), `position_at_exact_cursor`
(`SeekCursor`, `RejectCursor`, `SeekFault`), one action per iteration of the scan loop
(`Skip`, `Keep`, `StopScan`), and the reply of `handle_list_logs` (`ReplyMore`,
`ReplyLast`, `ReplyStranded`). `Write` and `Vacuum` are journald, external to the
repository: the journal grows during a scan and a handle keeps the files it opened
(`floor`), so what is vacuumed during a page is gone for the next one only. `Fault` is any
`?` of the scan: the page is lost and the client may ask again. An error of the cursor
seek is answered with `invalid_cursor` like an expired cursor (`SeekFault`), and the client
cannot tell the two apart: the walk is "refused" either way.

`LogWalk` is the promise without reader, cursor or scan: each page is the next batch of
selected rows, none that still exists is passed over, "walking" means there was a row to go
on to, "complete" means nothing is left, "refused" means the row to go on from is gone or a
call has failed, and "stranded" that a page was cut off whose last row has no cursor, which
takes a failed call, too.
`JournalLogs` implements it (`ImplementsWalk`) under the identity mapping on the shared variables.

### JsonRpc, HttpService

`JsonRpc` says what becomes of one message. `HttpService` composes the limiter
(`INSTANCE RateLimiter` on the shared bucket variables) with the life of a request:
`route -> (mcp -> item <-> wait | status -> statusWait) -> done | dropped`.
`CallProvider`, `CallAgain` and `ProviderReturn` separate a handler's awaits, so other
tasks run in between and `HangUp` can drop the task there. `ran`, `called` and `audit`
are history variables. The limiter's `Finish` is not used: each request of this model is
one task.

### UnitListing

One `list_services` or `list_timers` request (`query.kind` tells them apart), from the first
D-Bus call to the answer, over two managers whose units change meanwhile (`Change`,
external). For each manager: `List` or `ListFails`, then one task per matching unit that
reads its properties in order (`Read`, `ReadFails`, `ProxyFails`; the tasks of `join_all`
interleave), then `Gather` puts the results into the rows. `Reply` merges, filters by
state, sorts and pages. The two kinds differ where a read fails (`AfterFailure`):
`fetch_service_details` gives the unit up, `fetch_timer_details` goes on.

A state of a unit carries a version that stands for the values of all its properties, so
a row records *which* states its fields were read from. A row may mix two states of its
unit, and the code promises no more; what `DetailsWereTrue` asks is that every field was
true of that very unit at some moment of the request. A proxy may answer from its cache
(`Readable`): any state the unit has had since the task first read it.

`gathered` keeps the rows of a manager as a set. The code sorts each manager's rows, then the
merged ones, then in the handler, each time stably and by unit name; the user manager's rows
were appended last, so that together the three sorts order by `Comes` and `Reply` sorts once.

### UnitInspection

`get_unit_status`, one action per call it awaits: `Handle` (arguments), `List`, the second
lookup (`ConnectFails`, `GetUnit`), `ReadRelation` for `Requires` and `Wants`, the second
listing (`Rows`, `RowsFail`), one `Result` per failed service among the dependencies, then
one `Scan` per iteration of the blocking thread's loop. `Change` and `Arrive` are systemd and
journald. `seen` records every state a unit had during the request, so that
`DependenciesJudged` can say what the answer may and must contain although its parts are of
different times: a dependency that was failed, missing or unloaded *throughout* is reported,
one that was well throughout is not. `start` is where the walk through the journal began;
`NewestTransitions` is the whole specification of that walk; it requires what the request's own
manager logged of the unit, and leaves open whether entries of the other manager for a unit of
the same name stand among it (section 6). How the row is enriched is
`UnitListing`'s; here a row is the unit's state when it was listed. A *scenario* is where a
behaviour begins, with its own bounds on what changes: TLC looks at units that change and at
journals that grow, not at their product.

### PodmanRunner

One call of `get_container_status` or `get_pod_status`, the podman process and its two pipes.
`Write`, `Fork`, `Release`, `Exit` and `Die` are podman and the kernel; `Capture` is
`read_to_end`, `Complete` is `Command::output()` being ready: the process was waited for *and*
both pipes reached their end, which a process podman left behind can delay. `TimeOut`,
`ProviderFails` and `HangUp` drop the command, and `kill_on_drop` (`Abandon`) sends the
signal. `tokio::time::timeout` polls the command before the timer, which is why `Expired` has
the conjunct `~Complete`.

### ToolCalls: ServiceRows, TimerRows, LogCall, ArgvRedaction, RowOps

`ToolCalls` is one `tools/call` request: the tool is found, and its handler takes the
arguments to an answer. The handlers are modules of their own, instantiated on the shared
variables `args`, `pc`, `given` (what the provider returned) and `answer`; the provider
returns anything it could, since its own behaviour is `UnitListing`'s, `JournalLogs`' and
`PodmanRunner`'s. `RowOps` has what the handlers share: filters followed by the stable sort
(`FilterSort`: the *places* of the rows that pass are enumerated, those of rows that compare
equal in their own order, so that two equal rows stay two), `paginate_rows`, the counting maps.

* `ServiceRows`, `TimerRows`: arguments, filter, sort, page, summary. In `TimerRows` stamps are
  finer than the seconds the rows are dated in, and the clock is read once, after the listing.
  `PageIsFirst` and `SummaryOfPage` are stated of the true times: `Near` says how far whole
  seconds can mistake their order.
* `LogCall`: the arguments (`LogArguments` has the checks of `normalize_logs_query` in their
  order), a `grep` that does not compile (refused when the journal is already open),
  `group_entries` one entry at a time, the summary, the cursor (of the last raw entry, if the
  journal gave one for it), and a client that follows the `maximum_start_utc` it is told.
* `ArgvRedaction` is `sanitize_argv`, one argument per step, with the flag it carries from one
  to the next.

A property of `ToolCalls` asks one question of every tool it concerns (`PageIsFirst`,
`SummaryIsTrue`, `RefusedForCause`, `GroupsPartition`, `ValuesHidden`); its parts are stated,
and explained, in the handlers' modules.

### SinceStart

A client that follows `next_cursor` with `since_last_start`: `Resolve` is `unit_main_start`
(the start becomes text in milliseconds, then an argument like any other, checked by
`LogArguments`), `Read` one page. The unit starts, becomes active, stops, is unloaded and logs
at any moment. The history variables `began`, `run` and `over` say which entries belong to which
run, from the start of its main process on, so that `NoOldRun` forbids entries of runs that were
over, and not those the current run logged while it started.

### Startup

`main` up to the first connection: `Configure` (`Config::parse`), `CheckSystemd`, `Build`
(the policy, whose `expect` would panic), `Bind`. A variable set to bytes that are not Unicode
(`Undecodable`) is read as one that is not set (`Raw`). The names of its specification begin with
`Boot`, apart from those of `HttpService`, and `phase` is the step `main` is at.

## 3. Runs

| Run | Instance | Shows |
|---|---|---|
| `limiter` | 3 tasks, rate 2/s, burst 2, 3 ticks to a second, 5 instants | all limiter properties |
| `pages` | 5 kinds of entry (3 stamps, 2 units), journals of up to 4 entries of which up to 3 exist at the start, 4 queries (both orders, limits 1 and 2, windows open to either side), 1 failing call | all pagination properties, refinement of `LogWalk`, termination |
| `service` | 2 requests out of 10 kinds, batches of up to 7 messages with every disposition, 1 token and 1 refill, 1 hang-up | all service properties |
| `listing` | 2 services or timers and another unit between them in 2 managers, loaded in any combination; 2 properties; 5 queries (3 of services, 2 of timers; both managers or one, state filter, limits); 1 change, 2 failing calls | all listing properties, termination |
| `inspection` | *units that change*: two dependencies (one a service) in both relationships, in any state, 2 changes; *journals that grow*: up to 3 entries of 4 kinds plus one that arrives, scan bound 2, limits 0, 1, 2 and 3, both scopes; 1 failing call in either | dependencies, failures and transitions of `get_unit_status`, an answer in the end |
| `podman` | 8 calls (identifiers of length 0, 1, 256 and 257, unclean ones, none at all), up to 2 chunks per stream, a limit of 1 and pipes of 1, a deadline of 2 ticks | all podman properties, termination, reaping |
| `tool_calls` | up to 4 services in any of 3 states; up to 3 of 6 kinds of timer at the end of the grace and just beyond, every sort key and order; pages of up to 3 of the kinds of log entry (two units, two messages, errors or none, with and without a cursor), times in any order; windows around a week of 4 milliseconds, ends on a millisecond and off it, 3 tries; limits from 0 to one too many; every other argument good and bad; all command lines of up to 4 of 9 kinds of argument | which calls pass, what the advice is worth, pages, groups, summaries, sanitising |
| `since_start` | 4 ticks, 2 to a millisecond; 3 entries, pages of one, both orders; 1 failing lookup | all properties of walks since the last start |
| `startup` | every setting missing, not Unicode, malformed and at both edges of its range | defaults, refusals, fail-closed start |
| `both_scopes`, `service_details`, `main_start` | small | violations: divergences of section 6 |

**Why the bounds are enough to be interesting.** In `limiter`, three tasks let one hold an
old sample while two others move the bucket, a refill of two thirds of a token per tick
never divides evenly, and four ticks are more than it takes to fill the bucket; the proofs remove
these bounds altogether. In `pages`, four entries and a limit of one give three
continuations; a page boundary falls on every position, an entry can be written or
vacuumed between any two iterations, and equal stamps occur. In `service`, two requests
compete for the one token and both can be admitted after the refill; the two batches hold
one message of each kind the dispatch distinguishes. Message ids in a batch are distinct. In
`listing`, the same names run in both managers, a change or an unloading can fall between
any two D-Bus calls, both managers can fail, or one manager and a read of the other; two
properties are enough for one to fail after and before another. In `inspection`, two
changes let a unit go and come back between any two calls; the scan bound, the limit and the
beginning of the journal each end some walk, and an entry can arrive before the first step
back, after it, or not. In `podman`, a stream can exceed the limit, a pipe can be full when
the deadline passes, and the pipes can outlive the process. In `tool_calls`, every pair of
rows, entries or arguments meets in every order with a third between them, and two rows have
the same name. In `since_start`, a unit can start three times during a walk of three pages,
within one millisecond or apart.

**Properties.** `limiter`: `WindowBound`, `BucketIsExact` (the level *equals* the room under
the curve of the tightest window), `RefusesOnlyWhenExhausted`, `RetryAfterSuffices`,
`ImplementsCurve`. `pages`: `NoDuplicates`, `NoGaps`, `CompleteIsComplete`, `CursorIsExact`,
`ImplementsWalk`, `WalkEnds`. `service`: `WorkIsPaidFor`, `BatchIsAnswered`,
`MalformedNeverRuns`, `AuditIsFaithful`, `EveryRequestEnds`. `listing`:
`AnswerIsTheListing`, `DetailsWereTrue`, `FailuresStayLocal` (which says of timers that one
property's failure does not erase the others), `ListingAnswers`. `inspection`:
`DependenciesJudged`, `PartsFailAlone`, `NewestTransitions`, `InspectionAnswers`. `podman`:
`AnswerIsPodmans`, `NotOvertaken`, `AlwaysAnswered`, `NoChildLeft`. `tool_calls`:
`PageIsFirst`, `SummaryIsTrue`, `RefusedForCause`, `GroupsPartition`, `ValuesHidden` (stated
on the answer alone, as its reader sees it). `since_start`: `RowsOnce`, `WholeRun`,
`NoOldRun`. `startup`: `ServesAsAsked`, `FailsClosed`. Each comes with a mutant of the code's
definitions that breaks it.

**Fairness.** `JournalLogs` assumes weak fairness of the blocking thread (Tokio runs a
blocking task to its end; journal calls return) and of the client's next request (a walk
that is abandoned does not end). Appending is bounded by `MaxLen`, so an ascending walk
cannot be outrun forever; against an endless stream of matching rows it could be, by
design. `HttpService` assumes weak fairness of each task, that is, of the Tokio
scheduler, and that every provider call returns: D-Bus calls carry no timeout in this
code. `UnitListing` and `UnitInspection` assume the same of their one task.
`PodmanRunner` assumes the server's task, the timer and the kernel (`Die`, `Reap`), and
nothing of podman: it may hang or keep its pipes full for ever, which is what the timeout is
for. Nothing is assumed of clients, of journald or of faults. The safety properties use
no fairness.

**Deadlock** is checked in the passing runs; a walk, a service or a
listing that is over rests in an explicit `Rest` step.

## 4. Proofs

Each `Proofs` module proves the safety properties of its component's run for every value of
the constants: any number of requests, units, entries and faults, any limit. The assumptions
are the named `ASSUME`s of the modules, which TLC evaluates in the runs; they give the
constants the types and ranges the code gives them (a limit is at least 1, a rate is one that
`RateLimitPolicy::new` accepts), say that sets of names, requests or dependencies are finite,
and keep the marks for "nothing" apart from data. Names are integers where the code compares
them.

None of the properties is inductive by itself: each speaks of what a client ends up with, and
not of what a half-finished request holds. Every module therefore defines `IInv`, proves
`Init => IInv` and that each action preserves it, one step per action, and derives the
properties. TLC checked each `IInv` on the instance of the component's run before it was
proved, that of `ToolCalls` with finite types for the entries of the journal.

| Module | Property of the runs | Theorem |
|---|---|---|
| `RateLimiterProofs` | `TypeOK`, `BucketIsExact`, `WindowBound`, `ImplementsCurve`, `RefusesOnlyWhenExhausted`, `RetryAfterSuffices` | `TypeCorrect`, `Exactness`, `WindowBounded`, `Implementation`, `NoEarlyRefusal`, `RetryTruthful` |
| `HttpServiceProofs` | `WorkIsPaidFor`, `MalformedNeverRuns`, `BatchIsAnswered`, `AuditIsFaithful` | `PaidFor`, `NothingMalformedRuns`, `EachItemAnswered`, `AuditAgrees` |
| | of the composition | `LimiterRuns`, `ServiceIsLimited`, `ServiceRetryTruthful` |
| | `ServesAsAsked`, `FailsClosed` of `startup` | `AcceptedIsServed`, `StartupFailsClosed`, `ServedLimiterFits` |
| `JournalLogsProofs` | `TypeOK`, `NoDuplicates`, `NoGaps`, `CompleteIsComplete`, `CursorIsExact`, `ImplementsWalk` | `TypeCorrect`, `WalkIsExclusive`, `WalkHasNoGaps`, `CompleteWalkIsComplete`, `CursorsAreExact`, `Implementation` |
| `UnitListingProofs` | `AnswerIsTheListing`, `DetailsWereTrue`, `FailuresStayLocal` | `AnswersAreListings`, `DetailsAreTrue`, `FailuresAreLocal` |
| `UnitInspectionProofs` | `DependenciesJudged`, `PartsFailAlone`, `NewestTransitions` | `JudgedRightly`, `PartsFail`, `TransitionsAreNewest` |
| `SinceStartProofs` | `RowsOnce`, `WholeRun`, `NoOldRun` | `RowsComeOnce`, `RunIsWhole`, `OldRunsStayOut` |
| `PodmanRunnerProofs` | `AnswerIsPodmans`, `NotOvertaken` | `AnswersArePodmans`, `OutputWins` |
| `ToolCallsProofs` | `PageIsFirst`, `SummaryIsTrue`, `RefusedForCause`, `GroupsPartition`, `ValuesHidden` | `PagesAreFirst`, `SummariesAreTrue`, `RefusalsHaveCause`, `GroupsArePartition`, `ValuesStayHidden` |

**RateLimiter.** The bound over *all* windows does not say how full the bucket is. `IInv`: the
level is at most the room `Slack(grants, lastRefill, i)` that each window starting with grant
`i` leaves, with equality for one of them unless the bucket is full, and the history is
ordered and not ahead of the last refill. A credit widens every window by its worth
(`SlackGrows`) and the cap costs nothing, because a full bucket leaves the whole burst; a
grant takes one token from every open window and opens its own (`GrantTakesOne`). From `IInv`:

* `StaysUnderCurve`, `Implementation`: the level left by a grant is not negative and is
  room that every window ending there still has (`AdmitConforms`).
* `WindowBounded` takes the curve to the clock on the wall: a grant is not dated before its
  sample nor after its admission (`AlwaysDated`), so a window of the bucket's time is no longer
  than the one from the first sample to the last admission.
* `NoEarlyRefusal`: a level below one token is the room of some window, so one more grant
  would break that window (`ExhaustedWhenRefused`).
* `RetryTruthful` needs a second strengthening, `RetryInv`: as long as nobody else is let
  through, the bucket stays *on course* to hold a token at the announced time, whatever
  refusals credit it meanwhile (`CreditKeepsCourse`, `OnCourseArrives`).

**HttpService.** Requests share the bucket and nothing else, so `IInv` is one fact about the
bucket (`Counted`: as many grants as requests that were let through) and a conjunction
`Fine(r)` about each request by itself; a step of one request leaves the others' alone
(`Untouched`). The core of `Fine` is `Matched`: the responses a batch has so far are those due
for the items *before* the one in hand, the response to item k at the place that is the number
of items up to k that are due one. Without the item in hand, a provider call that other tasks
interrupt would break it. `Placed` says that an item in hand has run exactly if its call is
under way, which is what keeps the audit from naming it twice.

*Composition.* `LimiterRuns` shows that every step of the service is a step of `RateLimiter` or
leaves the bucket alone. The limiter's theorems, proved without the service, then hold within
it: `ServiceIsLimited` (`WindowBound` over all requests that reach the server) and
`ServiceRetryTruthful`. The second use of the theorems is by `INSTANCE RateLimiterProofs`.

**JournalLogs.** `NoGaps` speaks of rows delivered, and not of the page being read. `Scanning`
says of that page that its rows are selected, visible to the handle, in order and beyond the
cursor, and that it has *every* such entry the reader has been past (`Passed`); `Exhausted`,
that a scan that ended with room to spare left none behind. When a page is delivered, the
cursor is its last row that is delivered, and the look-ahead row lies beyond it: no row is
lost or comes twice at a page boundary. `GapFree` is stronger than `NoGaps` because it must
also cover entries written since the walk began; entries written during a descending page lie
behind its first row. Vacuuming only takes entries away from what has to be delivered, and a
handle's `floor` keeps them for the page under way. `Implementation` maps each reply to a page of
`LogWalk`, and every other step of the server to a stutter.

**UnitListing.** The managers are asked one after the other. `Tasks` says of the one being asked
what its tasks have read so far: every property read was a state of that task's own unit, and
every one missing has its failure. `Turns` says of each manager that it has not been asked, is
down, or has a row for exactly the units it listed. Units change all the while, so everything
is stated of `seen`, the states a unit has had, which only grows (`TrueStays`). The answer has
the rows of `Merged` in the order `Comes`: they correspond one to one to the units due, since a
scope and a name determine a row (`ChosenFacts`), and `ArrangedFacts` says that a sorted set has
each element once and in order.

**UnitInspection.** The five reads are of different times. `Named`, `Judged` and `Staged` say
which of them are complete, or which failure is to blame, at each step of the handler; what was
read is related to `seen` only. The walk of the journal is held by counting (`Walked`): the
transitions found so far are those between `at` and `start`, each at the place of its entry
counted from the newest.

**SinceStart.** The window is looked up anew for each page, so what a page had to deliver is not
fixed. `Owed` are the entries that were in the window of *every* page so far; each was
delivered or is ahead of the cursor (`Gathered`). A complete walk with one start owes all of the
run, as the start cut to milliseconds is not after the unit became active. `RunsApart` orders the
runs in the journal: what is over when a page is asked for was printed no later than the
activation that ended it.

**PodmanRunner.** What an answer was made of must not change afterwards: podman was waited for
and both pipes had ended (`Settled`), and it was sent no signal while its request was under way
(`Undisturbed`), so that an exit was its own. `OutputWins` says of all later states what holds
from the moment the output is complete: `TimeOut` is disabled until the answer, and nothing
replaces the answer afterwards (`ThroughStays`).

**Startup.** `RawFacts`: what the parser gets is the environment's texts and nothing else. The
environment is read once and everything later works on `config`, so `Configured`
ties the two together for as long as the process runs. `AcceptedFits` says that what the parser
accepts is what the limiter's policy accepts, defaults included, which is why `expect` does not
panic. `ServedLimiterFits` closes the gap between the two models: with the parser's bounds those
of the policy, as in the code, the rate and the burst that are served are ones the limiter's own
assumptions allow, whatever the environment said, and its theorems apply to the process that
was started.

**ToolCalls.** `IInv` has a part for each tool. For the list tools it says of an answer how it was
computed: from acceptable arguments (or the refusal is the one `Refusal` computes), from a listing
the provider may return, at one reading of the clock. All else is about the operators.

* *Sorting.* The rank of a row is the number of rows before it. In a finite set ordered
  strictly and totally, ranks are different and below the size, so every place has exactly one
  row (`EnumeratedFacts`; the surjection comes from counting). A stable sort breaks ties by place,
  which makes a total order of any order in which "not less" is transitive, and
  `ChosenFacts` concludes that the list has each place that passes exactly once, in order, ties as
  they were. The orders themselves qualify: failed first then by name (`ServiceOrderIsWeak`),
  and each of the eight of `list_timers`, with its missing times (`LessIsWeak`).
* *Pages.* A page is the beginning of such a list (`CutFacts`), so what is left out has a higher
  rank than all that is shown.
* *Summaries.* A filter of a page, sorted again, shows the same rows (`FailedAreShown`,
  `ProblemsAreShown`, `DueAreShown`). A ranking of counts shows no more than `Top`, and what it
  leaves out has no greater count (`RankedFacts`, `RankedTally`).
* *Times.* Rows are ranked by whole seconds from now. `SecondsOrder` says what that order is worth
  for the true times: the nearer comes first unless they differ by less than a second, or both
  are less than a second from now (`TimersInOrder`).
* *Refusals.* The nested tests of a handler and the set of acceptable arguments are shown to agree
  (`ServicesRefusal`, `TimersRefusal`, `LogRefusal`). For `list_logs`, a field list without
  duplicates is one as long as its set (`EachOnce`). The advice is worked out with the remainders
  of times by `Milli` (`PrintedTime`, `WeeksAreWhole`): printing cuts less than a millisecond,
  and nothing from a time that is whole.
* *Groups.* Entries are gone through one by one, and after each the groups are a partition of what
  was seen: an entry joins the one group of its key (`EntryJoins`) or begins the last
  (`EntryBegins`).
* *Command lines.* `ValuesHidden` says nothing of the flag `sanitize_argv` carries; `ArgvInv` ties
  it to the last argument, which was a sensitive flag, shown as it is. An argument that shows as
  a flag is one (`ShownFacts`), so what is hidden and what is not can be told from the output.

The assumptions of `ToolCalls` are the types of arguments (anything else is `Mistyped`) and of
rows; that the marks None, Mistyped and Bad are none of the data; that the default limit is one
that is accepted; that a week is a whole number of milliseconds.

**What stays with TLC.** Liveness under fairness (`WalkEnds`, `EveryRequestEnds`,
`ListingAnswers`, `InspectionAnswers`, `AlwaysAnswered`, `NoChildLeft`) is out of the prover's
reach, as is `ENABLED`. Every safety property of the runs that pass is proved. The three runs
that expect a violation have no theorem. That the rounding of `f64` stays on the safe side is
neither proved nor checked.

## 5. Plan

1. *(done)* limiter with proofs; journal walk; HTTP service with JSON-RPC; unit and
   timer listing.
2. *(done)* unit inspection; logs since the last start; podman; argument checks, sorting,
   paging, grouping and summaries; startup.
3. *(done)* proofs of the safety properties of the limiter, the service with the limiter inside
   it, the journal walk and its refinement, listing, inspection, walks since the last start,
   podman and startup.
4. *(done)* proofs of the tools: sorting, pages, summaries, refusals, groups and command lines.
5. Not begun: what section 7 lists.

## 6. Where code and documents differ

A run shows each of these:

* `scope=both` (`systemd_client.rs:1664`): a user service's record carries both unit
  fields, and the system one wins, so the record counts for `user@<uid>.service`
  (`docs/requirements.md:140`). Run `both_scopes`.
* One unreadable property (`systemd_client.rs:830`): `?` in `fetch_service_details` makes
  a service lose all its details (`docs/requirements.md:321`). Run `service_details`;
  timers do what the document says (`FailuresStayLocal` of `listing`).
* The last start (`systemd_client.rs:831`, used at 299) is when the unit became active, not when
  its main process started (`docs/requirements.md:341`), so what it logs in between is left out.
  Run `main_start`; `WholeRun` is stated from the activation on.

Seen while modelling, with no run of their own; the models have the code's behaviour, and the
properties are stated so that code which did what the documents say would satisfy them, too:

* Failed `initialize` (`mcp/server.rs:138-141`) returns before the audit event
  (`docs/requirements.md:306`). `AuditIsFaithful` names the exception.
* A failed seek (`systemd_client.rs:1276-1288`): every error of libsystemd while a cursor is
  positioned is answered with `invalid_cursor`, although the cursor's entry is there
  (`docs/requirements.md:339`). `CursorIsExact` says what remains true: without a failed call only
  an expired cursor is refused.
* A truncated page whose last row has no cursor (`systemd_client.rs:1458`) ends the walk with
  rows left: `truncated` says so, `next_cursor` does not (`ReplyStranded`, `CursorBehindPage`).
* Transitions of the other manager (`systemd_client.rs:1632`): system scope takes entries by
  `UNIT` or `USER_UNIT`, so where the system journal holds users' entries too, a user unit of
  the same name is taken for the system unit (`tools/unit_status.rs:24`). `NewestTransitions`
  requires the unit's own entries and allows the others among them.
* `sort=next` and `sort=last` (`tools/timers.rs:286`) compare whole seconds, then names
  (`docs/test-cases.md:143`). `PageIsFirst` has the order that is kept.
* `maximum_start_utc` (`tools/logs.rs:262`) is cut to milliseconds, so for a finer `end_utc`
  it is not seven days before the end, and is refused again (`docs/requirements.md:345`). For
  ends in milliseconds the advice is right (`RefusedForCause`).
* A rate or burst that is not Unicode (`config.rs:29-30`): `env::var(..).ok()` makes it a missing
  one, and the default is served instead of startup failing (`docs/requirements.md:34`).
  `ServesAsAsked` allows a default only there and for what is missing.
* Clock set back (`systemd_client.rs:1396-1408`): the scan stops at the first stamp past
  the window; matching rows behind it are lost and the page says it is the last
  (`docs/test-cases.md:178`). `JournalLogs` assumes monotone stamps.
* Hang-up during a handler (`mcp/server.rs:183-197`) drops the audit event of an action
  that was executed (`docs/test-cases.md:171`). `AuditIsFaithful` asks for the events of
  finished messages.
* Second lookup (`systemd_client.rs:624-635`): the path is needed for the dependencies only,
  yet when it fails the row that was resolved is discarded, against the comment at
  `systemd_client.rs:602`. `PartsFailAlone` names the exception.
* Captured output (`podman.rs:72`) is bounded only after it was all captured
  (`podman.rs:50`, `docs/requirements.md:330`).
* A restart between two pages (`tools/logs.rs:400`) moves the window, and the rest of the
  earlier run is cut off while the walk ends as complete (`docs/test-cases.md:178`).

## 7. Not modelled

* The texts of times, priorities, unit names and filters: that they are trimmed, lower-cased
  and parsed. The models tell good ones from bad ones, and a pattern that compiles from one
  that does not; what a pattern matches is left open (a page is any sequence of entries).
* The projection of a log entry onto the requested fields, of podman's document onto the
  response's, the include-persistent flag, message sanitising and the redaction of audited
  parameters: layout of data the models do not look into.
* Protocol versions: `initialize` negotiates or fails (`HttpService`); which versions do is
  left out.
* Errors, logging, the status codes of internal errors, HTTP method and body-size errors of
  the framework: formatting or third-party code.
* `f64` rounding in the limiter; the cost of a scan or a batch (hazards without a property).
