# Verification of Performance_Agent

TLA+ models of the parts of Performance_Agent that decide something: which
fills are read, which plan a fill counts for, which plans become learning
outcomes, what the risk metrics, reports and cost floors say, when a strategy is
ready for review, and which requests are served at all.  TLC checks the models on
small instances; the TLA+ proof system proves the central properties for
every instance.

All paths below are relative to the repository (`app/...` is `src/app/...` in
`PROJECT.json`).

## The system

Performance_Agent is a FastAPI service that keeps no state between requests.  It
computes on what a request carries, or on what it reads for the request from
Database_Agent, another service, by HTTP GET.  Other agents write to
Database_Agent at any time.

| Component | Code | State, while a request runs | Operations |
|---|---|---|---|
| Fill paging client | `app/database_client.py` | offset, fills kept, identities and page signatures seen | `list_fills`, `list_trade_plans`, `_get` |
| Attribution and TradePlan summary | `app/service.py` from line 206 | fills per plan, fingerprints seen, three exclusion counts, plan results | `_assign_fills_to_plans`, `_summarize_plan`, `build_trade_plan_performance_summary` |
| Learning outcome builder | `app/outcome_builder.py` | ids seen, outcomes, rejected records, unmatched fills | `build_learning_outcomes`, `_record_issues`, `_build_record` |
| Evidence status validation | `app/models.py` 25-42, 116-141 | none | validator of `TradePlanLifecycleRecord` |
| Session risk metrics | `app/session_risk.py` | trades grouped so far, exclusion counts | `_aggregate_trades`, `build_session_risk_metrics` |
| Database endpoints | `app/main.py` 296-440 | plans read, then the paging client's state | one request: plans, fills, answer |
| Performance report | `app/service.py` to line 203 | none (pure) | `build_performance_report` |
| Execution costs | `app/execution_cost.py` | none (pure) | `build_execution_cost_attribution` |
| Shadow performance, forward evidence | `app/shadow_performance.py`, `app/forward_evidence.py` | none (pure) | `build_shadow_performance`, `build_forward_evidence` |
| API gateway | `app/main.py`, `app/security.py` | the environment variables, read again at every use; the correlation id, once in the middleware and once in the request's state | middleware, validation, endpoints, error handlers |
| System contract | `app/system_contract.py` | none | `/ready`; static description |

How they interact: the two database endpoints (`app/main.py` 296-369 and
372-440) call `list_trade_plans`, then `list_fills` with a limit of 500, and hand
both lists to the summary or to the outcome builder.  The two lists are read by
separate requests, so they are not one snapshot.  The other endpoints pass the
request body straight to one of the pure builders.

What is hard about it, and where:

* **A listing that moves under an offset.** `list_fills` reads pages while rows
  come and go; this is the only place where two actors interleave inside a
  request.  A read must end, must not repeat an execution, and should not lose one.
* **Identifiers that disagree.** A fill may name a plan by plan id, trade id and
  order id, several plans may share an order, and one execution may be reported
  twice with different identifiers or amounts.
* **First value found wins.** A TradePlan carries free-form mappings; the outcome
  builder searches them in a fixed order, so an old context can hide a new value.
* **Order and time.** Session risk groups fills that come late and out of order,
  and is asked again while the clock crosses days and weeks.
* **Whole-batch failures.** One invalid row or one unsupported evidence status
  refuses the whole read.
* **Two reads, no snapshot.** Plans are read before the fills; a plan may be closed and
  its fills stored in between, and the same plan is answered for again later.
* **Configuration read twice.** `/ready` and the middleware evaluate the same
  variables in different places, where absent, empty and blank differ.
* **Rounding in many places.** Plan results are rounded to cents before they are added, learning
  outcomes and trades to eight places, windows to cents, costs row by row, group by group and in
  all: figures of one quantity are equal only up to what was rounded on the way.
* **Two verdicts on one record.** Paper review takes exact means and the number of
  observations asked for, forward review rounded figures and a constant number.

`PROJECT.json` lists every hazard with its line and the properties that cover it.

## Modules

| Module | Models | Lines of the code |
|---|---|---|
| `FillPaging` | `list_fills` against a moving table | `app/database_client.py` 44-74, 110-225 |
| `TradeRecords` | a fill and its fingerprint, shared by the next two | `app/models.py` 144-155, `app/service.py` 353-378 |
| `FillLedger` | abstract: an execution is settled once | (what attribution promises) |
| `FillAttribution` | attribution and the summary's totals | `app/service.py` 206-540 |
| `LearningOutcomes` | the outcome builder and its policy | `app/outcome_builder.py`, `app/models.py` 25-42, 97-141 |
| `DatabaseEndpoint` | composes `FillPaging`, `FillAttribution` and `LearningOutcomes`: requests to the two database endpoints while other agents write | `app/main.py` 296-440, `app/database_client.py` 76-109 |
| `SessionRisk` | session risk over repeated requests | `app/session_risk.py` |
| `Numbers` | sums, rounding and ratios, shared by `TradeRecords`, `ApiGateway` and the next three | `sum`, `round`, `_round` |
| `PerformanceReport` | the statistics of a report | `app/service.py` 23-203 |
| `ExecutionCosts` | costs per fill, groups, percentiles, floors | `app/execution_cost.py` |
| `ShadowEvidence` | the shadow summary and both verdicts | `app/shadow_performance.py`, `app/forward_evidence.py` |
| `ApiGateway` | composes the three: a request from the middleware to the answer, for every deployment | `app/main.py`, `app/security.py`, `app/system_contract.py` 105-160 |
| `FillPagingProofs`, `FillAttributionProofs`, `LearningOutcomesProofs`, `SessionRiskProofs`, `DatabaseEndpointProofs`, `ApiGatewayProofs` | theorems about the module each is named after | |
| `FigureProofs` | theorems about the figures that `ApiGateway` answers with | |
| `SetSums` | lemmas about sums over finite sets and ranks, for all of these | |
| `MC...` | record sets for the model checker | |

An operator called `Faulty...` stands before the definition it resembles.  It is
that definition with a plausible slip; it is used nowhere, and `PROJECT.json`
names it as the mutant that the property must reject.

### FillPaging

`table` is Database_Agent's listing; `Insert` and `Delete` are other agents' writes,
at any position, between any two steps of the reader.  `pc` says where `list_fills`
is: at the HTTP exchange (`fetch`), in the row loop (`scan`), returned (`done`)
or raised (`failed`).  An exchange is one step because the rows of a reply are
those of the moment it is served; the reply may be repeated (`FetchRepeated`), empty
(`FetchEmpty`), or may fail in any of the ways `_get` reports (`FetchFails`).  A pass of the row
loop is a step (`TakeRow`, `RejectRow`), and `EndPage` has the two exits of the
`while` loop.  `deletes`, `asked`, `requests`, `standing` and `still` are history
variables: the deletions so far, the last limit parameter, the number of replies
(counted to three), the identities that have been in the table ever since the first
reply, and whether nothing was written since then.

A row is an external id, or none, and a content; `_fill_identity` uses the id if
there is one and else the content.  `BadContents` are the contents validation
refuses.  `HonoursLimit`, `HonoursOffset` and `DbPageMax` say how Database_Agent
treats the parameters; the code in this repository does not determine them, so each
property states what it needs of them.

### FillAttribution and FillLedger

A behaviour is one request.  `plans` and `fills` are any sequences of records of
the given sets, so every order and every repetition occurs.  The loop of
`_assign_fills_to_plans` has one action per outcome of a pass (`SkipDuplicate`,
`CountOrphan`, `CountConflict`, `AssignFill`), then `SummarizePlan` makes one plan
result per step and `Report` forms the totals.

Money is an integer number of units, `Cent` of which are a cent; a plan's result is rounded to cents
before anything is added (`_safe_round`, `app/service.py` 291), and the totals add the rounded results,
as the code does.  `est` is the amount that a fill's price, quantity, side and fees give
against the plan's entry price; `priced` says that the plan has such a price.
Ratios, best and worst group, and the grouping by symbol (the same function with
another key) are left out.

`FillLedger` is the promise: `fate` maps each execution to unsettled, excluded or a
plan, and only an unsettled execution may change.  `SettlesOnce` is the ledger's
specification under the refinement mapping `FateOf`.

### LearningOutcomes

A behaviour is one request.  `_plan_contexts` flattens the mappings of a plan into
a list in search order; here a plan simply has that list, each context with what
the policy looks up (status, manager and execution bucket claims, requested
bucket, risk, gate).  Version and status texts are reduced to `supported` or
`allowed`, `other`, and absent.  `RefuseRequest` is the validation that fails
the whole batch, `Issues` is `_record_issues` with one issue name per kind, and
`RejectDuplicate`, `RejectPlan` and `BuildOutcome` are the three ends of a pass.

`Learnable` states rules 1 to 10 of `docs/API_CONTRACT.md` in terms of the claims,
with quantifiers and without the code's intermediate results (`Mismatch`, counts
of buckets, combined status), so that comparing the two is worth something.

The P&L of an outcome is rounded to eight places (`Fine`, `app/outcome_builder.py` 717-722).

Left out: what an accepted outcome carries besides bucket and P&L (contributions,
confidence, dates, exit reason, return), and the two warnings about missing
dates and exit reasons.

### SessionRisk

A behaviour is a sequence of requests over the same account: fills arrive in any order (`Arrive`),
time passes (`Tick`), and `AskMetrics` starts a computation whose loop has one action per outcome
of a pass.  Each request passes all the fills so far.  `previous` remembers the answer before the
last one, for the properties that compare two answers.  A trade is rounded to eight places
(`TradePnl`), the sums of a day and of a week to cents, each on its own (`InCents`); an amount is
an integer in a unit of which `Fine` make one of the eighth place and `Cent` of these a cent.
Percentages are modelled by the loss they divide by equity; minutes by clock units.

### DatabaseEndpoint

`listing` is Database_Agent's plans, `table` its fills.  A request is `Begin`, `ReadPlans` (one
page; a plan that validation refuses fails it, `PlansInvalid`), then the reader's own steps
(`ReadFills` is the reader of the instance `Paging` of `FillPaging`), and `Answer`, which forms
the answer with the operators of `LearningOutcomes` or of `FillAttribution`.  Every failure ends
in `Abandon`, the 502 of both endpoints; `PlansFail` is Database_Agent's failure on a page that
would have been valid, so that refused pages and failures are different steps.  The two endpoints
round one sum differently, to cents (`SummaryPnl`) and to eight places (`RealizedPnl`); an amount
is an integer in a unit of which `Cent` make a cent and `Fine` one of the eighth place.  Requests
share nothing (a client is made for each), so a second request in progress would add no behaviour
of the first; requests follow each other instead, and `ResetReader` is what a new call of
`list_fills` starts from.

The writers are external: `OpenPlan`, `ClosePlan` and `StoreFill` are assumptions on
the agents that write to Database_Agent.  Two of them matter
and are guards of `StoreFill`: the fills of a plan are stored before the
plan is closed as complete, and one external id always stands for one content.
`published` is a history variable: the P&L last given for a plan's outcome while
the account's fills fit the limit (`Fits`).  Beyond the limit the endpoints answer from
a part of the fills, which is a hazard `SkippedAtMostDeleted` and `NothingMissing` speak of,
and nothing is promised.  `LimitAssumption` says that the limit is at most one page, which
holds because both are 500 in the code; a caller with a larger limit would read
further pages at offsets that later plans' fills may have shifted.

### Numbers, PerformanceReport, ExecutionCosts, ShadowEvidence

Pure functions, as operators.  A ratio is an exact pair until the code rounds it; where it rounds,
`Nearest` rounds, halves to even.  Each rounding unit is a constant, because in the code's units
(cents, 10^-6, 10^-8) a small instance would never reach a tie or fall between two thresholds.
`ExecutionCosts` rounds where the code does: the amounts of a row to eight places (`Fine`), the
sums of each group and of all rows to six (`Coarse`), a bps figure to eight (`BpsScale`) and the
published figure to six again.  In `ShadowEvidence` a posted return is any number of units, of
which `Whole` make a return of 1, and what is published is rounded to `Unit` parts of 1: the two
are independent, so a return may be finer than what is published. A group is a set of positions of
the request's list, which is what its sums range over. Both uses of `sorted` are `SortedOrder`,
which gives each record its place: the number of records before it, those with an equal key and an
earlier position included, as a stable sort does. `MinObservations` is the constant 100 of
`forward_evidence.py`, and the least `minimum` a request may ask for.

### ApiGateway

`env` is the process's environment, one of `Deployments`; `Deploy` restarts the service with
another one between requests.  A request goes through `Receive`, one of the four ends of the
middleware (`RefuseUnconfigured`, `CompareFails`, `RefuseKey`, `Admit`), one action per kind of
endpoint, `Respond` (the middleware again, which sets the header) and `Deliver`.  The exchange
with Database_Agent is two steps, `AskDatabase` and one of three ends.  `state_id` and `local_id`
are the two places that hold the correlation id; `Identified` is `request_correlation_id`, which
each of middleware, endpoint and handler calls.  `ClosedTrade`, `ExecutionCostObservation` and
`ShadowTradeOutcome` are the records that pydantic lets through; `PerformanceReportRequest`,
`ExecutionCostAttributionRequest` and `ShadowPerformanceRequest` are the requests made of them,
and `PayloadsAssumption` says that a payload which validation lets through (`Accepted`) is one.
Absent, empty and blank values are told apart as in the code: the service's key is tested for
emptiness only, so a blank one counts; a URL and the database key are stripped first, so an empty
or blank one is absent and the next URL is looked at.  A payload at fault is `Malformed` or
`Unprintable`: the first is answered 422 (`Refuse`); the second is one whose error is raised by a
validator, or that holds a number that is not finite, which `validation_error_handler` passes on
to a JSON encoder that cannot carry it, so the request ends in the handler of unexpected errors
(`FailToPrint`, 500).

## Runs and what they show

| Run | Instance | Shows |
|---|---|---|
| `paging_writes` | limit 2 within one page, 2 external ids, 2 contents (1 invalid), table of 3, insertions, 1 deletion | `AtMostTwoRequests` |
| `paging_long` | limit 4, pages of 2, 3 ids, table of 4, insertions, 2 deletions | `TypeOK`, `ReadsPrefix`, `NoIdentityTwice`, `SkippedAtMostDeleted`, `ReadEnds` |
| `paging_unruly` | limit 3, limit and offset ignored, replies of up to 4 rows, insertions, 1 deletion | `WithinLimit`, `StuckPagingIsNoticed` |
| `paging_duplicates` | limit 3, table of 5 that stands still | violation, see below |
| `attribution` | up to 3 fills of 7, up to 2 plans of 4 | all invariants of `FillAttribution`, refinement of `FillLedger` |
| `attribution_duplicate_plans` | up to 1 fill, 2 plans | violation, see below |
| `learning` | up to 2 fills of 7, up to 2 plans of 21 | all invariants of `LearningOutcomes` |
| `learning_unmatched`, `learning_uncontrolled` | 1 fill, 1 plan | violations, see below |
| `session_risk` | up to 3 fills of 8, 6 instants: 3 days of 2 units, 2 weeks of 2 days (the second begun) | all invariants of `SessionRisk` |
| `database_endpoint` | 2 plans, table of 3 fills, limit and page 2, requests for ever | `CompletePlansHaveAllFills`, `TwoReadingsAgree`, `OutcomesAreFinal`, `EventuallyLearned` |
| `gateway` | 64 deployments, 30 kinds of caller for the endpoints that compute nothing, lists of up to 3 trades, points, fills or outcomes, cost batches of 20 to 42 | all properties of `ApiGateway` |

Why the bounds are enough: in `paging_long` the limit is two pages, the table can be shifted by an
insertion and a deletion before, at and behind the offset, and duplicates can fill a page; two
insertions in front of the offset bring back a page that was read, so that the test of page
signatures ends a read too.  Two plans give every conflict of identifiers, and a third fill is the
smallest batch in which a duplicate, a conflict and an assignment meet.  Two learning plans
suffice because plans interact only through a shared id and shared fills; the 21 plans each differ
from a good one in one or two claims, so that every issue of the policy is raised.  Three fills
give a late fill for an old trade next to another trade, and six instants contain the change of a
day and of a week.  Amounts lie on, between and halfway between multiples of the rounding units,
and are chosen so that a fill left out, counted twice or put in the wrong window changes a figure
by more than the rounding does.

In `database_endpoint` a page of two and a limit of two make the read end by each of its exits,
and a third fill is one more than fits.  Queries ask for the first plan, for the second, and for
both on one page, which a refused plan makes invalid.  Two plans suffice for a fill that claims
both, for a plan that makes its whole page invalid, and for pages that move as a plan is closed.
In `gateway` the key, both URLs and the database key each take absent, empty, blank and set
values, the URLs in every pair, and both switches are on and off; a deployment and a request meet
in every pair, and nothing is left of one request when the next begins, so longer sequences repeat
the same states.  The units are so coarse (a cent is 4 units, a ratio has 10, a return of 1 is 20
units and published in fifths) that sums of three small numbers hit ties of the rounding, both
sides of each threshold and drawdowns of more than everything.  The cost batches lie on both sides
of the sizes (20 to 21, 41) where one more observation may exceed a 95th percentile.

The properties, with the question each answers, are commented where they are
stated.  The ones that say most:

* `SkippedAtMostDeleted`: reading by offset over a moving table loses at most one
  standing fill per deletion, and none through insertions, provided pages are
  full and the read ends for want of rows.
* `AtMostTwoRequests`: the page-signature test, the smaller second request and the
  short-page test together bound a read of at most one page, which is what both
  endpoints ask for, to two requests.
* `FirstReportDecides`, `SettlesOnce`: what a plan is given is a function of the
  first reports only, whatever comes later.
* `TotalsMatchFills`: the report's totals are a sum taken fill by fill, up to half a cent for each
  plan in them.
* `FirstRecordDecides`: the outcomes are exactly the first records that satisfy the
  documented policy.
* `StatusCheckIsShadowed`: validation leaves the builder's status check nothing
  to reject on its own.
* `OneMoreFill`, `LatestTradeDecidesStreak`, `QuietTimeOnlyAges`: what one more fill,
  one more trade, and time alone may do to the metrics.  A late fill brings the
  whole result of its trade to the day it is dated.  `OneMoreFill` and `WeekIsTodayAndBefore` compare
  figures that were rounded apart, and allow the cent that this can move and no more.

* `CompletePlansHaveAllFills`: although plans and pages of fills are read one after the
  other, a plan that was complete when it was read is answered for with all its fills,
  provided the fetched count is below the limit and no identity is listed twice.
* `TwoReadingsAgree`: summary and learning path, which match fills by different rules,
  agree on every outcome whose fills are not contested, up to half a unit of each rounding.
* `OutcomesAreFinal`, `EventuallyLearned`: a consumer may keep the first outcome of an id, and a
  learnable plan gets one in spite of plans that make a whole page invalid, if callers also ask
  for one plan at a time.  Requests for both plans go on in the same run and are refused as long
  as the page holds the refused plan.
* `ReadEnds`: a read of several pages ends whatever is inserted or removed between its requests.  The
  table and the deletions are bounded, so the run covers finitely many writes.
* `ReadyMeansServed`: what `/ready` looks at is enough for every caller with the key to be served,
  and for Database_Agent to be asked at the right URL with its key.  What is left is a payload at
  fault, which is answered 422 or 500, and Database_Agent.
* `DrawdownIsWorstFall`, `GroupsAddUp`, `FloorCoversObservations`: the one-pass drawdown, the
  groups and the interpolated percentile against what they stand for.  Groups of costs and their
  total were rounded apart from rounded rows; `GroupsAddUp` bounds the difference by half a unit
  for each rounding.
* `ForwardNeedsPaper`, `WinKeepsReadiness`: how the two verdicts relate, and that a gain does not take one
  back: any gain for paper review, one of at least the published unit for forward review.

### Disagreements found

* `DuplicatesDoNotShortenTheResult` (`paging_duplicates`): after duplicates the
  next request is smaller than a page, and its full answer is taken for the end
  of the list.  From `a a b b c` with limit 3 the result is `a b`.
  `tests/test_data_integrity.py` expects the limit to be reached behind a
  duplicate; its second page happens to hold no duplicate.  Both endpoints ask
  for 500 and can fall short in this way from 501 rows on.
* `DuplicatePlanIdsRejected` (`attribution_duplicate_plans`): the API contract
  says that duplicate TradePlan ids are rejected; the summary counts them twice.
* `UnmatchedFillsReported` (`learning_unmatched`): the contract says that unmatched
  fills are reported; only fills without any identifier are.
* `EveryClaimControlled` (`learning_uncontrolled`): the contract asks for controlled
  manager and execution buckets; uncontrolled claims are ignored.

### Observations

Met while modelling.  They contradict no document, so they have no run.

* A `PERFORMANCE_AGENT_API_KEY` of white space counts as configured: `/ready` is 200, but
  HTTP strips header values, so no caller can send it.  A key with a character
  outside ASCII makes `compare_digest` raise: `/ready` is 200 and every request with a key is
  answered 500 (`CompareFails`).
* A Database_Agent URL of slashes only is empty after stripping them: `/ready` is 503 with
  no failed check to say why (`FailedChecks` compares with absent, `DatabaseReady` with both).
* Errors raised by a validator end in 500 instead of 422: `exc.errors()` carries the exception in its `ctx`
  (`app/main.py` 111), and `JSONResponse` cannot encode it.  This meets an unsupported evidence status
  (`app/models.py` 136-140), a blank symbol or a number that is not finite (`app/execution_cost.py` 34-45).
* A gain can take forward readiness back if it is smaller than the published unit: 100 outcomes
  with a mean of 5.01e-9 are published as 1e-8 and pass, one more of 1e-12 brings the mean to
  4.96e-9, which is published as 0. Hence the premise of `WinKeepsReadiness`.
* `/ready` names `RUNTIME_DATABASE_AGENT_URL` as the source of the URL when that variable
  is blank, though `DATABASE_AGENT_URL` is used (`app/system_contract.py` 136-141).
* A reply of Database_Agent that is JSON but no object fails outside the client's error handling
  and is answered 500, not 502 (`DatabaseMisreplies`).
* A fill that names two plans is contested only if both plans are on the page that was read;
  with `limit=1` each of the two is given it.
* The confidence of a shadow summary is rounded to four places: with a `minimum`
  above 20000 it can read 1.0 one observation short of it.
* `build_forward_evidence` is called by tests only; the verdict is modelled on the summaries
  that the endpoint returns.

## Fairness

`FillPaging`: `ReadEnds` assumes weak fairness of `Progress`, the
reader's steps other than a failed exchange: the row loop is synchronous code in
the handler's thread, and an exchange is answered unless it fails, within the
client's timeout (httpx applies the 10 s to each network operation, so a peer
that trickles bytes forever is outside this assumption).  A failure is never
forced, so the read does not end merely because an exchange fails some day.
Nothing is assumed of the other agents: they may write at any moment, or
never; the model bounds their number of writes by the table's size and the number of deletions.

`DatabaseEndpoint`: weak fairness of `Serve`, the steps of a request in progress other than
failures, for the same reason; and strong fairness of `Begin(q)` for each query for outcomes,
which says that callers repeat their queries.  The service does not poll by itself, so this is an
assumption on the callers; it is strong because other queries keep making the service busy in
between.  `EventuallyLearned` additionally has the premise that Database_Agent's failures stop
some day (`PlansFail`, `FetchFails`).  Refused pages are no such failures: they may go on for
ever, and do in the run when a refused plan stays on a page.

The other modules have no liveness property: their loops run over finite lists, and
deadlock checking shows that no request stops half way.

## Proofs

Each theorem holds for every value of the constants that the assumptions allow: for every
limit, page size, table, batch, record, deployment and payload.  No instance of the runs
is assumed; TLC evaluates each assumption on its instance.

| Assumption | Says | Because |
|---|---|---|
| `LimitsAssumption`, `FlagsAssumption` | limits and pages are positive, switches Boolean | both numbers are 500 in the code |
| `LimitAssumption` | both endpoints ask for at most one page of fills | both numbers are 500 |
| `AmountsAssumption`, `RecordsAssumption` | amounts are integers, records have their fields | pydantic validates fills and plans |
| `ContentsAssumption`, `QueriesAssumption` | fills and requests are such records | the same, for `DatabaseEndpoint` |
| `PlansAssumption` | a plan keeps its id and is not complete while it is open | of the agents that write plans |
| `SessionAssumption` | days and weeks have a length | the calendar |
| `GatewayAssumption` | an absent value is no request, number or id | it stands for Python's `None` |
| `PayloadsAssumption` | what validation lets through are lists of records with numbers where they should be; the equity of a point and the prices and quantity of a fill are positive, its fees not negative, and a cost request's minimum is from 1 to `ConfidenceUnit` | pydantic: `gt=0`, `ge=0` in `app/models.py` 63-65 and `app/execution_cost.py` 13-21; `ge=1, le=10000` in 51, the confidence having four digits |
| `ScalesAssumption`, `CentAssumption`, `FineAssumption`, `UnitsAssumption` | rounding units are positive numbers; the posted unit divides them | 10^2, 10^6 and 10^8; amounts are decimal numbers |

### Sums: SetSums

The models write a total as `MapThenSumSet`, a fold in an order that nothing determines, and an
induction over that order cannot be cited.  `SetSums` argues from a smallest set for which a lemma
would fail instead (`SmallestSet`, from the well-foundedness of the natural numbers): a sum over a
finite set exists, is unique (`IsSum`), and can take any element first (`TotalRemove`).  From
there: sums of a union, of parts (`TotalOfParts`, `GroupSums`), under a renaming of the elements
(`TotalRenamed`), of numbers not below others (`TotalAtMost`), of equal numbers (`TotalCount`).
What rounding does to sums is there as well: `Nearest` is off by half a unit at most, so a sum of
rounded numbers is off by half a unit for each.  At the end, the ranks of numbers in a set:
`RankOfGreatest` says that what is taken last is ranked last and moves nothing else, which is how
the order of fills kept by a scan is compared with a definition by sets. A fold over a list is a
trace: the state after each position, from the state after the position before (`IsTrace`).
`FoldTrace` gives every solution of the recursion that `FoldLeft` is defined by such a trace,
whatever it folds, and what a one-pass loop keeps is then proved of a trace from its smallest bad
position.

### FillPagingProofs

`TypeCorrect` adds to the types `FetchShort`: while a request is about to be sent the
result is short of the limit (the test of `while`).
`NoFillTwice` needs `SeenInv`: `seen_fill_ids` is exactly the set of identities of
the result; then only `TakeRow` matters.  `LimitKept` needs `LimitInv`: inside the
row loop the result is short of the limit unless the loop is about to be left.
`TwoRequestsAtMost` rests on `RequestInv`: after the first page something was kept,
so the second request asks for less than a page and its reply, of no more than was
asked, is short.  `SkippedOnlyByDeletion`: `SkipInv` bounds the
identities that are neither in the result nor at or behind the frontier of the
read.  An insertion moves rows only away from the read part, a deletion moves at
most one row across the frontier, and a reply shorter than the request reaches
the end of the table.  `StuckPagingStops` rests on `StuckInv`: the signature of the only
page there is (`OnlyPage`) is among those seen when the second request is sent, so
the second reply repeats it or, asked for less, is short.
`PrefixRead` rests on `PrefixInv`: while the table stands still and is paged as asked, the page is the
part of the table at the offset and the result is the first occurrences among the
`RowsRead`.  `FirstOccurrencesGrow` says that one more row appends its identity or
nothing to these.

### FillAttributionProofs

`TypeCorrect` includes that `seen_fingerprints` is what the fills taken so far report.  `HoldInv`
adds `HeldSeen`, that whatever a plan holds counts as seen; a fill that is assigned is new, so it
differs from all that are held.  `CountedOnce` and `UncontestedOnly` follow.  `ImplementsLedger`
maps each pass over a new fingerprint to a ledger step (`SettleStep`) and every other step to a
stutter (`SameFate`).  `ExclusionsReported` needs `CountInv`: all counts are zero exactly when
every fill taken is settled.  `FirstReportsCount` is inductive with the types, by
`RankOfGreatest`.  `AllAccountedFor`: the plans' lists and the three counts together have as many
entries as fills were taken; `AssignFill` lengthens one list, so one part of a sum changes
(`TotalChange`). `TotalsAreOfFills` adds that each result has the P&L of the list of its plan
(`SummaryStep`).  The list is the ranks of the plan's own settled fills (`FirstReportDecides`), so
its sum is one over those fills, renamed; the plans' own fills are parts of all settled ones, and
so are the groups; each result is rounded once, which gives the bound of half a cent for each
plan.

### LearningOutcomesProofs

`PolicyIsTheChecks` is the main lemma: for a plan that
validation allows, `_record_issues` is empty exactly when the documented policy
holds.  It needs `FirstMeaning`, that `_first` returns the first value said, by
well-foundedness of the natural numbers.  `PolicyDecides` then follows by induction over the
steps, with the type invariant's fact that an id is seen exactly when one of its
records was reviewed.  `StatusCheckAddsNothing` follows from `ShadowedIssue`, about one plan
that validation allows.  `PnlIsConserved` rests on an invariant that each outcome has the sum over the fills
that name its record (`EarnStep`); a fill that names one plan is in one of these parts
(`OnePlanNames`), so the outcomes' sums add up to one over the fills.

### SessionRiskProofs

`TypeCorrect` strengthens the types with the records of the rows (`RowsOK`): no row is dated after
the request, for any late or future fill. The rest follows from `RInv`.  `LoopGrouped`: in the
loop the rows are a grouping (`IsGrouping`) of the usable fills taken, one row per trade with its
sum, latest time and first symbol, in the order of the trades' first fills; a pass adds its fill
to the row of its trade or makes one (`GroupingAdd`, `GroupingOpen`).  The next request throws the
rows away, so what the invariant keeps of `report` and `previous` (`Answers`) is that some
grouping of the fills known to each has the figures they give.  `RowsGroupFills`, `WeekAddsUp` and
`LatestDecides` are about the rows of the moment; the latter two split them into windows, and into
the latest and the others. `FillCounted` and `QuietAgesOnly` compare two reports: the first takes
each window's sum fill by fill (`WindowTotalGrows`), the second needs that a grouping is unique
(`GroupingUnique`), so that two requests over the same fills cannot differ by how they grouped
them.  One more fill changes the exact sum of one trade; the trade is rounded once in each report
and the day once, whence the bound.

### DatabaseEndpointProofs

The reader of an endpoint is an instance of `FillPaging`, and so is its proof: the lemmas on a
step of the reader come from `FillPagingProofs` by `INSTANCE`.  `EndpointInv` says that outside a
read the reader is as a new call finds it, and `ReaderInv` is what `FillPagingProofs` knows of a
read; `TypeCorrect` follows from the two.  `CompletePlansAnswered` needs more: `RowsInv` (rows are
never taken back, so everything read is in the table still), `PagesInv` (a second request is only
sent if some row is listed twice, and otherwise a read that ends short of the limit has lost
nothing) and `PlanInv` (a complete plan that was read stays in the account as it was, and all
fills that name it have been in the table since the first reply).  Together: the rows in the
result that name the plan are all there are, and its P&L is their sum.  `ReadingsAgree` compares
the two ways a fill is matched, over the same list, and then the two roundings of one sum.
`FirstOutcomeStands` is an action property; `PublishedInv` says that the P&L last given for a
plan is that of all the fills that will ever name it, so another answer can only repeat it.

### ApiGatewayProofs

`KeyHoldersOnly`, `ReadinessKept` and `OneIdPerAnswer` follow from one
inductive invariant, `IInv`: `Phases` (which variables are set in which phase; `env` cannot
change while a request is in progress), `Answers` (which status an answer may
have, given the deployment and the request), `Exchange` (what was sent to Database_Agent is
what the variables say now) and `OnlyKeyHoldersServed` itself, without which an answer of
an endpoint could not be told from one of the middleware.  Each action has a lemma
on what it keeps.

### FigureProofs

`FiguresInv`, on top of `IInv`, says that an answer with figures has those of the payload that was
posted, and the confidence that goes with their number of observations; the theorems are then
about the builders' operators, for every payload.  `ForwardImpliesPaper`: a rounded mean above
zero comes from an exact one above zero (`NearestSides`), and both verdicts look at the same mean.
`FiguresAddUp`: the groups of a dimension are parts of the list (`GroupSums`, `GroupSizes`), and
the best and worst keys exist and are extremes because a finite set of numbers has a greatest
(`GreatestOf`).  For costs the rounded rows of the groups share those of the list
(`CostGroupsShare`); a group is rounded once (`RoundedSumsShare`), and a row's cost is off its
rounded slippage and fees by two halves (`CostsShared`, `CostSummaryAddsUp`).  `FactorTellsNet`:
net is gains plus losses (`GainsAndLosses`), so the factor is above 1 with the net above 0
(`FactorSides`), and three roundings of a sum and its parts differ by at most a cent
(`RoundedApart`).

`ReadinessSurvivesWins` compares a record of outcomes with the same record and one gain more.  The
loop over the longer list passes through the states of the loop over the shorter one
(`OutcomeTracesAgree`), and after a gain the value is no further below its peak, so the rounded
drawdown stays what it was; that a drawdown within the gate means a value never below zero, where
a gain would deepen the fall, is part of the lemma (`WinKeepsDrawdown`); the net sum and the gains
grow, the losses do not (`LaterSums`), so the mean stays above zero and the profit factor above
its threshold (`WinKeepsGates`).  After rounding the mean stays above zero because a mean
published above zero is above half a unit, and a gain of a whole one leaves it there; that is
where the premise is needed.

`DrawdownIsDeepest` has two halves.  For a curve, the state after each point has the highest value
so far as its peak and the deepest fall so far (`HighestSoFar`, `DeepestSoFar`,
`CurveTracePasses`). For outcomes, the compounded value is a product, so the fall between two
moments is one minus the growth between them (`GrowthBetween`), and the deepest fall that the loop
keeps is not below any of them and is one of them (`FallOverAtMost`, `FallOverAttains`).  Ratios
are compared by cross-multiplication and rounded in order (`AtMostOrders`, `RoundedOrdered`).  The
premise that no outcome loses more than everything is needed: the code does not bound a loss, and
a value below zero has no relative fall.

`FloorsCover`: places number the positions of a list (`PlacesNumber`), so the sorted values do not
fall (`OrderedRises`) and at most n - k of them are above the k-th (`CountAbove`).  A percentile
lies between its neighbours (`PercentileBetween`), is not lower for a higher percentage
(`PercentileRises`) nor for values nowhere lower (`PercentileAtMost`), such as the rates with fees
against those without (`RatesOfRow`).  The published figure is half a unit below at most
(`FewAboveFloor`), and the confidence is rounded to full only from the minimum on
(`FullConfidence`); this is where the bound of the minimum is needed.

### Only model-checked

`ReadEnds` and `EventuallyLearned` are liveness, which the prover does not reach.  All other
properties that runs check are theorems, except the four that a run shows to be violated.

## Not modelled, and why

* Floating point beyond the rounding the code asks for: sums are exact in a unit that divides
  every amount, so nothing here speaks of an error of the last binary digit.  Where the code
  rounds an amount, cost, ratio or return that is modelled, so does the model, with halves to
  even; minutes and percentages of equity are left unrounded in `SessionRisk`.
* What decides nothing: the shadow summary's win rate and its excursion and holding
  averages, ids passed through, the wording of warnings and errors, contributions and
  dates of a learning outcome.
* The static description in `app/system_contract.py`, `/health` and `/version` beyond that they
  answer without a key, Docker files.
* Text normalisation (upper and lower case, stripping) in the attribution and learning
  paths: identifiers and names are compared after it.  Where groups depend on it
  (symbols in reports and costs, blank names) it is modelled.
* Concurrent requests: they share no state, see `DatabaseEndpoint`.

## Plan

Done: all components above as far as the table of modules says, with the
compositions `DatabaseEndpoint` and `ApiGateway`, and a theorem for every safety
property.  Left for whoever changes the code next: a change to a function named in
`PROJECT.json` changes the definition beside it, and the runs and proofs say what else
depended on it.
