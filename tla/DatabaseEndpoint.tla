-------------------------- MODULE DatabaseEndpoint --------------------------
(***************************************************************************)
(* The two endpoints that read Database_Agent: the TradePlan summary and   *)
(* the learning outcomes of an account.  A request reads a page of plans,  *)
(* then the fills by the steps of FillPaging, and answers from the two     *)
(* with the operators of FillAttribution and of LearningOutcomes, while    *)
(* other agents open plans, store fills and close plans.                   *)
(*                                                                         *)
(* Requests share nothing, so one of them at a time is enough; they repeat *)
(* as long as callers ask.                                                 *)
(***************************************************************************)
EXTENDS TradeRecords

CONSTANTS
  Cent, Fine,  \* units of money in a cent and in 10^-8
  KnownBuckets, OtherBuckets, OtherStatuses,
  Opened,      \* plan id -> its record while it is open
  Closings,    \* plan id -> the records it may be closed with
  Contents,    \* what a stored fill says besides its external id
  Limit,       \* limit=500 of both endpoints
  PageCap,     \* the 500 of list_fills
  MaxTable,    \* bound: fills stored for the account
  Queries      \* what callers ask: the endpoint, limit and offset of the plans

\* of the plans' filters only the page is kept
Query == [endpoint : {"learning", "summary", "summary_without_fills"},
          limit : Nat \ {0}, offset : Nat]

ASSUME QueriesAssumption == Queries \subseteq Query /\ None \notin Queries

\* main.py asks list_fills for no more than one of its pages
ASSUME LimitAssumption ==
  /\ Limit \in Nat \ {0} /\ PageCap \in Nat \ {0} /\ Limit <= PageCap
  /\ MaxTable \in Nat

ASSUME UnitsAssumption == Cent \in Nat \ {0} /\ Fine \in Nat \ {0}

\* what is left of a TradePlanFill besides its external id
ASSUME ContentsAssumption ==
  Contents \subseteq [plan  : PlanIds \cup {None}, trade : PlanIds \cup {None},
                     order : OrderIds \cup {None},
                     pnl   : Amounts \cup {None}, est : Amounts]

VARIABLES
  listing,     \* Database_Agent's plans of the account, last update first
  phase,
  query,       \* what the caller asked for
  read_plans,  \* trade_plans
  published,   \* history: P&L of the outcomes last given for each plan
  (* those of list_fills, FillPaging *)
  table, deletes, pc, offset, fills, seenIds, seenPages, page, i,
  asked, requests, standing, still

readVars == <<pc, offset, fills, seenIds, seenPages, page, i,
              asked, requests, standing, still>>
dbVars == <<listing, table, deletes>>
ownVars == <<phase, query, read_plans, published>>
vars == <<dbVars, ownVars, readVars>>

Paging == INSTANCE FillPaging
            WITH NoId <- None, BadContents <- {}, DbPageMax <- PageCap,
                 HonoursLimit <- TRUE, HonoursOffset <- TRUE,
                 MayInsert <- TRUE, MaxDeletes <- 0

\* _map_fill: the fill a row stands for
FillOf(r) == [ext |-> r.ext, plan |-> r.content.plan, trade |-> r.content.trade,
              order |-> r.content.order, pnl |-> r.content.pnl, est |-> r.content.est]
FillsOf(s) == [k \in DOMAIN s |-> FillOf(s[k])]

\* build_learning_outcomes and the plan summary, of the plans read and a
\* list of fills.
Learning(list) == INSTANCE LearningOutcomes
  WITH plans <- read_plans, fills <- list, FillRecords <- {}, PlanRecords <- {},
       MaxFills <- 0, MaxPlans <- 0, unmatched <- 0, seen_plan_ids <- {},
       outcomes <- << >>, rejected <- << >>, warned <- {}

Attribution(list) == INSTANCE FillAttribution
  WITH plans <- read_plans, fills <- list, FillRecords <- {}, PlanRecords <- {},
       MaxFills <- 0, MaxPlans <- 0, Buckets <- KnownBuckets \cup OtherBuckets,
       Statuses <- {}, assigned <- << >>, seen <- {}, duplicates <- 0,
       orphans <- 0, conflicts <- 0, results <- << >>, report <- None

RealizedPnl(plan, list) == Learning(list)!RealizedPnl(plan)
IsOutcome(plan, list) == Learning(list)!Issues(plan) = {}

SummaryPnl(plan, list) ==
  LET own == {k \in Attribution(list)!Settled :
                plan.id \in Attribution(list)!Candidates(list[k])}
  IN  Nearest(Attribution(list)!PlanRealizedPnl(plan, [k \in own |-> list[k]]), Cent)

Account == FillsOf(fills)

\* Whether a row carries an identifier of a plan.
Names(r, plan) ==
  \/ plan.id \in {r.content.plan, r.content.trade}
  \/ plan.order # None /\ r.content.order = plan.order

Complete(plan) == Learning(<< >>)!ExecutionStatus(plan)
                    \in Learning(<< >>)!LEARNABLE_EXECUTION_STATUSES
Allowed(plan) == Learning(<< >>)!Allowed(plan)

\* A plan keeps its id, and is not complete while it is open.
ASSUME PlansAssumption ==
  \A p \in PlanIds :
    /\ Opened[p].id = p /\ ~Complete(Opened[p])
    /\ \A record \in Closings[p] : record.id = p

-----------------------------------------------------------------------------
\* (the result list outlives the request)
FaultyResetReader ==
  /\ pc' = "fetch" /\ offset' = 0
  /\ seenIds' = {} /\ seenPages' = {} /\ page' = << >> /\ i' = 1
  /\ asked' = 0 /\ requests' = 0 /\ standing' = {} /\ still' = TRUE
  /\ UNCHANGED fills
ResetReader ==
  /\ pc' = "fetch" /\ offset' = 0 /\ fills' = << >>
  /\ seenIds' = {} /\ seenPages' = {} /\ page' = << >> /\ i' = 1
  /\ asked' = 0 /\ requests' = 0 /\ standing' = {} /\ still' = TRUE

Init ==
  /\ listing = << >>
  /\ table = << >>
  /\ deletes = 0
  /\ phase = "idle"
  /\ query = None
  /\ read_plans = << >>
  /\ published = [p \in PlanIds |-> None]
  /\ pc = "fetch" /\ offset = 0 /\ fills = << >>
  /\ seenIds = {} /\ seenPages = {} /\ page = << >> /\ i = 1
  /\ asked = 0 /\ requests = 0 /\ standing = {} /\ still = TRUE

-----------------------------------------------------------------------------
(* The other agents.  A plan is listed first when it is written.           *)
Write(record, others) ==
  /\ listing' = <<record>> \o others
  /\ UNCHANGED <<table, deletes, ownVars, readVars>>

OpenPlan(p) ==
  /\ \A k \in DOMAIN listing : listing[k].id # p
  /\ Write(Opened[p], listing)

ClosePlan(p) ==
  \E k \in DOMAIN listing, record \in Closings[p] :
    /\ listing[k] = Opened[p]
    /\ Write(record, Paging!Deleted(listing, k))

\* Fills of a plan are stored before it is closed, though they may be listed
\* again later; an external id is listed with one content.
StoreFill ==
  /\ Paging!Insert
  /\ \A k \in DOMAIN table' : \A m \in DOMAIN table' :
       (table'[k].ext # None /\ table'[k].ext = table'[m].ext) => table'[k] = table'[m]
  /\ \A n \in DOMAIN listing : Complete(listing[n]) =>
       \A k \in DOMAIN table' : Names(table'[k], listing[n]) =>
         \E m \in DOMAIN table : table[m] = table'[k]
  /\ UNCHANGED <<listing, ownVars>>

-----------------------------------------------------------------------------
(* One request.                                                            *)
Begin(q) ==
  /\ phase = "idle"
  /\ phase' = "plans"
  /\ query' = q
  /\ UNCHANGED <<dbVars, read_plans, published, readVars>>

FaultyPlanPage ==
  SubSeq(listing, 1, Paging!Lesser(query.limit, Len(listing)))
PlanPage ==
  SubSeq(listing, query.offset + 1,
         Paging!Lesser(query.offset + query.limit, Len(listing)))

\* account_id and include_fills decide whether the summary reads fills.
ReadPlans ==
  /\ phase = "plans"
  /\ \A k \in DOMAIN PlanPage : Allowed(PlanPage[k])
  /\ read_plans' = PlanPage
  /\ phase' = "fills"
  /\ pc' = IF query.endpoint = "summary_without_fills" THEN "done" ELSE "fetch"
  /\ UNCHANGED <<dbVars, query, published, offset, fills, seenIds, seenPages,
                 page, i, asked, requests, standing, still>>

\* status 502: nothing of the request is answered
Abandon ==
  /\ phase' = "idle"
  /\ query' = None
  /\ read_plans' = << >>
  /\ ResetReader
  /\ UNCHANGED <<dbVars, published>>

PlansInvalid ==
  /\ phase = "plans"
  /\ \E k \in DOMAIN PlanPage : ~Allowed(PlanPage[k])
  /\ Abandon

\* Database_Agent's error on a page that would have been valid; on another
\* page an error ends the request as PlansInvalid does.
PlansFail ==
  /\ phase = "plans"
  /\ \A k \in DOMAIN PlanPage : Allowed(PlanPage[k])
  /\ Abandon

ReadFills ==
  /\ phase = "fills"
  /\ Paging!Reader
  /\ UNCHANGED <<listing, ownVars>>

FillsFailed == phase = "fills" /\ pc = "failed" /\ Abandon

\* (a page that cannot be read ends the list)
FaultyAnswering == phase = "fills" /\ pc \in {"done", "failed"}
Answering == phase = "fills" /\ pc = "done"

\* The history records what is answered while the account's fills fit the
\* limit.
Fits == Len(table) <= Limit

Outcomes == IF query.endpoint # "learning" THEN {}
            ELSE {k \in DOMAIN read_plans : IsOutcome(read_plans[k], Account)}

Answer ==
  /\ Answering
  /\ published' =
       [p \in PlanIds |->
          LET own == {k \in Outcomes : read_plans[k].id = p}
          IN  IF own = {} \/ ~Fits THEN published[p]
              ELSE RealizedPnl(read_plans[CHOOSE k \in own : TRUE], Account)]
  /\ phase' = "idle"
  /\ query' = None
  /\ read_plans' = << >>
  /\ ResetReader
  /\ UNCHANGED dbVars

Serve == ReadPlans \/ PlansInvalid \/ (ReadFills /\ ~Paging!FetchFails)
           \/ FillsFailed \/ Answer

Next ==
  \/ \E p \in PlanIds : OpenPlan(p) \/ ClosePlan(p)
  \/ StoreFill
  \/ \E q \in Queries : Begin(q)
  \/ ReadPlans \/ PlansInvalid \/ PlansFail
  \/ ReadFills \/ FillsFailed
  \/ Answer

Spec == Init /\ [][Next]_vars

\* A request in progress goes on, and callers repeat each of their queries
\* for outcomes.
FairSpec ==
  /\ Spec
  /\ WF_vars(Serve)
  /\ \A q \in {r \in Queries : r.endpoint = "learning"} : SF_vars(Begin(q))

-----------------------------------------------------------------------------
(* The plans are listed once each, and nothing of one request is left when *)
(* the next begins.                                                        *)
TypeOK ==
  /\ phase \in {"idle", "plans", "fills"}
  /\ phase = "idle" <=> query = None
  /\ \A j, k \in DOMAIN listing : listing[j].id = listing[k].id => j = k
  /\ \A k \in DOMAIN read_plans : Allowed(read_plans[k])
  /\ phase # "fills" => /\ read_plans = << >>
                        /\ fills = << >> /\ seenIds = {} /\ requests = 0
  /\ Paging!TypeOK

AnsweringWithFills == Answering /\ query.endpoint # "summary_without_fills"

\* The account as one read of the whole table would give it.
Stored == FillsOf(Paging!FirstOccurrences(table))

\* What tells a consumer that no fill is missing: fill_count_fetched is below
\* the limit, if Database_Agent lists no fill twice.
NothingMissing ==
  \/ Fits
  \/ /\ Len(fills) < Limit
     /\ Cardinality(Paging!IdentitiesIn(table)) = Len(table)

(* The plans are read before the fills, by separate requests, and the      *)
(* fills page by page; yet a plan that was complete when it was read is    *)
(* answered for as if the account had been read at one moment: neither     *)
(* endpoint gives it the P&L of a part of its fills.                       *)
CompletePlansHaveAllFills ==
  (AnsweringWithFills /\ NothingMissing) =>
    \A k \in DOMAIN read_plans :
      LET plan == read_plans[k]
      IN  Complete(plan) =>
            /\ RealizedPnl(plan, Account) = RealizedPnl(plan, Stored)
            /\ SummaryPnl(plan, Account) = SummaryPnl(plan, Stored)

(* The summary deduplicates fills and refuses contested ones, the learning *)
(* path does neither and does not look at trade ids.  From the fills that  *)
(* list_fills returns, an outcome still has the P&L of its plan in the     *)
(* summary, unless a fill names another plan of the batch too, or this one *)
(* by trade id alone.  One figure is rounded to eight places and the other *)
(* to cents, so they differ by half a unit of each at most.                *)
TwoReadingsAgree ==
  AnsweringWithFills =>
    \A n \in DOMAIN read_plans :
      LET plan == read_plans[n]
          claimed(k) == Attribution(Account)!Candidates(Account[k])
      IN  ( /\ IsOutcome(plan, Account)
            /\ \A k \in DOMAIN Account : plan.id \in claimed(k) =>
                 /\ claimed(k) = {plan.id}
                 /\ k \in Learning(Account)!FillsForPlan(plan) )
            => 2 * Distance(Fine * RealizedPnl(plan, Account),
                            Cent * SummaryPnl(plan, Account)) <= Fine + Cent

(* outcome_id depends on the plan only, so a consumer may keep the first   *)
(* outcome of an id: while the account fits the limit, a later request     *)
(* never gives the same id another P&L.                                    *)
OutcomesAreFinal ==
  [][\A p \in PlanIds : published[p] # None => published'[p] = published[p]]_published

(* A plan that was closed with all that validation and the policy ask for, *)
(* and whose fills fit the limit, is learned from at last, if              *)
(* Database_Agent stops failing and callers keep asking, also for one plan *)
(* at a time: a page that it shares with a refused plan stays unanswered   *)
(* for ever, but that plan does not keep it from being learned from on a   *)
(* page of its own.                                                        *)
LearnableIn(p) ==
  \E n \in DOMAIN listing : /\ listing[n].id = p /\ Allowed(listing[n])
                            /\ IsOutcome(listing[n], Stored)
EventuallyLearned ==
  <>[][~PlansFail /\ ~Paging!FetchFails]_vars =>
    \A p \in PlanIds : LearnableIn(p) ~> (published[p] # None \/ ~Fits)
=============================================================================
