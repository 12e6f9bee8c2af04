-------------------------- MODULE LearningOutcomes --------------------------
(***************************************************************************)
(* build_learning_outcomes: which TradePlans of a batch become learning    *)
(* outcomes, under the policy of _record_issues.                           *)
(*                                                                         *)
(* A TradePlan carries free-form mappings (plan, metadata, their children  *)
(* and the lifecycle events).  _plan_contexts lists them in search order;  *)
(* here a plan holds the list, and each context what the policy looks up.  *)
(***************************************************************************)
EXTENDS TradeRecords

CONSTANTS
  Fine,            \* units of money in 10^-8: outcomes are rounded to these
  KnownBuckets,    \* KNOWN_BUCKETS
  OtherBuckets,    \* any other text where a bucket is expected
  OtherStatuses,   \* execution statuses that are not learnable
  FillRecords,     \* fills a batch may hold
  PlanRecords,     \* plans a batch may hold
  MaxFills,        \* bound: fills in a batch
  MaxPlans         \* bound: plans in a batch

Names == KnownBuckets \cup OtherBuckets
LEARNABLE_EXECUTION_STATUSES == {"filled", "closed", "completed", "exited"}
Statuses == LEARNABLE_EXECUTION_STATUSES \cup OtherStatuses
Sources == {"scanner", "fundamental", "technical", "manager"}

(* status is the first of execution_status and order_status; manager and   *)
(* execution are the buckets under the keys of _manager_buckets and of     *)
(* _execution_buckets; requested_strategy_bucket is a key of both.         *)
Context == [status    : Statuses \cup {None},
            manager   : SUBSET Names,
            execution : SUBSET Names,
            requested : Names \cup {None},
            risk      : BOOLEAN \cup {None},
            gate      : BOOLEAN \cup {None}]

\* evidence_versions and evidence_statuses, in a context or in the summary
Note == [versions : [Sources -> {"supported", "other", None}],
         statuses : [Sources -> {"allowed", "other", None}]]

Plan == [id         : PlanIds,
         order      : OrderIds \cup {None},
         status     : Statuses,
         bucket     : Names,            \* strategy_bucket
         approved   : BOOLEAN,          \* has a risk_approval_id
         priced     : BOOLEAN,          \* an entry price is found
         stated     : SUBSET Names,     \* buckets at fixed paths of plan.plan
         contexts   : Seq(Context),
         gate       : BOOLEAN \cup {None},              \* of the classification
         class      : {"classified", "review", None},   \* its status
         classifier : {"supported", "other", None},
         direct     : Note,             \* found in the contexts
         summary    : Note,             \* in the evidence summary
         passed     : BOOLEAN \cup {None},              \* its gate_passed
         inputs     : BOOLEAN]          \* classification_inputs are found

ASSUME FineAssumption == Fine \in Nat \ {0}

ASSUME RecordsAssumption ==
  /\ FillRecords \subseteq Fill
  /\ PlanRecords \subseteq Plan
  /\ IsFiniteSet(KnownBuckets)
  /\ KnownBuckets \cap OtherBuckets = {}
  /\ None \notin Statuses /\ None \notin Names /\ None \notin BOOLEAN
  /\ None \notin {"supported", "allowed", "other", "classified", "review"}
  /\ MaxFills \in Nat
  /\ MaxPlans \in Nat

VARIABLES
  plans, fills,   \* the request
  pc,
  i,              \* the plan the loop is at
  unmatched,      \* fills that name neither a plan nor an order
  seen_plan_ids,
  outcomes,
  rejected,
  warned

request == <<plans, fills>>
vars == <<request, pc, i, unmatched, seen_plan_ids, outcomes, rejected, warned>>

BoundedSeqs(S, n) == UNION {[1..m -> S] : m \in 0..n}

\* _first
First(s) == LET said == {k \in DOMAIN s : s[k] # None}
            IN  IF said = {} THEN None ELSE s[Min(said)]

Found(p, field) == First([k \in DOMAIN p.contexts |-> p.contexts[k][field]])

-----------------------------------------------------------------------------
(* Fills of a plan, by position.                                           *)
\* Faulty...: what a plausible slip would write in place of the next definition.
FaultyFillsForPlan(p) ==
  {k \in DOMAIN fills : fills[k].plan = p.id \/ fills[k].order = p.order}
FillsForPlan(p) ==
  {k \in DOMAIN fills : \/ fills[k].plan = p.id
                        \/ p.order # None /\ fills[k].order = p.order}

RealizedFills(p) == {k \in FillsForPlan(p) : fills[k].pnl # None}
RealizedPnl(p) ==
  Nearest(SumOver([k \in RealizedFills(p) |-> fills[k].pnl]), Fine)

-----------------------------------------------------------------------------
(* What the contexts say of a plan.                                        *)
ExecutionStatus(p) == First(<<Found(p, "status"), p.status>>)
\* (or what its fills suggest)
FaultyExecuted(p) ==
  ExecutionStatus(p) \in LEARNABLE_EXECUTION_STATUSES \/ RealizedFills(p) # {}
Executed(p) == ExecutionStatus(p) \in LEARNABLE_EXECUTION_STATUSES

\* Only controlled buckets are collected.
Requested(p) == {p.contexts[k].requested : k \in DOMAIN p.contexts}
FaultyManagerBuckets(p) == (Requested(p) \cup p.stated) \cap KnownBuckets
ManagerBuckets(p) ==
  ( (UNION {p.contexts[k].manager : k \in DOMAIN p.contexts})
      \cup Requested(p) \cup p.stated ) \cap KnownBuckets
ExecutionBuckets(p) ==
  ( (UNION {p.contexts[k].execution : k \in DOMAIN p.contexts})
      \cup Requested(p) ) \cap KnownBuckets

Mismatch(p) ==
  /\ p.bucket \in KnownBuckets
  /\ Cardinality(ManagerBuckets(p)) = 1
  /\ Cardinality(ExecutionBuckets(p)) = 1
  /\ ~(ManagerBuckets(p) = {p.bucket} /\ ExecutionBuckets(p) = {p.bucket})

RiskApproved(p) == First(<<Found(p, "risk"), p.approved>>)

GatePassed(p) == First(<<p.gate, Found(p, "gate"), p.passed>>)

\* Direct versions come before the summary's, statuses after.
Version(p, s) == First(<<p.direct.versions[s], p.summary.versions[s]>>)
Status(p, s) == First(<<p.summary.statuses[s], p.direct.statuses[s],
                        IF s = "manager" THEN p.class ELSE None>>)

\* _record_issues
Unless(holds, issue) == IF holds THEN {} ELSE {issue}
Issues(p) ==
  Unless(Executed(p), "execution_not_complete")
  \cup Unless(RealizedFills(p) # {}, "realized_pnl_missing")
  \cup Unless(p.priced, "entry_price_missing")
  \cup Unless(RealizedFills(p) # {}, "exit_price_missing")
  \cup Unless(p.bucket \in KnownBuckets, "invalid_database_bucket")
  \cup Unless(ManagerBuckets(p) # {}, "manager_bucket_missing")
  \cup Unless(Cardinality(ManagerBuckets(p)) <= 1, "manager_bucket_conflict")
  \cup Unless(ExecutionBuckets(p) # {}, "execution_bucket_missing")
  \cup Unless(Cardinality(ExecutionBuckets(p)) <= 1, "execution_bucket_conflict")
  \cup Unless(~Mismatch(p), "strategy_bucket_mismatch")
  \cup Unless(RiskApproved(p) = TRUE, "risk_not_approved")
  \cup Unless(GatePassed(p) = TRUE, "manager_evidence_gate_not_passed")
  \cup Unless(p.class = "classified", "manager_classification_not_approved")
  \cup Unless(p.classifier = "supported", "unsupported_manager_classifier_version")
  \cup Unless(\A s \in Sources : Version(p, s) = "supported",
              "unsupported_evidence_version")
  \cup Unless(\A s \in Sources : Status(p, s) # None, "missing_evidence_status")
  \cup Unless(\A s \in Sources : Status(p, s) \notin {"other", "review"},
              "evidence_not_learnable")
  \cup Unless(p.inputs, "classification_inputs_missing")

-----------------------------------------------------------------------------
Init ==
  /\ plans \in BoundedSeqs(PlanRecords, MaxPlans)
  /\ fills \in BoundedSeqs(FillRecords, MaxFills)
  /\ pc = "validate"
  /\ i = 1
  /\ unmatched = 0
  /\ seen_plan_ids = {}
  /\ outcomes = << >>
  /\ rejected = << >>
  /\ warned = {}

\* EVIDENCE_STATUS_ALLOWLIST, on every mapping the plan carries
FaultyAllowed(p) == \A s \in Sources : p.summary.statuses[s] # "other"
Allowed(p) == \A s \in Sources : /\ p.direct.statuses[s] # "other"
                                 /\ p.summary.statuses[s] # "other"

\* One plan that is not allowed fails the validation of the whole request.
RefuseRequest ==
  /\ pc = "validate"
  /\ \E k \in DOMAIN plans : ~Allowed(plans[k])
  /\ pc' = "refused"
  /\ UNCHANGED <<request, i, unmatched, seen_plan_ids, outcomes, rejected, warned>>

IndexFills ==
  /\ pc = "validate"
  /\ \A k \in DOMAIN plans : Allowed(plans[k])
  /\ pc' = "build"
  /\ unmatched' = Cardinality({k \in DOMAIN fills :
                                 fills[k].plan = None /\ fills[k].order = None})
  /\ UNCHANGED <<request, i, seen_plan_ids, outcomes, rejected, warned>>

AtPlan ==
  /\ pc = "build"
  /\ i <= Len(plans)
  /\ i' = i + 1
  /\ UNCHANGED <<request, pc, unmatched, warned>>

Reject(issues) ==
  /\ rejected' = Append(rejected, [id |-> plans[i].id, issues |-> issues])
  /\ UNCHANGED outcomes

RejectDuplicate ==
  /\ AtPlan
  /\ plans[i].id \in seen_plan_ids
  /\ Reject({"duplicate_trade_plan_id"})
  /\ UNCHANGED seen_plan_ids

\* An id counts as seen whatever becomes of its plan.
FaultyRejectPlan ==
  /\ AtPlan
  /\ plans[i].id \notin seen_plan_ids
  /\ Issues(plans[i]) # {}
  /\ Reject(Issues(plans[i]))
  /\ UNCHANGED seen_plan_ids
RejectPlan ==
  /\ AtPlan
  /\ plans[i].id \notin seen_plan_ids
  /\ seen_plan_ids' = seen_plan_ids \cup {plans[i].id}
  /\ Issues(plans[i]) # {}
  /\ Reject(Issues(plans[i]))

BuildOutcome ==
  /\ AtPlan
  /\ plans[i].id \notin seen_plan_ids
  /\ seen_plan_ids' = seen_plan_ids \cup {plans[i].id}
  /\ Issues(plans[i]) = {}
  /\ outcomes' = Append(outcomes, [id           |-> plans[i].id,
                                   bucket       |-> plans[i].bucket,
                                   realized_pnl |-> RealizedPnl(plans[i])])
  /\ UNCHANGED rejected

FinishBatch ==
  /\ pc = "build"
  /\ i > Len(plans)
  /\ pc' = "done"
  /\ warned' = {w \in {"unmatched_fills", "no_plans"} :
                  IF w = "no_plans" THEN plans = << >> ELSE unmatched > 0}
  /\ UNCHANGED <<request, i, unmatched, seen_plan_ids, outcomes, rejected>>

Returned == pc \in {"done", "refused"} /\ UNCHANGED vars

Next == \/ RefuseRequest \/ IndexFills
        \/ RejectDuplicate \/ RejectPlan \/ BuildOutcome
        \/ FinishBatch
        \/ Returned

Spec == Init /\ [][Next]_vars

-----------------------------------------------------------------------------
Reviewed == i - 1

(* Every record of the batch that was reviewed is answered once, by an     *)
(* outcome or by a rejection, and its id counts as seen.                   *)
TypeOK ==
  /\ pc \in {"validate", "refused", "build", "done"}
  /\ i \in 1..Len(plans) + 1
  /\ unmatched \in Nat
  /\ seen_plan_ids = {plans[k].id : k \in 1..Reviewed}
  /\ Reviewed = Len(outcomes) + Len(rejected)
  /\ \A k \in DOMAIN outcomes :
       outcomes[k].id \in PlanIds /\ outcomes[k].bucket \in KnownBuckets

FirstRecord(k) == \A m \in 1..k - 1 : plans[m].id # plans[k].id

\* A value is the first that is said, in search order.
FirstSaid(s, v) == \E k \in DOMAIN s : s[k] = v /\ \A m \in 1..k - 1 : s[m] = None
Said(p, field) == [k \in DOMAIN p.contexts |-> p.contexts[k][field]]

ClaimsManager(p, b) ==
  \/ b \in p.stated
  \/ \E k \in DOMAIN p.contexts :
       b \in p.contexts[k].manager \/ b = p.contexts[k].requested
ClaimsExecution(p, b) ==
  \E k \in DOMAIN p.contexts :
    b \in p.contexts[k].execution \/ b = p.contexts[k].requested

(* docs/API_CONTRACT.md, learnable outcome policy, rules 1 to 10, in terms *)
(* of every claim a plan carries.                                          *)
Learnable(p) ==
  /\ \E v \in LEARNABLE_EXECUTION_STATUSES :
       FirstSaid(Append(Said(p, "status"), p.status), v)
  /\ \E k \in DOMAIN fills :
       /\ fills[k].pnl # None
       /\ p.id = fills[k].plan \/ fills[k].order \in {p.order} \ {None}
  /\ p.priced
  /\ p.bucket \in KnownBuckets
  /\ \A b \in KnownBuckets :
       /\ b = p.bucket <=> ClaimsManager(p, b)
       /\ b = p.bucket <=> ClaimsExecution(p, b)
  /\ FirstSaid(Append(Said(p, "risk"), p.approved), TRUE)
  /\ FirstSaid(<<p.gate>> \o Append(Said(p, "gate"), p.passed), TRUE)
  /\ p.class = "classified"
  /\ p.classifier = "supported"
  /\ \A s \in Sources :
       /\ FirstSaid(<<p.direct.versions[s], p.summary.versions[s]>>, "supported")
       /\ \/ "allowed" \in {p.direct.statuses[s], p.summary.statuses[s]}
          \/ s = "manager"
  /\ p.inputs

(* The ids of the outcomes are exactly those whose first record satisfies  *)
(* the policy, each once: no later record of an id, however good, makes up *)
(* for the first, and none is learned from twice.                          *)
FirstRecordDecides ==
  /\ {outcomes[n].id : n \in DOMAIN outcomes} =
       {plans[k].id : k \in {m \in 1..Reviewed : FirstRecord(m) /\ Learnable(plans[m])}}
  /\ \A m, n \in DOMAIN outcomes : outcomes[m].id = outcomes[n].id => m = n

(* The scanner, fundamental and technical statuses that reach the policy   *)
(* were allowed by validation, and a refused manager status is never the   *)
(* only complaint: the status check alone rejects nothing.                 *)
StatusCheckIsShadowed ==
  \A k \in DOMAIN rejected :
    "evidence_not_learnable" \in rejected[k].issues
      => "manager_classification_not_approved" \in rejected[k].issues

(* Every fill names one plan of the batch at most, by id and by order.     *)
PlansNaming(k) == {p \in {plans[m] : m \in DOMAIN plans} : k \in FillsForPlan(p)}
Uncontested == \A k \in DOMAIN fills : Cardinality(PlansNaming(k)) <= 1

(* When no fill is contested, the outcomes' P&L is the explicit P&L of the *)
(* fills that name an accepted plan, each fill once, but for what rounding *)
(* each outcome loses: half of its last digit at most.                     *)
PnlConserved ==
  Uncontested =>
    LET naming == {k \in DOMAIN fills :
          /\ fills[k].pnl # None
          /\ \E n \in DOMAIN outcomes, m \in 1..Reviewed :
               /\ plans[m].id = outcomes[n].id /\ FirstRecord(m)
               /\ \/ fills[k].plan = plans[m].id
                  \/ fills[k].order \in {plans[m].order} \ {None}}
        earned == SumOver([n \in DOMAIN outcomes |-> outcomes[n].realized_pnl])
    IN  2 * Distance(Fine * earned, SumOver([k \in naming |-> fills[k].pnl]))
          <= Fine * Len(outcomes)

(* docs/API_CONTRACT.md, safety rules: unmatched fills are reported as     *)
(* warnings.                                                               *)
UnmatchedFillsReported ==
  (pc = "done" /\ warned = {}) =>
    \A k \in DOMAIN fills : \E m \in DOMAIN plans : k \in FillsForPlan(plans[m])

(* docs/API_CONTRACT.md, rule 4: manager and execution buckets are         *)
(* controlled and identical.                                               *)
EveryClaimControlled ==
  \A n \in DOMAIN outcomes : \E m \in 1..Reviewed :
    /\ plans[m].id = outcomes[n].id
    /\ \A k \in DOMAIN plans[m].contexts :
         plans[m].contexts[k].manager \cup plans[m].contexts[k].execution
           \cup ({plans[m].contexts[k].requested} \ {None})
             \subseteq {outcomes[n].bucket}
=============================================================================
