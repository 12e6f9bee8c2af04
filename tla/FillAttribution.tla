--------------------------- MODULE FillAttribution ---------------------------
(***************************************************************************)
(* The TradePlan performance summary: _assign_fills_to_plans hands every   *)
(* fill of the batch to the one plan its identifiers name, excludes and    *)
(* counts the others, then each plan is summarised and the totals and      *)
(* groups are formed.                                                      *)
(*                                                                         *)
(* Fills come in the order Database_Agent or the caller lists them, so     *)
(* every order and every repetition is an initial state.                   *)
(***************************************************************************)
EXTENDS TradeRecords

CONSTANTS
  Cent,          \* units of money in a cent: plans are rounded to cents
  Buckets,
  Statuses,
  FillRecords,   \* fills a batch may hold
  PlanRecords,   \* plans a batch may hold
  MaxFills,      \* bound: fills in a batch
  MaxPlans       \* bound: plans in a batch

Plan == [id     : PlanIds,
         order  : OrderIds \cup {None},
         status : Statuses,
         bucket : Buckets,
         priced : BOOLEAN]    \* the plan has an entry or limit price

ASSUME CentAssumption == Cent \in Nat \ {0}

ASSUME RecordsAssumption ==
  /\ FillRecords \subseteq Fill
  /\ PlanRecords \subseteq Plan
  /\ MaxFills \in Nat
  /\ MaxPlans \in Nat

VARIABLES
  plans, fills,              \* the request
  pc,
  i,                         \* the fill or the plan the loop is at
  assigned,                  \* plan id -> its fills
  seen,                      \* seen_fingerprints
  duplicates, orphans, conflicts,
  results,                   \* plan_results
  report                     \* what is returned of it

vars == <<plans, fills, pc, i, assigned, seen, duplicates, orphans, conflicts,
          results, report>>
counts == <<duplicates, orphans, conflicts>>

CLOSED_PLAN_STATUSES == {"filled", "closed", "cancelled", "rejected"}
WIN_LOSS_STATUSES == {"filled", "closed"}

BoundedSeqs(S, n) == UNION {[1..m -> S] : m \in 0..n}

PlanIdsOfBatch == {plans[k].id : k \in DOMAIN plans}

\* order_to_plan_ids: several plans may share an order id
PlansOfOrder(o) ==
  {plans[k].id : k \in {m \in DOMAIN plans : o # None /\ plans[m].order = o}}

\* Faulty... operators: see FillPaging.
Candidates(f) ==
  ({f.plan, f.trade} \cap PlanIdsOfBatch) \cup PlansOfOrder(f.order)

-----------------------------------------------------------------------------
Init ==
  /\ plans \in BoundedSeqs(PlanRecords, MaxPlans)
  /\ fills \in BoundedSeqs(FillRecords, MaxFills)
  /\ pc = "assign"
  /\ i = 1
  /\ assigned = [p \in PlanIds |-> << >>]
  /\ seen = {}
  /\ duplicates = 0
  /\ orphans = 0
  /\ conflicts = 0
  /\ results = << >>
  /\ report = None

AtFill ==
  /\ pc = "assign"
  /\ i <= Len(fills)
  /\ i' = i + 1
  /\ UNCHANGED <<plans, fills, pc, results, report>>

SkipDuplicate ==
  /\ AtFill
  /\ Fingerprint(fills[i]) \in seen
  /\ duplicates' = duplicates + 1
  /\ UNCHANGED <<assigned, seen, orphans, conflicts>>

\* A fingerprint counts as seen before its fill is classified.
FaultyMark == Fingerprint(fills[i]) \notin seen /\ UNCHANGED seen
Mark == /\ Fingerprint(fills[i]) \notin seen
        /\ seen' = seen \cup {Fingerprint(fills[i])}

\* (marks as seen only what it does not skip)
FaultyCountOrphan ==
  /\ AtFill
  /\ Fingerprint(fills[i]) \notin seen
  /\ Candidates(fills[i]) = {}
  /\ orphans' = orphans + 1
  /\ UNCHANGED <<assigned, seen, duplicates, conflicts>>
CountOrphan ==
  /\ AtFill
  /\ Mark
  /\ Candidates(fills[i]) = {}
  /\ orphans' = orphans + 1
  /\ UNCHANGED <<assigned, duplicates, conflicts>>

FaultyCountConflict ==
  /\ AtFill
  /\ Mark
  /\ Cardinality(Candidates(fills[i])) > 1
  /\ UNCHANGED <<assigned, counts>>
CountConflict ==
  /\ AtFill
  /\ Mark
  /\ Cardinality(Candidates(fills[i])) > 1
  /\ conflicts' = conflicts + 1
  /\ UNCHANGED <<assigned, duplicates, orphans>>

\* (of several plans, any will do)
FaultyAssignFill ==
  /\ AtFill
  /\ Mark
  /\ \E p \in Candidates(fills[i]) :
       assigned' = [assigned EXCEPT ![p] = Append(@, fills[i])]
  /\ UNCHANGED counts
AssignFill ==
  /\ AtFill
  /\ Mark
  /\ \E p \in PlanIds :
       /\ Candidates(fills[i]) = {p}
       /\ assigned' = [assigned EXCEPT ![p] = Append(@, fills[i])]
  /\ UNCHANGED counts

\* (goes on from where the fills ended)
FaultyEndFills ==
  /\ pc = "assign"
  /\ i > Len(fills)
  /\ pc' = "summarise"
  /\ UNCHANGED <<plans, fills, i, assigned, seen, counts, results, report>>
EndFills ==
  /\ pc = "assign"
  /\ i > Len(fills)
  /\ pc' = "summarise"
  /\ i' = 1
  /\ UNCHANGED <<plans, fills, assigned, seen, counts, results, report>>

\* _plan_realized_pnl: explicit P&L only, as soon as one fill carries some.
PlanRealizedPnl(plan, s) ==
  LET explicit == {k \in DOMAIN s : s[k].pnl # None}
  IN  IF explicit # {} THEN SumOver([k \in explicit |-> s[k].pnl])
      ELSE IF plan.priced THEN SumOver([k \in DOMAIN s |-> s[k].est])
      ELSE 0

SummarizePlan ==
  /\ pc = "summarise"
  /\ i <= Len(plans)
  /\ LET plan == plans[i]
         own  == assigned[plan.id]
     IN  results' = Append(results,
           [id      |-> plan.id,
            bucket  |-> plan.bucket,
            fills   |-> Len(own),
            pnl     |-> Nearest(PlanRealizedPnl(plan, own), Cent),
            closed  |-> plan.status \in CLOSED_PLAN_STATUSES,
            counted |-> plan.status \in WIN_LOSS_STATUSES])
  /\ i' = i + 1
  /\ UNCHANGED <<plans, fills, pc, assigned, seen, counts, report>>

ResultsWhere(test(_)) == {k \in DOMAIN results : test(results[k])}
PnlOf(ks) == SumOver([k \in ks |-> results[k].pnl])

\* The headline counts filled and closed plans; a group sums all its plans.
Headline == ResultsWhere(LAMBDA r : r.counted)
FaultyGroup(b) == ResultsWhere(LAMBDA r : r.counted /\ r.bucket = b)
Group(b) == ResultsWhere(LAMBDA r : r.bucket = b)

FaultyWarnings == {w \in {"duplicate", "orphan"} :
  IF w = "duplicate" THEN duplicates > 0 ELSE orphans > 0}
Warnings == {w \in {"duplicate", "orphan", "conflict"} :
  CASE w = "duplicate" -> duplicates > 0
    [] w = "orphan"    -> orphans > 0
    [] w = "conflict"  -> conflicts > 0}

Report ==
  /\ pc = "summarise"
  /\ i > Len(plans)
  /\ pc' = "done"
  /\ report' =
       [plans   |-> Len(results),
        open    |-> Len(results)
                      - Cardinality(ResultsWhere(LAMBDA r : r.closed)),
        winners |-> Cardinality({k \in Headline : results[k].pnl > 0}),
        losers  |-> Cardinality({k \in Headline : results[k].pnl < 0}),
        net     |-> PnlOf(Headline),
        groups  |-> [b \in {results[k].bucket : k \in DOMAIN results} |->
                       PnlOf(Group(b))],
        warned  |-> Warnings]
  /\ UNCHANGED <<plans, fills, i, assigned, seen, counts, results>>

Returned == pc = "done" /\ UNCHANGED vars

Next ==
  \/ SkipDuplicate \/ CountOrphan \/ CountConflict \/ AssignFill \/ EndFills
  \/ SummarizePlan \/ Report
  \/ Returned

Spec == Init /\ [][Next]_vars

-----------------------------------------------------------------------------
FillsTaken == IF pc = "assign" THEN i - 1 ELSE Len(fills)
Reported == {Fingerprint(fills[k]) : k \in 1..FillsTaken}

(* The loop position stays within the list it walks, seen_fingerprints is  *)
(* exactly what the fills taken so far report, and no plan is summarised   *)
(* before the last fill is placed.                                         *)
TypeOK ==
  /\ plans \in Seq(Plan)
  /\ fills \in Seq(Fill)
  /\ pc \in {"assign", "summarise", "done"}
  /\ i \in 1..(IF pc = "assign" THEN Len(fills) ELSE Len(plans)) + 1
  /\ assigned \in [PlanIds -> Seq(Fill)]
  /\ seen = Reported
  /\ duplicates \in Nat /\ orphans \in Nat /\ conflicts \in Nat
  /\ pc = "assign" => results = << >>

(* Each fill taken ends in exactly one place: with a plan of the batch, or *)
(* in one of the three counts the warnings are made from.                  *)
EveryFillAccountedFor ==
  FillsTaken = duplicates + orphans + conflicts
                 + SumOver([p \in PlanIdsOfBatch |-> Len(assigned[p])])

(* One execution never counts for two plans, nor twice for one, however    *)
(* often and with whatever identifiers it is reported.                     *)
NoExecutionTwice ==
  \A p, q \in PlanIds : \A m \in DOMAIN assigned[p], n \in DOMAIN assigned[q] :
    Fingerprint(assigned[p][m]) = Fingerprint(assigned[q][n]) => p = q /\ m = n

(* A plan is given only fills that no other plan of the batch can claim by *)
(* plan id, trade id or order id.                                          *)
OnlyUncontestedFills ==
  \A p \in PlanIds : \A m \in DOMAIN assigned[p] :
    Candidates(assigned[p][m]) = {p}

FirstReport(k) ==
  \A m \in 1..k - 1 : Fingerprint(fills[m]) # Fingerprint(fills[k])

(* What each plan is given is exactly the first reports of the executions  *)
(* that only it can claim: a later report of the same execution, with      *)
(* other identifiers or other amounts, changes nothing.                    *)
FirstReportDecides ==
  \A p \in PlanIds :
    LET own == {k \in 1..FillsTaken :
                  FirstReport(k) /\ Candidates(fills[k]) = {p}}
    IN  /\ Len(assigned[p]) = Cardinality(own)
        /\ \A k \in own :
             assigned[p][Cardinality({m \in own : m <= k})] = fills[k]

DistinctPlans ==
  \A j, k \in DOMAIN plans : plans[j].id = plans[k].id => j = k

Settled == {k \in DOMAIN fills :
              FirstReport(k) /\ Cardinality(Candidates(fills[k])) = 1}

\* The plan record a settled fill counts for, and what it adds to its P&L.
PlanOf(k) == CHOOSE plan \in {plans[j] : j \in DOMAIN plans} :
               plan.id \in Candidates(fills[k])
Worth(k) ==
  LET siblings == {m \in Settled : PlanOf(m) = PlanOf(k)}
  IN  IF \E m \in siblings : fills[m].pnl # None
        THEN IF fills[k].pnl = None THEN 0 ELSE fills[k].pnl
      ELSE IF PlanOf(k).priced THEN fills[k].est ELSE 0

\* c cents are the exact amount x but for half a cent for each of n plans.
CentsOf(c, x, n) == 2 * Distance(Cent * c, x) <= Cent * n

(* The totals, recomputed fill by fill instead of plan by plan: each       *)
(* settled execution enters the sum of the groups once, and the headline   *)
(* exactly when its plan is filled or closed.  Each plan is rounded before *)
(* it is added, so a total is off by half a cent for each plan it covers   *)
(* at most, in whatever way its fills are spread over the plans.           *)
TotalsMatchFills ==
  (pc = "done" /\ DistinctPlans) =>
    LET final == {j \in DOMAIN plans : plans[j].status \in {"filled", "closed"}}
        ofFinal == {k \in Settled : PlanOf(k).status \in {"filled", "closed"}}
    IN  /\ CentsOf(SumOver(report.groups), SumOver([k \in Settled |-> Worth(k)]),
                   Len(plans))
        /\ CentsOf(report.net, SumOver([k \in ofFinal |-> Worth(k)]),
                   Cardinality(final))

(* A batch that lost a fill to deduplication, orphans or conflicts says so.*)
NothingExcludedSilently ==
  pc = "done" => (report.warned = {} <=> Settled = DOMAIN fills)

(* docs/API_CONTRACT.md, safety rules: duplicate TradePlan IDs are         *)
(* rejected.                                                               *)
DuplicatePlanIdsRejected ==
  pc = "done" => \A j, k \in DOMAIN results : results[j].id = results[k].id => j = k

\* The fate of an execution, for the refinement of FillLedger.
Unsettled == "unsettled"
Excluded == "excluded"
HoldersOf(e) == {p \in PlanIds : e \in FingerprintsIn(assigned[p])}
FateOf(e) == IF e \notin Reported THEN Unsettled
             ELSE IF HoldersOf(e) = {} THEN Excluded
             ELSE CHOOSE p \in PlanIds : p \in HoldersOf(e)

Executions == {Fingerprint(f) : f \in FillRecords}

Ledger == INSTANCE FillLedger
            WITH Plans <- PlanIds,
                 fate  <- [e \in Executions |-> FateOf(e)]

(* Attribution implements the ledger: an execution is settled once, when   *)
(* first reported, and its fate never changes.                             *)
SettlesOnce == Ledger!Spec
=============================================================================
