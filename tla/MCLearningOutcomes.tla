------------------------ MODULE MCLearningOutcomes ------------------------
(* Instances of LearningOutcomes: one learnable plan, and plans that differ *)
(* from it in one or two of the claims the policy looks up.                 *)
EXTENDS LearningOutcomes

CONSTANTS p1, p2, p9, o1, o2

Silent == [status |-> None, manager |-> {}, execution |-> {},
           requested |-> None, risk |-> None, gate |-> None]

Full(v, s) == [versions |-> [x \in Sources |-> v], statuses |-> [x \in Sources |-> s]]

Good ==
  [id |-> p1, order |-> o1, status |-> "closed", bucket |-> "core",
   approved |-> TRUE, priced |-> TRUE, stated |-> {"core"},
   contexts |-> <<[Silent EXCEPT !.execution = {"core"}], Silent>>,
   gate |-> TRUE, class |-> "classified", classifier |-> "supported",
   direct |-> Full(None, None), summary |-> Full("supported", "allowed"),
   passed |-> TRUE, inputs |-> TRUE]

Twin == [Good EXCEPT !.id = p2, !.order = o2]

With(k, field, value) == [Good EXCEPT !.contexts[k][field] = value]

MCPlanRecords ==
  { Good, Twin,
    [Twin EXCEPT !.order = o1],                     \* shares p1's order
    [Twin EXCEPT !.order = None],
    With(1, "status", "cancelled"),                 \* hides the plan's status
    With(2, "execution", {"value"}),                \* conflict
    With(2, "manager", {"value"}),
    With(2, "requested", "value"),
    With(2, "manager", {"growth"}),                 \* not controlled
    With(2, "risk", FALSE),                         \* hides the approval id
    [With(2, "risk", TRUE) EXCEPT !.approved = FALSE],
    [With(1, "gate", FALSE) EXCEPT !.gate = None],  \* hides the summary's gate
    [Good EXCEPT !.bucket = "growth"],
    [Good EXCEPT !.bucket = "value"],
    [Good EXCEPT !.direct.versions["scanner"] = "other"],
    [Good EXCEPT !.direct.statuses["technical"] = "other",
                 !.summary.statuses["technical"] = None],
    [Good EXCEPT !.summary.statuses["technical"] = None],
    [Good EXCEPT !.summary.statuses["manager"] = None, !.class = "review"],
    [Good EXCEPT !.summary.statuses["manager"] = None],
    [Good EXCEPT !.summary.statuses["manager"] = "other"],
    [Good EXCEPT !.priced = FALSE] }

MCFill(p, t, o, v) ==
  [ext |-> None, plan |-> p, trade |-> t, order |-> o, pnl |-> v, est |-> 0]

MCFillRecords ==
  { MCFill(p1, None, o1, 3), MCFill(p1, None, o1, None), MCFill(p2, None, None, 7),
    MCFill(p1, None, o2, 13),          \* contested
    MCFill(None, None, o2, 26), MCFill(p9, None, None, 51),
    MCFill(None, p1, None, 102) }      \* trade_id is not looked at
=============================================================================
