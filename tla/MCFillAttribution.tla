------------------------- MODULE MCFillAttribution -------------------------
(* Instances of FillAttribution: a few fills whose identifiers agree, are   *)
(* missing, clash, or reappear with other contents.                         *)
EXTENDS FillAttribution

CONSTANTS p1, p2, p9, o1, o2, e1, e2

MCFill(x, p, t, o, v) ==
  [ext |-> x, plan |-> p, trade |-> t, order |-> o, pnl |-> v, est |-> 7]

MCFillRecords ==
  { MCFill(e1, p1, None, o1, 10),       \* agreeing identifiers
    MCFill(e1, p2, None, None, 20),     \* the same execution, other plan
    MCFill(e2, p1, None, o2, 40),       \* plan id and order id clash
    MCFill(e2, None, p2, None, None),   \* trade id only, no explicit P&L
    MCFill(None, None, None, o1, 80),   \* order id only
    MCFill(None, p9, None, None, 160),  \* a plan outside the batch
    MCFill(None, p1, None, None, None) }

MCPlan(p, o, s, b) ==
  [id |-> p, order |-> o, status |-> s, bucket |-> b, priced |-> b = "b1"]

MCPlanRecords ==
  { MCPlan(p1, o1, "closed", "b1"),
    MCPlan(p2, o2, "cancelled", "b1"),
    MCPlan(p2, o1, "filled", "b2"),     \* shares p1's order id
    MCPlan(p2, None, "created", "b2") }
=============================================================================
