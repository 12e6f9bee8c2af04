\* Batches of up to three fills and two plans, in every order.
SPECIFICATION Spec
CONSTANTS
  p1 = p1
  p2 = p2
  p9 = p9
  o1 = o1
  o2 = o2
  e1 = e1
  e2 = e2
  None = None
  PlanIds = {p1, p2, p9}
  OrderIds = {o1, o2}
  ExternalIds = {e1, e2}
  Amounts = {7, 10, 20, 40, 80, 160}
  Cent = 4
  Buckets = {"b1", "b2"}
  Statuses = {"created", "filled", "closed", "cancelled"}
  FillRecords <- MCFillRecords
  PlanRecords <- MCPlanRecords
  MaxFills = 3
  MaxPlans = 2
INVARIANTS
  TypeOK
  EveryFillAccountedFor
  NoExecutionTwice
  OnlyUncontestedFills
  FirstReportDecides
  TotalsMatchFills
  NothingExcludedSilently
PROPERTY SettlesOnce
