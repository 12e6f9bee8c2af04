\* A plan with a bucket claim that is not controlled.
SPECIFICATION Spec
CONSTANTS
  p1 = p1
  p2 = p2
  p9 = p9
  o1 = o1
  o2 = o2
  None = None
  PlanIds = {p1, p2, p9}
  OrderIds = {o1, o2}
  ExternalIds = {}
  Amounts = {0, 3, 7, 13, 26, 51, 102}
  Fine = 2
  KnownBuckets = {"core", "value"}
  OtherBuckets = {"growth"}
  OtherStatuses = {"cancelled"}
  FillRecords <- MCFillRecords
  PlanRecords <- MCPlanRecords
  MaxFills = 1
  MaxPlans = 1
INVARIANT EveryClaimControlled
