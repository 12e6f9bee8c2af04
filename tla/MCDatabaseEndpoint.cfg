\* Repeated requests while plans are opened and closed and fills stored.
SPECIFICATION FairSpec
CONSTANTS
  p1 = p1
  p2 = p2
  o1 = o1
  o2 = o2
  None = None
  PlanIds = {p1, p2}
  OrderIds = {o1, o2}
  ExternalIds = {}
  Amounts = {0, 9, 22, 31}
  Cent = 4
  Fine = 2
  KnownBuckets = {"core"}
  OtherBuckets = {}
  OtherStatuses = {"submitted"}
  Opened <- MCOpened
  Closings <- MCClosings
  Contents <- MCContents
  Queries <- MCQueries
  Limit = 2
  PageCap = 2
  MaxTable = 3
INVARIANTS
  TypeOK
  CompletePlansHaveAllFills
  TwoReadingsAgree
PROPERTIES
  OutcomesAreFinal
  EventuallyLearned
