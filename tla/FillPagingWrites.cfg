\* A request of at most one page while other agents insert and delete fills.
SPECIFICATION Spec
CONSTANTS
  ExternalIds = {e1, e2}
  NoId = NoId
  Contents = {c1, c2}
  BadContents = {c2}
  Limit = 2
  PageCap = 3
  DbPageMax = 3
  HonoursLimit = TRUE
  HonoursOffset = TRUE
  MaxTable = 3
  MayInsert = TRUE
  MaxDeletes = 1
INVARIANTS
  AtMostTwoRequests
