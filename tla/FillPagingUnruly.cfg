\* A Database_Agent that applies neither limit nor offset.
SPECIFICATION Spec
CONSTANTS
  ExternalIds = {e1, e2, e3}
  NoId = NoId
  Contents = {c1}
  BadContents = {}
  Limit = 3
  PageCap = 2
  DbPageMax = 4
  HonoursLimit = FALSE
  HonoursOffset = FALSE
  MaxTable = 4
  MayInsert = TRUE
  MaxDeletes = 1
INVARIANTS
  WithinLimit
  StuckPagingIsNoticed
