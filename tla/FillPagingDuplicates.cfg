\* Duplicate rows in front of distinct ones, one page, a still table.
SPECIFICATION Spec
CONSTANTS
  ExternalIds = {e1, e2, e3}
  NoId = NoId
  Contents = {c1}
  BadContents = {}
  Limit = 3
  PageCap = 3
  DbPageMax = 3
  HonoursLimit = TRUE
  HonoursOffset = TRUE
  MaxTable = 5
  MayInsert = FALSE
  MaxDeletes = 0
INVARIANT DuplicatesDoNotShortenTheResult
