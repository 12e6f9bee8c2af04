\* A request of several pages while other agents insert and delete fills.
SPECIFICATION FairSpec
CONSTANTS
  ExternalIds = {e1, e2, e3}
  NoId = NoId
  Contents = {c1}
  BadContents = {}
  Limit = 4
  PageCap = 2
  DbPageMax = 2
  HonoursLimit = TRUE
  HonoursOffset = TRUE
  MaxTable = 4
  MayInsert = TRUE
  MaxDeletes = 2
INVARIANTS
  TypeOK
  ReadsPrefix
  NoIdentityTwice
  SkippedAtMostDeleted
PROPERTY ReadEnds
