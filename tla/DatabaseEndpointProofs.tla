----------------------- MODULE DatabaseEndpointProofs -----------------------
(***************************************************************************)
(* For every set of plans, of stored fills and of queries, and every limit *)
(* of at most one page: what the two endpoints read of the account while   *)
(* other agents write, and what they may answer from it.                   *)
(***************************************************************************)
EXTENDS DatabaseEndpoint, SequenceTheorems, SetSums

PagingProofs == INSTANCE FillPagingProofs
                  WITH NoId <- None, BadContents <- {}, DbPageMax <- PageCap,
                       HonoursLimit <- TRUE, HonoursOffset <- TRUE,
                       MayInsert <- TRUE, MaxDeletes <- 0

-----------------------------------------------------------------------------
(* The reader of the endpoints is that of FillPagingProofs.                *)

(* What FillPaging assumes holds of a limit of at most one page.           *)
LEMMA PagingAssumptions ==
  PagingProofs!LimitsAssumption /\ PagingProofs!FlagsAssumption
BY LimitAssumption DEF PagingProofs!LimitsAssumption, PagingProofs!FlagsAssumption

(* The properties of the reader are those proved there.                    *)
LEMMA SameReading ==
  /\ Paging!TypeOK <=> PagingProofs!TypeOK
  /\ Paging!NoIdentityTwice <=> PagingProofs!NoIdentityTwice
  /\ \A s : Paging!IdentitiesIn(s) = PagingProofs!IdentitiesIn(s)
  /\ \A s : Paging!FirstOccurrences(s) = PagingProofs!FirstOccurrences(s)
  /\ \A s : PagingProofs!Cardinality(s) = Cardinality(s)
  /\ \A s : Paging!Cardinality(s) = Cardinality(s)
  /\ \A s, k : Paging!Deleted(s, k) = PagingProofs!Deleted(s, k)
<1>1. Paging!TypeOK <=> PagingProofs!TypeOK
  BY DEF Paging!TypeOK, PagingProofs!TypeOK, Paging!Row, PagingProofs!Row,
         Paging!Identities, PagingProofs!Identities,
         Paging!FillIdentity, PagingProofs!FillIdentity,
         Paging!PageSize, PagingProofs!PageSize,
         Paging!CountTo, PagingProofs!CountTo, Paging!Lesser, PagingProofs!Lesser
<1>2. Paging!NoIdentityTwice <=> PagingProofs!NoIdentityTwice
  BY DEF Paging!NoIdentityTwice, PagingProofs!NoIdentityTwice,
         Paging!FillIdentity, PagingProofs!FillIdentity
<1>3. \A s : Paging!IdentitiesIn(s) = PagingProofs!IdentitiesIn(s)
  BY DEF Paging!IdentitiesIn, PagingProofs!IdentitiesIn,
         Paging!FillIdentity, PagingProofs!FillIdentity
<1>4. \A s : Paging!FirstOccurrences(s) = PagingProofs!FirstOccurrences(s)
  BY DEF Paging!FirstOccurrences, PagingProofs!FirstOccurrences,
         Paging!FillIdentity, PagingProofs!FillIdentity,
         Paging!Cardinality, PagingProofs!Cardinality
<1>5. /\ \A s : PagingProofs!Cardinality(s) = Cardinality(s)
      /\ \A s : Paging!Cardinality(s) = Cardinality(s)
  BY DEF PagingProofs!Cardinality, Paging!Cardinality, Cardinality
<1>6. \A s, k : Paging!Deleted(s, k) = PagingProofs!Deleted(s, k)
  BY DEF Paging!Deleted, PagingProofs!Deleted
<1> QED BY <1>1, <1>2, <1>3, <1>4, <1>5, <1>6

(* So are its steps, and the insertion of a row.                           *)
LEMMA SameSteps ==
  /\ Paging!Insert <=> PagingProofs!Insert
  /\ Paging!FetchPage <=> PagingProofs!FetchPage
  /\ Paging!FetchEmpty <=> PagingProofs!FetchEmpty
  /\ Paging!FetchRepeated <=> PagingProofs!FetchRepeated
  /\ Paging!TakeRow <=> PagingProofs!TakeRow
  /\ Paging!RejectRow <=> PagingProofs!RejectRow
  /\ Paging!EndPage <=> PagingProofs!EndPage
  /\ Paging!FetchFails <=> PagingProofs!FetchFails
<1>1. Paging!Insert <=> PagingProofs!Insert
  BY DEF Paging!Insert, PagingProofs!Insert, Paging!Row, PagingProofs!Row,
         Paging!Inserted, PagingProofs!Inserted, Paging!readVars, PagingProofs!readVars
<1> USE DEF Paging!dbVars, PagingProofs!dbVars, Paging!readVars, PagingProofs!readVars,
            Paging!histVars, PagingProofs!histVars,
            Paging!FillIdentity, PagingProofs!FillIdentity,
            Paging!Lesser, PagingProofs!Lesser, Paging!PageSize, PagingProofs!PageSize
<1>2. /\ Paging!Served <=> PagingProofs!Served
      /\ Paging!Reply = PagingProofs!Reply
      /\ \A rows : Paging!Repeats(rows) <=> PagingProofs!Repeats(rows)
  BY DEF Paging!Served, PagingProofs!Served, Paging!Reply, PagingProofs!Reply,
         Paging!Ask, PagingProofs!Ask, Paging!CountTo, PagingProofs!CountTo,
         Paging!IdentitiesIn, PagingProofs!IdentitiesIn,
         Paging!Repeats, PagingProofs!Repeats
<1>3. Paging!FetchPage <=> PagingProofs!FetchPage
  BY <1>2 DEF Paging!FetchPage, PagingProofs!FetchPage
<1>4. Paging!FetchEmpty <=> PagingProofs!FetchEmpty
  BY <1>2 DEF Paging!FetchEmpty, PagingProofs!FetchEmpty
<1>5. Paging!FetchRepeated <=> PagingProofs!FetchRepeated
  BY <1>2 DEF Paging!FetchRepeated, PagingProofs!FetchRepeated
<1>6. Paging!TakeRow <=> PagingProofs!TakeRow
  BY DEF Paging!TakeRow, PagingProofs!TakeRow, Paging!Known, PagingProofs!Known,
         Paging!Full, PagingProofs!Full
<1>7. Paging!RejectRow <=> PagingProofs!RejectRow
  BY DEF Paging!RejectRow, PagingProofs!RejectRow
<1>8. Paging!EndPage <=> PagingProofs!EndPage
  BY DEF Paging!EndPage, PagingProofs!EndPage, Paging!NextOffset, PagingProofs!NextOffset,
         Paging!ShortPage, PagingProofs!ShortPage
<1>9. Paging!FetchFails <=> PagingProofs!FetchFails
  BY DEF Paging!FetchFails, PagingProofs!FetchFails
<1> QED BY <1>1, <1>3, <1>4, <1>5, <1>6, <1>7, <1>8, <1>9

(* What the reader does is a step of FillPaging.                           *)
LEMMA ReaderSteps ==
  Paging!Insert \/ Paging!Reader => PagingProofs!Next
BY SameSteps DEF Paging!Reader, Paging!Progress,
                 PagingProofs!Next, PagingProofs!Reader, PagingProofs!Progress

-----------------------------------------------------------------------------
(* The plans.                                                              *)
Records == {Opened[p] : p \in PlanIds} \cup UNION {Closings[p] : p \in PlanIds}

Unique(s) == \A j, k \in DOMAIN s : s[j].id = s[k].id => j = k
Listed(s) == {s[k] : k \in DOMAIN s}

(* A record written first, with an id that the others do not have.         *)
LEMMA PutFirst ==
  ASSUME NEW record \in Records, NEW others \in Seq(Records), Unique(others),
         \A k \in DOMAIN others : others[k].id # record.id
  PROVE  /\ <<record>> \o others \in Seq(Records)
         /\ Unique(<<record>> \o others)
         /\ Listed(<<record>> \o others) = {record} \cup Listed(others)
<1> DEFINE t == <<record>> \o others
<1>1. /\ <<record>> \in Seq(Records) /\ Len(<<record>>) = 1 /\ <<record>>[1] = record
      /\ Len(others) \in Nat /\ DOMAIN others = 1..Len(others)
  BY LenProperties
<1>2. /\ t \in Seq(Records) /\ Len(t) = 1 + Len(others)
      /\ \A n \in 1..1 + Len(others) :
           t[n] = IF n <= 1 THEN <<record>>[n] ELSE others[n - 1]
  BY <1>1, ConcatProperties
<1> HIDE DEF t
<1>3. DOMAIN t = 1..1 + Len(others)
  BY <1>2, LenProperties
<1>4. \A n \in 1..Len(others) : n + 1 \in DOMAIN t /\ t[n + 1] = others[n]
  BY <1>1, <1>2, <1>3
<1>5. 1 \in DOMAIN t /\ t[1] = record
  BY <1>1, <1>2, <1>3
<1>6. \A n \in DOMAIN t : n = 1 \/ (n - 1 \in 1..Len(others) /\ t[n] = others[n - 1])
  BY <1>1, <1>2, <1>3
<1>7. Listed(t) = {record} \cup Listed(others)
  BY <1>1, <1>4, <1>5, <1>6 DEF Listed
<1>8. ASSUME NEW j \in DOMAIN t, NEW k \in DOMAIN t, t[j].id = t[k].id PROVE j = k
  <2>1. CASE j = 1 \/ k = 1
    BY <1>1, <1>5, <1>6, <1>8, <2>1
  <2>2. CASE j # 1 /\ k # 1
    <3>1. /\ j - 1 \in DOMAIN others /\ k - 1 \in DOMAIN others
          /\ others[j - 1].id = others[k - 1].id
      BY <1>1, <1>6, <1>8, <2>2
    <3>2. j - 1 = k - 1
      BY <3>1 DEF Unique
    <3> QED BY <1>3, <3>2
  <2> QED BY <2>1, <2>2
<1> QED BY <1>2, <1>7, <1>8 DEF Unique, t

(* The list without one of its records.                                    *)
LEMMA TakeOut ==
  ASSUME NEW s \in Seq(Records), Unique(s), NEW k \in DOMAIN s
  PROVE  /\ PagingProofs!Deleted(s, k) \in Seq(Records)
         /\ Unique(PagingProofs!Deleted(s, k))
         /\ Listed(PagingProofs!Deleted(s, k)) = Listed(s) \ {s[k]}
         /\ \A n \in DOMAIN PagingProofs!Deleted(s, k) :
              PagingProofs!Deleted(s, k)[n].id # s[k].id
<1> DEFINE t == PagingProofs!Deleted(s, k)
<1>1. DOMAIN s = 1..Len(s) /\ Len(s) \in Nat /\ k \in 1..Len(s)
  BY LenProperties
<1>2. /\ t \in Seq(Records) /\ Len(t) = Len(s) - 1
      /\ \A n \in 1..Len(s) - 1 : t[n] = IF n < k THEN s[n] ELSE s[n + 1]
  <2>1. \A n \in 1..Len(s) : s[n] \in Records
    BY <1>1, ElementOfSeq
  <2>2. t \in [1..Len(s) - 1 -> Records] /\ Len(s) - 1 \in Nat
    BY <1>1, <2>1 DEF PagingProofs!Deleted
  <2>3. t \in Seq(Records) /\ Len(t) = Len(s) - 1
    BY <2>2, SeqDef
  <2> QED BY <2>3, <1>1 DEF PagingProofs!Deleted
<1> HIDE DEF t
<1>3. DOMAIN t = 1..Len(s) - 1
  BY <1>2, LenProperties
<1> DEFINE from(n) == IF n < k THEN n ELSE n + 1
<1>4. \A n \in DOMAIN t : from(n) \in DOMAIN s /\ from(n) # k /\ t[n] = s[from(n)]
  BY <1>1, <1>2, <1>3
<1>5. \A m, n \in DOMAIN t : from(m) = from(n) => m = n
  BY <1>1, <1>3
<1>6. \A m \in DOMAIN s : m # k => \E n \in DOMAIN t : m = from(n)
  <2>1. ASSUME NEW m \in DOMAIN s, m # k PROVE \E n \in DOMAIN t : m = from(n)
    <3> DEFINE n == IF m < k THEN m ELSE m - 1
    <3>1. n \in DOMAIN t /\ m = from(n)
      BY <1>1, <1>3, <2>1
    <3> QED BY <3>1
  <2> QED BY <2>1
<1> HIDE DEF from
<1>7. \A m \in DOMAIN s : m # k => s[m].id # s[k].id
  BY DEF Unique
<1>8. Unique(t) /\ \A n \in DOMAIN t : t[n].id # s[k].id
  BY <1>4, <1>5, <1>7 DEF Unique
<1>9. Listed(t) = Listed(s) \ {s[k]}
  BY <1>4, <1>6, <1>7 DEF Listed
<1> QED BY <1>2, <1>8, <1>9 DEF t

(* A stretch of the list is a list of some of its plans, once each.        *)
LEMMA PageOfPlans ==
  ASSUME NEW s \in Seq(Records), Unique(s), NEW m \in Nat, NEW n \in Int, n <= Len(s)
  PROVE  LET t == SubSeq(s, m + 1, n)
         IN  t \in Seq(Records) /\ Unique(t) /\ Listed(t) \subseteq Listed(s)
<1> DEFINE t == SubSeq(s, m + 1, n)
<1>1. DOMAIN s = 1..Len(s) /\ Len(s) \in Nat
  BY LenProperties
<1>2. \A k \in m + 1..n : s[k] \in Records
  BY <1>1, ElementOfSeq
<1>3. /\ t \in Seq(Records)
      /\ Len(t) = IF m + 1 <= n THEN n - (m + 1) + 1 ELSE 0
      /\ \A k \in 1..n - (m + 1) + 1 : t[k] = s[(m + 1) + k - 1]
  BY <1>2, SubSeqProperties
<1> HIDE DEF t
<1>4. DOMAIN t = 1..Len(t)
  BY <1>3, LenProperties
<1>5. \A k \in DOMAIN t : k \in Int /\ m + k \in DOMAIN s /\ t[k] = s[m + k]
  BY <1>1, <1>3, <1>4
<1>6. Unique(t)
  <2>1. ASSUME NEW j \in DOMAIN t, NEW k \in DOMAIN t, t[j].id = t[k].id PROVE j = k
    <3>1. m + j = m + k
      BY <1>5, <2>1 DEF Unique
    <3> QED BY <1>5, <3>1
  <2> QED BY <2>1 DEF Unique
<1>7. Listed(t) \subseteq Listed(s)
  BY <1>5 DEF Listed
<1> QED BY <1>3, <1>6, <1>7 DEF t
-----------------------------------------------------------------------------
(* Type correctness.  Between requests, and until the plans are read, the  *)
(* reader is as a call of list_fills starts it.                            *)
Fresh ==
  /\ read_plans = << >> /\ fills = << >> /\ seenIds = {} /\ seenPages = {}
  /\ page = << >> /\ i = 1 /\ pc = "fetch" /\ offset = 0
  /\ asked = 0 /\ requests = 0 /\ standing = {} /\ still = TRUE

EndpointInv ==
  /\ phase \in {"idle", "plans", "fills"}
  /\ query = None \/ query \in Query
  /\ phase = "idle" <=> query = None
  /\ listing \in Seq(Records) /\ Unique(listing)
  /\ read_plans \in Seq(Records) /\ Unique(read_plans)
  /\ \A k \in DOMAIN read_plans : Allowed(read_plans[k])
  /\ phase # "fills" => Fresh
  /\ deletes = 0

ReaderType == PagingProofs!TypeOK /\ PagingProofs!FetchShort

(* What these make of the next state.                                      *)
LEMMA EndpointNext ==
  EndpointInv' <=>
    /\ phase' \in {"idle", "plans", "fills"}
    /\ query' = None \/ query' \in Query
    /\ phase' = "idle" <=> query' = None
    /\ listing' \in Seq(Records) /\ Unique(listing')
    /\ read_plans' \in Seq(Records) /\ Unique(read_plans')
    /\ \A k \in DOMAIN read_plans' : Allowed(read_plans'[k])
    /\ phase' # "fills" =>
         /\ read_plans' = << >> /\ fills' = << >> /\ seenIds' = {} /\ seenPages' = {}
         /\ page' = << >> /\ i' = 1 /\ pc' = "fetch" /\ offset' = 0
         /\ asked' = 0 /\ requests' = 0 /\ standing' = {} /\ still' = TRUE
    /\ deletes' = 0
<1>1. (\A k \in DOMAIN read_plans : Allowed(read_plans[k]))' <=>
        \A k \in DOMAIN read_plans' : Allowed(read_plans'[k])
  BY DEF Allowed, Learning!Allowed, Learning!Sources
<1>2. Unique(listing)' <=> Unique(listing')
  BY DEF Unique
<1>3. Unique(read_plans)' <=> Unique(read_plans')
  BY DEF Unique
<1>4. Seq(Records)' = Seq(Records) /\ Query' = Query
  BY DEF Records, Query
<1> QED BY <1>1, <1>2, <1>3, <1>4 DEF EndpointInv, Fresh

(* Together they are the type invariant.                                   *)
LEMMA EndpointTypes == EndpointInv /\ ReaderType => TypeOK
<1> SUFFICES ASSUME EndpointInv, ReaderType PROVE TypeOK
  OBVIOUS
<1>1. Paging!TypeOK
  BY SameReading DEF ReaderType
<1>2. \A j, k \in DOMAIN listing : listing[j].id = listing[k].id => j = k
  BY DEF EndpointInv, Unique
<1>3. phase # "fills" => /\ read_plans = << >>
                         /\ fills = << >> /\ seenIds = {} /\ requests = 0
  BY DEF EndpointInv, Fresh
<1> QED BY <1>1, <1>2, <1>3 DEF EndpointInv, TypeOK

(* No plan and no fill at first.                                           *)
LEMMA EndpointInit == Init => EndpointInv /\ ReaderType
<1> SUFFICES ASSUME Init PROVE EndpointInv /\ ReaderType
  OBVIOUS
<1>1. PagingProofs!Init
  <2>1. table \in [1..0 -> PagingProofs!Row] /\ 0 \in 0..MaxTable
    <3>1. \A r : << >> \in [1..0 -> r]
      BY EmptySeq
    <3> QED BY <3>1, LimitAssumption DEF Init
  <2> QED BY <2>1 DEF Init, PagingProofs!Init
<1>2. PagingProofs!TypeOK
  BY <1>1, PagingAssumptions, PagingProofs!InitType
<1>3. PagingProofs!FetchShort
  BY LimitAssumption, EmptySeq DEF Init, PagingProofs!FetchShort
<1>4. << >> \in Seq(Records) /\ DOMAIN << >> = {}
  BY EmptySeq
<1> QED BY <1>2, <1>3, <1>4 DEF Init, EndpointInv, ReaderType, Fresh, Unique

(* A step of the reader, or one that leaves it alone, keeps its types.     *)
LEMMA ReaderTypeStep ==
  ASSUME ReaderType,
         \/ PagingProofs!Next
         \/ UNCHANGED <<table, deletes, readVars>>
  PROVE  ReaderType'
<1>1. [PagingProofs!Next]_(PagingProofs!vars)
  BY DEF readVars, PagingProofs!vars
<1>2. PagingProofs!TypeOK /\ PagingProofs!FetchShort
  BY DEF ReaderType
<1>3. PagingProofs!TypeOK' /\ PagingProofs!FetchShort'
  BY <1>1, <1>2, PagingAssumptions, PagingProofs!NextType
<1> QED BY <1>3 DEF ReaderType

(* So does starting it anew.                                               *)
LEMMA ResetType ==
  ASSUME ReaderType, ResetReader, UNCHANGED <<table, deletes>>
  PROVE  ReaderType'
<1>1. PagingProofs!PageSize \in Nat /\ PagingProofs!CountTo = 3
  BY LimitAssumption DEF PagingProofs!PageSize, PagingProofs!Lesser, PagingProofs!CountTo
<1>2. \A S : << >> \in Seq(S) /\ Len(<< >>) = 0
  BY EmptySeq
<1>3. PagingProofs!TypeOK'
  BY <1>1, <1>2 DEF ReaderType, ResetReader, PagingProofs!TypeOK
<1>4. PagingProofs!FetchShort'
  BY <1>2, LimitAssumption DEF ResetReader, PagingProofs!FetchShort
<1> QED BY <1>3, <1>4 DEF ReaderType

(* The page of plans holds plans of the account, once each.                *)
LEMMA PlanPageProperties ==
  ASSUME EndpointInv, phase = "plans"
  PROVE  /\ PlanPage \in Seq(Records) /\ Unique(PlanPage)
         /\ Listed(PlanPage) \subseteq Listed(listing)
<1>1. query \in Query
  BY DEF EndpointInv
<1>2. query.offset \in Nat /\ query.limit \in Nat
  BY <1>1 DEF Query
<1>3. listing \in Seq(Records) /\ Unique(listing) /\ Len(listing) \in Nat
  BY LenProperties DEF EndpointInv
<1> DEFINE n == Paging!Lesser(query.offset + query.limit, Len(listing))
<1>4. n \in Int /\ n <= Len(listing)
  BY <1>2, <1>3 DEF Paging!Lesser
<1> HIDE DEF n
<1>5. LET t == SubSeq(listing, query.offset + 1, n)
      IN  t \in Seq(Records) /\ Unique(t) /\ Listed(t) \subseteq Listed(listing)
  BY <1>2, <1>3, <1>4, PageOfPlans
<1> QED BY <1>5 DEF PlanPage, n

(* A plan is opened once and closed once, so it is listed once.            *)
LEMMA WriteType ==
  ASSUME EndpointInv, NEW p \in PlanIds, OpenPlan(p) \/ ClosePlan(p)
  PROVE  listing' \in Seq(Records) /\ Unique(listing')
<1>1. listing \in Seq(Records) /\ Unique(listing)
  BY DEF EndpointInv
<1>2. CASE OpenPlan(p)
  <2>1. Opened[p] \in Records /\ Opened[p].id = p
    BY PlansAssumption DEF Records
  <2>2. /\ listing' = <<Opened[p]>> \o listing
        /\ \A k \in DOMAIN listing : listing[k].id # p
    BY <1>2 DEF OpenPlan, Write
  <2> QED BY <1>1, <2>1, <2>2, PutFirst
<1>3. CASE ClosePlan(p)
  <2>1. PICK k \in DOMAIN listing, record \in Closings[p] :
          /\ listing[k] = Opened[p]
          /\ listing' = <<record>> \o Paging!Deleted(listing, k)
    BY <1>3 DEF ClosePlan, Write
  <2>2. record \in Records /\ record.id = p /\ listing[k].id = p
    BY <2>1, PlansAssumption DEF Records
  <2> DEFINE others == PagingProofs!Deleted(listing, k)
  <2>3. /\ others \in Seq(Records) /\ Unique(others)
        /\ \A n \in DOMAIN others : others[n].id # listing[k].id
    BY <1>1, TakeOut
  <2>4. listing' = <<record>> \o others
    BY <2>1, SameReading
  <2> HIDE DEF others
  <2> QED BY <2>2, <2>3, <2>4, PutFirst
<1> QED BY <1>2, <1>3

(* Whoever acts, the invariants stay.                                      *)
LEMMA EndpointStep ==
  ASSUME EndpointInv, ReaderType, [Next]_vars
  PROVE  EndpointInv' /\ ReaderType'
<1> USE DEF dbVars, ownVars
<1>1. CASE \E p \in PlanIds : OpenPlan(p) \/ ClosePlan(p)
  <2>1. PICK p \in PlanIds : OpenPlan(p) \/ ClosePlan(p)
    BY <1>1
  <2>2. UNCHANGED <<table, deletes, ownVars, readVars>>
    BY <2>1 DEF OpenPlan, ClosePlan, Write
  <2>3. listing' \in Seq(Records) /\ Unique(listing')
    BY <2>1, WriteType
  <2>4. ReaderType'
    BY <2>2, ReaderTypeStep
  <2> QED BY <2>2, <2>3, <2>4, EndpointNext DEF EndpointInv, Fresh, readVars
<1>2. CASE StoreFill
  <2>1. Paging!Insert /\ UNCHANGED <<listing, ownVars>>
    BY <1>2 DEF StoreFill
  <2>2. UNCHANGED <<deletes, pc, offset, fills, seenIds, seenPages, page, i,
                    asked, requests, standing>>
    BY <2>1 DEF Paging!Insert, Paging!readVars
  <2>3. still' = (requests = 0)
    BY <2>1 DEF Paging!Insert
  <2>4. ReaderType'
    BY <2>1, ReaderSteps, ReaderTypeStep
  <2>5. phase # "fills" => still' = TRUE
    BY <2>3 DEF EndpointInv, Fresh
  <2> QED BY <2>1, <2>2, <2>4, <2>5, EndpointNext DEF EndpointInv, Fresh
<1>3. CASE \E q \in Queries : Begin(q)
  <2>1. PICK q \in Queries : Begin(q)
    BY <1>3
  <2>2. q \in Query /\ q # None
    BY QueriesAssumption
  <2>3. ReaderType'
    BY <2>1, ReaderTypeStep DEF Begin
  <2> QED BY <2>1, <2>2, <2>3, EndpointNext DEF Begin, EndpointInv, Fresh, readVars
<1>4. CASE ReadPlans
  <2>1. PlanPage \in Seq(Records) /\ Unique(PlanPage)
    BY <1>4, PlanPageProperties DEF ReadPlans
  <2>2. /\ phase' = "fills" /\ query' = query /\ read_plans' = PlanPage
        /\ \A k \in DOMAIN PlanPage : Allowed(PlanPage[k])
        /\ listing' = listing /\ deletes' = deletes
    BY <1>4 DEF ReadPlans
  <2> HIDE DEF PlanPage
  <2>3. EndpointInv'
    BY <1>4, <2>1, <2>2, EndpointNext DEF ReadPlans, EndpointInv
  <2>4. ReaderType'
    <3>1. /\ pc' \in {"fetch", "done"} /\ pc = "fetch"
          /\ UNCHANGED <<table, deletes, offset, fills, seenIds, seenPages, page, i,
                         asked, requests, standing, still>>
      BY <1>4 DEF ReadPlans, EndpointInv, Fresh
    <3> QED BY <3>1 DEF ReaderType, PagingProofs!TypeOK, PagingProofs!FetchShort
  <2> QED BY <2>3, <2>4
<1>5. CASE Abandon
  <2>1. ReaderType'
    BY <1>5, ResetType DEF Abandon
  <2>2. << >> \in Seq(Records) /\ Unique(<< >>) /\ DOMAIN << >> = {}
    BY EmptySeq DEF Unique
  <2> QED BY <1>5, <2>1, <2>2, EndpointNext DEF Abandon, ResetReader, EndpointInv
<1>6. CASE ReadFills
  <2>1. phase = "fills" /\ Paging!Reader /\ UNCHANGED <<listing, ownVars>>
    BY <1>6 DEF ReadFills
  <2>2. ReaderType'
    BY <2>1, ReaderSteps, ReaderTypeStep
  <2>3. deletes' = deletes
    BY <2>1 DEF Paging!Reader, Paging!Progress, Paging!FetchPage, Paging!FetchEmpty,
       Paging!FetchRepeated, Paging!TakeRow, Paging!RejectRow, Paging!EndPage,
       Paging!FetchFails, Paging!dbVars
  <2> QED BY <2>1, <2>2, <2>3, EndpointNext DEF EndpointInv
<1>7. CASE Answer
  <2>1. ReaderType'
    BY <1>7, ResetType DEF Answer
  <2>2. << >> \in Seq(Records) /\ Unique(<< >>) /\ DOMAIN << >> = {}
    BY EmptySeq DEF Unique
  <2>3. ResetReader /\ phase' = "idle" /\ query' = None /\ read_plans' = << >>
          /\ UNCHANGED <<listing, deletes>>
    BY <1>7 DEF Answer
  <2> QED BY <2>1, <2>2, <2>3, EndpointNext DEF ResetReader, EndpointInv
<1>8. CASE UNCHANGED vars
  <2>1. ReaderType'
    BY <1>8, ReaderTypeStep DEF vars
  <2> QED BY <1>8, <2>1, EndpointNext DEF EndpointInv, Fresh, vars, readVars
<1> QED BY <1>1, <1>2, <1>3, <1>4, <1>5, <1>6, <1>7, <1>8
        DEF Next, PlansInvalid, PlansFail, FillsFailed

(* A plan is listed once, only plans that validation allows are answered   *)
(* for, and nothing of one request is left when the next begins.           *)
THEOREM TypeCorrect == Spec => []TypeOK
<1>1. Init => EndpointInv /\ ReaderType
  BY EndpointInit
<1>2. EndpointInv /\ ReaderType /\ [Next]_vars => (EndpointInv /\ ReaderType)'
  BY EndpointStep
<1>3. EndpointInv /\ ReaderType => TypeOK
  BY EndpointTypes
<1> QED BY <1>1, <1>2, <1>3, PTL DEF Spec

-----------------------------------------------------------------------------
(* What FillPagingProofs knows of a read, and that nothing is deleted.     *)
ReaderInv ==
  /\ PagingProofs!SeenInv /\ PagingProofs!NoIdentityTwice
  /\ PagingProofs!LimitInv /\ PagingProofs!SkipInv

\* Nothing has been read.
Quiet ==
  /\ fills = << >> /\ seenIds = {} /\ page = << >> /\ requests = 0
  /\ standing = {} /\ pc \in {"fetch", "done"} /\ offset = 0 /\ deletes = 0

(* It holds where a read begins, and where there is none.                  *)
LEMMA QuietReader == Quiet => ReaderInv
<1> SUFFICES ASSUME Quiet PROVE ReaderInv
  OBVIOUS
<1>1. fills = << >> /\ Len(fills) = 0 /\ DOMAIN fills = {} /\ Len(page) = 0
  BY EmptySeq DEF Quiet
<1>2. PagingProofs!SeenInv /\ PagingProofs!NoIdentityTwice
  BY <1>1 DEF Quiet, PagingProofs!SeenInv, PagingProofs!IdentitiesIn,
              PagingProofs!NoIdentityTwice
<1>3. PagingProofs!LimitInv
  BY <1>1, LimitAssumption DEF Quiet, PagingProofs!LimitInv
<1>4. PagingProofs!SkipInv
  <2>1. PagingProofs!Lost = {} /\ PagingProofs!LostAtEnd = {} /\ standing = {}
    BY DEF Quiet, PagingProofs!Lost, PagingProofs!LostAtEnd
  <2>2. IsFiniteSet({}) /\ PagingProofs!Cardinality({}) = 0
    BY FS_EmptySet, SameReading
  <2>3. PagingProofs!IsFiniteSet({})
    BY <2>2 DEF PagingProofs!IsFiniteSet, IsFiniteSet
  <2> QED BY <2>1, <2>2, <2>3 DEF Quiet, PagingProofs!SkipInv
<1> QED BY <1>2, <1>3, <1>4 DEF ReaderInv

(* The same of the next state.                                             *)
LEMMA QuietReaderNext == Quiet' => ReaderInv'
BY QuietReader, PTL

(* The reader of FillPaging keeps it.                                      *)
LEMMA ReaderInvStep ==
  ASSUME ReaderType, ReaderInv,
         \/ PagingProofs!Next
         \/ UNCHANGED <<table, deletes, readVars>>
  PROVE  ReaderInv'
<1>1. [PagingProofs!Next]_(PagingProofs!vars)
  BY DEF readVars, PagingProofs!vars
<1>2. /\ PagingProofs!TypeOK /\ PagingProofs!FetchShort
      /\ PagingProofs!SeenInv /\ PagingProofs!NoIdentityTwice
      /\ PagingProofs!LimitInv /\ PagingProofs!SkipInv
  BY DEF ReaderType, ReaderInv
<1>3. PagingProofs!SteadyPages
  BY LimitAssumption DEF PagingProofs!SteadyPages, PagingProofs!PageSize,
     PagingProofs!Lesser
<1>4. (PagingProofs!SeenInv /\ PagingProofs!NoIdentityTwice)'
  BY <1>1, <1>2, PagingAssumptions, PagingProofs!NoIdentityTwiceStep
<1>5. PagingProofs!LimitInv'
  BY <1>1, <1>2, PagingAssumptions, PagingProofs!LimitStep
<1>6. PagingProofs!SkipInv'
  BY <1>1, <1>2, <1>3, PagingAssumptions, PagingProofs!SkipStep
<1> QED BY <1>4, <1>5, <1>6 DEF ReaderInv

(* What each step is to the reader: one of FillPaging, no step, or one to  *)
(* a state in which nothing is read.                                       *)
LEMMA KindsOfStep ==
  ASSUME EndpointInv, [Next]_vars
  PROVE  \/ PagingProofs!Next
         \/ UNCHANGED <<table, deletes, readVars>>
         \/ Quiet' /\ table' = table
<1> USE DEF dbVars, ownVars
<1>1. CASE StoreFill \/ ReadFills
  BY <1>1, ReaderSteps DEF StoreFill, ReadFills
<1>2. CASE \/ \E p \in PlanIds : OpenPlan(p) \/ ClosePlan(p)
           \/ \E q \in Queries : Begin(q)
           \/ UNCHANGED vars
  BY <1>2 DEF OpenPlan, ClosePlan, Write, Begin, vars
<1>3. CASE ReadPlans
  BY <1>3 DEF ReadPlans, EndpointInv, Fresh, Quiet
<1>4. CASE Abandon \/ Answer
  BY <1>4 DEF Abandon, Answer, ResetReader, EndpointInv, Quiet
<1> QED BY <1>1, <1>2, <1>3, <1>4 DEF Next, PlansInvalid, PlansFail, FillsFailed

(* Every step keeps what is known of a read.                               *)
LEMMA ReaderStep ==
  ASSUME EndpointInv, ReaderType, ReaderInv, [Next]_vars
  PROVE  ReaderInv'
BY KindsOfStep, ReaderInvStep, QuietReaderNext

-----------------------------------------------------------------------------
(* The rows.  Database_Agent keeps the rows it has, so that what a reply   *)
(* held is in the table still; two rows of one identity are one row listed *)
(* twice.                                                                  *)
Id(r) == PagingProofs!FillIdentity(r)

\* Some identity is listed twice.
Twice(s) == \E m, n \in DOMAIN s : m # n /\ Id(s[m]) = Id(s[n])

Sound(s) == \A m, n \in DOMAIN s :
              (s[m].ext # None /\ s[m].ext = s[n].ext) => s[m] = s[n]

RowsInv ==
  /\ Sound(table)
  /\ Listed(fills) \subseteq Listed(table)
  /\ Listed(page) \subseteq Listed(table)
  /\ Twice(page) => Twice(table)

\* The rows that a shorter first page of at most Limit rows has not shown
\* come with a second one; that there is a second one takes a row listed twice.
PagesInv ==
  /\ requests = 0 => fills = << >>
  /\ (pc = "scan" /\ requests = 1) =>
       /\ asked = Limit /\ offset = 0 /\ Len(page) <= Limit
       /\ ~Twice(table) => /\ Len(fills) = i - 1
                           /\ \A k \in 1..i - 1 : fills[k] = page[k]
  /\ (pc = "done" /\ requests = 1 /\ Len(fills) < Limit) => Len(page) < asked
  /\ requests >= 2 \/ (pc = "fetch" /\ requests = 1) => offset >= Limit /\ Twice(table)
  /\ (pc # "failed" /\ Len(fills) < Limit) => PagingProofs!Lost = {}

(* Rows of one identity in a sound list are the same row.                  *)
LEMMA SameRow ==
  ASSUME NEW s \in Seq(PagingProofs!Row), Sound(s),
         NEW r \in Listed(s), NEW q \in Listed(s), Id(r) = Id(q)
  PROVE  r = q
<1>1. PICK m \in DOMAIN s : s[m] = r
  BY DEF Listed
<1>2. PICK n \in DOMAIN s : s[n] = q
  BY DEF Listed
<1>3. r \in PagingProofs!Row /\ q \in PagingProofs!Row
  BY <1>1, <1>2, LenProperties, ElementOfSeq
<1>4. CASE r.ext # None
  <2>1. q.ext = r.ext
    BY <1>4 DEF Id, PagingProofs!FillIdentity
  <2> QED BY <1>1, <1>2, <1>4, <2>1 DEF Sound
<1>5. CASE r.ext = None
  <2>1. q.ext = None /\ r.content = q.content
    BY <1>5 DEF Id, PagingProofs!FillIdentity
  <2> QED BY <1>3, <1>5, <2>1 DEF PagingProofs!Row
<1> QED BY <1>4, <1>5

(* An insertion keeps the rows, and what is listed twice.                  *)
LEMMA InsertKeeps ==
  ASSUME ReaderType, PagingProofs!Insert
  PROVE  Listed(table) \subseteq Listed(table') /\ (Twice(table) => Twice(table'))
<1>1. PICK k \in 1..Len(table) + 1, r \in PagingProofs!Row :
        table' = PagingProofs!Inserted(table, k, r)
  BY DEF PagingProofs!Insert
<1>2. table \in Seq(PagingProofs!Row)
  BY DEF ReaderType, PagingProofs!TypeOK
<1> DEFINE to(n) == IF n < k THEN n ELSE n + 1
<1>3. /\ table' \in Seq(PagingProofs!Row) /\ Len(table') = Len(table) + 1
      /\ \A n \in 1..Len(table) : table'[to(n)] = table[n]
  BY <1>1, <1>2, PagingAssumptions, PagingProofs!InsertedProperties
<1>4. /\ DOMAIN table = 1..Len(table) /\ DOMAIN table' = 1..Len(table')
      /\ Len(table) \in Nat
  BY <1>2, <1>3, LenProperties
<1>5. /\ \A n \in DOMAIN table : to(n) \in DOMAIN table' /\ table'[to(n)] = table[n]
      /\ \A m, n \in DOMAIN table : to(m) = to(n) => m = n
  BY <1>3, <1>4
<1> HIDE DEF to
<1>6. Listed(table) \subseteq Listed(table')
  BY <1>5 DEF Listed
<1>7. Twice(table) => Twice(table')
  BY <1>5 DEF Twice
<1> QED BY <1>6, <1>7

(* A reply shows rows of the table, and none twice unless the table does.  *)
LEMMA ReplyKeeps ==
  ASSUME ReaderType, pc = "fetch"
  PROVE  /\ PagingProofs!Reply \in Seq(PagingProofs!Row)
         /\ Len(PagingProofs!Reply) <= PagingProofs!Ask
         /\ Listed(PagingProofs!Reply) \subseteq Listed(table)
         /\ Twice(PagingProofs!Reply) => Twice(table)
<1> DEFINE t == PagingProofs!Reply
<1>1. /\ table \in Seq(PagingProofs!Row) /\ offset \in Nat
      /\ Len(fills) \in Nat /\ Len(fills) < Limit
  BY LenProperties DEF ReaderType, PagingProofs!TypeOK, PagingProofs!FetchShort
<1>2. /\ t \in Seq(PagingProofs!Row) /\ Len(t) <= PagingProofs!Ask
      /\ offset + Len(t) <= Len(table) \/ Len(t) = 0
      /\ \A n \in 1..Len(t) : t[n] = table[offset + n]
  BY <1>1, PagingAssumptions, PagingProofs!ReplyProperties
<1> HIDE DEF t
<1>3. /\ DOMAIN t = 1..Len(t) /\ Len(t) \in Nat
      /\ DOMAIN table = 1..Len(table) /\ Len(table) \in Nat
  BY <1>1, <1>2, LenProperties
<1>4. \A n \in DOMAIN t : n \in Nat /\ offset + n \in DOMAIN table /\ t[n] = table[offset + n]
  BY <1>1, <1>2, <1>3
<1>5. Listed(t) \subseteq Listed(table)
  BY <1>4 DEF Listed
<1>6. Twice(t) => Twice(table)
  <2>1. ASSUME NEW m \in DOMAIN t, NEW n \in DOMAIN t, m # n, Id(t[m]) = Id(t[n])
        PROVE  Twice(table)
    <3>1. offset + m # offset + n
      BY <1>1, <1>4, <2>1
    <3> QED BY <1>4, <2>1, <3>1 DEF Twice
  <2> QED BY <2>1 DEF Twice
<1> QED BY <1>2, <1>5, <1>6 DEF t

(* What the two make of the next state.                                    *)
LEMMA RowsNext ==
  RowsInv' <=>
    /\ Sound(table')
    /\ Listed(fills') \subseteq Listed(table')
    /\ Listed(page') \subseteq Listed(table')
    /\ Twice(page') => Twice(table')
BY DEF RowsInv, Sound, Listed, Twice, Id, PagingProofs!FillIdentity

(* Likewise.                                                               *)
LEMMA PagesNext ==
  PagesInv' <=>
    /\ requests' = 0 => fills' = << >>
    /\ (pc' = "scan" /\ requests' = 1) =>
         /\ asked' = Limit /\ offset' = 0 /\ Len(page') <= Limit
         /\ ~Twice(table') => /\ Len(fills') = i' - 1
                              /\ \A k \in 1..i' - 1 : fills'[k] = page'[k]
    /\ (pc' = "done" /\ requests' = 1 /\ Len(fills') < Limit) => Len(page') < asked'
    /\ requests' >= 2 \/ (pc' = "fetch" /\ requests' = 1) => offset' >= Limit /\ Twice(table')
    /\ (pc' # "failed" /\ Len(fills') < Limit) => PagingProofs!Lost' = {}
BY DEF PagesInv, Twice, Id, PagingProofs!FillIdentity

(* Nothing read yet.                                                       *)
LEMMA QuietPages == Quiet => PagesInv /\ (Sound(table) => RowsInv)
<1> SUFFICES ASSUME Quiet PROVE PagesInv /\ (Sound(table) => RowsInv)
  OBVIOUS
<1>1. /\ fills = << >> /\ page = << >> /\ DOMAIN << >> = {}
      /\ requests = 0 /\ pc \in {"fetch", "done"} /\ standing = {}
  BY EmptySeq DEF Quiet
<1>2. PagingProofs!Lost = {}
  BY <1>1 DEF PagingProofs!Lost
<1>3. PagesInv
  BY <1>1, <1>2 DEF PagesInv
<1>4. Sound(table) => RowsInv
  BY <1>1 DEF RowsInv, Listed, Twice
<1> QED BY <1>3, <1>4

(* The same of the next state.                                             *)
LEMMA QuietPagesNext == Quiet' => PagesInv' /\ (Sound(table') => RowsInv')
<1>1. (Quiet => PagesInv /\ (Sound(table) => RowsInv))'
  BY QuietPages, PTL
<1>2. Sound(table)' <=> Sound(table')
  BY DEF Sound
<1> QED BY <1>1, <1>2

(* StoreFill keeps one content for each external id.                       *)
LEMMA SoundStep ==
  ASSUME EndpointInv, Sound(table), [Next]_vars
  PROVE  Sound(table')
<1>1. CASE StoreFill
  BY <1>1 DEF StoreFill, Sound
<1>2. CASE ~StoreFill
  <2>1. table' = table
    BY <1>2 DEF Next, PlansInvalid, PlansFail, FillsFailed, Abandon, OpenPlan,
       ClosePlan, Write, Begin, ReadPlans, ReadFills, Answer, vars, dbVars,
       Paging!Reader, Paging!Progress, Paging!FetchPage, Paging!FetchEmpty,
       Paging!FetchRepeated, Paging!TakeRow, Paging!RejectRow, Paging!EndPage,
       Paging!FetchFails, Paging!dbVars
  <2> QED BY <2>1
<1> QED BY <1>1, <1>2

(* What a request of list_fills brings.                                    *)
LEMMA ServedKeeps ==
  ASSUME ReaderType, ReaderInv, PagesInv, pc = "fetch", PagingProofs!Served,
         table' = table
  PROVE  /\ page' = PagingProofs!Reply
         /\ Listed(page') \subseteq Listed(table') /\ (Twice(page') => Twice(table'))
         /\ asked' \in 1..Limit /\ Len(page') <= asked'
         /\ requests = 0 => requests' = 1 /\ asked' = Limit /\ fills = << >> /\ offset = 0
         /\ requests # 0 => requests' >= 2 /\ requests >= 1
         /\ requests' \in Nat /\ requests \in Nat
<1>1. page' = PagingProofs!Reply /\ asked' = PagingProofs!Ask
        /\ requests' = PagingProofs!Lesser(requests + 1, PagingProofs!CountTo)
  BY DEF PagingProofs!Served
<1>2. Len(fills) \in Nat /\ Len(fills) < Limit /\ requests \in 0..3 /\ fills \in Seq(PagingProofs!Row)
  BY LenProperties
     DEF ReaderType, PagingProofs!TypeOK, PagingProofs!FetchShort, PagingProofs!CountTo
<1>3. PagingProofs!PageSize = Limit
  BY LimitAssumption DEF PagingProofs!PageSize, PagingProofs!Lesser
<1>4. PagingProofs!Ask \in 1..Limit /\ (Len(fills) = 0 => PagingProofs!Ask = Limit)
  BY <1>2, <1>3, LimitAssumption DEF PagingProofs!Ask, PagingProofs!Lesser
<1>5. requests = 0 => fills = << >> /\ offset = 0
  BY DEF PagesInv, ReaderInv, PagingProofs!SkipInv
<1> QED BY <1>1, <1>2, <1>4, <1>5, ReplyKeeps, EmptySeq
        DEF PagingProofs!Lesser, PagingProofs!CountTo

(* One request of list_fills, or one row of its reply: the pages are still *)
(* as PagesInv says.                                                       *)
LEMMA PagesStep ==
  ASSUME EndpointInv, ReaderType, ReaderInv, RowsInv, PagesInv,
         PagingProofs!Reader, ReaderInv'
  PROVE  RowsInv' /\ PagesInv'
<1> USE DEF PagingProofs!dbVars, PagingProofs!readVars, PagingProofs!histVars
<1>1. /\ table' = table /\ deletes' = deletes
      /\ Len(fills) \in Nat /\ Len(page) \in Nat /\ i \in Nat \ {0}
      /\ fills \in Seq(PagingProofs!Row) /\ page \in Seq(PagingProofs!Row)
      /\ DOMAIN fills = 1..Len(fills) /\ DOMAIN page = 1..Len(page)
      /\ offset \in Nat /\ requests \in 0..3 /\ asked \in Nat
  <2>1. asked \in 0..PagingProofs!PageSize /\ PagingProofs!PageSize \in Nat
    BY LimitAssumption DEF ReaderType, PagingProofs!TypeOK, PagingProofs!PageSize,
       PagingProofs!Lesser
  <2> QED BY <2>1, LenProperties
        DEF ReaderType, PagingProofs!TypeOK, PagingProofs!CountTo,
            PagingProofs!Reader, PagingProofs!Progress, PagingProofs!FetchPage,
            PagingProofs!FetchEmpty, PagingProofs!FetchRepeated, PagingProofs!TakeRow,
            PagingProofs!RejectRow, PagingProofs!EndPage, PagingProofs!FetchFails
<1>2. /\ Sound(table) /\ Sound(table')
      /\ Listed(fills) \subseteq Listed(table) /\ Listed(page) \subseteq Listed(table)
      /\ Twice(page) => Twice(table)
  BY <1>1 DEF RowsInv
<1>3. ASSUME pc' \in {"fetch", "scan"}, Len(fills') < Limit PROVE PagingProofs!Lost' = {}
  <2>1. /\ PagingProofs!Cardinality(PagingProofs!Lost') <= deletes'
        /\ PagingProofs!IsFiniteSet(standing')
    BY <1>3 DEF ReaderInv, PagingProofs!SkipInv
  <2>2. deletes' = 0
    BY <1>1 DEF EndpointInv
  <2>3. IsFiniteSet(PagingProofs!Lost') /\ Cardinality(PagingProofs!Lost') <= 0
    <3>1. IsFiniteSet(standing')
      BY <2>1 DEF PagingProofs!IsFiniteSet, IsFiniteSet
    <3>2. PagingProofs!Lost' \subseteq standing'
      BY DEF PagingProofs!Lost
    <3> QED BY <2>1, <2>2, <3>1, <3>2, FS_Subset, SameReading
  <2>4. Cardinality(PagingProofs!Lost') = 0
    BY <2>3, FS_CardinalityType
  <2> QED BY <2>3, <2>4, FS_EmptySet
<1>4. ASSUME pc' = "done", Len(fills') < Limit, Len(page') < asked'
      PROVE  PagingProofs!Lost' = {}
  <2>1. /\ PagingProofs!Cardinality(PagingProofs!LostAtEnd') <= deletes'
        /\ PagingProofs!IsFiniteSet(standing')
    BY <1>4 DEF ReaderInv, PagingProofs!SkipInv
  <2>2. deletes' = 0
    BY <1>1 DEF EndpointInv
  <2>3. /\ IsFiniteSet(PagingProofs!LostAtEnd')
        /\ Cardinality(PagingProofs!LostAtEnd') <= 0
    <3>1. IsFiniteSet(standing')
      BY <2>1 DEF PagingProofs!IsFiniteSet, IsFiniteSet
    <3>2. PagingProofs!LostAtEnd' \subseteq standing'
      BY DEF PagingProofs!LostAtEnd
    <3> QED BY <2>1, <2>2, <3>1, <3>2, FS_Subset, SameReading
  <2>4. Cardinality(PagingProofs!LostAtEnd') = 0
    BY <2>3, FS_CardinalityType
  <2>5. PagingProofs!LostAtEnd' = {}
    BY <2>3, <2>4, FS_EmptySet
  <2> QED BY <2>5 DEF PagingProofs!Lost, PagingProofs!LostAtEnd
<1>5. CASE PagingProofs!FetchPage
  <2>1. /\ pc = "fetch" /\ pc' = "scan" /\ PagingProofs!Served
        /\ i' = 1 /\ offset' = offset /\ fills' = fills
    BY <1>5 DEF PagingProofs!FetchPage
  <2>2. Len(page') \in Nat
    BY <1>1, <2>1, ServedKeeps, ReplyKeeps, LenProperties
  <2> QED BY <1>1, <1>2, <1>3, <2>1, <2>2, ServedKeeps, EmptySeq, RowsNext, PagesNext
          DEF PagesInv
<1>6. CASE PagingProofs!FetchEmpty
  <2>1. /\ pc = "fetch" /\ pc' = "done" /\ PagingProofs!Served
        /\ offset' = offset /\ fills' = fills /\ Len(PagingProofs!Reply) = 0
    BY <1>6, EmptySeq DEF PagingProofs!FetchEmpty
  <2>2. Len(page') < asked'
    BY <1>1, <2>1, ServedKeeps
  <2> QED BY <1>1, <1>2, <1>4, <2>1, <2>2, ServedKeeps, RowsNext, PagesNext
          DEF PagesInv
<1>7. CASE PagingProofs!FetchRepeated
  <2>1. /\ pc = "fetch" /\ pc' = "failed" /\ PagingProofs!Served
        /\ offset' = offset /\ fills' = fills
    BY <1>7 DEF PagingProofs!FetchRepeated
  <2> QED BY <1>1, <1>2, <2>1, ServedKeeps, RowsNext, PagesNext DEF PagesInv
<1>8. CASE PagingProofs!FetchFails \/ PagingProofs!RejectRow
  <2>1. /\ pc' = "failed" /\ offset' = offset /\ fills' = fills /\ page' = page
        /\ requests' = requests
    BY <1>8 DEF PagingProofs!FetchFails, PagingProofs!RejectRow
  <2> QED BY <1>1, <1>2, <2>1, RowsNext, PagesNext DEF PagesInv
<1>9. CASE PagingProofs!TakeRow
  <2>1. /\ pc = "scan" /\ pc' = "scan" /\ i \in 1..Len(page) /\ page' = page
        /\ requests' = requests /\ asked' = asked /\ offset' = offset
        /\ page[i] \in PagingProofs!Row /\ page[i] \in Listed(page) /\ requests # 0
    BY <1>1, <1>9, ElementOfSeq
       DEF PagingProofs!TakeRow, Listed, ReaderInv, PagingProofs!SkipInv
  <2>2. CASE PagingProofs!Known(page[i])
    <3>1. fills' = fills /\ i' = i + 1
      BY <1>9, <2>2 DEF PagingProofs!TakeRow
    <3>2. (requests = 1 /\ ~Twice(table)) => FALSE
      <4>1. SUFFICES ASSUME requests = 1, ~Twice(table) PROVE FALSE
        OBVIOUS
      <4>2. Len(fills) = i - 1 /\ \A k \in 1..i - 1 : fills[k] = page[k]
        BY <2>1, <4>1 DEF PagesInv
      <4>3. PICK k \in 1..i - 1 : Id(fills[k]) = Id(page[i])
        BY <1>1, <2>2, <4>2
           DEF PagingProofs!Known, ReaderInv, PagingProofs!SeenInv,
               PagingProofs!IdentitiesIn, Id
      <4>4. k \in DOMAIN page /\ i \in DOMAIN page /\ k # i /\ Id(page[k]) = Id(page[i])
        BY <1>1, <2>1, <4>2, <4>3
      <4> QED BY <1>2, <4>1, <4>4 DEF Twice
    <3> QED BY <1>1, <1>2, <1>3, <2>1, <3>1, <3>2, RowsNext, PagesNext DEF PagesInv
  <2>3. CASE ~PagingProofs!Known(page[i])
    <3>1. /\ fills' = Append(fills, page[i]) /\ Len(fills') = Len(fills) + 1
          /\ i' = IF Len(fills) + 1 >= Limit THEN Len(page) + 1 ELSE i + 1
          /\ \A k \in 1..Len(fills) : fills'[k] = fills[k]
          /\ fills'[Len(fills) + 1] = page[i]
          /\ DOMAIN fills' = 1..Len(fills) + 1
      <4>1. /\ fills' = Append(fills, page[i])
            /\ i' = IF Len(fills) + 1 >= Limit THEN Len(page) + 1 ELSE i + 1
        BY <1>9, <2>3 DEF PagingProofs!TakeRow, PagingProofs!Full
      <4>2. /\ Append(fills, page[i]) \in Seq(PagingProofs!Row)
            /\ Len(Append(fills, page[i])) = Len(fills) + 1
            /\ \A k \in 1..Len(fills) : Append(fills, page[i])[k] = fills[k]
            /\ Append(fills, page[i])[Len(fills) + 1] = page[i]
        BY <1>1, <2>1, AppendProperties
      <4> QED BY <1>1, <4>1, <4>2, LenProperties
    <3>2. Listed(fills') \subseteq Listed(table)
      <4>1. Listed(fills') \subseteq Listed(fills) \cup {page[i]}
        BY <1>1, <3>1 DEF Listed
      <4> QED BY <1>2, <2>1, <4>1
    <3>3. (requests = 1 /\ ~Twice(table)) =>
            Len(fills') = i' - 1 /\ \A k \in 1..i' - 1 : fills'[k] = page'[k]
      <4>1. SUFFICES ASSUME requests = 1, ~Twice(table)
                     PROVE  Len(fills') = i' - 1 /\ \A k \in 1..i' - 1 : fills'[k] = page'[k]
        OBVIOUS
      <4>2. /\ Len(fills) = i - 1 /\ Len(page) <= Limit
            /\ \A k \in 1..i - 1 : fills[k] = page[k]
        BY <2>1, <4>1 DEF PagesInv
      <4>3. i' = i + 1
        BY <1>1, <2>1, <3>1, <4>2, LimitAssumption
      <4> QED BY <1>1, <2>1, <3>1, <4>2, <4>3
    <3> QED BY <1>1, <1>2, <1>3, <2>1, <3>2, <3>3, RowsNext, PagesNext DEF PagesInv
  <2> QED BY <2>2, <2>3
<1>10. CASE PagingProofs!EndPage
  <2>1. /\ pc = "scan" /\ i > Len(page) /\ page' = page /\ fills' = fills
        /\ offset' = offset + Len(page) /\ requests' = requests /\ asked' = asked
        /\ pc' = IF Len(page) < Limit \/ Len(fills) >= Limit THEN "done" ELSE "fetch"
        /\ requests # 0
    <3>1. PagingProofs!PageSize = Limit
      BY LimitAssumption DEF PagingProofs!PageSize, PagingProofs!Lesser
    <3> QED BY <1>10, <3>1
            DEF PagingProofs!EndPage, PagingProofs!NextOffset, PagingProofs!ShortPage,
                ReaderInv, PagingProofs!SkipInv
  <2>2. /\ i = Len(page) + 1
        /\ PagingProofs!Lost' = PagingProofs!Lost
    <3>1. i = Len(page) + 1
      BY <1>1, <2>1 DEF ReaderType, PagingProofs!TypeOK
    <3>2. /\ standing' = standing /\ seenIds' = seenIds /\ table' = table
          /\ pc' \in {"done", "fetch"} /\ pc = "scan"
      BY <1>1, <1>10, <2>1 DEF PagingProofs!EndPage
    <3>3. PagingProofs!InPage = {} /\ PagingProofs!InPage' = {}
      BY <1>1, <2>1, <3>2 DEF PagingProofs!InPage
    <3>4. PagingProofs!Frontier' = PagingProofs!Frontier
      BY <1>1, <2>1, <3>2 DEF PagingProofs!Frontier
    <3> QED BY <3>1, <3>2, <3>3, <3>4 DEF PagingProofs!Lost, PagingProofs!Ahead
  <2>3. requests = 1 => /\ asked = Limit /\ offset = 0
                        /\ ~Twice(table) => Len(fills) = i - 1
    BY <2>1 DEF PagesInv
  <2>4. requests = 1 /\ Len(page) >= Limit /\ Len(fills) < Limit
          => Twice(table) /\ offset' >= Limit
    <3>1. SUFFICES ASSUME requests = 1, Len(page) >= Limit, Len(fills) < Limit
                   PROVE  Twice(table) /\ offset' >= Limit
      OBVIOUS
    <3>2. offset = 0 /\ offset' = offset + Len(page) /\ i = Len(page) + 1
      BY <2>1, <2>2, <2>3, <3>1
    <3>3. Len(fills) # i - 1
      <4>1. \A a, b, c, d \in Int : (a < b /\ c >= b /\ d = c + 1) => a # d - 1
        OBVIOUS
      <4>2. Len(fills) \in Int /\ Len(page) \in Int /\ Limit \in Int /\ i \in Int
        BY <1>1, LimitAssumption
      <4> QED BY <3>1, <3>2, <4>1, <4>2
    <3>4. Twice(table)
      BY <2>3, <3>1, <3>3
    <3> QED BY <1>1, <3>1, <3>2, <3>4
  <2>5. requests >= 2 => offset' >= Limit /\ Twice(table)
    BY <1>1, <2>1, LimitAssumption DEF PagesInv
  <2>6. Len(fills) < Limit => PagingProofs!Lost' = {}
    BY <2>1, <2>2 DEF PagesInv
  <2>7. RowsInv'
    BY <1>1, <1>2, <2>1, RowsNext
  <2>8. pc' = "done" /\ requests = 1 /\ Len(fills) < Limit => Len(page) < asked
    BY <1>1, <2>1, <2>3, LimitAssumption
  <2>9. pc' = "fetch" => Len(page) >= Limit /\ Len(fills) < Limit
    BY <1>1, <2>1, LimitAssumption
  <2>10. pc' # "scan"
    BY <2>1
  <2>11. /\ requests' = requests /\ fills' = fills /\ page' = page
         /\ asked' = asked /\ table' = table /\ requests # 0
    BY <1>1, <2>1
  <2> QED BY <2>4, <2>5, <2>6, <2>7, <2>8, <2>9, <2>10, <2>11, PagesNext
<1> QED BY <1>5, <1>6, <1>7, <1>8, <1>9, <1>10
        DEF PagingProofs!Reader, PagingProofs!Progress

(* Whoever acts, rows and pages stay so.                                   *)
LEMMA ReadStep ==
  ASSUME EndpointInv, ReaderType, ReaderInv, RowsInv, PagesInv, [Next]_vars
  PROVE  RowsInv' /\ PagesInv'
<1>1. Sound(table')
  BY SoundStep DEF RowsInv
<1>2. CASE Quiet' /\ table' = table
  BY <1>1, <1>2, QuietPagesNext
<1>3. CASE PagingProofs!Reader
  BY <1>3, ReaderStep, PagesStep
<1>4. CASE PagingProofs!Insert
  <2>1. /\ UNCHANGED <<pc, offset, fills, seenIds, page, i, asked, requests, standing>>
    BY <1>4 DEF PagingProofs!Insert, PagingProofs!readVars
  <2>2. Listed(table) \subseteq Listed(table') /\ (Twice(table) => Twice(table'))
    BY <1>4, InsertKeeps
  <2>3. PagingProofs!Lost' \subseteq PagingProofs!Lost
    <3>1. PagingProofs!Ahead \subseteq PagingProofs!Ahead'
      BY <1>4, PagingAssumptions, PagingProofs!InsertAhead DEF ReaderType
    <3>2. PagingProofs!InPage' = PagingProofs!InPage
      BY <2>1 DEF PagingProofs!InPage
    <3> QED BY <2>1, <3>1, <3>2 DEF PagingProofs!Lost
  <2>4. RowsInv'
    BY <1>1, <2>1, <2>2, RowsNext DEF RowsInv
  <2>5. PagesInv'
    BY <2>1, <2>2, <2>3, PagesNext DEF PagesInv
  <2> QED BY <2>4, <2>5
<1>5. CASE UNCHANGED <<table, deletes, readVars>>
  <2>1. UNCHANGED <<table, pc, offset, fills, seenIds, page, i, asked, requests, standing>>
    BY <1>5 DEF readVars
  <2>2. PagingProofs!Lost' = PagingProofs!Lost
    BY <2>1 DEF PagingProofs!Lost, PagingProofs!Ahead, PagingProofs!InPage,
                PagingProofs!Frontier
  <2>3. RowsInv'
    BY <1>1, <2>1, RowsNext DEF RowsInv
  <2>4. PagesInv'
    BY <2>1, <2>2, PagesNext DEF PagesInv
  <2> QED BY <2>3, <2>4
<1>6. CASE PagingProofs!Delete \/ PagingProofs!Returned
  <2>1. ~PagingProofs!Delete
    BY DEF PagingProofs!Delete, EndpointInv
  <2>2. UNCHANGED <<table, deletes, readVars>>
    BY <1>6, <2>1 DEF PagingProofs!Returned, PagingProofs!vars, readVars
  <2> QED BY <1>5, <2>2
<1> QED BY <1>2, <1>3, <1>4, <1>5, <1>6, KindsOfStep DEF PagingProofs!Next

-----------------------------------------------------------------------------
(* The plans that were read.  One that was complete stays in the account   *)
(* as it was; fills that name it were stored before, so that all of them   *)
(* have been in the table ever since the first reply.                      *)
PlanInv ==
  /\ \A k \in DOMAIN read_plans :
       Complete(read_plans[k]) =>
         /\ read_plans[k] \in Listed(listing)
         /\ requests # 0 =>
              \A m \in DOMAIN table :
                Names(table[m], read_plans[k]) => Id(table[m]) \in standing
  /\ (phase = "fills" /\ query.endpoint # "summary_without_fills" /\ pc = "done")
        => requests # 0

(* What this makes of the next state.                                      *)
LEMMA PlanNext ==
  PlanInv' <=>
    /\ \A k \in DOMAIN read_plans' :
         Complete(read_plans'[k]) =>
           /\ read_plans'[k] \in Listed(listing')
           /\ requests' # 0 =>
                \A m \in DOMAIN table' :
                  Names(table'[m], read_plans'[k]) => Id(table'[m]) \in standing'
    /\ (phase' = "fills" /\ query'.endpoint # "summary_without_fills" /\ pc' = "done")
          => requests' # 0
<1>1. \A k : Complete(read_plans[k])' <=> Complete(read_plans'[k])
  BY DEF Complete, Learning!ExecutionStatus, Learning!LEARNABLE_EXECUTION_STATUSES,
         Learning!First, Learning!Found
<1>2. \A k, m : Names(table[m], read_plans[k])' <=> Names(table'[m], read_plans'[k])
  BY DEF Names
<1>3. \A m : Id(table[m])' = Id(table'[m])
  BY DEF Id, PagingProofs!FillIdentity
<1>4. Listed(listing)' = Listed(listing')
  BY DEF Listed
<1> QED BY <1>1, <1>2, <1>3, <1>4 DEF PlanInv

(* A complete plan is not closed again.                                    *)
LEMMA CompleteStays ==
  ASSUME EndpointInv, NEW p \in PlanIds, OpenPlan(p) \/ ClosePlan(p),
         NEW plan \in Listed(listing), Complete(plan)
  PROVE  plan \in Listed(listing')
<1>1. listing \in Seq(Records) /\ Unique(listing)
  BY DEF EndpointInv
<1>2. CASE OpenPlan(p)
  <2>1. Opened[p] \in Records /\ Opened[p].id = p
    BY PlansAssumption DEF Records
  <2>2. /\ listing' = <<Opened[p]>> \o listing
        /\ \A k \in DOMAIN listing : listing[k].id # p
    BY <1>2 DEF OpenPlan, Write
  <2>3. Listed(listing') = {Opened[p]} \cup Listed(listing)
    BY <1>1, <2>1, <2>2, PutFirst
  <2> QED BY <2>3
<1>3. CASE ClosePlan(p)
  <2>1. PICK k \in DOMAIN listing, record \in Closings[p] :
          /\ listing[k] = Opened[p]
          /\ listing' = <<record>> \o Paging!Deleted(listing, k)
    BY <1>3 DEF ClosePlan, Write
  <2>2. /\ record \in Records /\ record.id = p /\ listing[k].id = p
        /\ ~Complete(listing[k])
    BY <2>1, PlansAssumption DEF Records
  <2> DEFINE others == PagingProofs!Deleted(listing, k)
  <2>3. /\ others \in Seq(Records) /\ Unique(others)
        /\ Listed(others) = Listed(listing) \ {listing[k]}
        /\ \A n \in DOMAIN others : others[n].id # listing[k].id
    BY <1>1, TakeOut
  <2>4. listing' = <<record>> \o others
    BY <2>1, SameReading
  <2> HIDE DEF others
  <2>5. Listed(listing') = {record} \cup Listed(others)
    BY <2>2, <2>3, <2>4, PutFirst
  <2> QED BY <2>2, <2>3, <2>5
<1> QED BY <1>2, <1>3

(* Whoever acts, what is known of the plans that were read stays.          *)
LEMMA PlanStep ==
  ASSUME EndpointInv, ReaderType, ReaderInv, PlanInv, [Next]_vars
  PROVE  PlanInv'
<1> USE DEF ownVars
<1>1. CASE \E p \in PlanIds : OpenPlan(p) \/ ClosePlan(p)
  <2>1. PICK p \in PlanIds : OpenPlan(p) \/ ClosePlan(p)
    BY <1>1
  <2>2. UNCHANGED <<table, phase, query, read_plans, pc, requests, standing>>
    BY <2>1 DEF OpenPlan, ClosePlan, Write, readVars
  <2>3. \A k \in DOMAIN read_plans :
          Complete(read_plans[k]) => read_plans[k] \in Listed(listing')
    BY <2>1, CompleteStays DEF PlanInv
  <2> QED BY <2>2, <2>3, PlanNext DEF PlanInv
<1>2. CASE StoreFill
  <2>1. /\ Paging!Insert /\ UNCHANGED <<listing, phase, query, read_plans>>
        /\ \A n \in DOMAIN listing : Complete(listing[n]) =>
             \A k \in DOMAIN table' : Names(table'[k], listing[n]) =>
               \E m \in DOMAIN table : table[m] = table'[k]
    BY <1>2 DEF StoreFill
  <2>2. UNCHANGED <<pc, requests, standing>>
    BY <2>1 DEF Paging!Insert
  <2>3. ASSUME NEW k \in DOMAIN read_plans, Complete(read_plans[k]), requests # 0,
               NEW m \in DOMAIN table', Names(table'[m], read_plans[k])
        PROVE  Id(table'[m]) \in standing
    <3>1. PICK n \in DOMAIN listing : listing[n] = read_plans[k]
      BY <2>3 DEF PlanInv, Listed
    <3>2. PICK j \in DOMAIN table : table[j] = table'[m]
      BY <2>1, <2>3, <3>1
    <3>3. Id(table[j]) \in standing
      BY <2>3, <3>2 DEF PlanInv
    <3> QED BY <3>2, <3>3
  <2> QED BY <2>1, <2>2, <2>3, PlanNext DEF PlanInv
<1>3. CASE \E q \in Queries : Begin(q)
  <2>1. phase = "idle" /\ phase' = "plans" /\ read_plans' = read_plans
    BY <1>3 DEF Begin
  <2>2. read_plans' = << >>
    BY <2>1 DEF EndpointInv, Fresh
  <2> QED BY <2>1, <2>2, EmptySeq, PlanNext
<1>4. CASE ReadPlans
  <2>1. /\ read_plans' = PlanPage /\ requests' = requests /\ requests = 0
        /\ listing' = listing /\ query' = query
        /\ query.endpoint # "summary_without_fills" => pc' = "fetch"
    BY <1>4 DEF ReadPlans, EndpointInv, Fresh, dbVars
  <2>2. Listed(PlanPage) \subseteq Listed(listing)
    BY <1>4, PlanPageProperties DEF ReadPlans
  <2> HIDE DEF PlanPage
  <2>3. \A k \in DOMAIN read_plans' : read_plans'[k] \in Listed(listing')
    BY <2>1, <2>2 DEF Listed
  <2> QED BY <2>1, <2>3, PlanNext
<1>5. CASE Abandon \/ Answer
  <2>1. phase' = "idle" /\ read_plans' = << >>
    BY <1>5 DEF Abandon, Answer
  <2> QED BY <2>1, EmptySeq, PlanNext
<1>6. CASE ReadFills
  <2>1. /\ PagingProofs!Reader /\ UNCHANGED <<listing, phase, query, read_plans>>
    BY <1>6, SameSteps
       DEF ReadFills, Paging!Reader, Paging!Progress, PagingProofs!Reader, PagingProofs!Progress
  <2> USE DEF PagingProofs!dbVars, PagingProofs!readVars, PagingProofs!histVars
  <2>2. CASE PagingProofs!Served
    <3>1. /\ requests' = PagingProofs!Lesser(requests + 1, PagingProofs!CountTo)
          /\ standing' = IF requests = 0 THEN PagingProofs!IdentitiesIn(table) ELSE standing
      BY <2>2 DEF PagingProofs!Served
    <3>2. requests' # 0
      BY <3>1 DEF ReaderType, PagingProofs!TypeOK, PagingProofs!Lesser,
                  PagingProofs!CountTo
    <3>3. table' = table
      BY <2>1 DEF PagingProofs!Reader, PagingProofs!Progress, PagingProofs!FetchPage,
         PagingProofs!FetchEmpty, PagingProofs!FetchRepeated, PagingProofs!TakeRow,
         PagingProofs!RejectRow, PagingProofs!EndPage, PagingProofs!FetchFails
    <3>4. requests = 0 => \A m \in DOMAIN table : Id(table[m]) \in standing'
      BY <3>1 DEF PagingProofs!IdentitiesIn, Id
    <3>5. requests # 0 => standing' = standing
      BY <3>1
    <3> QED BY <2>1, <3>2, <3>3, <3>4, <3>5, PlanNext DEF PlanInv
  <2>3. CASE ~PagingProofs!Served
    <3>1. /\ UNCHANGED <<table, requests, standing>>
          /\ pc' = "done" => pc = "scan"
      BY <2>1, <2>3 DEF PagingProofs!Reader, PagingProofs!Progress, PagingProofs!FetchPage,
         PagingProofs!FetchEmpty, PagingProofs!FetchRepeated, PagingProofs!TakeRow,
         PagingProofs!RejectRow, PagingProofs!EndPage, PagingProofs!FetchFails
    <3>2. pc = "scan" => requests # 0
      BY DEF ReaderInv, PagingProofs!SkipInv
    <3> QED BY <2>1, <3>1, <3>2, PlanNext DEF PlanInv
  <2> QED BY <2>2, <2>3
<1>7. CASE UNCHANGED vars
  BY <1>7, PlanNext DEF PlanInv, vars, dbVars, readVars
<1> QED BY <1>1, <1>2, <1>3, <1>4, <1>5, <1>6, <1>7
        DEF Next, PlansInvalid, PlansFail, FillsFailed

(* All that is known of a request, together.                               *)
RequestInv == EndpointInv /\ ReaderType /\ ReaderInv /\ RowsInv /\ PagesInv /\ PlanInv

(* It holds throughout.                                                    *)
LEMMA RequestAlways == Spec => []RequestInv
<1>1. Init => RequestInv
  <2> SUFFICES ASSUME Init PROVE RequestInv
    OBVIOUS
  <2>1. Quiet /\ table = << >> /\ read_plans = << >> /\ phase = "idle" /\ DOMAIN << >> = {}
    BY EmptySeq DEF Init, Quiet
  <2>2. ReaderInv /\ PagesInv /\ RowsInv
    BY <2>1, QuietReader, QuietPages DEF Sound
  <2>3. PlanInv
    BY <2>1 DEF PlanInv
  <2> QED BY <2>2, <2>3, EndpointInit DEF RequestInv
<1>2. RequestInv /\ [Next]_vars => RequestInv'
  BY EndpointStep, ReaderStep, ReadStep, PlanStep DEF RequestInv
<1> QED BY <1>1, <1>2, PTL DEF Spec

-----------------------------------------------------------------------------
(* When nothing is missing.  A list has as many identities as rows unless  *)
(* one is listed twice.                                                    *)
LEMMA IdentitiesCount ==
  ASSUME NEW s \in Seq(PagingProofs!Row)
  PROVE  LET ids == PagingProofs!IdentitiesIn(s)
         IN  /\ IsFiniteSet(ids) /\ Cardinality(ids) \in Nat
             /\ Cardinality(ids) <= Len(s)
             /\ Cardinality(ids) = Len(s) <=> ~Twice(s)
<1> DEFINE ids == PagingProofs!IdentitiesIn(s)
           f == [k \in 1..Len(s) |-> Id(s[k])]
<1>1. Len(s) \in Nat /\ DOMAIN s = 1..Len(s)
  BY LenProperties
<1>2. ids = {Id(s[k]) : k \in 1..Len(s)}
  BY <1>1 DEF PagingProofs!IdentitiesIn, Id
<1>3. IsFiniteSet(1..Len(s)) /\ Cardinality(1..Len(s)) = Len(s)
  <2>1. 1 \in Int /\ Len(s) \in Int
    BY <1>1
  <2>2. /\ IsFiniteSet(1..Len(s))
        /\ Cardinality(1..Len(s)) = IF 1 > Len(s) THEN 0 ELSE Len(s) - 1 + 1
    BY <2>1, FS_Interval
  <2>3. (IF 1 > Len(s) THEN 0 ELSE Len(s) - 1 + 1) = Len(s)
    BY <1>1
  <2> QED BY <2>2, <2>3
<1> HIDE DEF ids
<1>4. f \in Surjection(1..Len(s), ids)
  BY <1>2 DEF Surjection
<1>5. f \in Injection(1..Len(s), ids) <=> ~Twice(s)
  BY <1>1, <1>2 DEF Injection, IsInjective, Twice
<1> HIDE DEF f
<1>6. /\ IsFiniteSet(ids) /\ Cardinality(ids) <= Cardinality(1..Len(s))
      /\ Cardinality(ids) = Cardinality(1..Len(s)) <=> f \in Injection(1..Len(s), ids)
  BY <1>3, <1>4, FS_Surjection
<1>7. Cardinality(ids) \in Nat
  BY <1>6, FS_CardinalityType
<1> QED BY <1>3, <1>5, <1>6, <1>7 DEF ids

(* Of a complete plan, list_fills has returned every fill.                 *)
LEMMA AllReturned ==
  ASSUME RequestInv, AnsweringWithFills, NothingMissing,
         NEW k \in DOMAIN read_plans, Complete(read_plans[k]),
         NEW m \in DOMAIN table, Names(table[m], read_plans[k])
  PROVE  Id(table[m]) \in PagingProofs!IdentitiesIn(fills)
<1> DEFINE got == PagingProofs!IdentitiesIn(fills)
           all == PagingProofs!IdentitiesIn(table)
<1>1. /\ fills \in Seq(PagingProofs!Row) /\ table \in Seq(PagingProofs!Row)
      /\ Len(fills) \in Nat /\ Len(table) \in Nat /\ Len(fills) <= Limit
      /\ Len(page) \in Nat /\ offset \in Nat /\ requests \in 0..3
      /\ DOMAIN fills = 1..Len(fills) /\ DOMAIN table = 1..Len(table)
  BY LenProperties
     DEF RequestInv, ReaderType, ReaderInv, PagingProofs!TypeOK, PagingProofs!LimitInv,
         PagingProofs!CountTo
<1>2. phase = "fills" /\ pc = "done" /\ query.endpoint # "summary_without_fills"
  BY DEF AnsweringWithFills, Answering
<1>3. requests # 0 /\ Id(table[m]) \in standing
  BY <1>2 DEF RequestInv, PlanInv
<1>4. ~Twice(fills)
  BY <1>1 DEF RequestInv, ReaderInv, PagingProofs!NoIdentityTwice, Twice, Id
<1>5. Id(table[m]) \in all
  BY DEF PagingProofs!IdentitiesIn, Id
<1>6. got \subseteq all
  <2>1. \A j \in DOMAIN fills : \E n \in DOMAIN table : table[n] = fills[j]
    BY DEF RequestInv, RowsInv, Listed
  <2> QED BY <2>1 DEF PagingProofs!IdentitiesIn
<1>7. CASE Len(fills) = Limit /\ Fits
  <2>1. Cardinality(got) = Len(fills)
    BY <1>1, <1>4, IdentitiesCount
  <2>2. /\ IsFiniteSet(all) /\ Cardinality(all) \in Nat
        /\ Cardinality(all) <= Len(table) /\ Len(table) <= Limit
    BY <1>1, <1>7, IdentitiesCount DEF Fits
  <2>3. Cardinality(got) <= Cardinality(all) /\ (Cardinality(all) = Cardinality(got) => all = got)
    BY <1>6, <2>2, FS_Subset
  <2>4. Cardinality(all) = Cardinality(got)
    BY <1>1, <1>7, <2>1, <2>2, <2>3, LimitAssumption
  <2> QED BY <1>5, <2>3, <2>4
<1>8. CASE Len(fills) < Limit
  <2>1. PagingProofs!Lost = {} /\ PagingProofs!InPage = {} /\ seenIds = got
    BY <1>2, <1>8 DEF RequestInv, PagesInv, ReaderInv, PagingProofs!SeenInv,
       PagingProofs!InPage
  <2>2. CASE requests >= 2
    <3>1. offset >= Limit /\ Twice(table)
      BY <2>2 DEF RequestInv, PagesInv
    <3>2. Len(table) <= Limit
      <4>1. Cardinality(all) # Len(table)
        BY <1>1, <3>1, IdentitiesCount
      <4>2. Cardinality(Paging!IdentitiesIn(table)) = Cardinality(all)
        BY SameReading
      <4> QED BY <4>1, <4>2 DEF NothingMissing, Fits
    <3>3. PagingProofs!Ahead = {}
      BY <1>1, <1>2, <3>1, <3>2, LimitAssumption DEF PagingProofs!Ahead, PagingProofs!Frontier
    <3> QED BY <1>3, <2>1, <3>3 DEF PagingProofs!Lost
  <2>3. CASE requests = 1
    <3>1. Len(page) < asked
      BY <1>2, <1>8, <2>3 DEF RequestInv, PagesInv
    <3>2. PagingProofs!Cardinality(PagingProofs!LostAtEnd) <= deletes /\ deletes = 0
            /\ PagingProofs!IsFiniteSet(standing)
      BY <1>2, <1>8, <3>1 DEF RequestInv, EndpointInv, ReaderInv, PagingProofs!SkipInv
    <3>3. IsFiniteSet(standing) /\ PagingProofs!LostAtEnd \subseteq standing
      BY <3>2 DEF PagingProofs!IsFiniteSet, IsFiniteSet, PagingProofs!LostAtEnd
    <3>4. /\ IsFiniteSet(PagingProofs!LostAtEnd)
          /\ Cardinality(PagingProofs!LostAtEnd) <= 0
      BY <3>2, <3>3, FS_Subset, SameReading
    <3>5. PagingProofs!LostAtEnd = {}
      <4>1. Cardinality(PagingProofs!LostAtEnd) = 0
        BY <3>4, FS_CardinalityType
      <4> QED BY <3>4, <4>1, FS_EmptySet
    <3> QED BY <1>3, <2>1, <3>5 DEF PagingProofs!LostAtEnd
  <2> QED BY <1>1, <1>3, <2>2, <2>3
<1>9. Len(fills) = Limit \/ Len(fills) < Limit
  <2>1. \A a, b \in Int : a <= b => a = b \/ a < b
    OBVIOUS
  <2>2. Len(fills) \in Int /\ Limit \in Int
    BY <1>1, LimitAssumption
  <2> QED BY <1>1, <2>1, <2>2
<1>10. Fits \/ Len(fills) < Limit
  BY DEF NothingMissing
<1> HIDE DEF got, all
<1> QED BY <1>7, <1>8, <1>9, <1>10 DEF got

-----------------------------------------------------------------------------
(* The rows of a list that name a plan.                                    *)
Naming(s, plan) == {r \in Listed(s) : Names(r, plan)}

(* They are the same in the table and in its first occurrences.            *)
LEMMA FirstsNaming ==
  ASSUME table \in Seq(PagingProofs!Row), Sound(table), NEW plan
  PROVE  LET u == Paging!FirstOccurrences(table)
         IN  /\ u \in Seq(PagingProofs!Row) /\ ~Twice(u)
             /\ Naming(u, plan) = Naming(table, plan)
<1> DEFINE u == PagingProofs!FirstOccurrences(table)
<1>1. u = Paging!FirstOccurrences(table)
  BY SameReading
<1>2. /\ u \in Seq(PagingProofs!Row)
      /\ \A m \in DOMAIN u : \E n \in DOMAIN table : u[m] = table[n]
      /\ \A m, n \in DOMAIN u : Id(u[m]) = Id(u[n]) => m = n
  BY PagingAssumptions, PagingProofs!FirstOccurrencesAreRows DEF Id
<1>3. PagingProofs!IdentitiesIn(u) = PagingProofs!IdentitiesIn(table)
  BY <1>2, PagingAssumptions, PagingProofs!FirstsHaveAll
<1> HIDE DEF u
<1>4. ~Twice(u) /\ Listed(u) \subseteq Listed(table)
  BY <1>2 DEF Twice, Listed
<1>5. ASSUME NEW r \in Listed(table) PROVE r \in Listed(u)
  <2>1. PICK m \in DOMAIN table : table[m] = r
    BY DEF Listed
  <2>2. Id(r) \in PagingProofs!IdentitiesIn(u)
    BY <1>3, <2>1 DEF PagingProofs!IdentitiesIn, Id
  <2>3. PICK n \in DOMAIN u : Id(u[n]) = Id(r)
    BY <2>2 DEF PagingProofs!IdentitiesIn, Id
  <2>4. u[n] \in Listed(u)
    BY DEF Listed
  <2>5. u[n] = r
    BY <1>4, <2>3, <2>4, SameRow
  <2> QED BY <2>4, <2>5
<1> QED BY <1>1, <1>2, <1>4, <1>5 DEF Naming

(* Of a complete plan all of them have been read.                          *)
LEMMA SameNaming ==
  ASSUME RequestInv, AnsweringWithFills, NothingMissing,
         NEW k \in DOMAIN read_plans, Complete(read_plans[k])
  PROVE  Naming(fills, read_plans[k]) = Naming(table, read_plans[k])
<1> DEFINE plan == read_plans[k]
<1>1. /\ table \in Seq(PagingProofs!Row) /\ Sound(table)
      /\ Listed(fills) \subseteq Listed(table)
  BY DEF RequestInv, ReaderType, PagingProofs!TypeOK, RowsInv
<1>2. ASSUME NEW r \in Naming(table, plan) PROVE r \in Listed(fills)
  <2>1. r \in Listed(table) /\ Names(r, plan)
    BY DEF Naming
  <2>2. PICK m \in DOMAIN table : table[m] = r
    BY <2>1 DEF Listed
  <2>3. Id(r) \in PagingProofs!IdentitiesIn(fills)
    BY <2>1, <2>2, AllReturned
  <2>4. PICK n \in DOMAIN fills : Id(fills[n]) = Id(r)
    BY <2>3 DEF PagingProofs!IdentitiesIn, Id
  <2>5. fills[n] \in Listed(fills)
    BY DEF Listed
  <2>6. fills[n] = r
    BY <1>1, <2>1, <2>4, <2>5, SameRow
  <2> QED BY <2>5, <2>6
<1> QED BY <1>1, <1>2 DEF Naming

(* A sum over rows does not depend on where they stand.                    *)
LEMMA SumByRows ==
  ASSUME NEW s \in Seq(PagingProofs!Row), ~Twice(s), NEW K \in SUBSET DOMAIN s,
         NEW f, NEW g, DOMAIN f = K, \A k \in K : f[k] = g[s[k]] /\ f[k] \in Int
  PROVE  SumOver(f) = TotalOf(g, {s[k] : k \in K})
<1>1. Len(s) \in Nat /\ DOMAIN s = 1..Len(s)
  BY LenProperties
<1>2. IsFiniteSet(K)
  <2>1. IsFiniteSet(1..Len(s))
    BY <1>1, FS_Interval
  <2> QED BY <1>1, <2>1, FS_Subset
<1>3. \A x, y \in K : s[x] = s[y] => x = y
  BY DEF Twice
<1>4. TotalOf(f, K) = TotalOf(g, {s[k] : k \in K})
  BY <1>2, <1>3, TotalRenamed
<1>5. SumOver(f) = TotalOf(f, DOMAIN f)
  BY DEF SumOver, TotalOf
<1> QED BY <1>4, <1>5, Zenon

PnlOfRow == [r \in PagingProofs!Row |-> r.content.pnl]
EstOfRow == [r \in PagingProofs!Row |-> r.content.est]

\* The rows that the learning path sums for a plan.
Earning(s, plan) ==
  {r \in Naming(s, plan) :
     /\ \/ r.content.plan = plan.id
        \/ plan.order # None /\ r.content.order = plan.order
     /\ r.content.pnl # None}

(* The model's rounding and its sums are those that the instances use.     *)
LEMMA SameNumbers ==
  ASSUME NEW list
  PROVE  /\ \A n, d : Learning(list)!Nearest(n, d) = Nearest(n, d)
         /\ \A f : Learning(list)!SumOver(f) = SumOver(f)
         /\ \A f : Attribution(list)!SumOver(f) = SumOver(f)
<1>1. \A n, d : Learning(list)!Nearest(n, d) = Nearest(n, d)
  BY DEF Learning!Nearest, Nearest
<1>2. \A f : Learning(list)!SumOver(f) = SumOver(f)
  BY DEF Learning!SumOver, SumOver, Learning!MapThenSumSet, MapThenSumSet,
         Learning!MapThenFoldSet, MapThenFoldSet
<1>3. \A f : Attribution(list)!SumOver(f) = SumOver(f)
  BY DEF Attribution!SumOver, SumOver, Attribution!MapThenSumSet, MapThenSumSet,
         Attribution!MapThenFoldSet, MapThenFoldSet
<1> QED BY <1>1, <1>2, <1>3

EarnedOf(s, plan) == Nearest(TotalOf(PnlOfRow, Earning(s, plan)), Fine)

(* The learning path's P&L of a plan, from the rows that name it.          *)
LEMMA LearningPnl ==
  ASSUME NEW s \in Seq(PagingProofs!Row), ~Twice(s), NEW plan
  PROVE  RealizedPnl(plan, FillsOf(s)) = EarnedOf(s, plan)
<1> DEFINE list == FillsOf(s)
           own == Learning(list)!RealizedFills(plan)
           mine(r) == /\ \/ r.content.plan = plan.id
                         \/ plan.order # None /\ r.content.order = plan.order
                      /\ r.content.pnl # None
           f == [k \in own |-> list[k].pnl]
<1>1. DOMAIN list = DOMAIN s /\ \A k \in DOMAIN s : list[k] = FillOf(s[k])
  BY DEF FillsOf
<1>2. \A k \in DOMAIN s : /\ list[k].plan = s[k].content.plan
                          /\ list[k].order = s[k].content.order
                          /\ list[k].pnl = s[k].content.pnl
  BY <1>1 DEF FillOf
<1>3. own = {k \in DOMAIN s : mine(s[k])}
  BY <1>1, <1>2 DEF Learning!RealizedFills, Learning!FillsForPlan
<1>4. RealizedPnl(plan, list) = Nearest(SumOver(f), Fine)
  <2>1. RealizedPnl(plan, list) = Learning(list)!Nearest(Learning(list)!SumOver(f), Fine)
    BY DEF RealizedPnl, Learning!RealizedPnl
  <2> QED BY <2>1, SameNumbers, Zenon
<1> HIDE DEF list, own
<1>5. own \in SUBSET DOMAIN s /\ DOMAIN f = own
  BY <1>3
<1>6. \A k \in own : f[k] = PnlOfRow[s[k]] /\ f[k] \in Int
  <2>1. ASSUME NEW k \in own PROVE f[k] = PnlOfRow[s[k]] /\ f[k] \in Int
    <3>1. k \in DOMAIN s /\ s[k] \in PagingProofs!Row /\ s[k].content.pnl # None
      BY <1>3, LenProperties, ElementOfSeq
    <3>2. f[k] = s[k].content.pnl
      BY <1>2, <3>1
    <3>3. s[k].content.pnl \in Amounts
      BY <3>1, ContentsAssumption DEF PagingProofs!Row
    <3> QED BY <3>1, <3>2, <3>3, AmountsAssumption DEF PnlOfRow
  <2> QED BY <2>1
<1>7. {s[k] : k \in own} = Earning(s, plan)
  <2>1. \A r : mine(r) => Names(r, plan)
    BY DEF Names
  <2> QED BY <1>3, <2>1 DEF Earning, Naming, Listed
<1> HIDE DEF f, mine
<1>8. SumOver(f) = TotalOf(PnlOfRow, {s[k] : k \in own})
  BY <1>5, <1>6, SumByRows
<1>9. SumOver(f) = TotalOf(PnlOfRow, Earning(s, plan))
  BY <1>7, <1>8, Zenon
<1> QED BY <1>4, <1>9, Zenon DEF list, EarnedOf

(* The plans of the batch that a fill may count for: the summary's         *)
(* candidates.                                                             *)
Claimants(f) ==
  ({f.plan, f.trade} \cap {read_plans[k].id : k \in DOMAIN read_plans})
    \cup {read_plans[k].id :
            k \in {m \in DOMAIN read_plans : f.order # None /\ read_plans[m].order = f.order}}

\* Rows that the summary counts for a plan, and what it makes of them.
CountsFor(r, plan) ==
  Cardinality(Claimants(FillOf(r))) = 1 /\ plan.id \in Claimants(FillOf(r))
SummaryOf(rows, plan) ==
  LET explicit == {r \in rows : r.content.pnl # None}
  IN  IF explicit # {} THEN TotalOf(PnlOfRow, explicit)
      ELSE IF plan.priced THEN TotalOf(EstOfRow, rows) ELSE 0

(* Among rows without a repetition, the summary settles those that count   *)
(* for one plan.                                                           *)
LEMMA SettledFills ==
  ASSUME NEW s \in Seq(PagingProofs!Row), ~Twice(s)
  PROVE  Attribution(FillsOf(s))!Settled =
           {k \in DOMAIN s : Cardinality(Claimants(FillOf(s[k]))) = 1}
<1> DEFINE list == FillsOf(s)
<1>1. DOMAIN list = DOMAIN s /\ \A k \in DOMAIN s : list[k] = FillOf(s[k])
  BY DEF FillsOf
<1>2. Len(s) \in Nat /\ DOMAIN s = 1..Len(s) /\ \A k \in DOMAIN s : s[k] \in PagingProofs!Row
  BY LenProperties, ElementOfSeq
<1>3. ASSUME NEW r \in PagingProofs!Row, NEW q \in PagingProofs!Row,
             Attribution(list)!Fingerprint(FillOf(r)) = Attribution(list)!Fingerprint(FillOf(q))
      PROVE  Id(r) = Id(q)
  <2>1. FillOf(r).ext = r.ext /\ FillOf(q).ext = q.ext
    BY DEF FillOf
  <2>2. CASE r.ext # None
    <3>1. q.ext # None /\ q.ext = r.ext
      BY <1>3, <2>1, <2>2 DEF Attribution!Fingerprint
    <3> QED BY <2>2, <3>1 DEF Id, PagingProofs!FillIdentity
  <2>3. CASE r.ext = None
    <3>1. q.ext = None /\ FillOf(r) = FillOf(q)
      BY <1>3, <2>1, <2>3 DEF Attribution!Fingerprint
    <3>2. /\ r.content.plan = q.content.plan /\ r.content.trade = q.content.trade
          /\ r.content.order = q.content.order /\ r.content.pnl = q.content.pnl
          /\ r.content.est = q.content.est
      BY <3>1 DEF FillOf
    <3>3. r.content \in Contents /\ q.content \in Contents
      BY DEF PagingProofs!Row
    <3>4. \A c \in Contents : c = [plan |-> c.plan, trade |-> c.trade, order |-> c.order,
                                   pnl |-> c.pnl, est |-> c.est]
      BY ContentsAssumption
    <3>5. r.content = q.content
      BY <3>2, <3>3, <3>4, Zenon
    <3> QED BY <2>3, <3>1, <3>5 DEF Id, PagingProofs!FillIdentity
  <2> QED BY <2>2, <2>3
<1>4. \A k \in DOMAIN s : Attribution(list)!FirstReport(k)
  <2>1. ASSUME NEW k \in DOMAIN s, NEW m \in 1..k - 1
        PROVE  Attribution(list)!Fingerprint(list[m]) # Attribution(list)!Fingerprint(list[k])
    <3>1. m \in DOMAIN s /\ m # k
      BY <1>2, <2>1
    <3>2. Id(s[m]) # Id(s[k])
      BY <3>1 DEF Twice
    <3> QED BY <1>1, <1>2, <1>3, <3>1, <3>2
  <2> QED BY <2>1 DEF Attribution!FirstReport
<1>5. \A f : Attribution(list)!Candidates(f) = Claimants(f)
  BY DEF Attribution!Candidates, Attribution!PlanIdsOfBatch, Attribution!PlansOfOrder,
         Claimants
<1>6. \A S : Attribution(list)!Cardinality(S) = Cardinality(S)
  BY DEF Attribution!Cardinality, Cardinality
<1> QED BY <1>1, <1>4, <1>5, <1>6 DEF Attribution!Settled

(* Such a row names the plan.                                              *)
LEMMA CountedIsNamed ==
  ASSUME EndpointInv, NEW n \in DOMAIN read_plans, NEW r, CountsFor(r, read_plans[n])
  PROVE  Names(r, read_plans[n])
<1> DEFINE f == FillOf(r)
<1>1. /\ f.plan = r.content.plan /\ f.trade = r.content.trade /\ f.order = r.content.order
  BY DEF FillOf
<1> HIDE DEF f
<1>2. CASE read_plans[n].id \in {f.plan, f.trade}
  BY <1>1, <1>2 DEF Names
<1>3. CASE read_plans[n].id \notin {f.plan, f.trade}
  <2>1. PICK m \in DOMAIN read_plans :
          f.order # None /\ read_plans[m].order = f.order /\ read_plans[m].id = read_plans[n].id
    BY <1>3 DEF CountsFor, Claimants, f
  <2>2. m = n
    BY <2>1 DEF EndpointInv, Unique
  <2> QED BY <1>1, <2>1, <2>2 DEF Names
<1> QED BY <1>2, <1>3

(* The summary's P&L of a plan, from the rows that name it.                *)
LEMMA SummaryPnlOfRows ==
  ASSUME EndpointInv, NEW s \in Seq(PagingProofs!Row), ~Twice(s), NEW n \in DOMAIN read_plans
  PROVE  LET plan == read_plans[n]
         IN  SummaryPnl(plan, FillsOf(s)) =
               Nearest(SummaryOf({r \in Naming(s, plan) : CountsFor(r, plan)}, plan), Cent)
<1> DEFINE plan == read_plans[n]
           list == FillsOf(s)
           own == {k \in DOMAIN s : CountsFor(s[k], plan)}
           given == [k \in own |-> list[k]]
           explicit == {k \in own : list[k].pnl # None}
           rows == {r \in Naming(s, plan) : CountsFor(r, plan)}
<1>1. DOMAIN list = DOMAIN s /\ \A k \in DOMAIN s : list[k] = FillOf(s[k])
  BY DEF FillsOf
<1>2. \A k \in DOMAIN s : list[k].pnl = s[k].content.pnl /\ list[k].est = s[k].content.est
  BY <1>1 DEF FillOf
<1>3. own = {k \in Attribution(list)!Settled :
               plan.id \in Attribution(list)!Candidates(list[k])}
  <2>1. \A f : Attribution(list)!Candidates(f) = Claimants(f)
    BY DEF Attribution!Candidates, Attribution!PlanIdsOfBatch, Attribution!PlansOfOrder,
           Claimants
  <2>2. Attribution(list)!Settled = {k \in DOMAIN s : Cardinality(Claimants(FillOf(s[k]))) = 1}
    BY SettledFills
  <2> QED BY <1>1, <2>1, <2>2 DEF CountsFor
<1> HIDE DEF own
<1>4. own \in SUBSET DOMAIN s /\ explicit \in SUBSET DOMAIN s
  BY <1>3, SettledFills
<1>5. DOMAIN given = own /\ \A k \in own : given[k] = list[k]
  OBVIOUS
<1>6. explicit = {k \in DOMAIN given : given[k].pnl # None}
  BY <1>5
<1> DEFINE sumP == SumOver([k \in explicit |-> list[k].pnl])
           sumE == SumOver([k \in own |-> list[k].est])
<1>7. SummaryPnl(plan, list) =
        Nearest(IF explicit # {} THEN sumP ELSE IF plan.priced THEN sumE ELSE 0, Cent)
  <2>1. SummaryPnl(plan, list) = Nearest(Attribution(list)!PlanRealizedPnl(plan, given), Cent)
    BY <1>3 DEF SummaryPnl
  <2>2. \A f : Attribution(list)!SumOver(f) = SumOver(f)
    BY SameNumbers
  <2>3. [k \in explicit |-> given[k].pnl] = [k \in explicit |-> list[k].pnl]
    BY <1>5
  <2>4. [k \in DOMAIN given |-> given[k].est] = [k \in own |-> list[k].est]
    BY <1>5
  <2> DEFINE ex == {k \in DOMAIN given : given[k].pnl # None}
  <2>5. Attribution(list)!PlanRealizedPnl(plan, given) =
          IF ex # {} THEN Attribution(list)!SumOver([k \in ex |-> given[k].pnl])
          ELSE IF plan.priced
               THEN Attribution(list)!SumOver([k \in DOMAIN given |-> given[k].est]) ELSE 0
    BY DEF Attribution!PlanRealizedPnl
  <2>6. ex = explicit
    BY <1>6
  <2> HIDE DEF given, explicit, ex, list, plan
  <2>7. Attribution(list)!PlanRealizedPnl(plan, given) =
          IF ex # {} THEN SumOver([k \in ex |-> given[k].pnl])
          ELSE IF plan.priced THEN SumOver([k \in DOMAIN given |-> given[k].est]) ELSE 0
    <3>1. Attribution(list)!SumOver([k \in ex |-> given[k].pnl])
            = SumOver([k \in ex |-> given[k].pnl])
      BY <2>2
    <3>2. Attribution(list)!SumOver([k \in DOMAIN given |-> given[k].est])
            = SumOver([k \in DOMAIN given |-> given[k].est])
      BY <2>2
    <3> QED BY <2>5, <3>1, <3>2
  <2>8. Attribution(list)!PlanRealizedPnl(plan, given) =
          IF explicit # {} THEN SumOver([k \in explicit |-> given[k].pnl])
          ELSE IF plan.priced THEN SumOver([k \in DOMAIN given |-> given[k].est]) ELSE 0
    BY <2>6, <2>7, Zenon
  <2> QED BY <2>1, <2>3, <2>4, <2>8, Zenon DEF list, plan
<1>8. \A k \in own : k \in DOMAIN s /\ s[k] \in PagingProofs!Row /\ CountsFor(s[k], plan)
  BY LenProperties, ElementOfSeq DEF own
<1>9. \A r \in PagingProofs!Row : (r.content.pnl # None => r.content.pnl \in Int)
                                   /\ r.content.est \in Int
  BY ContentsAssumption, AmountsAssumption DEF PagingProofs!Row
<1>10. {s[k] : k \in own} = rows
  BY CountedIsNamed DEF own, Naming, Listed
<1>11. {s[k] : k \in explicit} = {r \in rows : r.content.pnl # None}
  BY <1>2, <1>8, <1>10
<1>12. sumP = TotalOf(PnlOfRow, {r \in rows : r.content.pnl # None})
  <2> DEFINE f == [k \in explicit |-> list[k].pnl]
  <2>1. \A k \in explicit : f[k] = PnlOfRow[s[k]] /\ f[k] \in Int
    BY <1>2, <1>8, <1>9 DEF PnlOfRow
  <2>2. DOMAIN f = explicit
    OBVIOUS
  <2> HIDE DEF f, explicit
  <2>3. SumOver(f) = TotalOf(PnlOfRow, {s[k] : k \in explicit})
    BY <1>4, <2>1, <2>2, SumByRows
  <2> QED BY <1>11, <2>3, Zenon DEF f
<1>13. sumE = TotalOf(EstOfRow, rows)
  <2> DEFINE f == [k \in own |-> list[k].est]
  <2>1. \A k \in own : f[k] = EstOfRow[s[k]] /\ f[k] \in Int
    BY <1>2, <1>8, <1>9 DEF EstOfRow
  <2>2. DOMAIN f = own
    OBVIOUS
  <2> HIDE DEF f
  <2>3. SumOver(f) = TotalOf(EstOfRow, {s[k] : k \in own})
    BY <1>4, <2>1, <2>2, SumByRows
  <2> QED BY <1>10, <2>3, Zenon DEF f
<1>14. explicit # {} <=> {r \in rows : r.content.pnl # None} # {}
  BY <1>11
<1> HIDE DEF sumP, sumE, explicit, rows, list
<1> QED BY <1>7, <1>12, <1>13, <1>14, Zenon DEF SummaryOf, rows, list

(* The same rows name a complete plan in the answer and in the account, so *)
(* that it has the same P&L in both.                                       *)
LEMMA SamePnl ==
  ASSUME RequestInv, AnsweringWithFills, NothingMissing,
         NEW k \in DOMAIN read_plans, Complete(read_plans[k])
  PROVE  /\ RealizedPnl(read_plans[k], Account) = RealizedPnl(read_plans[k], Stored)
         /\ SummaryPnl(read_plans[k], Account) = SummaryPnl(read_plans[k], Stored)
<1> DEFINE u == Paging!FirstOccurrences(table)
           plan == read_plans[k]
<1>1. /\ u \in Seq(PagingProofs!Row) /\ ~Twice(u)
      /\ Naming(fills, plan) = Naming(u, plan)
  BY SameNaming, FirstsNaming DEF RequestInv, ReaderType, PagingProofs!TypeOK, RowsInv
<1>2. fills \in Seq(PagingProofs!Row) /\ ~Twice(fills) /\ EndpointInv
  <2>1. fills \in Seq(PagingProofs!Row) /\ DOMAIN fills = 1..Len(fills)
    BY LenProperties DEF RequestInv, ReaderType, PagingProofs!TypeOK
  <2> QED BY <2>1 DEF RequestInv, ReaderInv, PagingProofs!NoIdentityTwice, Twice, Id
<1>3. Stored = FillsOf(u) /\ Account = FillsOf(fills)
  BY DEF Stored, Account
<1> HIDE DEF u
<1>4. RealizedPnl(plan, FillsOf(fills)) = RealizedPnl(plan, FillsOf(u))
  <2>1. RealizedPnl(plan, FillsOf(fills)) = EarnedOf(fills, plan)
    BY <1>2, LearningPnl
  <2>2. RealizedPnl(plan, FillsOf(u)) = EarnedOf(u, plan)
    BY <1>1, LearningPnl
  <2>3. Earning(fills, plan) = Earning(u, plan)
    BY <1>1 DEF Earning
  <2> QED BY <2>1, <2>2, <2>3, Zenon DEF EarnedOf
<1>5. SummaryPnl(plan, FillsOf(fills)) = SummaryPnl(plan, FillsOf(u))
  <2> DEFINE counted(s) == {r \in Naming(s, plan) : CountsFor(r, plan)}
  <2>1. SummaryPnl(plan, FillsOf(fills)) = Nearest(SummaryOf(counted(fills), plan), Cent)
    BY <1>2, SummaryPnlOfRows
  <2>2. SummaryPnl(plan, FillsOf(u)) = Nearest(SummaryOf(counted(u), plan), Cent)
    BY <1>1, <1>2, SummaryPnlOfRows
  <2>3. counted(fills) = counted(u)
    BY <1>1
  <2> HIDE DEF counted
  <2> QED BY <2>1, <2>2, <2>3, Zenon
<1> QED BY <1>3, <1>4, <1>5, Zenon

(* Neither endpoint gives a plan that was complete when it was read the    *)
(* P&L of a part of its fills, whatever other agents write while the fills *)
(* are read page by page.                                                  *)
THEOREM CompletePlansAnswered == Spec => []CompletePlansHaveAllFills
<1>1. RequestInv => CompletePlansHaveAllFills
  BY SamePnl DEF CompletePlansHaveAllFills
<1> QED BY <1>1, RequestAlways, PTL

-----------------------------------------------------------------------------
(* The two readings.  A fill that names only the plan, by its id or order  *)
(* id, is one of the learning path's fills of the plan and is settled on   *)
(* it by the summary; when all that name it are such, both sum the same,   *)
(* and round it to eight places and to cents.                              *)
LEMMA SameReadings ==
  ASSUME RequestInv, AnsweringWithFills, NEW n \in DOMAIN read_plans,
         IsOutcome(read_plans[n], Account),
         \A k \in DOMAIN Account :
           read_plans[n].id \in Attribution(Account)!Candidates(Account[k]) =>
             /\ Attribution(Account)!Candidates(Account[k]) = {read_plans[n].id}
             /\ k \in Learning(Account)!FillsForPlan(read_plans[n])
  PROVE  2 * Distance(Fine * RealizedPnl(read_plans[n], Account),
                      Cent * SummaryPnl(read_plans[n], Account)) <= Fine + Cent
<1> DEFINE plan == read_plans[n]
           list == Account
           own == {k \in Attribution(list)!Settled :
                     plan.id \in Attribution(list)!Candidates(list[k])}
           given == [k \in own |-> list[k]]
           explicit == {k \in DOMAIN given : given[k].pnl # None}
           real == Learning(list)!RealizedFills(plan)
<1>1. /\ fills \in Seq(PagingProofs!Row) /\ ~Twice(fills)
      /\ list = FillsOf(fills) /\ DOMAIN list = DOMAIN fills
      /\ \A k \in DOMAIN fills : list[k] = FillOf(fills[k])
  <2>1. fills \in Seq(PagingProofs!Row) /\ DOMAIN fills = 1..Len(fills)
    BY LenProperties DEF RequestInv, ReaderType, PagingProofs!TypeOK
  <2> QED BY <2>1 DEF RequestInv, ReaderInv, PagingProofs!NoIdentityTwice, Twice, Id,
                      Account, FillsOf
<1>2. \A f : Attribution(list)!Candidates(f) = Claimants(f)
  BY DEF Attribution!Candidates, Attribution!PlanIdsOfBatch, Attribution!PlansOfOrder,
         Claimants
<1>3. Attribution(list)!Settled =
        {k \in DOMAIN fills : Cardinality(Claimants(list[k])) = 1}
  BY <1>1, SettledFills
<1>4. real = {k \in DOMAIN list :
                /\ \/ list[k].plan = plan.id
                   \/ plan.order # None /\ list[k].order = plan.order
                /\ list[k].pnl # None}
  BY DEF Learning!RealizedFills, Learning!FillsForPlan
<1>5. \A k \in DOMAIN list :
        \/ list[k].plan = plan.id
        \/ plan.order # None /\ list[k].order = plan.order
        => plan.id \in Claimants(list[k])
  BY DEF Claimants
<1>6. \A k \in DOMAIN list : plan.id \in Claimants(list[k]) =>
        /\ Claimants(list[k]) = {plan.id}
        /\ \/ list[k].plan = plan.id
           \/ plan.order # None /\ list[k].order = plan.order
  BY <1>2 DEF Learning!FillsForPlan
<1>7. \A x : Cardinality({x}) = 1
  BY FS_Singleton
<1> HIDE DEF list, real
<1>8. own = {k \in DOMAIN list : plan.id \in Claimants(list[k])}
  BY <1>1, <1>2, <1>3, <1>6, <1>7
<1>9. /\ explicit = real
      /\ \A k \in real : given[k] = list[k]
  <2>1. DOMAIN given = own /\ \A k \in own : given[k] = list[k]
    OBVIOUS
  <2> HIDE DEF given, own
  <2> QED BY <1>4, <1>5, <1>6, <1>8, <2>1
<1>10. real # {}
  <2>1. "realized_pnl_missing" \notin Learning(list)!Issues(plan)
    BY DEF IsOutcome, list
  <2> QED BY <2>1 DEF Learning!Issues, Learning!Unless, real
<1> DEFINE sum == SumOver([k \in real |-> list[k].pnl])
<1>11. [k \in explicit |-> given[k].pnl] = [k \in real |-> list[k].pnl]
  BY <1>9
<1>12. SummaryPnl(plan, list) = Nearest(sum, Cent)
  <2>1. SummaryPnl(plan, list) = Nearest(Attribution(list)!PlanRealizedPnl(plan, given), Cent)
    BY DEF SummaryPnl
  <2>2. explicit # {}
    BY <1>9, <1>10
  <2>3. Attribution(list)!PlanRealizedPnl(plan, given)
          = Attribution(list)!SumOver([k \in explicit |-> given[k].pnl])
    <3> HIDE DEF given
    <3> QED BY <2>2 DEF Attribution!PlanRealizedPnl
  <2> HIDE DEF explicit, given, plan
  <2> QED BY <1>11, <2>1, <2>3, SameNumbers, Zenon
<1>13. RealizedPnl(plan, list) = Nearest(sum, Fine)
  <2>1. RealizedPnl(plan, list)
          = Learning(list)!Nearest(Learning(list)!SumOver([k \in real |-> list[k].pnl]), Fine)
    BY DEF RealizedPnl, Learning!RealizedPnl, real
  <2> QED BY <2>1, SameNumbers, Zenon
<1>14. sum \in Int
  <2> DEFINE f == [k \in real |-> list[k].pnl]
  <2>1. IsFiniteSet(real)
    <3>1. IsFiniteSet(DOMAIN fills)
      BY <1>1, LenProperties, FS_Interval
    <3> QED BY <1>1, <1>4, <3>1, FS_Subset
  <2>2. ASSUME NEW k \in real PROVE f[k] \in Int
    <3>1. k \in DOMAIN fills /\ list[k].pnl # None /\ list[k] = FillOf(fills[k])
      BY <1>1, <1>4
    <3>2. fills[k] \in PagingProofs!Row /\ list[k].pnl = fills[k].content.pnl
      BY <1>1, <3>1, LenProperties, ElementOfSeq DEF FillOf
    <3> QED BY <3>1, <3>2, ContentsAssumption, AmountsAssumption DEF PagingProofs!Row
  <2>3. SumOver(f) = TotalOf(f, real)
    BY DEF SumOver, TotalOf
  <2> HIDE DEF f
  <2>4. SumOver(f) \in Int
    BY <2>1, <2>2, <2>3, TotalType
  <2> QED BY <2>4, Zenon DEF f
<1> DEFINE fine == Nearest(sum, Fine)
           cent == Nearest(sum, Cent)
<1> HIDE DEF sum
<1>15. /\ Fine * fine \in Int /\ Cent * cent \in Int
       /\ 2 * sum - Fine <= 2 * (Fine * fine) /\ 2 * (Fine * fine) <= 2 * sum + Fine
       /\ 2 * sum - Cent <= 2 * (Cent * cent) /\ 2 * (Cent * cent) <= 2 * sum + Cent
  BY <1>14, NearestBy, UnitsAssumption
<1> HIDE DEF fine, cent
<1>16. 2 * Distance(Fine * fine, Cent * cent) <= Fine + Cent
  BY <1>14, <1>15, UnitsAssumption DEF Distance
<1> HIDE DEF plan
<1> QED BY <1>12, <1>13, <1>16, Zenon DEF plan, list, fine, cent

(* From the fills that list_fills returns, an outcome has the P&L that the *)
(* summary gives its plan, to within half a cent and half of an eighth     *)
(* decimal, unless one of the fills names another plan of the batch too,   *)
(* or this one by trade id alone.                                          *)
THEOREM ReadingsAgree == Spec => []TwoReadingsAgree
<1>1. RequestInv => TwoReadingsAgree
  BY SameReadings DEF TwoReadingsAgree
<1> QED BY <1>1, RequestAlways, PTL

-----------------------------------------------------------------------------
(* What was answered stays true.  The P&L last given for a plan is that of *)
(* a complete plan of the account, from all fills that will ever name it.  *)
PublishedInv ==
  \A p \in PlanIds : published[p] # None =>
    \E plan \in Listed(listing) :
      /\ plan.id = p /\ Complete(plan)
      /\ published[p] = EarnedOf(table, plan)

(* What this makes of the next state.                                      *)
LEMMA PublishedNext ==
  PublishedInv' <=>
    \A p \in PlanIds : published'[p] # None =>
      \E plan \in Listed(listing') :
        /\ plan.id = p /\ Complete(plan)
        /\ published'[p] = EarnedOf(table', plan)
<1>1. \A plan : Complete(plan)' <=> Complete(plan)
  BY DEF Complete, Learning!ExecutionStatus, Learning!LEARNABLE_EXECUTION_STATUSES,
         Learning!First, Learning!Found
<1>2. \A plan : Earning(table, plan)' = Earning(table', plan)
  BY DEF Earning, Naming, Names, Listed
<1>3. \A plan : EarnedOf(table, plan)' = EarnedOf(table', plan)
  <2>1. \A plan : TotalOf(PnlOfRow, Earning(table, plan))'
                    = TotalOf(PnlOfRow, Earning(table', plan))
    BY <1>2, Zenon DEF TotalOf, PnlOfRow, MapThenSumSet, MapThenFoldSet
  <2> QED BY <2>1, Zenon DEF EarnedOf, Nearest
<1>4. Listed(listing)' = Listed(listing')
  BY DEF Listed
<1> QED BY <1>1, <1>3, <1>4 DEF PublishedInv

(* StoreFill adds no row that names a complete plan of the account.        *)
LEMMA EarningStays ==
  ASSUME RequestInv, [Next]_vars, NEW plan \in Listed(listing), Complete(plan)
  PROVE  Earning(table', plan) = Earning(table, plan)
<1>1. CASE StoreFill
  <2>1. /\ Paging!Insert
        /\ \A n \in DOMAIN listing : Complete(listing[n]) =>
             \A k \in DOMAIN table' : Names(table'[k], listing[n]) =>
               \E m \in DOMAIN table : table[m] = table'[k]
    BY <1>1 DEF StoreFill
  <2>2. Listed(table) \subseteq Listed(table')
    BY <2>1, SameSteps, InsertKeeps DEF RequestInv
  <2>3. PICK n \in DOMAIN listing : listing[n] = plan
    BY DEF Listed
  <2>4. \A r \in Listed(table') : Names(r, plan) => r \in Listed(table)
    BY <2>1, <2>3 DEF Listed
  <2>5. Naming(table', plan) = Naming(table, plan)
    BY <2>2, <2>4 DEF Naming
  <2> QED BY <2>5 DEF Earning
<1>2. CASE ~StoreFill
  <2>1. table' = table
    BY <1>2 DEF Next, PlansInvalid, PlansFail, FillsFailed, Abandon, OpenPlan,
       ClosePlan, Write, Begin, ReadPlans, ReadFills, Answer, vars, dbVars,
       Paging!Reader, Paging!Progress, Paging!FetchPage, Paging!FetchEmpty,
       Paging!FetchRepeated, Paging!TakeRow, Paging!RejectRow, Paging!EndPage,
       Paging!FetchFails, Paging!dbVars
  <2> QED BY <2>1
<1> QED BY <1>1, <1>2

(* An answer gives for each of its outcomes the P&L of all the fills that  *)
(* name the plan.                                                          *)
LEMMA AnswerGivesAll ==
  ASSUME RequestInv, Answer, NEW p \in PlanIds
  PROVE  \/ published'[p] = published[p]
         \/ \E plan \in Listed(listing) :
              /\ plan.id = p /\ Complete(plan)
              /\ published'[p] = EarnedOf(table, plan)
<1> DEFINE own == {k \in Outcomes : read_plans[k].id = p}
           k == CHOOSE n \in own : TRUE
<1>1. published'[p] = IF own = {} \/ ~Fits THEN published[p]
                      ELSE RealizedPnl(read_plans[k], Account)
  BY DEF Answer
<1>2. CASE own = {} \/ ~Fits
  BY <1>1, <1>2
<1>3. CASE own # {} /\ Fits
  <2>1. k \in own
    BY <1>3
  <2> HIDE DEF k
  <2>2. /\ query.endpoint = "learning" /\ k \in DOMAIN read_plans
        /\ IsOutcome(read_plans[k], Account) /\ read_plans[k].id = p
    BY <2>1 DEF Outcomes
  <2>3. Complete(read_plans[k])
    <3>1. "execution_not_complete" \notin Learning(Account)!Issues(read_plans[k])
      BY <2>2 DEF IsOutcome
    <3>2. Learning(Account)!ExecutionStatus(read_plans[k])
            \in Learning(Account)!LEARNABLE_EXECUTION_STATUSES
      BY <3>1 DEF Learning!Issues, Learning!Unless, Learning!Executed
    <3>3. Learning(Account)!ExecutionStatus(read_plans[k])
            = Learning(<< >>)!ExecutionStatus(read_plans[k])
      BY DEF Learning!ExecutionStatus, Learning!First, Learning!Found, Learning!Min
    <3> QED BY <3>2, <3>3 DEF Complete, Learning!LEARNABLE_EXECUTION_STATUSES
  <2>4. read_plans[k] \in Listed(listing)
    BY <2>2, <2>3 DEF RequestInv, PlanInv
  <2>5. AnsweringWithFills /\ NothingMissing
    BY <1>3, <2>2 DEF Answer, AnsweringWithFills, NothingMissing
  <2>6. Naming(fills, read_plans[k]) = Naming(table, read_plans[k])
    BY <2>2, <2>3, <2>5, SameNaming
  <2>7. fills \in Seq(PagingProofs!Row) /\ ~Twice(fills)
    <3>1. fills \in Seq(PagingProofs!Row) /\ DOMAIN fills = 1..Len(fills)
      BY LenProperties DEF RequestInv, ReaderType, PagingProofs!TypeOK
    <3> QED BY <3>1 DEF RequestInv, ReaderInv, PagingProofs!NoIdentityTwice, Twice, Id
  <2>8. RealizedPnl(read_plans[k], Account)
          = EarnedOf(fills, read_plans[k])
    BY <2>7, LearningPnl DEF Account
  <2>9. Earning(fills, read_plans[k]) = Earning(table, read_plans[k])
    BY <2>6 DEF Earning
  <2>10. published'[p] = EarnedOf(table, read_plans[k])
    BY <1>1, <1>3, <2>8, <2>9, Zenon DEF EarnedOf
  <2> QED BY <2>2, <2>3, <2>4, <2>10
<1> QED BY <1>2, <1>3

(* Steps keep this, and give no plan another P&L.                          *)
LEMMA PublishedStep ==
  ASSUME RequestInv, PublishedInv, [Next]_vars
  PROVE  /\ PublishedInv'
         /\ \A p \in PlanIds : published[p] # None => published'[p] = published[p]
<1>1. ASSUME NEW plan \in Listed(listing), Complete(plan)
      PROVE  /\ plan \in Listed(listing')
             /\ Earning(table', plan) = Earning(table, plan)
  <2>1. CASE \E p \in PlanIds : OpenPlan(p) \/ ClosePlan(p)
    BY <1>1, <2>1, CompleteStays, EarningStays DEF RequestInv
  <2>2. CASE ~\E p \in PlanIds : OpenPlan(p) \/ ClosePlan(p)
    <3>1. listing' = listing
      BY <2>2 DEF Next, PlansInvalid, PlansFail, FillsFailed, Abandon, StoreFill,
         Begin, ReadPlans, ReadFills, Answer, vars, dbVars
    <3> QED BY <1>1, <3>1, EarningStays
  <2> QED BY <2>1, <2>2
<1>2. ASSUME NEW p \in PlanIds
      PROVE  \/ published'[p] = published[p]
             \/ \E plan \in Listed(listing) :
                  /\ plan.id = p /\ Complete(plan)
                  /\ published'[p] = EarnedOf(table, plan)
  <2>1. CASE Answer
    BY <2>1, AnswerGivesAll
  <2>2. CASE ~Answer
    <3>1. published' = published
      BY <2>2 DEF Next, PlansInvalid, PlansFail, FillsFailed, Abandon, StoreFill,
         OpenPlan, ClosePlan, Write, Begin, ReadPlans, ReadFills, vars, ownVars
    <3> QED BY <3>1
  <2> QED BY <2>1, <2>2
<1>3. ASSUME NEW p \in PlanIds, published'[p] # None
      PROVE  \E plan \in Listed(listing) :
               /\ plan.id = p /\ Complete(plan)
               /\ published'[p] = EarnedOf(table, plan)
  BY <1>2, <1>3 DEF PublishedInv
<1>4. ASSUME NEW p \in PlanIds, published'[p] # None
      PROVE  \E plan \in Listed(listing') :
               /\ plan.id = p /\ Complete(plan)
               /\ published'[p] = EarnedOf(table', plan)
  <2>1. PICK plan \in Listed(listing) :
          /\ plan.id = p /\ Complete(plan)
          /\ published'[p] = EarnedOf(table, plan)
    BY <1>3, <1>4
  <2>2. plan \in Listed(listing') /\ Earning(table', plan) = Earning(table, plan)
    BY <1>1, <2>1
  <2>3. published'[p] = EarnedOf(table', plan)
    BY <2>1, <2>2, Zenon DEF EarnedOf
  <2> QED BY <2>1, <2>2, <2>3
<1>5. ASSUME NEW p \in PlanIds, published[p] # None
      PROVE  published'[p] = published[p]
  <2>1. CASE published'[p] = published[p]
    BY <2>1
  <2>2. CASE published'[p] # published[p]
    <3>1. PICK new \in Listed(listing) :
            /\ new.id = p /\ Complete(new)
            /\ published'[p] = EarnedOf(table, new)
      BY <1>2, <2>2
    <3>2. PICK old \in Listed(listing) :
            /\ old.id = p /\ Complete(old)
            /\ published[p] = EarnedOf(table, old)
      BY <1>5 DEF PublishedInv
    <3>3. new = old
      BY <3>1, <3>2 DEF RequestInv, EndpointInv, Unique, Listed
    <3> QED BY <3>1, <3>2, <3>3, Zenon
  <2> QED BY <2>1, <2>2
<1> QED BY <1>4, <1>5, PublishedNext

(* While the account fits the limit, no later request answers for the same *)
(* plan with another P&L: a consumer may keep the first outcome of an id.  *)
THEOREM FirstOutcomeStands == Spec => OutcomesAreFinal
<1>1. Init => PublishedInv
  BY DEF Init, PublishedInv
<1>2. RequestInv /\ PublishedInv /\ [Next]_vars => PublishedInv'
  BY PublishedStep
<1>3. RequestInv /\ PublishedInv /\ [Next]_vars =>
        [\A p \in PlanIds : published[p] # None => published'[p] = published[p]]_published
  BY PublishedStep
<1> QED BY <1>1, <1>2, <1>3, RequestAlways, PTL DEF Spec, OutcomesAreFinal
=============================================================================
