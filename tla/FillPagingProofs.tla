-------------------------- MODULE FillPagingProofs --------------------------
(***************************************************************************)
(* Proofs about FillPaging: for every limit, page size, table and sequence *)
(* of writes by the other agents.                                          *)
(***************************************************************************)
EXTENDS FillPaging, SequenceTheorems, SetSums

-----------------------------------------------------------------------------
(* What the operators on rows return.                                      *)

(* page_size is at least one and within both of its bounds.                *)
LEMMA PageSizeProperties ==
  /\ PageSize \in Nat \ {0}
  /\ PageSize <= Limit
  /\ PageSize <= PageCap
BY LimitsAssumption DEF PageSize, Lesser

(* What is asked for is at least one row and at most a page while the      *)
(* result is short of the limit.                                           *)
LEMMA AskProperties ==
  ASSUME Len(fills) \in Nat, Len(fills) < Limit
  PROVE  /\ Ask \in 1..PageSize
         /\ Ask <= Limit - Len(fills)
BY LimitsAssumption, PageSizeProperties DEF Ask, Lesser

(* Insertion shifts the rows from its position on by one.                  *)
LEMMA InsertedProperties ==
  ASSUME NEW S, NEW s \in Seq(S), NEW k \in 1..Len(s) + 1, NEW r \in S
  PROVE  /\ Inserted(s, k, r) \in Seq(S)
         /\ Len(Inserted(s, k, r)) = Len(s) + 1
         /\ \A n \in 1..Len(s) :
              Inserted(s, k, r)[IF n < k THEN n ELSE n + 1] = s[n]
<1> DEFINE t == Inserted(s, k, r)
<1>1. Len(s) \in Nat /\ \A n \in 1..Len(s) : s[n] \in S
  BY LenProperties, ElementOfSeq
<1>2. t \in [1..Len(s) + 1 -> S]
  BY <1>1 DEF Inserted
<1>3. t \in Seq(S) /\ Len(t) = Len(s) + 1
  BY <1>1, <1>2, SeqDef
<1>4. ASSUME NEW n \in 1..Len(s)
      PROVE  t[IF n < k THEN n ELSE n + 1] = s[n]
  BY <1>1, <1>4 DEF Inserted
<1> QED BY <1>3, <1>4

(* Deletion shifts the rows after its position back by one.                *)
LEMMA DeletedProperties ==
  ASSUME NEW S, NEW s \in Seq(S), NEW k \in 1..Len(s)
  PROVE  /\ Deleted(s, k) \in Seq(S)
         /\ Len(Deleted(s, k)) = Len(s) - 1
         /\ \A n \in 1..Len(s) - 1 :
              Deleted(s, k)[n] = IF n < k THEN s[n] ELSE s[n + 1]
<1> DEFINE t == Deleted(s, k)
<1>1. Len(s) \in Nat /\ Len(s) - 1 \in Nat
         /\ \A n \in 1..Len(s) : s[n] \in S
  BY LenProperties, ElementOfSeq
<1>2. t \in [1..Len(s) - 1 -> S]
  BY <1>1 DEF Deleted
<1>3. t \in Seq(S) /\ Len(t) = Len(s) - 1
  BY <1>1, <1>2, SeqDef
<1> QED BY <1>1, <1>3 DEF Deleted

(* A reply is a stretch of the table; it is no longer than the request     *)
(* when the limit is applied, and a reply shorter than the request means   *)
(* that the table ends with it.                                            *)
LEMMA ReplyProperties ==
  ASSUME table \in Seq(Row), offset \in Nat,
         Len(fills) \in Nat, Len(fills) < Limit
  PROVE  /\ Reply \in Seq(Row)
         /\ HonoursLimit => Len(Reply) <= Ask
         /\ HonoursOffset =>
              /\ offset + Len(Reply) <= Len(table) \/ Len(Reply) = 0
              /\ \A n \in 1..Len(Reply) : Reply[n] = table[offset + n]
              /\ (DbPageMax >= PageSize /\ Len(Reply) < Ask) =>
                    Len(table) <= offset + Len(Reply)
<1> DEFINE from == IF HonoursOffset THEN offset ELSE 0
           most == IF HonoursLimit THEN Lesser(Ask, DbPageMax) ELSE DbPageMax
           upto == Lesser(from + most, Len(table))
<1>1. from \in Nat /\ most \in Nat \ {0} /\ Len(table) \in Nat /\ Ask \in Nat
  BY AskProperties, LimitsAssumption, LenProperties DEF Lesser
<1> HIDE DEF from, most
<1>2. upto \in Nat /\ upto <= Len(table) /\ upto <= from + most
        /\ (upto = Len(table) \/ upto = from + most)
  BY <1>1 DEF Lesser
<1>3. Reply = SubSeq(table, from + 1, upto)
  BY DEF Reply, from, most
<1> HIDE DEF upto
<1>4. \A n \in from + 1..upto : table[n] \in Row
  BY <1>1, <1>2, ElementOfSeq
<1>5. /\ Reply \in Seq(Row)
      /\ Len(Reply) = IF from + 1 <= upto THEN upto - (from + 1) + 1 ELSE 0
      /\ \A n \in 1..upto - (from + 1) + 1 :
            Reply[n] = table[(from + 1) + n - 1]
  BY <1>1, <1>2, <1>3, <1>4, SubSeqProperties
<1>6. HonoursLimit => Len(Reply) <= Ask
  <2>1. HonoursLimit => most <= Ask
    BY <1>1, LimitsAssumption DEF most, Lesser
  <2> QED BY <2>1, <1>1, <1>2, <1>5
<1>7. ASSUME HonoursOffset
      PROVE  /\ offset + Len(Reply) <= Len(table) \/ Len(Reply) = 0
             /\ \A n \in 1..Len(Reply) : Reply[n] = table[offset + n]
  <2>1. from = offset
    BY <1>7 DEF from
  <2> QED BY <2>1, <1>1, <1>2, <1>5
<1>8. ASSUME HonoursOffset, DbPageMax >= PageSize, Len(Reply) < Ask
      PROVE  Len(table) <= offset + Len(Reply)
  <2>1. from = offset
    BY <1>8 DEF from
  <2>2. Ask <= most
    BY <1>8, AskProperties, LimitsAssumption, PageSizeProperties
       DEF most, Lesser
  <2> QED BY <2>1, <2>2, <1>1, <1>2, <1>5, <1>8
<1> QED BY <1>5, <1>6, <1>7, <1>8

-----------------------------------------------------------------------------
(* Type correctness: the variables of list_fills keep their types.         *)
LEMMA InitType == Init => TypeOK
<1> SUFFICES ASSUME Init PROVE TypeOK
  OBVIOUS
<1>1. PICK n \in 0..MaxTable : table \in [1..n -> Row]
  BY DEF Init
<1>2. table \in Seq(Row) /\ Len(table) <= MaxTable
  BY <1>1, LimitsAssumption, SeqDef
<1>3. 0 \in 0..PageSize /\ 0 \in 0..CountTo /\ 0 \in 0..MaxDeletes
  BY LimitsAssumption, PageSizeProperties DEF CountTo
<1> QED BY <1>2, <1>3, LimitsAssumption DEF Init, TypeOK

(* _fill_identity yields identities.                                       *)
LEMMA IdentityType ==
  /\ \A r \in Row : FillIdentity(r) \in Identities
  /\ \A s \in Seq(Row) : IdentitiesIn(s) \subseteq Identities
<1>1. \A r \in Row : FillIdentity(r) \in Identities
  BY DEF Identities
<1>2. ASSUME NEW s \in Seq(Row) PROVE IdentitiesIn(s) \subseteq Identities
  BY <1>1, LenProperties, ElementOfSeq DEF IdentitiesIn
<1> QED BY <1>1, <1>2

(* While list_fills is about to send a request the result is short of the  *)
(* limit: the test of `while`.                                             *)
FetchShort == pc = "fetch" => Len(fills) < Limit

(* A reply holds rows, and the request was for at most a page.             *)
LEMMA ServedType ==
  ASSUME TypeOK, FetchShort, pc = "fetch", Served
  PROVE  /\ page' \in Seq(Row)
         /\ page' = Reply
         /\ asked' \in 0..PageSize
         /\ requests' \in 0..CountTo
         /\ standing' \subseteq Identities
         /\ still' \in BOOLEAN
<1>1. Len(fills) \in Nat /\ Len(fills) < Limit
  BY LenProperties DEF TypeOK, FetchShort
<1>2. Reply \in Seq(Row) /\ Ask \in 1..PageSize
  BY <1>1, ReplyProperties, AskProperties DEF TypeOK
<1>3. Lesser(requests + 1, CountTo) \in 0..CountTo
  BY DEF TypeOK, Lesser, CountTo
<1>4. IdentitiesIn(table) \subseteq Identities
  BY IdentityType DEF TypeOK
<1> QED BY <1>2, <1>3, <1>4, PageSizeProperties DEF Served, TypeOK

(* Every step, of the reader or of another agent, keeps the types.         *)
LEMMA NextType ==
  ASSUME TypeOK, FetchShort, [Next]_vars
  PROVE  TypeOK' /\ FetchShort'
<1> USE DEF readVars, histVars, dbVars
<1>1. CASE Insert
  <2>1. PICK k \in 1..Len(table) + 1, r \in Row : table' = Inserted(table, k, r)
    BY <1>1 DEF Insert
  <2>2. table' \in Seq(Row) /\ Len(table') = Len(table) + 1
    BY <2>1, InsertedProperties DEF TypeOK
  <2>3. Len(table') <= MaxTable
    BY <1>1, <2>2, LimitsAssumption, LenProperties DEF Insert, TypeOK
  <2> QED BY <1>1, <2>2, <2>3 DEF Insert, TypeOK, FetchShort
<1>2. CASE Delete
  <2>1. PICK k \in 1..Len(table) :
          table' = Deleted(table, k) /\ standing' \subseteq standing
    BY <1>2 DEF Delete
  <2>2. table' \in Seq(Row) /\ Len(table') = Len(table) - 1
    BY <2>1, DeletedProperties DEF TypeOK
  <2>3. Len(table') <= MaxTable /\ deletes' \in 0..MaxDeletes
    BY <1>2, <2>2, LimitsAssumption, LenProperties DEF Delete, TypeOK
  <2> QED BY <1>2, <2>1, <2>2, <2>3 DEF Delete, TypeOK, FetchShort
<1>3. CASE FetchPage
  <2>1. pc = "fetch" /\ Served
    BY <1>3 DEF FetchPage
  <2>2. Len(page') \in Nat
    BY <2>1, ServedType, LenProperties
  <2> QED BY <1>3, <2>1, <2>2, ServedType DEF FetchPage, TypeOK, FetchShort
<1>4. CASE FetchEmpty
  BY <1>4, ServedType DEF FetchEmpty, TypeOK, FetchShort
<1>5. CASE FetchRepeated
  BY <1>5, ServedType DEF FetchRepeated, TypeOK, FetchShort
<1>6. CASE FetchFails
  BY <1>6 DEF FetchFails, TypeOK, FetchShort
<1>7. CASE TakeRow
  <2>1. Len(page) \in Nat /\ page[i] \in Row
    BY <1>7, LenProperties, ElementOfSeq DEF TakeRow, TypeOK
  <2>2. FillIdentity(page[i]) \in Identities /\ Append(fills, page[i]) \in Seq(Row)
    BY <2>1, IdentityType, AppendProperties DEF TypeOK
  <2>3. fills' \in Seq(Row) /\ seenIds' \subseteq Identities
    BY <1>7, <2>2 DEF TakeRow, TypeOK
  <2>4. i' \in Nat \ {0} /\ i' <= Len(page) + 1
    BY <1>7, <2>1 DEF TakeRow, TypeOK
  <2> QED BY <1>7, <2>3, <2>4 DEF TakeRow, TypeOK, FetchShort
<1>8. CASE RejectRow
  BY <1>8 DEF RejectRow, TypeOK, FetchShort
<1>9. CASE EndPage
  <2>1. Len(page) \in Nat /\ Len(fills) \in Nat
    BY LenProperties DEF TypeOK
  <2>2. pc' \in {"done", "fetch"} /\ (pc' = "fetch" => Len(fills) < Limit)
    BY <1>9, <2>1, LimitsAssumption DEF EndPage
  <2> QED BY <1>9, <2>1, <2>2 DEF EndPage, NextOffset, TypeOK, FetchShort
<1>10. CASE Returned
  BY <1>10 DEF Returned, vars, TypeOK, FetchShort
<1>11. CASE UNCHANGED vars
  BY <1>11 DEF vars, TypeOK, FetchShort
<1> QED BY <1>1, <1>2, <1>3, <1>4, <1>5, <1>6, <1>7, <1>8, <1>9, <1>10, <1>11
        DEF Next, Reader, Progress

(* However the table moves, the variables of list_fills keep their types   *)
(* and it only asks for more while it is short of the limit.               *)
THEOREM TypeCorrect == Spec => [](TypeOK /\ FetchShort)
<1>1. Init => TypeOK /\ FetchShort
  <2>1. Init => FetchShort
    BY LimitsAssumption, EmptySeq DEF Init, FetchShort
  <2> QED BY <2>1, InitType
<1>2. TypeOK /\ FetchShort /\ [Next]_vars => (TypeOK /\ FetchShort)'
  BY NextType
<1> QED BY <1>1, <1>2, PTL DEF Spec

-----------------------------------------------------------------------------
(* No fill twice.  The property is inductive once seenIds is known to be   *)
(* the identities of the fills kept so far.                                *)
SeenInv == seenIds = IdentitiesIn(fills)

(* fills.append adds one identity to those of the result.                  *)
LEMMA AppendIdentities ==
  ASSUME NEW s \in Seq(Row), NEW r \in Row
  PROVE  IdentitiesIn(Append(s, r)) = IdentitiesIn(s) \cup {FillIdentity(r)}
<1> DEFINE t == Append(s, r)
<1>1. /\ Len(s) \in Nat /\ DOMAIN s = 1..Len(s) /\ DOMAIN t = 1..Len(s) + 1
      /\ \A k \in 1..Len(s) : t[k] = s[k]
      /\ t[Len(s) + 1] = r
  BY AppendProperties, LenProperties
<1> HIDE DEF t
<1>2. IdentitiesIn(t) = {FillIdentity(t[k]) : k \in 1..Len(s) + 1}
  BY <1>1 DEF IdentitiesIn
<1>3. IdentitiesIn(s) = {FillIdentity(s[k]) : k \in 1..Len(s)}
  BY <1>1 DEF IdentitiesIn
<1>4. 1..Len(s) + 1 = (1..Len(s)) \cup {Len(s) + 1}
  BY <1>1
<1>5. \A k \in 1..Len(s) : FillIdentity(t[k]) = FillIdentity(s[k])
  BY <1>1
<1>6. IdentitiesIn(t) = IdentitiesIn(s) \cup {FillIdentity(r)}
  BY <1>1, <1>2, <1>3, <1>4, <1>5
<1> QED BY <1>6 DEF t

(* Only TakeRow lengthens the result, with an identity not in              *)
(* seen_fill_ids.                                                          *)
LEMMA NoIdentityTwiceStep ==
  ASSUME TypeOK, FetchShort, SeenInv, NoIdentityTwice, [Next]_vars
  PROVE  (SeenInv /\ NoIdentityTwice)'
<1> USE DEF readVars, histVars, dbVars
<1>1. CASE UNCHANGED <<fills, seenIds>>
  BY <1>1 DEF SeenInv, NoIdentityTwice, IdentitiesIn
<1>2. CASE TakeRow /\ ~Known(page[i])
  <2> DEFINE r == page[i]
  <2>1. r \in Row /\ fills \in Seq(Row)
    BY <1>2, LenProperties, ElementOfSeq DEF TakeRow, TypeOK
  <2>2. fills' = Append(fills, r) /\ seenIds' = seenIds \cup {FillIdentity(r)}
    BY <1>2 DEF TakeRow
  <2>3. FillIdentity(r) \notin IdentitiesIn(fills)
    BY <1>2 DEF Known, SeenInv
  <2> HIDE DEF r
  <2>4. SeenInv'
    BY <2>1, <2>2, AppendIdentities DEF SeenInv
  <2>5. /\ Len(fills) \in Nat /\ DOMAIN fills = 1..Len(fills)
        /\ Len(fills') = Len(fills) + 1
        /\ \A k \in 1..Len(fills) : fills'[k] = fills[k]
        /\ fills'[Len(fills) + 1] = r
    BY <2>1, <2>2, AppendProperties, LenProperties
  <2>6. \A k \in 1..Len(fills) : FillIdentity(fills[k]) # FillIdentity(r)
    BY <2>3, <2>5 DEF IdentitiesIn
  <2>7. ASSUME NEW m \in 1..Len(fills'), NEW n \in 1..Len(fills'),
               FillIdentity(fills'[m]) = FillIdentity(fills'[n])
        PROVE  m = n
    <3>1. (m \in 1..Len(fills) \/ m = Len(fills) + 1)
            /\ (n \in 1..Len(fills) \/ n = Len(fills) + 1)
      BY <2>5
    <3>2. CASE m \in 1..Len(fills) /\ n \in 1..Len(fills)
      BY <3>2, <2>5, <2>7 DEF NoIdentityTwice
    <3>3. CASE m = Len(fills) + 1 /\ n \in 1..Len(fills)
      BY <3>3, <2>5, <2>6, <2>7
    <3>4. CASE m \in 1..Len(fills) /\ n = Len(fills) + 1
      BY <3>4, <2>5, <2>6, <2>7
    <3> QED BY <3>1, <3>2, <3>3, <3>4
  <2>8. NoIdentityTwice'
    BY <2>7 DEF NoIdentityTwice
  <2> QED BY <2>4, <2>8
<1>3. CASE TakeRow /\ Known(page[i])
  BY <1>1, <1>3 DEF TakeRow
<1>4. CASE ~TakeRow
  BY <1>1, <1>4 DEF Next, Reader, Progress, Insert, Delete, FetchPage, FetchEmpty,
     FetchRepeated, FetchFails, RejectRow, EndPage, Returned, vars
<1> QED BY <1>2, <1>3, <1>4

(* However the table moves between two pages, no execution is returned     *)
(* twice by list_fills.                                                    *)
THEOREM NoFillTwice == Spec => []NoIdentityTwice
<1>1. Init => SeenInv /\ NoIdentityTwice
  <2> SUFFICES ASSUME Init PROVE SeenInv /\ NoIdentityTwice
    OBVIOUS
  <2>1. fills = << >> /\ seenIds = {} /\ Len(fills) = 0 /\ DOMAIN fills = {}
    BY EmptySeq DEF Init
  <2> QED BY <2>1 DEF SeenInv, NoIdentityTwice, IdentitiesIn
<1>2. TypeOK /\ FetchShort /\ SeenInv /\ NoIdentityTwice /\ [Next]_vars
        => (SeenInv /\ NoIdentityTwice)'
  BY NoIdentityTwiceStep
<1> QED BY <1>1, <1>2, TypeCorrect, PTL DEF Spec

-----------------------------------------------------------------------------
(* The limit.                                                              *)
LimitInv ==
  /\ Len(fills) <= Limit
  /\ (pc = "scan" /\ i <= Len(page)) => Len(fills) < Limit

(* The test after each append leaves the row loop at the limit.            *)
LEMMA LimitStep ==
  ASSUME TypeOK, FetchShort, LimitInv, [Next]_vars
  PROVE  LimitInv'
<1> USE DEF readVars, histVars, dbVars, LimitInv
<1>1. CASE FetchPage
  BY <1>1 DEF FetchPage, FetchShort
<1>2. CASE TakeRow
  <2>1. page[i] \in Row /\ Len(fills) \in Nat /\ Len(page) \in Nat
    BY <1>2, LenProperties, ElementOfSeq DEF TakeRow, TypeOK
  <2>2. Len(Append(fills, page[i])) = Len(fills) + 1
    BY <2>1, AppendProperties DEF TypeOK
  <2> QED BY <1>2, <2>1, <2>2, LimitsAssumption DEF TakeRow, Full, TypeOK
<1>3. CASE ~(FetchPage \/ TakeRow)
  BY <1>3 DEF Next, Reader, Progress, Insert, Delete, FetchEmpty, FetchRepeated,
     FetchFails, RejectRow, EndPage, Returned, vars
<1> QED BY <1>1, <1>2, <1>3

(* list_fills never returns more fills than its caller's limit, whatever   *)
(* page sizes Database_Agent answers with.                                 *)
THEOREM LimitKept == Spec => []WithinLimit
<1>1. Init => LimitInv
  BY LimitsAssumption, EmptySeq DEF Init, LimitInv
<1>2. TypeOK /\ FetchShort /\ LimitInv /\ [Next]_vars => LimitInv'
  BY LimitStep
<1>3. LimitInv => WithinLimit
  BY DEF LimitInv, WithinLimit
<1> QED BY <1>1, <1>2, <1>3, TypeCorrect, PTL DEF Spec

-----------------------------------------------------------------------------
(* At most two requests.  A full first page leaves at least one fill, so   *)
(* the second request asks for less than a page and its reply ends the     *)
(* loop; the invariant follows that through the scan of each page.         *)
HonestPages == HonoursLimit /\ Limit <= PageCap

RequestInv ==
  /\ requests <= 2
  /\ pc = "fetch" => requests <= 1
  /\ requests = 0 => fills = << >> /\ pc # "scan"
  /\ (pc = "fetch" /\ requests = 1) => Len(fills) > 0
  /\ pc = "scan" =>
       /\ requests \in {1, 2}
       /\ Len(page) > 0
       /\ seenIds # {} \/ i = 1
       /\ requests = 2 => Len(page) < PageSize

(* An identity in seen_fill_ids came with a fill.                          *)
LEMMA NoFillsNothingSeen ==
  ASSUME TypeOK, SeenInv, seenIds # {}
  PROVE  Len(fills) > 0
<1>1. Len(fills) \in Nat /\ DOMAIN fills = 1..Len(fills)
  BY LenProperties DEF TypeOK
<1> QED BY <1>1 DEF SeenInv, IdentitiesIn

(* Every step keeps the bound on the number of requests: the second asks   *)
(* for less than a page.                                                   *)
LEMMA RequestStep ==
  ASSUME HonestPages, TypeOK, FetchShort, SeenInv, RequestInv, [Next]_vars
  PROVE  RequestInv'
<1> USE DEF readVars, histVars, dbVars
<1>1. PageSize = Limit
  BY LimitsAssumption DEF HonestPages, PageSize, Lesser
<1>2. Len(fills) \in Nat /\ Len(page) \in Nat
  BY LenProperties DEF TypeOK
<1>3. ASSUME pc = "fetch", Served
      PROVE  /\ requests' = requests + 1
             /\ page' \in Seq(Row)
             /\ Len(page') <= Limit - Len(fills)
  <2>1. Len(fills) < Limit
    BY <1>3 DEF FetchShort
  <2>2. Len(Reply) <= Ask /\ Ask <= Limit - Len(fills) /\ Ask \in Nat
    BY <1>2, <2>1, ReplyProperties, AskProperties DEF TypeOK, HonestPages
  <2>3. page' = Reply /\ Reply \in Seq(Row)
    BY <1>3, ServedType
  <2>4. Len(Reply) \in Nat
    BY <2>3, LenProperties
  <2>5. requests' = requests + 1
    BY <1>3 DEF Served, RequestInv, TypeOK, Lesser, CountTo
  <2> QED BY <1>2, <2>2, <2>3, <2>4, <2>5, LimitsAssumption
<1>4. CASE FetchPage
  <2>1. /\ requests' = requests + 1
        /\ page' \in Seq(Row)
        /\ Len(page') <= Limit - Len(fills)
        /\ page' # << >>
    BY <1>3, <1>4, ServedType DEF FetchPage
  <2>2. Len(page') > 0 /\ Len(page') \in Nat
    BY <2>1, EmptySeq
  <2>3. requests = 1 => Len(page') < PageSize
    BY <1>1, <1>2, <1>4, <2>1, <2>2, LimitsAssumption
       DEF RequestInv, FetchPage
  <2> QED BY <1>4, <2>1, <2>2, <2>3 DEF RequestInv, FetchPage, TypeOK
<1>5. CASE FetchEmpty
  BY <1>3, <1>5 DEF FetchEmpty, RequestInv, TypeOK
<1>6. CASE FetchRepeated
  BY <1>3, <1>6 DEF FetchRepeated, RequestInv, TypeOK
<1>7. CASE TakeRow
  <2>1. seenIds' # {}
    BY <1>7 DEF TakeRow, Known
  <2> QED BY <1>7, <2>1 DEF TakeRow, RequestInv
<1>8. CASE EndPage
  <2>1. requests = 2 => pc' = "done"
    BY <1>8 DEF EndPage, RequestInv, ShortPage
  <2>2. Len(fills) > 0
    BY <1>2, <1>8, NoFillsNothingSeen DEF EndPage, RequestInv
  <2> QED BY <1>8, <2>1, <2>2 DEF EndPage, RequestInv, TypeOK
<1>9. CASE Insert \/ Delete \/ FetchFails \/ RejectRow \/ Returned
            \/ UNCHANGED vars
  BY <1>9 DEF Insert, Delete, FetchFails, RejectRow, Returned, vars, RequestInv
<1> QED BY <1>4, <1>5, <1>6, <1>7, <1>8, <1>9 DEF Next, Reader, Progress

(* With a limit of at most one page, as every caller in main.py has, and a *)
(* Database_Agent that applies it, list_fills sends at most two requests,  *)
(* however many fills there are and however many are written meanwhile.    *)
THEOREM TwoRequestsAtMost == Spec => []AtMostTwoRequests
<1>1. CASE HonestPages
  <2>1. Init => SeenInv /\ NoIdentityTwice /\ RequestInv
    <3> SUFFICES ASSUME Init PROVE SeenInv /\ NoIdentityTwice /\ RequestInv
      OBVIOUS
    <3>1. fills = << >> /\ seenIds = {} /\ Len(fills) = 0 /\ DOMAIN fills = {}
      BY EmptySeq DEF Init
    <3> QED BY <3>1 DEF Init, SeenInv, NoIdentityTwice, IdentitiesIn, RequestInv
  <2>2. TypeOK /\ FetchShort /\ SeenInv /\ NoIdentityTwice /\ RequestInv
          /\ [Next]_vars => (SeenInv /\ NoIdentityTwice /\ RequestInv)'
    BY <1>1, NoIdentityTwiceStep, RequestStep
  <2>3. RequestInv => AtMostTwoRequests
    BY DEF RequestInv, AtMostTwoRequests
  <2> QED BY <2>1, <2>2, <2>3, TypeCorrect, PTL DEF Spec
<1>2. CASE ~HonestPages
  <2>1. AtMostTwoRequests
    BY <1>2 DEF HonestPages, AtMostTwoRequests
  <2> QED BY <2>1, PTL
<1> QED BY <1>1, <1>2

-----------------------------------------------------------------------------
(* What a moving table can hide.  A fill that has stood in the table since *)
(* the first reply is either kept, or in the unread rest of the page, or   *)
(* beyond the frontier of what has been fetched, or lost; insertions only  *)
(* push rows away from the reader and lose none, a deletion pulls at most  *)
(* one row over the frontier or takes away one that was beyond it.         *)
InPage == IF pc = "scan" THEN {FillIdentity(page[k]) : k \in i..Len(page)}
                         ELSE {}
Frontier == IF pc = "scan" THEN offset + Len(page) ELSE offset
Ahead == {FillIdentity(table[k]) :
            k \in {n \in 1..Len(table) : n > Frontier}}

Lost == standing \ (seenIds \cup InPage \cup Ahead)
LostAtEnd == standing \ (seenIds \cup InPage)

SkipInv ==
  /\ IsFiniteSet(standing)
  /\ requests = 0 => standing = {} /\ pc # "scan" /\ offset = 0
  /\ Len(fills) < Limit =>
       /\ pc \in {"fetch", "scan"} => Cardinality(Lost) <= deletes
       /\ (pc \in {"scan", "done"} /\ Len(page) < asked) =>
             Cardinality(LostAtEnd) <= deletes

(* A part of a set is no larger than the set.                              *)
LEMMA SmallerSet ==
  ASSUME NEW A, NEW B, NEW n \in Nat,
         IsFiniteSet(A), B \subseteq A, Cardinality(A) <= n
  PROVE  IsFiniteSet(B) /\ Cardinality(B) <= n
<1>1. IsFiniteSet(B) /\ Cardinality(B) <= Cardinality(A)
  BY FS_Subset
<1>2. Cardinality(A) \in Nat /\ Cardinality(B) \in Nat
  BY <1>1, FS_CardinalityType
<1> QED BY <1>1, <1>2

(* A set grown by one element is larger by at most one.                    *)
LEMMA OneMore ==
  ASSUME NEW A, NEW B, NEW x, NEW n \in Nat,
         IsFiniteSet(A), B \subseteq A \cup {x}, Cardinality(A) <= n
  PROVE  Cardinality(B) <= n + 1
<1>1. /\ IsFiniteSet(A \cup {x})
      /\ Cardinality(A \cup {x}) =
           IF x \in A THEN Cardinality(A) ELSE Cardinality(A) + 1
  BY FS_AddElement
<1>2. Cardinality(A) \in Nat
  BY FS_CardinalityType
<1>3. Cardinality(A \cup {x}) <= n + 1
  BY <1>1, <1>2
<1> QED BY <1>1, <1>3, SmallerSet

(* A table holds finitely many identities.                                 *)
LEMMA IdentitiesFinite ==
  ASSUME NEW s \in Seq(Row) PROVE IsFiniteSet(IdentitiesIn(s))
<1>1. Len(s) \in Nat /\ DOMAIN s = 1..Len(s)
  BY LenProperties
<1>2. IsFiniteSet(1..Len(s))
  BY <1>1, FS_Interval
<1> DEFINE f == [k \in 1..Len(s) |-> FillIdentity(s[k])]
<1>3. f \in Surjection(1..Len(s), IdentitiesIn(s))
  BY <1>1 DEF Surjection, IdentitiesIn
<1> QED BY <1>2, <1>3, FS_Surjection

(* An insertion keeps every row beyond the frontier beyond it.             *)
LEMMA InsertAhead ==
  ASSUME TypeOK, Insert
  PROVE  Ahead \subseteq Ahead'
<1>1. PICK k \in 1..Len(table) + 1, r \in Row : table' = Inserted(table, k, r)
  BY DEF Insert
<1>2. /\ Len(table') = Len(table) + 1 /\ Len(table) \in Nat
      /\ \A n \in 1..Len(table) :
            table'[IF n < k THEN n ELSE n + 1] = table[n]
  BY <1>1, InsertedProperties, LenProperties DEF TypeOK
<1>3. Frontier' = Frontier /\ Frontier \in Nat
  BY LenProperties DEF Insert, readVars, Frontier, TypeOK
<1>4. ASSUME NEW n \in 1..Len(table), n > Frontier
      PROVE  FillIdentity(table[n]) \in Ahead'
  <2> DEFINE m == IF n < k THEN n ELSE n + 1
  <2>1. m \in 1..Len(table') /\ m > Frontier' /\ table'[m] = table[n]
    BY <1>2, <1>3, <1>4
  <2> QED BY <2>1 DEF Ahead
<1> QED BY <1>4 DEF Ahead

(* A deletion loses at most one identity more.                             *)
LEMMA DeleteLosesOne ==
  ASSUME TypeOK, Delete
  PROVE  \E x : Lost' \subseteq Lost \cup {x}
<1>1. PICK k \in 1..Len(table) : table' = Deleted(table, k)
  BY DEF Delete
<1>2. /\ Len(table') = Len(table) - 1 /\ Len(table) \in Nat
      /\ \A n \in 1..Len(table) - 1 :
            table'[n] = IF n < k THEN table[n] ELSE table[n + 1]
  BY <1>1, DeletedProperties, LenProperties DEF TypeOK
<1>3. Frontier' = Frontier /\ Frontier \in Nat
  BY LenProperties DEF Delete, readVars, Frontier, TypeOK
<1>4. standing' \subseteq standing /\ seenIds' = seenIds /\ InPage' = InPage
  BY DEF Delete, readVars, InPage
<1> DEFINE x == FillIdentity(table[IF k > Frontier THEN k ELSE Frontier + 1])
<1>5. ASSUME NEW n \in 1..Len(table), n > Frontier,
             FillIdentity(table[n]) # x
      PROVE  FillIdentity(table[n]) \in Ahead'
  <2> DEFINE m == IF n < k THEN n ELSE n - 1
  <2>1. n # k /\ (k <= Frontier => n # Frontier + 1)
    BY <1>3, <1>5
  <2>2. m \in 1..Len(table') /\ m > Frontier' /\ table'[m] = table[n]
    BY <2>1, <1>2, <1>3, <1>5
  <2> QED BY <2>2 DEF Ahead
<1>6. Ahead \subseteq Ahead' \cup {x}
  BY <1>5 DEF Ahead
<1>7. Lost' \subseteq Lost \cup {x}
  BY <1>4, <1>6 DEF Lost
<1> QED BY <1>7

(* The rows a reply takes over the frontier are the rows of the new page.  *)
LEMMA FetchAhead ==
  ASSUME TypeOK, FetchShort, HonoursOffset, FetchPage
  PROVE  Ahead \subseteq InPage' \cup Ahead'
<1>1. /\ pc = "fetch" /\ pc' = "scan" /\ i' = 1 /\ page' = Reply
      /\ table' = table /\ offset' = offset
  BY DEF FetchPage, Served, dbVars
<1>2. /\ Len(Reply) \in Nat /\ Len(table) \in Nat /\ offset \in Nat
      /\ \A n \in 1..Len(Reply) : Reply[n] = table[offset + n]
  BY <1>1, ReplyProperties, LenProperties DEF TypeOK, FetchShort
<1>3. Frontier = offset /\ Frontier' = offset + Len(Reply)
  BY <1>1 DEF Frontier
<1>4. ASSUME NEW n \in 1..Len(table), n > offset
      PROVE  FillIdentity(table[n]) \in InPage' \cup Ahead'
  <2>1. CASE n <= offset + Len(Reply)
    <3>1. n - offset \in i'..Len(page') /\ page'[n - offset] = table[n]
      BY <1>1, <1>2, <1>4, <2>1
    <3> QED BY <3>1, <1>1 DEF InPage
  <2>2. CASE n > offset + Len(Reply)
    BY <1>1, <1>3, <2>2 DEF Ahead
  <2> QED BY <1>2, <2>1, <2>2
<1> QED BY <1>3, <1>4 DEF Ahead

SteadyPages == HonoursOffset /\ DbPageMax >= PageSize

(* Every step keeps the count of what the read has lost at most that of    *)
(* the deletions.                                                          *)
LEMMA SkipStep ==
  ASSUME SteadyPages, TypeOK, FetchShort, LimitInv, SkipInv, [Next]_vars
  PROVE  SkipInv'
<1> USE DEF readVars, histVars, dbVars
<1>1. /\ Len(fills) \in Nat /\ Len(page) \in Nat /\ deletes \in Nat
      /\ IsFiniteSet(standing) /\ IsFiniteSet(Lost) /\ IsFiniteSet(LostAtEnd)
  BY LenProperties, FS_Subset DEF TypeOK, SkipInv, Lost, LostAtEnd
<1>2. ASSUME pc = "fetch", Served
      PROVE  /\ IsFiniteSet(standing') /\ requests' # 0
             /\ requests # 0 => standing' = standing
             /\ requests = 0 => standing' = Ahead
  <2>1. IsFiniteSet(standing')
    BY <1>1, <1>2, IdentitiesFinite DEF Served, TypeOK
  <2>2. requests = 0 => IdentitiesIn(table) = Ahead
    BY <1>2, LenProperties DEF SkipInv, Ahead, Frontier, IdentitiesIn, TypeOK
  <2> QED BY <1>2, <2>1, <2>2 DEF Served, Lesser, CountTo, TypeOK
<1>3. CASE Insert
  <2>1. Lost' \subseteq Lost /\ LostAtEnd' = LostAtEnd
    BY <1>3, InsertAhead DEF Insert, Lost, LostAtEnd, InPage
  <2>2. Cardinality(Lost) <= deletes => Cardinality(Lost') <= deletes
    BY <1>1, <2>1, SmallerSet
  <2> QED BY <1>3, <2>1, <2>2 DEF Insert, SkipInv
<1>4. CASE Delete
  <2>1. /\ standing' \subseteq standing /\ LostAtEnd' \subseteq LostAtEnd
        /\ deletes' = deletes + 1 /\ requests # 0
    BY <1>4 DEF Delete, LostAtEnd, InPage, TypeOK
  <2>2. PICK x : Lost' \subseteq Lost \cup {x}
    BY <1>4, DeleteLosesOne
  <2>3. Cardinality(Lost) <= deletes => Cardinality(Lost') <= deletes'
    BY <1>1, <2>1, <2>2, OneMore
  <2>4. Cardinality(LostAtEnd) <= deletes => Cardinality(LostAtEnd') <= deletes'
    <3>1. Cardinality(LostAtEnd) <= deletes => Cardinality(LostAtEnd') <= deletes
      BY <1>1, <2>1, SmallerSet
    <3>2. Cardinality(LostAtEnd') \in Nat
      BY <1>1, <2>1, FS_Subset, FS_CardinalityType
    <3> QED BY <1>1, <2>1, <3>1, <3>2
  <2>5. IsFiniteSet(standing')
    BY <1>1, <2>1, FS_Subset
  <2> QED BY <1>4, <2>1, <2>3, <2>4, <2>5 DEF Delete, SkipInv
<1>5. CASE FetchPage
  <2>1. pc = "fetch" /\ pc' = "scan" /\ Served /\ InPage = {}
    BY <1>5 DEF FetchPage, InPage
  <2>2. Ahead \subseteq InPage' \cup Ahead'
    BY <1>5, FetchAhead DEF SteadyPages
  <2>3. Lost' \subseteq Lost
    <3>1. CASE requests = 0
      BY <1>2, <2>1, <2>2, <3>1 DEF Lost
    <3>2. CASE requests # 0
      BY <1>2, <1>5, <2>1, <2>2, <3>2 DEF Lost, FetchPage
    <3> QED BY <3>1, <3>2
  <2>4. Len(page') < asked' => LostAtEnd' = Lost'
    <3>1. page' = Reply /\ asked' = Ask /\ table' = table /\ offset' = offset
      BY <1>5 DEF FetchPage, Served
    <3>2. Len(Reply) < Ask => Len(table) <= offset + Len(Reply)
      BY <1>1, <2>1, ReplyProperties DEF TypeOK, FetchShort, SteadyPages
    <3>3. Len(table') \in Nat /\ Len(page') \in Nat /\ offset \in Nat
      BY <2>1, <3>1, ServedType, LenProperties DEF TypeOK
    <3>4. Len(page') < asked' => Ahead' = {}
      BY <2>1, <3>1, <3>2, <3>3 DEF Ahead, Frontier
    <3> QED BY <3>4 DEF Lost, LostAtEnd
  <2>5. Len(fills) < Limit => Cardinality(Lost') <= deletes
    BY <1>1, <2>1, <2>3, SmallerSet DEF SkipInv
  <2> QED BY <1>2, <1>5, <2>1, <2>4, <2>5 DEF FetchPage, SkipInv
<1>6. CASE FetchEmpty
  <2>1. pc = "fetch" /\ pc' = "done" /\ Served /\ InPage = {} /\ InPage' = {}
    BY <1>6 DEF FetchEmpty, InPage
  <2>2. Ahead = {}
    <3>1. Ask > 0 /\ Len(Reply) = 0
      BY <1>1, <1>6, <2>1, AskProperties, EmptySeq DEF FetchEmpty, FetchShort
    <3>2. Ask \in Nat /\ Len(table) <= offset + Len(Reply)
      BY <1>1, <2>1, <3>1, AskProperties, ReplyProperties
         DEF TypeOK, FetchShort, SteadyPages
    <3>3. Len(table) \in Nat /\ offset \in Nat
      BY LenProperties DEF TypeOK
    <3> QED BY <2>1, <3>1, <3>2, <3>3 DEF Ahead, Frontier
  <2>3. LostAtEnd' \subseteq Lost
    BY <1>2, <1>6, <2>1, <2>2 DEF Lost, LostAtEnd, FetchEmpty
  <2>4. Len(fills) < Limit => Cardinality(LostAtEnd') <= deletes
    BY <1>1, <2>1, <2>3, SmallerSet DEF SkipInv
  <2> QED BY <1>2, <1>6, <2>1, <2>4 DEF FetchEmpty, SkipInv
<1>7. CASE FetchRepeated
  BY <1>2, <1>7 DEF FetchRepeated, SkipInv
<1>8. CASE TakeRow
  <2>1. /\ pc = "scan" /\ pc' = "scan" /\ i \in Nat /\ i <= Len(page)
        /\ page' = page /\ standing' = standing /\ Ahead' = Ahead
        /\ deletes' = deletes /\ asked' = asked
    BY <1>8 DEF TakeRow, Ahead, Frontier, TypeOK
  <2>2. ASSUME Len(fills') < Limit
        PROVE  /\ Len(fills) < Limit
               /\ i' = i + 1
               /\ seenIds' = seenIds \cup {FillIdentity(page[i])}
    <3>1. CASE Known(page[i])
      BY <1>8, <2>2, <3>1 DEF TakeRow, Known
    <3>2. CASE ~Known(page[i])
      <4>1. page[i] \in Row
        BY <2>1, ElementOfSeq DEF TypeOK
      <4>2. fills' = Append(fills, page[i]) /\ Len(fills') = Len(fills) + 1
        BY <1>8, <3>2, <4>1, AppendProperties DEF TakeRow, TypeOK
      <4>3. ~Full(Len(fills) + 1)
        BY <2>2, <1>1, <4>2, LimitsAssumption DEF Full
      <4> QED BY <1>1, <1>8, <2>2, <3>2, <4>2, <4>3, LimitsAssumption DEF TakeRow
    <3> QED BY <3>1, <3>2
  <2>3. Len(fills') < Limit =>
          seenIds \cup InPage \subseteq seenIds' \cup InPage'
    <3>1. ASSUME Len(fills') < Limit, NEW k \in i..Len(page)
          PROVE  FillIdentity(page[k]) \in seenIds' \cup InPage'
      <4>1. CASE k = i
        BY <2>2, <3>1, <4>1
      <4>2. CASE k # i
        <5>1. k \in i'..Len(page')
          BY <2>1, <2>2, <3>1, <4>2
        <5> QED BY <2>1, <5>1 DEF InPage
      <4> QED BY <4>1, <4>2
    <3> QED BY <2>1, <2>2, <3>1 DEF InPage
  <2>4. Len(fills') < Limit => Lost' \subseteq Lost /\ LostAtEnd' \subseteq LostAtEnd
    BY <2>1, <2>3 DEF Lost, LostAtEnd
  <2>5. Len(fills') < Limit =>
          /\ Cardinality(Lost') <= deletes
          /\ Len(page) < asked => Cardinality(LostAtEnd') <= deletes
    BY <1>1, <2>1, <2>2, <2>4, SmallerSet DEF SkipInv
  <2> QED BY <1>8, <2>1, <2>5 DEF TakeRow, SkipInv
<1>9. CASE EndPage
  <2>1. /\ pc = "scan" /\ pc' \in {"fetch", "done"} /\ InPage = {}
        /\ standing' = standing /\ seenIds' = seenIds /\ table' = table
        /\ Frontier' = Frontier /\ InPage' = {}
    BY <1>1, <1>9 DEF EndPage, InPage, Frontier, NextOffset, TypeOK
  <2>2. Lost' = Lost /\ LostAtEnd' = LostAtEnd
    BY <2>1 DEF Lost, LostAtEnd, Ahead
  <2>3. requests # 0
    BY <2>1 DEF SkipInv
  <2> QED BY <1>9, <2>1, <2>2, <2>3 DEF EndPage, SkipInv
<1>10. CASE FetchFails \/ RejectRow
  BY <1>10 DEF FetchFails, RejectRow, SkipInv
<1>11. CASE Returned \/ UNCHANGED vars
  BY <1>11 DEF Returned, vars, SkipInv, Lost, LostAtEnd, InPage, Ahead, Frontier
<1> QED BY <1>3, <1>4, <1>5, <1>6, <1>7, <1>8, <1>9, <1>10, <1>11
        DEF Next, Reader, Progress

(* When list_fills returns for want of rows, the fills that stood in the   *)
(* table throughout and are missing from its result are no more than the   *)
(* deletions made meanwhile; insertions hide none.                         *)
THEOREM SkippedOnlyByDeletion == Spec => []SkippedAtMostDeleted
<1>1. CASE SteadyPages
  <2>1. Init => SeenInv /\ NoIdentityTwice /\ LimitInv /\ SkipInv
    <3> SUFFICES ASSUME Init
                 PROVE  SeenInv /\ NoIdentityTwice /\ LimitInv /\ SkipInv
      OBVIOUS
    <3>1. fills = << >> /\ seenIds = {} /\ Len(fills) = 0 /\ DOMAIN fills = {}
      BY EmptySeq DEF Init
    <3>2. SeenInv /\ NoIdentityTwice /\ LimitInv
      BY <3>1, LimitsAssumption
         DEF Init, SeenInv, NoIdentityTwice, IdentitiesIn, LimitInv
    <3>3. standing = {} /\ Lost = {}
      BY DEF Init, Lost
    <3> QED BY <3>2, <3>3, FS_EmptySet DEF Init, SkipInv
  <2>2. TypeOK /\ FetchShort /\ SeenInv /\ NoIdentityTwice /\ LimitInv
          /\ SkipInv /\ [Next]_vars
          => (SeenInv /\ NoIdentityTwice /\ LimitInv /\ SkipInv)'
    BY <1>1, NoIdentityTwiceStep, LimitStep, SkipStep
  <2>3. SeenInv /\ SkipInv => SkippedAtMostDeleted
    BY DEF SeenInv, SkipInv, LostAtEnd, InPage, Exhausted, SkippedAtMostDeleted
  <2> QED BY <2>1, <2>2, <2>3, TypeCorrect, PTL DEF Spec
<1>2. CASE ~SteadyPages
  <2>1. SkippedAtMostDeleted
    BY <1>2 DEF SteadyPages, SkippedAtMostDeleted
  <2> QED BY <2>1, PTL
<1> QED BY <1>1, <1>2

-----------------------------------------------------------------------------
(* A Database_Agent that ignores the offset, with a table that stands      *)
(* still, has only one page to give for a request of PageSize rows.        *)
OnlyPage ==
  LET most == IF HonoursLimit THEN Lesser(PageSize, DbPageMax) ELSE DbPageMax
  IN  SubSeq(table, 1, Lesser(most, Len(table)))

StuckInv ==
  /\ requests = 0 => fills = << >> /\ pc # "scan"
  /\ still =>
       /\ requests <= 2
       /\ pc = "fetch" => requests <= 1
       /\ requests = 1 /\ pc \in {"scan", "fetch"} => OnlyPage \in seenPages
       /\ requests = 2 /\ pc = "scan" => Len(page) < PageSize

(* The first reply is that page, and so is every other that is as long.    *)
LEMMA StuckReply ==
  ASSUME ~HonoursOffset, TypeOK, FetchShort, pc = "fetch"
  PROVE  /\ Len(fills) = 0 => Reply = OnlyPage
         /\ Reply = OnlyPage \/ Len(Reply) < PageSize
<1>1. Len(fills) \in Nat /\ Len(fills) < Limit
  BY LenProperties DEF TypeOK, FetchShort
<1>2. Ask \in 1..PageSize /\ (Len(fills) = 0 => Ask = PageSize)
  <2>1. Ask \in 1..PageSize
    BY <1>1, AskProperties
  <2>2. Len(fills) = 0 => Ask = PageSize
    BY PageSizeProperties, LimitsAssumption DEF Ask, Lesser
  <2> QED BY <2>1, <2>2
<1>3. Reply \in Seq(Row) /\ (HonoursLimit => Len(Reply) <= Ask)
  BY <1>1, ReplyProperties DEF TypeOK
<1>4. Len(Reply) \in Nat
  BY <1>3, LenProperties
<1>5. Ask = PageSize => Reply = OnlyPage
  <2> DEFINE most(n) == IF HonoursLimit THEN Lesser(n, DbPageMax) ELSE DbPageMax
  <2>1. most(PageSize) \in Nat
    BY LimitsAssumption, PageSizeProperties DEF Lesser
  <2>2. Reply = SubSeq(table, 0 + 1, Lesser(0 + most(Ask), Len(table)))
    BY DEF Reply
  <2>3. OnlyPage = SubSeq(table, 1, Lesser(most(PageSize), Len(table)))
    BY DEF OnlyPage
  <2> HIDE DEF most
  <2>4. 0 + most(PageSize) = most(PageSize) /\ 0 + 1 = 1
    BY <2>1
  <2> QED BY <2>2, <2>3, <2>4
<1>6. ~HonoursLimit => Reply = OnlyPage
  <2>1. 0 + DbPageMax = DbPageMax /\ 0 + 1 = 1
    BY LimitsAssumption
  <2> QED BY <2>1 DEF Reply, OnlyPage
<1>7. HonoursLimit /\ Ask # PageSize => Len(Reply) < PageSize
  BY <1>2, <1>3, <1>4, PageSizeProperties
<1> QED BY <1>2, <1>5, <1>6, <1>7

(* Every step keeps it: the second reply repeats the first or is short.    *)
LEMMA StuckStep ==
  ASSUME ~HonoursOffset, TypeOK, FetchShort, StuckInv, [Next]_vars
  PROVE  StuckInv'
<1> USE DEF readVars, histVars, dbVars
<1>1. ASSUME pc = "fetch", Served, UNCHANGED <<dbVars, fills>>
      PROVE  /\ requests' # 0 /\ still' = still /\ page' = Reply
             /\ OnlyPage' = OnlyPage
             /\ still => requests' = requests + 1 /\ requests \in {0, 1}
  BY <1>1 DEF Served, TypeOK, StuckInv, Lesser, CountTo, OnlyPage
<1>2. CASE FetchPage
  <2>1. /\ requests' # 0 /\ still' = still /\ page' = Reply /\ pc' = "scan"
        /\ OnlyPage' = OnlyPage /\ seenPages' = seenPages \cup {Reply}
        /\ still => requests' = requests + 1 /\ requests \in {0, 1}
        /\ Reply \notin seenPages
    BY <1>1, <1>2 DEF FetchPage, Repeats
  <2>2. requests = 0 => Reply = OnlyPage
    <3>1. requests = 0 => Len(fills) = 0
      BY EmptySeq DEF StuckInv
    <3> QED BY <1>2, <3>1, StuckReply DEF FetchPage
  <2>3. still /\ requests = 1 => Len(Reply) < PageSize
    BY <1>2, <2>1, StuckReply DEF FetchPage, StuckInv
  <2> QED BY <2>1, <2>2, <2>3 DEF StuckInv
<1>3. CASE FetchEmpty
  BY <1>1, <1>3 DEF FetchEmpty, StuckInv
<1>4. CASE FetchRepeated
  BY <1>1, <1>4 DEF FetchRepeated, StuckInv
<1>5. CASE TakeRow
  BY <1>5 DEF TakeRow, StuckInv, OnlyPage
<1>6. CASE EndPage
  BY <1>6 DEF EndPage, StuckInv, OnlyPage, ShortPage, TypeOK
<1>7. CASE Insert
  <2>1. still' => requests = 0
    BY <1>7 DEF Insert
  <2> QED BY <1>7, <2>1 DEF Insert, StuckInv
<1>8. CASE Delete
  BY <1>8 DEF Delete, StuckInv, TypeOK
<1>9. CASE FetchFails \/ RejectRow \/ Returned \/ UNCHANGED vars
  BY <1>9 DEF FetchFails, RejectRow, Returned, vars, StuckInv, OnlyPage
<1> QED BY <1>2, <1>3, <1>4, <1>5, <1>6, <1>7, <1>8, <1>9 DEF Next, Reader, Progress

(* A Database_Agent that ignores the offset of a table that stands still   *)
(* is asked twice at most, whatever limit it applies.                      *)
THEOREM StuckPagingStops == Spec => []StuckPagingIsNoticed
<1>1. CASE HonoursOffset
  <2>1. StuckPagingIsNoticed
    BY <1>1 DEF StuckPagingIsNoticed
  <2> QED BY <2>1, PTL
<1>2. CASE ~HonoursOffset
  <2>1. Init => StuckInv
    BY DEF Init, StuckInv
  <2>2. TypeOK /\ FetchShort /\ StuckInv /\ [Next]_vars => StuckInv'
    BY <1>2, StuckStep
  <2>3. StuckInv => StuckPagingIsNoticed
    BY DEF StuckInv, StuckPagingIsNoticed
  <2> QED BY <2>1, <2>2, <2>3, TypeCorrect, PTL DEF Spec
<1> QED BY <1>1, <1>2
-----------------------------------------------------------------------------
(* Reading a table that stands still.  FirstOccurrences grows by one row   *)
(* at a time, just as the scan does.                                       *)
Firsts(s) == {k \in DOMAIN s : \A j \in 1..k - 1 :
                                 FillIdentity(s[j]) # FillIdentity(s[k])}

(* The first occurrences stand at their ranks, and that determines them.   *)
LEMMA FirstOccurrencesMeaning ==
  ASSUME NEW s \in Seq(Row)
  PROVE  LET t == FirstOccurrences(s)
         IN  /\ Firsts(s) \in SUBSET (1..Len(s))
             /\ Cardinality(Firsts(s)) \in Nat
             /\ t = [n \in 1..Cardinality(Firsts(s)) |-> t[n]]
             /\ \A k \in Firsts(s) : t[Rank(Firsts(s), k)] = s[k]
<1> DEFINE F == Firsts(s)
           c == Cardinality(F)
           t == FirstOccurrences(s)
<1>1. Len(s) \in Nat /\ DOMAIN s = 1..Len(s)
  BY LenProperties
<1>2. F \in SUBSET (1..Len(s))
  BY <1>1 DEF Firsts
<1>3. t = [n \in 1..c |-> s[CHOOSE k \in F : Rank(F, k) = n]]
  BY DEF FirstOccurrences, Firsts, Rank
<1> HIDE DEF F, t
<1>4. /\ c \in Nat /\ \A k, l \in F : Rank(F, k) = Rank(F, l) => k = l
      /\ {Rank(F, k) : k \in F} = 1..c
  BY <1>1, <1>2, RanksNumber
<1> HIDE DEF c
<1>5. ASSUME NEW k \in F PROVE t[Rank(F, k)] = s[k]
  <2>1. Rank(F, k) \in 1..c
    BY <1>4
  <2>2. (CHOOSE l \in F : Rank(F, l) = Rank(F, k)) = k
    BY <1>4
  <2> QED BY <1>3, <2>1, <2>2
<1> QED BY <1>2, <1>3, <1>4, <1>5 DEF F, t, c

(* A list with the first occurrences at their ranks is FirstOccurrences.   *)
LEMMA FirstOccurrencesUnique ==
  ASSUME NEW s \in Seq(Row), NEW u \in Seq(Row),
         Len(u) = Cardinality(Firsts(s)),
         \A k \in Firsts(s) : u[Rank(Firsts(s), k)] = s[k]
  PROVE  u = FirstOccurrences(s)
<1> DEFINE F == Firsts(s)
           c == Cardinality(F)
           t == FirstOccurrences(s)
<1>1. /\ F \in SUBSET (1..Len(s)) /\ c \in Nat
      /\ t = [n \in 1..c |-> t[n]]
      /\ \A k \in F : t[Rank(F, k)] = s[k]
  BY FirstOccurrencesMeaning
<1>2. Len(s) \in Nat /\ u = [n \in 1..c |-> u[n]]
  BY LenProperties
<1>3. \A k \in F : u[Rank(F, k)] = s[k]
  OBVIOUS
<1> HIDE DEF F, t
<1>4. {Rank(F, k) : k \in F} = 1..c
  BY <1>1, <1>2, RanksNumber
<1> HIDE DEF c
<1>5. ASSUME NEW n \in 1..c PROVE u[n] = t[n]
  <2>1. PICK k \in F : n = Rank(F, k)
    BY <1>4
  <2> QED BY <1>1, <1>3, <2>1
<1> QED BY <1>1, <1>2, <1>5 DEF t

(* The last row of a list is a first occurrence unless its identity is     *)
(* there before it; the other rows do not change.                          *)
LEMMA FirstsGrow ==
  ASSUME NEW s \in Seq(Row), NEW r \in Row
  PROVE  Firsts(Append(s, r)) =
           Firsts(s) \cup IF FillIdentity(r) \in IdentitiesIn(s) THEN {}
                          ELSE {Len(s) + 1}
<1> DEFINE t == Append(s, r)
<1>1. /\ Len(s) \in Nat /\ DOMAIN s = 1..Len(s) /\ DOMAIN t = 1..Len(s) + 1
      /\ \A k \in 1..Len(s) : t[k] = s[k]
      /\ t[Len(s) + 1] = r
  BY AppendProperties, LenProperties
<1> HIDE DEF t
<1>2. ASSUME NEW k \in 1..Len(s) PROVE k \in Firsts(t) <=> k \in Firsts(s)
  <2>1. \A j \in 1..k - 1 : j \in 1..Len(s) /\ t[j] = s[j]
    BY <1>1
  <2>2. k \in DOMAIN s /\ k \in DOMAIN t /\ t[k] = s[k]
    BY <1>1
  <2> QED BY <2>1, <2>2 DEF Firsts
<1>3. Len(s) + 1 \in Firsts(t) <=> FillIdentity(r) \notin IdentitiesIn(s)
  <2>1. (Len(s) + 1) - 1 = Len(s) /\ Len(s) + 1 \in DOMAIN t
    BY <1>1
  <2>2. Len(s) + 1 \in Firsts(t) <=>
          \A j \in 1..Len(s) : FillIdentity(t[j]) # FillIdentity(r)
    BY <1>1, <2>1 DEF Firsts
  <2> QED BY <1>1, <2>2 DEF IdentitiesIn
<1>4. /\ \A k \in Firsts(t) : k \in 1..Len(s) \/ k = Len(s) + 1
      /\ \A k \in Firsts(s) : k \in 1..Len(s)
  BY <1>1 DEF Firsts
<1>5. Firsts(t) = Firsts(s) \cup IF FillIdentity(r) \in IdentitiesIn(s) THEN {}
                                 ELSE {Len(s) + 1}
  BY <1>2, <1>3, <1>4
<1> QED BY <1>5 DEF t

(* Its first occurrences are those before it and, if it is new, itself.    *)
LEMMA FirstOccurrencesGrow ==
  ASSUME NEW s \in Seq(Row), NEW u \in Seq(Row), u = FirstOccurrences(s), NEW r \in Row
  PROVE  IF FillIdentity(r) \in IdentitiesIn(s)
         THEN u = FirstOccurrences(Append(s, r))
         ELSE Append(u, r) = FirstOccurrences(Append(s, r))
<1> DEFINE F == Firsts(s)
           c == Cardinality(F)
           n == Len(s)
           t == Append(s, r)
           v == Append(u, r)
<1>1. /\ F \in SUBSET (1..n) /\ c \in Nat
      /\ u = [m \in 1..c |-> u[m]]
      /\ \A k \in F : u[Rank(F, k)] = s[k]
  BY FirstOccurrencesMeaning
<1>2. /\ n \in Nat /\ t \in Seq(Row) /\ t[n + 1] = r
      /\ \A k \in 1..n : t[k] = s[k]
  BY LenProperties, AppendProperties
<1>3. Len(u) = c
  <2>1. DOMAIN u = 1..c /\ DOMAIN u = 1..Len(u) /\ Len(u) \in Nat
    BY <1>1, LenProperties
  <2>2. \A a, b \in Nat : 1..a = 1..b => ~(a < b)
    <3>1. ASSUME NEW a \in Nat, NEW b \in Nat, 1..a = 1..b, a < b PROVE FALSE
      <4>1. b \in 1..b /\ b \notin 1..a
        BY <3>1
      <4> QED BY <3>1, <4>1
    <3> QED BY <3>1
  <2>3. 1..c = 1..Len(u) /\ 1..Len(u) = 1..c
    BY <2>1
  <2>4. ~(c < Len(u)) /\ ~(Len(u) < c)
    BY <1>1, <2>1, <2>2, <2>3
  <2> HIDE DEF c
  <2> QED BY ONLY <1>1, <2>1, <2>4
<1>4. /\ v \in Seq(Row) /\ Len(v) = c + 1 /\ v[c + 1] = r
      /\ \A m \in 1..c : v[m] = u[m]
  BY <1>3, AppendProperties
<1>5. Firsts(t) = F \cup IF FillIdentity(r) \in IdentitiesIn(s) THEN {} ELSE {n + 1}
  BY FirstsGrow
<1> HIDE DEF F, n, t, v
<1>6. CASE FillIdentity(r) \in IdentitiesIn(s)
  <2>1. Firsts(t) = F
    BY <1>5, <1>6
  <2>2. \A k \in F : u[Rank(F, k)] = t[k]
    BY <1>1, <1>2
  <2>3. u = FirstOccurrences(t)
    BY <1>2, <1>3, <2>1, <2>2, FirstOccurrencesUnique
  <2> QED BY <1>6, <2>3 DEF t
<1>7. CASE FillIdentity(r) \notin IdentitiesIn(s)
  <2>1. Firsts(t) = F \cup {n + 1}
    BY <1>5, <1>7
  <2>2. /\ Cardinality(F \cup {n + 1}) = c + 1
        /\ Rank(F \cup {n + 1}, n + 1) = c + 1
        /\ \A k \in F : Rank(F \cup {n + 1}, k) = Rank(F, k) /\ Rank(F, k) \in 1..c
    BY <1>1, <1>2, RankOfGreatest
  <2> HIDE DEF c
  <2>3. \A k \in F \cup {n + 1} : v[Rank(F \cup {n + 1}, k)] = t[k]
    BY <1>1, <1>2, <1>4, <2>2
  <2>4. v = FirstOccurrences(t)
    <3>1. \A k \in Firsts(t) : v[Rank(Firsts(t), k)] = t[k]
      BY <2>1, <2>3, Zenon
    <3>2. Len(v) = Cardinality(Firsts(t))
      BY <1>4, <2>1, <2>2, Zenon
    <3> QED BY <1>2, <1>4, <3>1, <3>2, FirstOccurrencesUnique
  <2> QED BY <1>7, <2>4 DEF t, v
<1> QED BY <1>6, <1>7

(* They are rows of the list, no two of them of one identity.              *)
LEMMA FirstOccurrencesAreRows ==
  ASSUME NEW s \in Seq(Row)
  PROVE  LET u == FirstOccurrences(s)
         IN  /\ u \in Seq(Row)
             /\ \A m \in DOMAIN u : \E k \in DOMAIN s : u[m] = s[k]
             /\ \A m, n \in DOMAIN u : FillIdentity(u[m]) = FillIdentity(u[n]) => m = n
<1> DEFINE F == Firsts(s)
           c == Cardinality(F)
           u == FirstOccurrences(s)
<1>1. /\ F \in SUBSET (1..Len(s)) /\ c \in Nat
      /\ u = [m \in 1..c |-> u[m]]
      /\ \A k \in F : u[Rank(F, k)] = s[k]
  BY FirstOccurrencesMeaning
<1>2. /\ Len(s) \in Nat /\ DOMAIN s = 1..Len(s) /\ \A k \in DOMAIN s : s[k] \in Row
      /\ DOMAIN u = 1..c
  BY <1>1, LenProperties, ElementOfSeq
<1>3. {Rank(F, k) : k \in F} = 1..c
  BY <1>1, <1>2, RanksNumber
<1>4. \A k, l \in F : FillIdentity(s[k]) = FillIdentity(s[l]) => k = l
  <2>1. \A k, l \in F : k < l => FillIdentity(s[k]) # FillIdentity(s[l])
    <3>1. ASSUME NEW k \in F, NEW l \in F, k < l
          PROVE  FillIdentity(s[k]) # FillIdentity(s[l])
      <4>1. k \in 1..l - 1
        BY <1>1, <1>2, <3>1
      <4> QED BY <4>1 DEF Firsts
    <3> QED BY <3>1
  <2>2. \A k, l \in F : k = l \/ k < l \/ l < k
    BY <1>1, <1>2
  <2> QED BY <2>1, <2>2
<1> HIDE DEF F, c, u
<1>5. \A m \in DOMAIN u : \E k \in F : m = Rank(F, k) /\ u[m] = s[k]
  BY <1>1, <1>2, <1>3
<1>6. \A m \in DOMAIN u : \E k \in DOMAIN s : u[m] = s[k]
  BY <1>1, <1>2, <1>5
<1>7. u \in Seq(Row)
  <2>1. \A m \in 1..c : u[m] \in Row
    BY <1>2, <1>6
  <2>2. u \in [1..c -> Row]
    BY <1>1, <2>1
  <2> QED BY <1>1, <2>2, SeqDef
<1>8. \A m, n \in DOMAIN u : FillIdentity(u[m]) = FillIdentity(u[n]) => m = n
  BY <1>4, <1>5
<1> QED BY <1>6, <1>7, <1>8 DEF u

(* They hold the identities of all.                                        *)
LEMMA FirstsHaveAll ==
  ASSUME NEW s \in Seq(Row), NEW u \in Seq(Row), u = FirstOccurrences(s)
  PROVE  IdentitiesIn(u) = IdentitiesIn(s)
<1> DEFINE F == Firsts(s)
           c == Cardinality(F)
<1>1. /\ F \in SUBSET (1..Len(s)) /\ c \in Nat
      /\ u = [m \in 1..c |-> u[m]]
      /\ \A k \in F : u[Rank(F, k)] = s[k]
  BY FirstOccurrencesMeaning
<1>2. Len(s) \in Nat /\ DOMAIN s = 1..Len(s) /\ DOMAIN u = 1..c
  BY <1>1, LenProperties
<1>3. {Rank(F, k) : k \in F} = 1..c
  BY <1>1, <1>2, RanksNumber
<1>4. ASSUME NEW m \in DOMAIN s PROVE \E k \in F : FillIdentity(s[k]) = FillIdentity(s[m])
  <2> DEFINE same == {k \in DOMAIN s : FillIdentity(s[k]) = FillIdentity(s[m])}
  <2>1. same \in SUBSET Nat /\ same # {}
    BY <1>2
  <2>2. PICK k \in same : \A j \in same : k <= j
    BY <2>1, LeastNumber
  <2>3. \A j \in 1..k - 1 : j \in DOMAIN s /\ ~(k <= j)
    BY <1>2, <2>1
  <2>4. k \in F
    BY <2>2, <2>3 DEF Firsts
  <2> QED BY <2>4
<1> HIDE DEF F, c
<1>5. \A x : x \in IdentitiesIn(u) <=> \E k \in F : x = FillIdentity(s[k])
  <2>1. \A x : x \in IdentitiesIn(u) <=> \E m \in 1..c : x = FillIdentity(u[m])
    BY <1>2 DEF IdentitiesIn
  <2>2. \A m \in 1..c : \E k \in F : m = Rank(F, k) /\ u[m] = s[k]
    BY <1>1, <1>3
  <2>3. \A k \in F : Rank(F, k) \in 1..c /\ u[Rank(F, k)] = s[k]
    BY <1>1, <1>3
  <2> QED BY <2>1, <2>2, <2>3
<1>6. \A x : x \in IdentitiesIn(s) <=> \E k \in F : x = FillIdentity(s[k])
  <2>1. \A k \in F : k \in DOMAIN s
    BY <1>1, <1>2
  <2> QED BY <1>4, <2>1 DEF IdentitiesIn
<1> QED BY <1>5, <1>6

(* A longer beginning of a table has one row more.                         *)
LEMMA PrefixGrows ==
  ASSUME NEW s \in Seq(Row), NEW n \in Nat, n < Len(s)
  PROVE  /\ SubSeq(s, 1, n) \in Seq(Row)
         /\ s[n + 1] \in Row
         /\ SubSeq(s, 1, n + 1) = Append(SubSeq(s, 1, n), s[n + 1])
<1> DEFINE t == SubSeq(s, 1, n)
           u == SubSeq(s, 1, n + 1)
           v == Append(t, s[n + 1])
<1>1. Len(s) \in Nat /\ \A k \in 1..Len(s) : s[k] \in Row
  BY LenProperties, ElementOfSeq
<1>2. /\ t \in Seq(Row) /\ Len(t) = n /\ \A k \in 1..n : t[k] = s[k]
      /\ u \in Seq(Row) /\ Len(u) = n + 1 /\ \A k \in 1..n + 1 : u[k] = s[k]
  <2>1. ASSUME NEW m \in Nat, m <= Len(s)
        PROVE  /\ SubSeq(s, 1, m) \in Seq(Row) /\ Len(SubSeq(s, 1, m)) = m
               /\ \A k \in 1..m : SubSeq(s, 1, m)[k] = s[k]
    <3>1. \A k \in 1..m : s[k] \in Row
      BY <1>1, <2>1
    <3> QED BY <2>1, <3>1, SubSeqProperties
  <2> QED BY <1>1, <2>1
<1>3. s[n + 1] \in Row
  BY <1>1
<1> HIDE DEF t, u
<1>4. v \in Seq(Row) /\ Len(v) = n + 1 /\ v[n + 1] = s[n + 1] /\ \A k \in 1..n : v[k] = t[k]
  BY <1>2, <1>3, AppendProperties
<1> HIDE DEF v
<1>5. \A k \in 1..n + 1 : u[k] = v[k]
  <2>1. \A k \in 1..n + 1 : k \in 1..n \/ k = n + 1
    OBVIOUS
  <2> QED BY <1>2, <1>4, <2>1
<1>6. u = v
  BY <1>2, <1>4, <1>5, SeqEqual
<1> QED BY <1>2, <1>3, <1>6 DEF t, u, v

(* While the table stands still, the page is a stretch of it from the      *)
(* offset on, and no longer than the result is short of the limit; what    *)
(* has been scanned was kept at its first occurrence.                      *)
PrefixInv ==
  /\ requests = 0 => offset = 0 /\ fills = << >> /\ pc # "scan"
  /\ still /\ pc # "failed" =>
       /\ RowsRead <= Len(table)
       /\ fills = FirstOccurrences(SubSeq(table, 1, RowsRead))
       /\ pc = "scan" =>
            /\ offset + Len(page) <= Len(table)
            /\ \A k \in 1..Len(page) : page[k] = table[offset + k]
            /\ Len(fills) + Len(page) + 1 - i <= Limit

(* PrefixInv after a step.                                                 *)
LEMMA PrefixNext ==
  PrefixInv' <=>
    /\ requests' = 0 => offset' = 0 /\ fills' = << >> /\ pc' # "scan"
    /\ still' /\ pc' # "failed" =>
         /\ RowsRead' <= Len(table')
         /\ fills' = FirstOccurrences(SubSeq(table', 1, RowsRead'))
         /\ pc' = "scan" =>
              /\ offset' + Len(page') <= Len(table')
              /\ \A k \in 1..Len(page') : page'[k] = table'[offset' + k]
              /\ Len(fills') + Len(page') + 1 - i' <= Limit
BY DEF PrefixInv, FirstOccurrences, FillIdentity

(* Nothing read, nothing kept.                                             *)
LEMMA NothingRead ==
  ASSUME NEW s \in Seq(Row)
  PROVE  FirstOccurrences(SubSeq(s, 1, 0)) = << >>
<1> DEFINE t == SubSeq(s, 1, 0)
<1>1. t = << >>
  BY SubSeqEmpty
<1>2. t \in Seq(Row) /\ Len(t) = 0 /\ DOMAIN t = {}
  BY <1>1, EmptySeq
<1> HIDE DEF t
<1>3. Firsts(t) = {}
  BY <1>2 DEF Firsts
<1>4. << >> \in Seq(Row) /\ Len(<< >>) = 0 /\ Cardinality({}) = 0
  BY EmptySeq, FS_EmptySet
<1>5. Len(<< >>) = Cardinality(Firsts(t)) /\ \A k \in Firsts(t) : FALSE
  BY <1>3, <1>4
<1>6. << >> = FirstOccurrences(t)
  BY <1>2, <1>4, <1>5, FirstOccurrencesUnique
<1> QED BY <1>6 DEF t

(* Every step keeps it; a row passed over has the identity of one kept,    *)
(* and the limit is reached with the last row of a page only.              *)
LEMMA PrefixStep ==
  ASSUME HonoursOffset, HonoursLimit, TypeOK, FetchShort, SeenInv, PrefixInv,
         [Next]_vars
  PROVE  PrefixInv'
<1> USE DEF readVars, histVars, dbVars
<1>1. /\ Len(fills) \in Nat /\ Len(page) \in Nat /\ Len(table) \in Nat
      /\ offset \in Nat /\ i \in Nat /\ i # 0 /\ table \in Seq(Row) /\ fills \in Seq(Row)
  BY LenProperties DEF TypeOK
<1>2. CASE Insert
  <2>1. PICK k \in 1..Len(table) + 1, r \in Row : table' = Inserted(table, k, r)
    BY <1>2 DEF Insert
  <2>2. table' \in Seq(Row) /\ Len(table') \in Nat
    BY <2>1, InsertedProperties, LenProperties DEF TypeOK
  <2>3. /\ requests' = requests /\ offset' = offset /\ fills' = fills /\ pc' = pc
        /\ still' => requests = 0
    BY <1>2 DEF Insert
  <2>4. requests = 0 => RowsRead' = 0 /\ fills' = << >> /\ pc' # "scan" /\ offset' = 0
    BY <2>3 DEF PrefixInv, RowsRead
  <2>5. FirstOccurrences(SubSeq(table', 1, 0)) = << >>
    BY <2>2, NothingRead
  <2>6. still' => fills' = FirstOccurrences(SubSeq(table', 1, RowsRead')) /\ RowsRead' <= Len(table')
    BY <2>2, <2>3, <2>4, <2>5
  <2> QED BY <2>3, <2>4, <2>6, PrefixNext
<1>3. CASE Delete
  BY <1>3 DEF Delete, PrefixInv, TypeOK
<1>4. ASSUME pc = "fetch", Served
      PROVE  requests' # 0 /\ still' = still /\ page' = Reply /\ RowsRead = offset
  BY <1>1, <1>4 DEF Served, TypeOK, Lesser, CountTo, RowsRead
<1>5. CASE FetchPage
  <2>1. /\ pc = "fetch" /\ pc' = "scan" /\ i' = 1 /\ table' = table /\ offset' = offset
        /\ fills' = fills /\ requests' # 0 /\ still' = still /\ page' = Reply
        /\ RowsRead = offset /\ RowsRead' = offset
    BY <1>1, <1>4, <1>5 DEF FetchPage, RowsRead
  <2>2. /\ Reply \in Seq(Row) /\ Len(Reply) <= Ask
        /\ offset + Len(Reply) <= Len(table) \/ Len(Reply) = 0
        /\ \A n \in 1..Len(Reply) : Reply[n] = table[offset + n]
        /\ Ask \in Nat /\ Ask <= Limit - Len(fills)
    BY <1>1, <2>1, ReplyProperties, AskProperties DEF FetchShort
  <2>3. Len(Reply) \in Nat /\ Len(Reply) # 0
    BY <1>5, <2>2, LenProperties, EmptySeq DEF FetchPage
  <2>4. Len(fills) + Len(Reply) + 1 - 1 <= Limit
    BY <1>1, <2>2, <2>3, LimitsAssumption
  <2> QED BY <2>1, <2>2, <2>3, <2>4, PrefixNext DEF PrefixInv
<1>6. CASE FetchEmpty
  <2>1. /\ pc = "fetch" /\ pc' = "done" /\ table' = table /\ offset' = offset
        /\ fills' = fills /\ requests' # 0 /\ still' = still
        /\ RowsRead = offset /\ RowsRead' = offset
    BY <1>1, <1>4, <1>6 DEF FetchEmpty, RowsRead
  <2> QED BY <2>1, PrefixNext DEF PrefixInv
<1>7. CASE FetchRepeated
  BY <1>4, <1>7 DEF FetchRepeated, PrefixInv
<1>8. CASE FetchFails \/ RejectRow
  BY <1>8 DEF FetchFails, RejectRow, PrefixInv
<1>9. CASE TakeRow
  <2> DEFINE n == offset + i - 1
             s == SubSeq(table, 1, n)
  <2>1. /\ pc = "scan" /\ pc' = "scan" /\ i <= Len(page) /\ page' = page
        /\ table' = table /\ offset' = offset /\ requests' = requests /\ still' = still
    BY <1>9 DEF TakeRow
  <2>2. requests' # 0
    BY <2>1 DEF PrefixInv
  <2>3. ASSUME still
        PROVE  /\ RowsRead' <= Len(table)
               /\ fills' = FirstOccurrences(SubSeq(table, 1, RowsRead'))
               /\ Len(fills') + Len(page) + 1 - i' <= Limit
    <3>1. /\ offset + Len(page) <= Len(table)
          /\ page[i] = table[offset + i]
          /\ Len(fills) + Len(page) + 1 - i <= Limit
          /\ fills = FirstOccurrences(s)
      <4>1. RowsRead = n
        BY <1>1, <2>1 DEF RowsRead
      <4>2. fills = FirstOccurrences(SubSeq(table, 1, RowsRead))
        BY <2>1, <2>3 DEF PrefixInv
      <4> QED BY <1>1, <2>1, <2>3, <4>1, <4>2 DEF PrefixInv
    <3>2. n \in Nat /\ n < Len(table) /\ n + 1 = offset + i
      BY <1>1, <2>1, <3>1
    <3>3. /\ s \in Seq(Row) /\ page[i] \in Row
          /\ SubSeq(table, 1, offset + i) = Append(s, page[i])
      <4> HIDE DEF n
      <4> QED BY <1>1, <3>1, <3>2, PrefixGrows
    <3> HIDE DEF s, n
    <3>4. /\ IF FillIdentity(page[i]) \in IdentitiesIn(s)
             THEN fills = FirstOccurrences(Append(s, page[i]))
             ELSE Append(fills, page[i]) = FirstOccurrences(Append(s, page[i]))
          /\ IdentitiesIn(s) = seenIds
      BY <1>1, <3>1, <3>3, FirstOccurrencesGrow, FirstsHaveAll DEF SeenInv
    <3>5. /\ fills' = FirstOccurrences(Append(s, page[i]))
          /\ i' = i + 1 /\ Len(fills') <= Len(fills) + 1
      <4>1. CASE Known(page[i])
        BY <1>1, <1>9, <3>4, <4>1 DEF TakeRow, Known
      <4>2. CASE ~Known(page[i])
        <5>1. fills' = Append(fills, page[i]) /\ Len(fills') = Len(fills) + 1
          BY <1>1, <1>9, <3>3, <4>2, AppendProperties DEF TakeRow
        <5>2. Full(Len(fills) + 1) => Len(page) + 1 = i + 1
          BY <1>1, <2>1, <3>1, LimitsAssumption DEF Full
        <5>3. i' = i + 1
          BY <1>9, <4>2, <5>2 DEF TakeRow
        <5> QED BY <3>4, <4>2, <5>1, <5>3, <1>1 DEF Known
      <4> QED BY <4>1, <4>2
    <3>6. RowsRead' = offset + i /\ offset + i <= Len(table)
      BY <1>1, <2>1, <3>1, <3>5 DEF RowsRead
    <3>7. Len(fills') \in Nat
      <4>1. fills' = fills \/ fills' = Append(fills, page[i])
        BY <1>9 DEF TakeRow
      <4>2. Append(fills, page[i]) \in Seq(Row)
        BY <1>1, <3>3, AppendProperties
      <4> QED BY <1>1, <4>1, <4>2, LenProperties
    <3>8. Len(fills') + Len(page) + 1 - i' <= Limit
      BY <1>1, <3>1, <3>5, <3>7, LimitsAssumption
    <3> QED BY <3>3, <3>5, <3>6, <3>8
  <2> QED BY <2>1, <2>2, <2>3, PrefixNext DEF PrefixInv
<1>10. CASE EndPage
  <2>1. /\ pc = "scan" /\ pc' \in {"done", "fetch"} /\ i = Len(page) + 1
        /\ offset' = offset + Len(page) /\ requests' = requests /\ still' = still
        /\ table' = table /\ fills' = fills
    BY <1>1, <1>10 DEF EndPage, NextOffset, TypeOK
  <2>2. RowsRead' = RowsRead
    BY <1>1, <2>1 DEF RowsRead
  <2>3. requests' # 0
    BY <2>1 DEF PrefixInv
  <2> QED BY <2>1, <2>2, <2>3, PrefixNext DEF PrefixInv
<1>11. CASE Returned \/ UNCHANGED vars
  <2>1. /\ pc' = pc /\ table' = table /\ offset' = offset /\ fills' = fills /\ i' = i
        /\ page' = page /\ still' = still /\ requests' = requests
    BY <1>11 DEF Returned, vars
  <2>2. RowsRead' = RowsRead
    BY <2>1 DEF RowsRead
  <2> QED BY <2>1, <2>2, PrefixNext DEF PrefixInv
<1> QED BY <1>2, <1>3, <1>5, <1>6, <1>7, <1>8, <1>9, <1>10, <1>11
        DEF Next, Reader, Progress

(* From a table that stands still and is paged as asked, list_fills keeps  *)
(* the first occurrence of each identity, in order and without a gap,      *)
(* whatever the page sizes and however often rows repeat.                  *)
THEOREM PrefixRead == Spec => []ReadsPrefix
<1>1. CASE HonoursOffset /\ HonoursLimit
  <2>1. Init => SeenInv /\ NoIdentityTwice /\ PrefixInv
    <3> SUFFICES ASSUME Init PROVE SeenInv /\ NoIdentityTwice /\ PrefixInv
      OBVIOUS
    <3>1. fills = << >> /\ seenIds = {} /\ Len(fills) = 0 /\ DOMAIN fills = {}
      BY EmptySeq DEF Init
    <3>2. table \in Seq(Row) /\ Len(table) \in Nat
      BY InitType, LenProperties DEF TypeOK
    <3>3. RowsRead = 0 /\ pc = "fetch" /\ offset = 0
      BY DEF Init, RowsRead
    <3>4. FirstOccurrences(SubSeq(table, 1, RowsRead)) = << >>
      BY <3>2, <3>3, NothingRead
    <3> QED BY <3>1, <3>2, <3>3, <3>4
            DEF SeenInv, NoIdentityTwice, IdentitiesIn, PrefixInv
  <2>2. TypeOK /\ FetchShort /\ SeenInv /\ NoIdentityTwice /\ PrefixInv /\ [Next]_vars
          => (SeenInv /\ NoIdentityTwice /\ PrefixInv)'
    BY <1>1, NoIdentityTwiceStep, PrefixStep
  <2>3. PrefixInv => ReadsPrefix
    BY DEF PrefixInv, ReadsPrefix
  <2> QED BY <2>1, <2>2, <2>3, TypeCorrect, PTL DEF Spec
<1>2. CASE ~(HonoursOffset /\ HonoursLimit)
  <2>1. ReadsPrefix
    BY <1>2 DEF ReadsPrefix
  <2> QED BY <2>1, PTL
<1> QED BY <1>1, <1>2
=============================================================================
