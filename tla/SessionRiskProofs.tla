-------------------------- MODULE SessionRiskProofs --------------------------
(***************************************************************************)
(* Proofs about SessionRisk: for every sequence of fills, of requests and  *)
(* of ticks of the clock.                                                  *)
(***************************************************************************)
EXTENDS SessionRisk, SequenceTheorems, SetSums

TradeKeys ==
  {<<"trade_plan", p>> : p \in PlanIds} \cup {<<"trade", t>> : t \in TradeIds}
    \cup {<<"order", o>> : o \in OrderIds} \cup {<<"unidentified_fill", k>> : k \in Nat}

Row == [key : TradeKeys, symbol : Symbols, realized_pnl : Int, closed_at : Nat]

\* The rows are records of a trade each.
RowsOK == rows \in Seq(Row)

IInv == TypeOK /\ RowsOK

(* Inside the loop there is a fill, with a key of its own trade.           *)
LEMMA TheFill ==
  ASSUME TypeOK, AtFill
  PROVE  /\ i \in 1..Len(fills) /\ Len(fills) \in Nat
         /\ fills[i] \in Fill
         /\ TradeKey(i) \in TradeKeys
<1>1. i \in 1..Len(fills) /\ Len(fills) \in Nat
  BY LenProperties DEF TypeOK, AtFill
<1>2. fills[i] \in Fill
  BY <1>1, ElementOfSeq, SessionAssumption DEF TypeOK
<1>3. TradeKey(i) \in TradeKeys
  BY <1>1, <1>2 DEF TradeKey, TradeKeys, Fill
<1> QED BY <1>1, <1>2, <1>3

(* A usable fill has an amount, and a time that is not in the future.      *)
LEMMA UsableFill ==
  ASSUME TypeOK, AtFill, Usable(i)
  PROVE  fills[i].pnl \in Int /\ fills[i].at \in 0..now /\ now \in Nat
<1>1. fills[i] \in Fill
  BY TheFill
<1>2. now \in Nat
  BY SessionAssumption DEF TypeOK, Times
<1>3. fills[i].pnl \in Int
  BY <1>1, SessionAssumption DEF Usable, Fill
<1>4. fills[i].at \in Times /\ fills[i].at <= now
  BY <1>1 DEF Usable, Fill
<1> QED BY <1>2, <1>3, <1>4 DEF Times

(* A pass of the loop whose rows and counts are typed keeps the types.     *)
LEMMA LoopType ==
  ASSUME IInv, AtFill, rows' \in Seq(Row), skipped' \in [Warnings -> Nat],
         \A r \in DOMAIN rows' : rows'[r].realized_pnl \in Int /\ rows'[r].closed_at \in 0..now
  PROVE  IInv'
<1>1. i' \in 1..Len(fills) + 1
  BY TheFill DEF IInv, AtFill
<1> QED BY <1>1 DEF IInv, TypeOK, RowsOK, AtFill, input

(* A fill that is skipped adds to a count.                                 *)
LEMMA SkipType ==
  ASSUME IInv, AtFill, NEW warning \in Warnings, Skip(warning)
  PROVE  IInv'
<1>1. skipped' \in [Warnings -> Nat]
  BY DEF IInv, TypeOK, Skip
<1>2. rows' = rows
  BY DEF Skip
<1> QED BY <1>1, <1>2, LoopType DEF IInv, TypeOK, RowsOK

(* A new row is dated by its fill.                                         *)
LEMMA OpenType ==
  ASSUME IInv, OpenTrade
  PROVE  IInv'
<1> DEFINE row == [key          |-> TradeKey(i),
                   symbol       |-> fills[i].symbol,
                   realized_pnl |-> fills[i].pnl,
                   closed_at    |-> fills[i].at]
<1>1. fills[i].pnl \in Int /\ fills[i].at \in 0..now /\ now \in Nat
  BY UsableFill DEF OpenTrade, IInv
<1>2. TradeKey(i) \in TradeKeys /\ fills[i].symbol \in Symbols
  BY TheFill DEF OpenTrade, IInv, Fill
<1>3. row \in Row /\ row.realized_pnl \in Int /\ row.closed_at \in 0..now
  BY <1>1, <1>2 DEF Row
<1>4. rows' = Append(rows, row)
  BY DEF OpenTrade
<1> HIDE DEF row
<1>5. /\ rows' \in Seq(Row) /\ Len(rows) \in Nat
      /\ DOMAIN rows = 1..Len(rows) /\ DOMAIN rows' = 1..Len(rows) + 1
      /\ \A r \in 1..Len(rows) : rows'[r] = rows[r]
      /\ rows'[Len(rows) + 1] = row
  BY <1>3, <1>4, AppendProperties, LenProperties DEF IInv, RowsOK
<1>6. \A r \in DOMAIN rows' : r \in DOMAIN rows \/ r = Len(rows) + 1
  BY <1>5
<1>7. \A r \in DOMAIN rows' :
        rows'[r].realized_pnl \in Int /\ rows'[r].closed_at \in 0..now
  BY <1>3, <1>5, <1>6 DEF IInv, TypeOK
<1>8. skipped' \in [Warnings -> Nat]
  BY DEF OpenTrade, IInv, TypeOK, Warnings
<1> QED BY <1>5, <1>7, <1>8, LoopType DEF OpenTrade

(* A row that gets another fill is dated by the later of the two times.    *)
LEMMA AddType ==
  ASSUME IInv, AddToTrade
  PROVE  IInv'
<1>1. fills[i].pnl \in Int /\ fills[i].at \in 0..now /\ now \in Nat
  BY UsableFill DEF AddToTrade, IInv
<1>2. PICK r \in DOMAIN rows :
        rows' = [rows EXCEPT ![r].realized_pnl = @ + fills[i].pnl,
                             ![r].closed_at    =
                               IF fills[i].at > @ THEN fills[i].at ELSE @]
  BY DEF AddToTrade, RowsOf
<1>3. rows[r] \in Row /\ rows[r].realized_pnl \in Int /\ rows[r].closed_at \in 0..now
  BY LenProperties, ElementOfSeq DEF IInv, RowsOK, TypeOK
<1> DEFINE later == IF fills[i].at > rows[r].closed_at THEN fills[i].at ELSE rows[r].closed_at
           row == [rows[r] EXCEPT !.realized_pnl = @ + fills[i].pnl, !.closed_at = later]
<1>4. later \in 0..now
  BY <1>1, <1>3
<1>5. row \in Row /\ row.realized_pnl \in Int /\ row.closed_at = later
  <2>1. later \in Nat /\ rows[r].realized_pnl + fills[i].pnl \in Int
    BY <1>1, <1>3, <1>4
  <2> HIDE DEF later
  <2> QED BY <1>3, <2>1 DEF Row
<1>6. rows' = [rows EXCEPT ![r] = row]
  BY <1>2, <1>3 DEF Row
<1> HIDE DEF row, later
<1>7. rows' \in Seq(Row)
  BY <1>5, <1>6, ExceptSeq DEF IInv, RowsOK
<1>8. /\ DOMAIN rows' = DOMAIN rows /\ rows'[r] = row
      /\ \A q \in DOMAIN rows \ {r} : rows'[q] = rows[q]
  BY <1>6
<1>9. \A q \in DOMAIN rows' :
        rows'[q].realized_pnl \in Int /\ rows'[q].closed_at \in 0..now
  BY <1>4, <1>5, <1>8 DEF IInv, TypeOK
<1>10. skipped' \in [Warnings -> Nat]
  BY DEF AddToTrade, IInv, TypeOK
<1> QED BY <1>7, <1>9, <1>10, LoopType DEF AddToTrade

(* Every step of the service, of the clock and of the arrivals.            *)
LEMMA NextType ==
  ASSUME IInv, [Next]_vars
  PROVE  IInv'
<1> USE DEF input
<1>0. now \in Nat /\ MaxTime \in Nat /\ Len(fills) \in Nat
  BY SessionAssumption, LenProperties DEF IInv, TypeOK, Times
<1>1. CASE Arrive
  <2>1. PICK f \in FillRecords : fills' = Append(fills, f)
    BY <1>1 DEF Arrive
  <2>2. fills' \in Seq(FillRecords) /\ Len(fills') = Len(fills) + 1
    BY <2>1, AppendProperties DEF IInv, TypeOK
  <2> QED BY <1>0, <1>1, <2>2 DEF Arrive, IInv, TypeOK, RowsOK
<1>2. CASE Tick
  <2>1. now' \in Times /\ 0..now \subseteq 0..now'
    BY <1>0, <1>2 DEF Tick, Times
  <2> QED BY <1>2, <2>1 DEF Tick, IInv, TypeOK, RowsOK
<1>3. CASE AskMetrics
  <2>1. rows' = << >> /\ << >> \in Seq(Row) /\ DOMAIN rows' = {}
    BY <1>3, EmptySeq DEF AskMetrics
  <2> QED BY <1>0, <1>3, <2>1 DEF AskMetrics, IInv, TypeOK, RowsOK
<1>4. CASE SkipMissingPnl \/ SkipMissingTime \/ SkipFuture
  BY <1>4, SkipType DEF SkipMissingPnl, SkipMissingTime, SkipFuture, Warnings
<1>5. CASE OpenTrade
  BY <1>5, OpenType
<1>6. CASE AddToTrade
  BY <1>6, AddType
<1>7. CASE Report
  BY <1>7 DEF Report, IInv, TypeOK, RowsOK
<1>8. CASE UNCHANGED vars
  BY <1>8 DEF vars, IInv, TypeOK, RowsOK
<1> QED BY <1>1, <1>2, <1>3, <1>4, <1>5, <1>6, <1>7, <1>8 DEF Next

(* Before the first fill the invariant holds.                              *)
LEMMA InitType ==
  ASSUME Init
  PROVE  IInv
<1>1. << >> \in Seq(FillRecords) /\ << >> \in Seq(Row) /\ Len(<< >>) = 0
  BY EmptySeq
<1>2. fills = << >> /\ rows = << >> /\ DOMAIN rows = {}
  BY EmptySeq DEF Init
<1> QED BY <1>1, <1>2 DEF Init, IInv, TypeOK, RowsOK

(* However fills arrive and time passes, no trade is dated in the future   *)
(* of the request that groups it, and the loop stays within the fills.     *)
THEOREM TypeCorrect == Spec => []TypeOK
<1>1. Init => IInv
  BY InitType
<1>2. IInv /\ [Next]_vars => IInv'
  BY NextType
<1>3. IInv => TypeOK
  BY DEF IInv
<1> QED BY <1>1, <1>2, <1>3, PTL DEF Spec

-----------------------------------------------------------------------------
(* What rows say about a sequence s of fills of which the first n were     *)
(* looked at, for a request made at time t.                                *)
KeyAt(s, k) ==
  IF s[k].plan # None THEN <<"trade_plan", s[k].plan>>
  ELSE IF s[k].trade # None THEN <<"trade", s[k].trade>>
  ELSE IF s[k].order # None THEN <<"order", s[k].order>>
  ELSE <<"unidentified_fill", k>>

UsableAt(s, k, t) == s[k].pnl # None /\ s[k].at # None /\ s[k].at <= t

Group(s, n, t, key) == {k \in 1..n : UsableAt(s, k, t) /\ KeyAt(s, k) = key}

\* The amounts of the fills, as a function to sum.
Pnls(s) == [k \in DOMAIN s |-> s[k].pnl]

\* The first fill of a group.
IsFirst(g, k) == k \in g /\ \A j \in g : k <= j

\* A row sums up the fills g of its trade.
RowSums(row, s, g) ==
  /\ row.realized_pnl = TotalOf(Pnls(s), g)
  /\ \A k \in g : s[k].at <= row.closed_at
  /\ \E k \in g : s[k].at = row.closed_at
  /\ \E k \in g : IsFirst(g, k) /\ row.symbol = s[k].symbol

(* The rows R are the trades of those fills, in the order of their first   *)
(* fills.                                                                  *)
IsGrouping(R, s, n, t) ==
  /\ R \in Seq(Row)
  /\ \A q, r \in DOMAIN R : R[q].key = R[r].key => q = r
  /\ \A k \in 1..n : UsableAt(s, k, t) => \E r \in DOMAIN R : R[r].key = KeyAt(s, k)
  /\ \A r \in DOMAIN R : RowSums(R[r], s, Group(s, n, t, R[r].key))
  /\ \A q, r \in DOMAIN R : q < r =>
       \E k \in Group(s, n, t, R[q].key) : \A j \in Group(s, n, t, R[r].key) : k < j

(* A usable fill is in a group, and has an amount and a time.              *)
LEMMA UsableType ==
  ASSUME NEW s \in Seq(Fill), NEW k \in 1..Len(s), NEW t \in Nat, UsableAt(s, k, t)
  PROVE  s[k].pnl \in Int /\ s[k].at \in Nat /\ s[k].at <= t /\ s[k].symbol \in Symbols
<1>1. s[k] \in Fill
  BY ElementOfSeq
<1>2. s[k].pnl \in Int
  BY <1>1, SessionAssumption DEF Fill, UsableAt
<1>3. s[k].at \in Times /\ s[k].at <= t
  BY <1>1 DEF Fill, UsableAt
<1>4. s[k].symbol \in Symbols
  BY <1>1 DEF Fill
<1> QED BY <1>2, <1>3, <1>4, SessionAssumption DEF Times

(* Groups are finite, and have something to sum.                           *)
LEMMA GroupType ==
  ASSUME NEW s \in Seq(Fill), NEW n \in 0..Len(s), NEW t \in Nat, NEW key
  PROVE  LET g == Group(s, n, t, key)
         IN  /\ IsFiniteSet(g) /\ g \subseteq 1..n
             /\ \A k \in g : Pnls(s)[k] = s[k].pnl /\ Pnls(s)[k] \in Int /\ s[k].at \in Nat
<1> DEFINE g == Group(s, n, t, key)
<1>1. Len(s) \in Nat /\ DOMAIN s = 1..Len(s)
  BY LenProperties
<1>2. g \subseteq 1..n /\ n \in Int
  BY <1>1 DEF Group
<1>3. IsFiniteSet(1..n)
  BY <1>2, FS_Interval
<1>4. IsFiniteSet(g)
  BY <1>2, <1>3, FS_Subset
<1>5. ASSUME NEW k \in g PROVE Pnls(s)[k] = s[k].pnl /\ Pnls(s)[k] \in Int /\ s[k].at \in Nat
  <2>1. k \in 1..Len(s) /\ UsableAt(s, k, t)
    BY <1>1, <1>2 DEF Group
  <2>2. Pnls(s)[k] = s[k].pnl
    BY <1>1, <2>1 DEF Pnls
  <2> QED BY <2>1, <2>2, UsableType
<1> QED BY <1>2, <1>4, <1>5

(* No fill looked at, no trade.                                            *)
LEMMA GroupingEmpty ==
  ASSUME NEW s, NEW t
  PROVE  IsGrouping(<< >>, s, 0, t)
<1>1. << >> \in Seq(Row) /\ DOMAIN << >> = {} /\ 1..0 = {}
  BY EmptySeq
<1> QED BY <1>1 DEF IsGrouping

(* A fill that is skipped is in no group.                                  *)
LEMMA GroupingSkip ==
  ASSUME NEW R, NEW s \in Seq(Fill), NEW n \in Nat, NEW t,
         ~UsableAt(s, n + 1, t), IsGrouping(R, s, n, t)
  PROVE  IsGrouping(R, s, n + 1, t)
<1>1. \A k \in 1..n + 1 : UsableAt(s, k, t) => k \in 1..n
  OBVIOUS
<1>2. \A key : Group(s, n + 1, t, key) = Group(s, n, t, key)
  BY <1>1 DEF Group
<1> QED BY <1>1, <1>2 DEF IsGrouping

(* What a usable fill does to the groups: it joins that of its key.        *)
LEMMA GroupGrows ==
  ASSUME NEW s, NEW n \in Nat, NEW t, UsableAt(s, n + 1, t), NEW key
  PROVE  /\ key = KeyAt(s, n + 1) => Group(s, n + 1, t, key) = Group(s, n, t, key) \cup {n + 1}
         /\ key # KeyAt(s, n + 1) => Group(s, n + 1, t, key) = Group(s, n, t, key)
<1>1. \A k : k \in 1..n + 1 <=> k \in 1..n \/ k = n + 1
  OBVIOUS
<1> QED BY <1>1 DEF Group

(* The sum over a group grows by the fill that joins it.                   *)
LEMMA GroupSumGrows ==
  ASSUME NEW s \in Seq(Fill), NEW n \in Nat, n + 1 \in 1..Len(s), NEW t \in Nat,
         UsableAt(s, n + 1, t)
  PROVE  LET key == KeyAt(s, n + 1)
         IN  TotalOf(Pnls(s), Group(s, n + 1, t, key))
               = TotalOf(Pnls(s), Group(s, n, t, key)) + s[n + 1].pnl
<1> DEFINE key == KeyAt(s, n + 1)
           old == Group(s, n, t, key)
           new == Group(s, n + 1, t, key)
<1>1. n \in 0..Len(s) /\ n + 1 \in 0..Len(s)
  BY LenProperties
<1>2. IsFiniteSet(old) /\ old \subseteq 1..n /\ \A k \in new : Pnls(s)[k] \in Int
  BY <1>1, GroupType
<1>3. new = old \cup {n + 1}
  BY GroupGrows
<1> HIDE DEF old, new
<1>4. IsWith(new, old, n + 1) /\ IntOver(Pnls(s), new)
  BY <1>2, <1>3 DEF IsWith, IntOver
<1>5. TotalOf(Pnls(s), new) = TotalOf(Pnls(s), old) + Pnls(s)[n + 1]
  BY <1>2, <1>4, TotalAdd
<1>6. Pnls(s)[n + 1] = s[n + 1].pnl
  BY LenProperties DEF Pnls
<1> QED BY <1>5, <1>6 DEF old, new

(* A fill of a new key opens a row after the others.                       *)
LEMMA GroupingOpen ==
  ASSUME NEW R, NEW s \in Seq(Fill), NEW n \in Nat, n + 1 \in 1..Len(s), NEW t \in Nat,
         UsableAt(s, n + 1, t), IsGrouping(R, s, n, t),
         \A r \in DOMAIN R : R[r].key # KeyAt(s, n + 1),
         NEW row \in Row, row.key = KeyAt(s, n + 1), row.symbol = s[n + 1].symbol,
         row.realized_pnl = s[n + 1].pnl, row.closed_at = s[n + 1].at
  PROVE  IsGrouping(Append(R, row), s, n + 1, t)
<1> DEFINE key == KeyAt(s, n + 1)
           R2 == Append(R, row)
           last == Len(R) + 1
<1>1. R \in Seq(Row)
  BY DEF IsGrouping
<1>2. /\ R2 \in Seq(Row) /\ Len(R) \in Nat
      /\ DOMAIN R = 1..Len(R) /\ DOMAIN R2 = 1..last
      /\ \A r \in DOMAIN R : R2[r] = R[r]
      /\ R2[last] = row
  BY <1>1, AppendProperties, LenProperties
<1> HIDE DEF R2
<1>3. \A r \in DOMAIN R2 : r \in DOMAIN R \/ r = last
  BY <1>2
<1>4. Group(s, n, t, key) = {}
  BY DEF Group, IsGrouping
<1>5. Group(s, n + 1, t, key) = {n + 1}
  <2>1. Group(s, n + 1, t, key) = Group(s, n, t, key) \cup {n + 1}
    BY GroupGrows
  <2> QED BY <1>4, <2>1
<1>6. \A r \in DOMAIN R : Group(s, n + 1, t, R2[r].key) = Group(s, n, t, R[r].key)
  BY <1>2, GroupGrows
<1>7. \A q, r \in DOMAIN R2 : R2[q].key = R2[r].key => q = r
  BY <1>2, <1>3 DEF IsGrouping
<1>8. ASSUME NEW k \in 1..n + 1, UsableAt(s, k, t)
      PROVE  \E r \in DOMAIN R2 : R2[r].key = KeyAt(s, k)
  <2>1. CASE k = n + 1
    BY <1>2, <2>1
  <2>2. CASE k \in 1..n
    <3>1. PICK r \in DOMAIN R : R[r].key = KeyAt(s, k)
      BY <1>8, <2>2 DEF IsGrouping
    <3> QED BY <1>2, <3>1
  <2> QED BY <2>1, <2>2
<1>9. RowSums(row, s, {n + 1})
  <2>1. s[n + 1].pnl \in Int /\ s[n + 1].at \in Nat
    BY UsableType
  <2>2. TotalOf(Pnls(s), {n + 1}) = TotalOf(Pnls(s), {}) + s[n + 1].pnl
    BY <1>4, <1>5, GroupSumGrows
  <2>3. TotalOf(Pnls(s), {n + 1}) = s[n + 1].pnl
    BY <2>1, <2>2, TotalEmpty
  <2> QED BY <2>1, <2>3 DEF RowSums, IsFirst
<1>10. \A r \in DOMAIN R2 : RowSums(R2[r], s, Group(s, n + 1, t, R2[r].key))
  BY <1>2, <1>3, <1>5, <1>6, <1>9 DEF IsGrouping
<1>11. ASSUME NEW q \in DOMAIN R2, NEW r \in DOMAIN R2, q < r
       PROVE  \E k \in Group(s, n + 1, t, R2[q].key) :
                \A j \in Group(s, n + 1, t, R2[r].key) : k < j
  <2>1. q \in DOMAIN R
    BY <1>2, <1>11
  <2>2. CASE r \in DOMAIN R
    BY <1>6, <1>11, <2>1, <2>2 DEF IsGrouping
  <2>3. CASE r = last
    <3>1. PICK k \in Group(s, n, t, R[q].key) : TRUE
      BY <2>1 DEF IsGrouping, RowSums
    <3>2. k \in 1..n
      BY DEF Group
    <3> QED BY <1>2, <1>5, <1>6, <2>1, <2>3, <3>1, <3>2
  <2> QED BY <1>3, <2>2, <2>3
<1>12. IsGrouping(R2, s, n + 1, t)
  BY <1>2, <1>7, <1>8, <1>10, <1>11 DEF IsGrouping
<1> QED BY <1>12 DEF R2

(* A fill of a known key is added to its row.                              *)
LEMMA GroupingAdd ==
  ASSUME NEW R, NEW s \in Seq(Fill), NEW n \in Nat, n + 1 \in 1..Len(s), NEW t \in Nat,
         UsableAt(s, n + 1, t), IsGrouping(R, s, n, t),
         NEW r \in DOMAIN R, R[r].key = KeyAt(s, n + 1),
         NEW row \in Row, row.key = R[r].key, row.symbol = R[r].symbol,
         row.realized_pnl = R[r].realized_pnl + s[n + 1].pnl,
         row.closed_at = IF s[n + 1].at > R[r].closed_at THEN s[n + 1].at ELSE R[r].closed_at
  PROVE  IsGrouping([R EXCEPT ![r] = row], s, n + 1, t)
<1> DEFINE R2 == [R EXCEPT ![r] = row]
           old == Group(s, n, t, R[r].key)
           new == Group(s, n + 1, t, R[r].key)
<1>1. R \in Seq(Row) /\ DOMAIN R = 1..Len(R) /\ Len(R) \in Nat
  BY LenProperties DEF IsGrouping
<1>2. R2 \in Seq(Row)
  BY <1>1, ExceptSeq
<1>3. /\ DOMAIN R2 = DOMAIN R /\ R2[r] = row
      /\ \A q \in DOMAIN R \ {r} : R2[q] = R[q]
  OBVIOUS
<1> HIDE DEF R2
<1>4. \A q \in DOMAIN R : R2[q].key = R[q].key
  BY <1>3
<1>5. new = old \cup {n + 1}
  BY GroupGrows
<1>6. \A q \in DOMAIN R \ {r} : Group(s, n + 1, t, R2[q].key) = Group(s, n, t, R[q].key)
  BY <1>4, GroupGrows DEF IsGrouping
<1>7. \A k \in 1..n + 1 : UsableAt(s, k, t) => \E q \in DOMAIN R2 : R2[q].key = KeyAt(s, k)
  <2> SUFFICES ASSUME NEW k \in 1..n + 1, UsableAt(s, k, t)
               PROVE  \E q \in DOMAIN R : R[q].key = KeyAt(s, k)
    BY <1>3, <1>4
  <2>1. CASE k = n + 1
    BY <2>1
  <2>2. CASE k \in 1..n
    BY <2>2 DEF IsGrouping
  <2> QED BY <2>1, <2>2
<1>8. RowSums(R[r], s, old)
  BY DEF IsGrouping
<1>9. /\ IsFiniteSet(old) /\ old \subseteq 1..n
      /\ \A k \in old : Pnls(s)[k] \in Int /\ s[k].at \in Nat
  <2>1. n \in 0..Len(s)
    BY LenProperties
  <2> QED BY <2>1, GroupType
<1>10. s[n + 1].pnl \in Int /\ s[n + 1].at \in Nat
  BY UsableType
<1>11. R[r].closed_at \in Nat
  <2>1. R[r] \in Row
    BY <1>1, ElementOfSeq
  <2> QED BY <2>1 DEF Row
<1>12. RowSums(row, s, new)
  <2>1. TotalOf(Pnls(s), new) = TotalOf(Pnls(s), old) + s[n + 1].pnl
    BY GroupSumGrows
  <2> HIDE DEF old, new
  <2>2. row.realized_pnl = TotalOf(Pnls(s), new)
    BY <1>8, <2>1 DEF RowSums
  <2>3. \A k \in new : s[k].at <= row.closed_at
    <3>1. \A k \in old : s[k].at \in Nat /\ s[k].at <= R[r].closed_at
      BY <1>8, <1>9 DEF RowSums
    <3>2. R[r].closed_at <= row.closed_at /\ s[n + 1].at <= row.closed_at /\ row.closed_at \in Nat
      BY <1>10, <1>11
    <3>3. \A k \in old : s[k].at <= row.closed_at
      BY <1>11, <3>1, <3>2
    <3> QED BY <1>5, <3>2, <3>3
  <2>4. \E k \in new : s[k].at = row.closed_at
    BY <1>5, <1>8, <1>10, <1>11 DEF RowSums
  <2>5. \E k \in new : IsFirst(new, k) /\ row.symbol = s[k].symbol
    <3>1. PICK k \in old : IsFirst(old, k) /\ row.symbol = s[k].symbol
      BY <1>8 DEF RowSums
    <3>2. k <= n + 1
      BY <1>9
    <3> QED BY <1>5, <3>1, <3>2 DEF IsFirst
  <2> QED BY <2>2, <2>3, <2>4, <2>5 DEF RowSums
<1>13. \A q \in DOMAIN R2 : RowSums(R2[q], s, Group(s, n + 1, t, R2[q].key))
  <2> SUFFICES ASSUME NEW q \in DOMAIN R PROVE RowSums(R2[q], s, Group(s, n + 1, t, R2[q].key))
    BY <1>3
  <2>1. CASE q = r
    BY <1>3, <1>12, <2>1
  <2>2. CASE q # r
    BY <1>3, <1>6, <2>2 DEF IsGrouping
  <2> QED BY <2>1, <2>2
<1>14. ASSUME NEW p \in DOMAIN R, NEW q \in DOMAIN R, p < q
       PROVE  \E k \in Group(s, n + 1, t, R2[p].key) :
                \A j \in Group(s, n + 1, t, R2[q].key) : k < j
  <2>1. PICK k \in Group(s, n, t, R[p].key) : \A j \in Group(s, n, t, R[q].key) : k < j
    BY <1>14 DEF IsGrouping
  <2>2. k \in 1..n
    BY DEF Group
  <2>3. k \in Group(s, n + 1, t, R2[p].key)
    BY <1>3, <1>5, <1>6, <2>1
  <2>4. \A j \in Group(s, n + 1, t, R2[q].key) : j \in Group(s, n, t, R[q].key) \/ j = n + 1
    BY <1>3, <1>5, <1>6
  <2> QED BY <2>1, <2>2, <2>3, <2>4
<1>15. IsGrouping(R2, s, n + 1, t)
  BY <1>2, <1>3, <1>4, <1>7, <1>13, <1>14 DEF IsGrouping
<1> QED BY <1>15 DEF R2

-----------------------------------------------------------------------------
(* The report as a function of rows R and of the time t it is made at.     *)
DayStart(t) == (t \div DayLength) * DayLength
WeekStart(t) == DayStart(t) - ((t \div DayLength) % WeekLength) * DayLength
ClosedIn(R, from, t) == {r \in DOMAIN R : from <= R[r].closed_at /\ R[r].closed_at <= t}
RowPnls(R) == [r \in DOMAIN R |-> Nearest(R[r].realized_pnl, Fine)]
LossesIn(R) == {r \in DOMAIN R : RowPnls(R)[r] < 0}
WinsIn(R) == {r \in DOMAIN R : RowPnls(R)[r] > 0}
Later(R, q, r) ==
  \/ R[q].closed_at > R[r].closed_at
  \/ R[q].closed_at = R[r].closed_at /\ q < r
StreakIn(R) == {r \in LossesIn(R) : \A w \in WinsIn(R) : ~Later(R, w, r)}
SinceLast(R, rs, t) ==
  IF rs = {} THEN None ELSE t - Max({R[r].closed_at : r \in rs})

IsReport(rep, R, t) ==
  /\ rep.daily = Nearest(TotalOf(RowPnls(R), ClosedIn(R, DayStart(t), t)), Cent)
  /\ rep.weekly = Nearest(TotalOf(RowPnls(R), ClosedIn(R, WeekStart(t), t)), Cent)
  /\ rep.streak = Cardinality(StreakIn(R))
  /\ rep.today = Cardinality(ClosedIn(R, DayStart(t), t))
  /\ rep.since_loss = SinceLast(R, LossesIn(R), t)

\* A report answers for fills that are still known as they were.
Answers(rep, s, t) ==
  /\ rep.known \in 0..Len(s) /\ rep.at \in 0..t
  /\ \E R : IsGrouping(R, s, rep.known, rep.at) /\ IsReport(rep, R, rep.at)

(* Reports outlive the rows they were made of, which the next request      *)
(* throws away: what remains is that such rows exist.                      *)
LoopGrouped == pc = "aggregate" => IsGrouping(rows, fills, i - 1, now)
FreshGrouped == Fresh => IsGrouping(rows, fills, Len(fills), now) /\ IsReport(report, rows, now)
ReportAnswers == report # None => Answers(report, fills, now)
PreviousAnswers ==
  previous # None =>
    /\ Answers(previous, fills, now)
    /\ report # None => previous.at <= report.at

RInv == IInv /\ LoopGrouped /\ FreshGrouped /\ ReportAnswers /\ PreviousAnswers

\* The model's operators are those of the fills and rows of the moment.
LEMMA KeyIsTradeKey ==
  ASSUME NEW k
  PROVE  TradeKey(k) = KeyAt(fills, k) /\ (Usable(k) <=> UsableAt(fills, k, now))
BY DEF TradeKey, KeyAt, Usable, UsableAt

(* A total of rows as the report forms it.                                 *)
LEMMA PnlIsTotal ==
  ASSUME RowsOK, NEW rs, rs \subseteq DOMAIN rows
  PROVE  Pnl(rs) = TotalOf(RowPnls(rows), rs)
<1> DEFINE f == [r \in rs |-> TradePnl(r)]
           folds(g) == g = [s \in SUBSET rs |->
                              IF s = {} THEN 0
                              ELSE TradePnl(Next1(s)) + g[s \ {Next1(s)}]]
<1>1. ASSUME NEW g PROVE IsSum(g, f, rs) <=> folds(g)
  <2>1. [s \in SUBSET rs |-> IF s = {} THEN 0
                             ELSE TradePnl(Next1(s)) + g[s \ {Next1(s)}]]
        = [s \in SUBSET rs |-> IF s = {} THEN 0 ELSE f[Next1(s)] + g[s \ {Next1(s)}]]
    BY Next1In
  <2> QED BY <2>1 DEF IsSum
<1>2. (CHOOSE g : IsSum(g, f, rs)) = CHOOSE g : folds(g)
  BY <1>1, Zenon
<1>3. Pnl(rs) = (CHOOSE g : folds(g))[rs]
  BY DEF Pnl, MapThenSumSet, MapThenFoldSet, Next1
<1>4. Pnl(rs) = TotalOf(f, rs)
  BY <1>2, <1>3, TotalIsChosen
<1>5. IsFiniteSet(rs)
  <2>1. DOMAIN rows = 1..Len(rows) /\ Len(rows) \in Int
    BY LenProperties DEF RowsOK
  <2>2. IsFiniteSet(1..Len(rows))
    BY <2>1, FS_Interval
  <2> QED BY <2>1, <2>2, FS_Subset
<1>6. \A r \in rs : f[r] = RowPnls(rows)[r]
  BY DEF RowPnls, TradePnl
<1> HIDE DEF f
<1> QED BY <1>4, <1>5, <1>6, TotalAgree

(* The trades that lose and win are those whose rounded result does.       *)
LEMMA RowSigns == LossesIn(rows) = Losses /\ WinsIn(rows) = Wins
<1>1. \A r \in DOMAIN rows : RowPnls(rows)[r] = TradePnl(r)
  BY DEF RowPnls, TradePnl
<1> QED BY <1>1 DEF LossesIn, WinsIn, Losses, Wins

(* What Report returns is the report of the rows it finds.                 *)
LEMMA ReportMade ==
  ASSUME IInv, Report
  PROVE  report'.known = Len(fills) /\ report'.at = now /\ IsReport(report', rows, now)
<1>1. /\ DayStart(now) = StartOfDay /\ WeekStart(now) = StartOfWeek
      /\ LossesIn(rows) = Losses /\ WinsIn(rows) = Wins
      /\ \A t : ClosedIn(rows, t, now) = ClosedSince(t)
  BY RowSigns DEF DayStart, StartOfDay, WeekStart, StartOfWeek, ClosedIn, ClosedSince
<1>2. \A t : ClosedSince(t) \subseteq DOMAIN rows
  BY DEF ClosedSince
<1>3. /\ Pnl(ClosedSince(StartOfDay)) = TotalOf(RowPnls(rows), ClosedSince(StartOfDay))
      /\ Pnl(ClosedSince(StartOfWeek)) = TotalOf(RowPnls(rows), ClosedSince(StartOfWeek))
  BY <1>2, PnlIsTotal DEF IInv
<1>4. ConsecutiveLosses = Cardinality(StreakIn(rows))
  <2>1. {r \in Losses : \A w \in Wins : ~SortedBefore(w, r)} = StreakIn(rows)
    BY <1>1 DEF StreakIn, Later, SortedBefore
  <2> QED BY <2>1 DEF ConsecutiveLosses
<1>5. MinutesSince(Losses) = SinceLast(rows, LossesIn(rows), now)
  BY <1>1 DEF MinutesSince, SinceLast
<1>6. /\ report'.known = Len(fills) /\ report'.at = now
      /\ report'.daily = Nearest(Pnl(ClosedSince(StartOfDay)), Cent)
      /\ report'.weekly = Nearest(Pnl(ClosedSince(StartOfWeek)), Cent)
      /\ report'.streak = ConsecutiveLosses
      /\ report'.today = Cardinality(ClosedSince(StartOfDay))
      /\ report'.since_loss = MinutesSince(Losses)
  BY DEF Report, InCents
<1> QED BY <1>1, <1>3, <1>4, <1>5, <1>6 DEF IsReport

(* More fills change nothing about the rows made of the first n.           *)
LEMMA GroupingPrefix ==
  ASSUME NEW s \in Seq(Fill), NEW s2 \in Seq(Fill), NEW n \in 0..Len(s), n <= Len(s2),
         \A k \in 1..n : s2[k] = s[k],
         NEW t \in Nat, NEW R, IsGrouping(R, s, n, t)
  PROVE  IsGrouping(R, s2, n, t)
<1>1. n \in Nat /\ n \in 0..Len(s2)
  BY LenProperties
<1>2. \A k \in 1..n : KeyAt(s2, k) = KeyAt(s, k) /\ (UsableAt(s2, k, t) <=> UsableAt(s, k, t))
  BY DEF KeyAt, UsableAt
<1>3. \A key : Group(s2, n, t, key) = Group(s, n, t, key)
  BY <1>2 DEF Group
<1>4. ASSUME NEW key PROVE TotalOf(Pnls(s2), Group(s, n, t, key)) = TotalOf(Pnls(s), Group(s, n, t, key))
  <2> DEFINE g == Group(s, n, t, key)
  <2>1. IsFiniteSet(g) /\ g \subseteq 1..n /\ \A k \in g : Pnls(s)[k] = s[k].pnl
    BY GroupType
  <2>2. \A k \in g : Pnls(s2)[k] = s2[k].pnl
    <3>1. \A k \in Group(s2, n, t, key) : Pnls(s2)[k] = s2[k].pnl
      BY <1>1, GroupType
    <3> QED BY <1>3, <3>1
  <2> HIDE DEF g
  <2>3. \A k \in g : Pnls(s2)[k] = Pnls(s)[k]
    BY <2>1, <2>2
  <2>4. TotalOf(Pnls(s2), g) = TotalOf(Pnls(s), g)
    BY <2>1, <2>3, TotalAgree
  <2> QED BY <2>4 DEF g
<1>5. ASSUME NEW row, NEW key, RowSums(row, s, Group(s, n, t, key))
      PROVE  RowSums(row, s2, Group(s2, n, t, key))
  <2> DEFINE g == Group(s, n, t, key)
  <2>1. g \subseteq 1..n /\ Group(s2, n, t, key) = g
    BY <1>3 DEF Group
  <2>2. TotalOf(Pnls(s2), g) = TotalOf(Pnls(s), g)
    BY <1>4
  <2> HIDE DEF g
  <2>3. RowSums(row, s, g)
    BY <1>5 DEF g
  <2>4. RowSums(row, s2, g)
    BY <2>1, <2>2, <2>3 DEF RowSums
  <2> QED BY <2>1, <2>4
<1> QED BY <1>2, <1>3, <1>5 DEF IsGrouping

(* What was answered stays answered while fills and time are added.        *)
LEMMA AnswersKept ==
  ASSUME NEW s \in Seq(Fill), NEW s2 \in Seq(Fill), Len(s) <= Len(s2),
         \A k \in 1..Len(s) : s2[k] = s[k],
         NEW t \in Nat, NEW t2 \in Nat, t <= t2, NEW rep, Answers(rep, s, t)
  PROVE  Answers(rep, s2, t2)
<1>1. Len(s) \in Nat /\ Len(s2) \in Nat
  BY LenProperties
<1>2. rep.known \in 0..Len(s) /\ rep.at \in 0..t
  BY DEF Answers
<1>3. PICK R : IsGrouping(R, s, rep.known, rep.at) /\ IsReport(rep, R, rep.at)
  BY DEF Answers
<1>4. rep.known <= Len(s2) /\ \A k \in 1..rep.known : s2[k] = s[k]
  BY <1>1, <1>2
<1>5. IsGrouping(R, s2, rep.known, rep.at)
  BY <1>2, <1>3, <1>4, GroupingPrefix
<1> QED BY <1>1, <1>2, <1>3, <1>5 DEF Answers

(* The fill at the loop's position is what a pass of the loop adds.        *)
LEMMA LoopStep ==
  ASSUME IInv, LoopGrouped, AtFill
  PROVE  /\ i - 1 \in Nat /\ (i - 1) + 1 = i /\ i \in 1..Len(fills)
         /\ fills \in Seq(Fill) /\ now \in Nat
         /\ IsGrouping(rows, fills, i - 1, now)
         /\ i' - 1 = i /\ now' = now /\ fills' = fills
         /\ pc' = "aggregate" /\ pc = "aggregate"
<1>1. i \in 1..Len(fills) /\ Len(fills) \in Nat
  BY TheFill DEF IInv
<1>2. fills \in Seq(Fill) /\ now \in Nat
  <2>1. FillRecords \subseteq Fill
    BY SessionAssumption
  <2>2. fills \in Seq(Fill)
    BY <2>1, SeqMonotonic DEF IInv, TypeOK
  <2> QED BY <2>2, SessionAssumption DEF IInv, TypeOK, Times
<1> QED BY <1>1, <1>2 DEF AtFill, LoopGrouped, input

(* A pass of the loop keeps the rows a grouping of the fills taken.        *)
LEMMA LoopKeeps ==
  ASSUME IInv, LoopGrouped,
         SkipMissingPnl \/ SkipMissingTime \/ SkipFuture \/ OpenTrade \/ AddToTrade
  PROVE  LoopGrouped'
<1>1. AtFill
  BY DEF SkipMissingPnl, SkipMissingTime, SkipFuture, OpenTrade, AddToTrade
<1>2. /\ i - 1 \in Nat /\ (i - 1) + 1 = i /\ i \in 1..Len(fills)
      /\ fills \in Seq(Fill) /\ now \in Nat
      /\ IsGrouping(rows, fills, i - 1, now)
      /\ i' - 1 = i /\ now' = now /\ fills' = fills
  BY <1>1, LoopStep
<1>3. SUFFICES IsGrouping(rows', fills, i, now)
  BY <1>2 DEF LoopGrouped
<1>4. CASE SkipMissingPnl \/ SkipMissingTime \/ SkipFuture
  <2>1. ~UsableAt(fills, i, now)
    <3>1. fills[i] \in Fill
      BY <1>2, ElementOfSeq
    <3>2. fills[i].at # None => fills[i].at \in Nat
      BY <3>1, SessionAssumption DEF Fill, Times
    <3> QED BY <1>2, <1>4, <3>2 DEF UsableAt, SkipMissingPnl, SkipMissingTime, SkipFuture
  <2>2. rows' = rows
    BY <1>4 DEF SkipMissingPnl, SkipMissingTime, SkipFuture, Skip
  <2> QED BY <1>2, <2>1, <2>2, GroupingSkip
<1>5. CASE OpenTrade
  <2> DEFINE row == [key          |-> TradeKey(i),
                     symbol       |-> fills[i].symbol,
                     realized_pnl |-> fills[i].pnl,
                     closed_at    |-> fills[i].at]
  <2>1. UsableAt(fills, i, now) /\ TradeKey(i) = KeyAt(fills, i)
    BY <1>5, KeyIsTradeKey DEF OpenTrade
  <2>2. fills[i].pnl \in Int /\ fills[i].at \in Nat /\ fills[i].symbol \in Symbols
    BY <1>2, <2>1, UsableType
  <2>3. TradeKey(i) \in TradeKeys
    BY <1>1, TheFill DEF IInv
  <2>4. row \in Row /\ row.key = KeyAt(fills, i) /\ row.symbol = fills[i].symbol
        /\ row.realized_pnl = fills[i].pnl /\ row.closed_at = fills[i].at
    BY <2>1, <2>2, <2>3 DEF Row
  <2>5. rows' = Append(rows, row)
    BY <1>5 DEF OpenTrade
  <2>6. \A r \in DOMAIN rows : rows[r].key # KeyAt(fills, i)
    BY <1>5, <2>1 DEF OpenTrade, RowsOf
  <2> HIDE DEF row
  <2> QED BY <1>2, <2>1, <2>4, <2>5, <2>6, GroupingOpen
<1>6. CASE AddToTrade
  <2>1. UsableAt(fills, i, now) /\ TradeKey(i) = KeyAt(fills, i)
    BY <1>6, KeyIsTradeKey DEF AddToTrade
  <2>2. PICK r \in DOMAIN rows :
          /\ rows[r].key = KeyAt(fills, i)
          /\ rows' = [rows EXCEPT ![r].realized_pnl = @ + fills[i].pnl,
                                  ![r].closed_at    =
                                    IF fills[i].at > @ THEN fills[i].at ELSE @]
    BY <1>6, <2>1 DEF AddToTrade, RowsOf
  <2>3. rows[r] \in Row
    BY LenProperties, ElementOfSeq DEF IInv, RowsOK
  <2> DEFINE later == IF fills[i].at > rows[r].closed_at THEN fills[i].at ELSE rows[r].closed_at
             sum == rows[r].realized_pnl + fills[i].pnl
             row == [rows[r] EXCEPT !.realized_pnl = sum, !.closed_at = later]
  <2>4. later \in Nat /\ sum \in Int
    <3>1. fills[i].pnl \in Int /\ fills[i].at \in Nat
      BY <1>2, <2>1, UsableType
    <3>2. rows[r].closed_at \in Nat /\ rows[r].realized_pnl \in Int
      BY <2>3 DEF Row
    <3> QED BY <3>1, <3>2
  <2>5. rows' = [rows EXCEPT ![r] = row]
    BY <2>2, <2>3 DEF Row
  <2>6. row \in Row /\ row.key = rows[r].key /\ row.symbol = rows[r].symbol
        /\ row.realized_pnl = sum /\ row.closed_at = later
    <3> HIDE DEF later, sum
    <3> QED BY <2>3, <2>4 DEF Row
  <2> DEFINE n == i - 1
  <2>7. /\ n \in Nat /\ n + 1 = i /\ n + 1 \in 1..Len(fills)
        /\ UsableAt(fills, n + 1, now) /\ rows[r].key = KeyAt(fills, n + 1)
        /\ IsGrouping(rows, fills, n, now)
    BY <1>2, <2>1, <2>2
  <2>8. /\ row.realized_pnl = rows[r].realized_pnl + fills[n + 1].pnl
        /\ row.closed_at = IF fills[n + 1].at > rows[r].closed_at
                             THEN fills[n + 1].at ELSE rows[r].closed_at
    BY <2>6, <2>7
  <2> HIDE DEF row, n, later, sum
  <2>9. IsGrouping([rows EXCEPT ![r] = row], fills, n + 1, now)
    BY <1>2, <2>6, <2>7, <2>8, GroupingAdd
  <2> QED BY <2>5, <2>7, <2>9
<1> QED BY <1>4, <1>5, <1>6

(* Between the loop's end and the next request a report is fresh only if   *)
(* nothing happened.                                                       *)
LEMMA StaleStays ==
  ASSUME RInv, ~Fresh, Arrive \/ Tick, report # None
  PROVE  ~Fresh'
<1>1. /\ report.known \in 0..Len(fills) /\ report.at \in 0..now
      /\ Len(fills) \in Nat /\ now \in Nat
  BY SessionAssumption, LenProperties
     DEF RInv, ReportAnswers, Answers, IInv, TypeOK, Times
<1>2. CASE Arrive
  <2>1. Len(fills') = Len(fills) + 1
    BY <1>2, AppendProperties DEF Arrive, RInv, IInv, TypeOK
  <2> QED BY <1>1, <1>2, <2>1 DEF Arrive, Fresh
<1>3. CASE Tick
  BY <1>1, <1>3 DEF Tick, Fresh
<1> QED BY <1>2, <1>3

(* A fill or the passing of time makes the last report an old one.         *)
LEMMA FreshEnds ==
  ASSUME RInv, Fresh, Arrive \/ Tick
  PROVE  ~Fresh'
<1>1. Len(fills) \in Nat /\ now \in Nat
  BY SessionAssumption, LenProperties DEF RInv, IInv, TypeOK, Times
<1>2. CASE Arrive
  <2>1. Len(fills') = Len(fills) + 1
    BY <1>2, AppendProperties DEF Arrive, RInv, IInv, TypeOK
  <2> QED BY <1>1, <1>2, <2>1 DEF Arrive, Fresh
<1>3. CASE Tick
  BY <1>1, <1>3 DEF Tick, Fresh
<1> QED BY <1>2, <1>3

(* Fills and time are only ever added.                                     *)
LEMMA OnlyMore ==
  ASSUME IInv, [Next]_vars
  PROVE  /\ fills \in Seq(Fill) /\ fills' \in Seq(Fill) /\ Len(fills) <= Len(fills')
         /\ \A k \in 1..Len(fills) : fills'[k] = fills[k]
         /\ now \in Nat /\ now' \in Nat /\ now <= now'
<1>1. IInv'
  BY NextType
<1>2. /\ fills \in Seq(Fill) /\ fills' \in Seq(Fill)
      /\ now \in Nat /\ now' \in Nat /\ Len(fills) \in Nat
  <2>1. FillRecords \subseteq Fill
    BY SessionAssumption
  <2>2. fills \in Seq(Fill) /\ fills' \in Seq(Fill)
    BY <1>1, <2>1, SeqMonotonic DEF IInv, TypeOK
  <2> QED BY <1>1, <2>2, SessionAssumption, LenProperties DEF IInv, TypeOK, Times
<1>3. CASE Arrive
  <2>1. PICK f \in FillRecords : fills' = Append(fills, f)
    BY <1>3 DEF Arrive
  <2>2. f \in Fill
    BY SessionAssumption
  <2>3. Len(fills') = Len(fills) + 1 /\ \A k \in 1..Len(fills) : fills'[k] = fills[k]
    BY <1>2, <2>1, <2>2, AppendProperties
  <2> QED BY <1>2, <1>3, <2>3 DEF Arrive
<1>4. CASE Tick
  BY <1>2, <1>4 DEF Tick
<1>5. CASE ~Arrive /\ ~Tick
  <2>1. fills' = fills /\ now' = now
    BY <1>5 DEF Next, AskMetrics, SkipMissingPnl, SkipMissingTime, SkipFuture, OpenTrade,
                AddToTrade, Report, AtFill, vars, input
  <2> QED BY <1>2, <2>1
<1> QED BY <1>3, <1>4, <1>5

(* Every step keeps what the reports were made of.                         *)
LEMMA NextReports ==
  ASSUME RInv, [Next]_vars
  PROVE  RInv'
<1>1. IInv'
  BY NextType DEF RInv
<1>2. /\ fills \in Seq(Fill) /\ fills' \in Seq(Fill) /\ Len(fills) <= Len(fills')
      /\ \A k \in 1..Len(fills) : fills'[k] = fills[k]
      /\ now \in Nat /\ now' \in Nat /\ now <= now'
  BY OnlyMore DEF RInv
<1>3. \A rep : Answers(rep, fills, now) => Answers(rep, fills', now')
  BY <1>2, AnswersKept
<1>4. CASE Arrive \/ Tick
  <2>1. LoopGrouped'
    BY <1>4 DEF Arrive, Tick, LoopGrouped
  <2>2. report' = report /\ previous' = previous
    BY <1>4 DEF Arrive, Tick
  <2>3. ReportAnswers' /\ PreviousAnswers'
    BY <1>3, <2>2 DEF RInv, ReportAnswers, PreviousAnswers
  <2>4. FreshGrouped'
    <3>1. CASE report = None
      BY <2>2, <3>1 DEF FreshGrouped, Fresh, Answered
    <3>2. CASE report # None
      BY <1>4, <3>2, StaleStays, FreshEnds DEF FreshGrouped
    <3> QED BY <3>1, <3>2
  <2> QED BY <1>1, <2>1, <2>3, <2>4 DEF RInv
<1>5. CASE AskMetrics
  <2>1. rows' = << >> /\ i' = 1 /\ report' = report /\ previous' = report /\ pc' = "aggregate"
    BY <1>5 DEF AskMetrics
  <2>2. LoopGrouped'
    BY <2>1, GroupingEmpty DEF LoopGrouped
  <2>3. FreshGrouped'
    BY <2>1 DEF FreshGrouped, Fresh, Answered
  <2>4. ReportAnswers'
    BY <1>3, <2>1 DEF RInv, ReportAnswers
  <2>5. PreviousAnswers'
    <3>1. previous' # None => Answers(previous', fills', now')
      BY <1>3, <2>1 DEF RInv, ReportAnswers
    <3>2. previous' # None => previous'.at <= report'.at
      BY <2>1, <3>1, <1>2 DEF Answers
    <3> QED BY <3>1, <3>2 DEF PreviousAnswers
  <2> QED BY <1>1, <2>2, <2>3, <2>4, <2>5 DEF RInv
<1>6. CASE SkipMissingPnl \/ SkipMissingTime \/ SkipFuture \/ OpenTrade \/ AddToTrade
  <2>1. LoopGrouped'
    BY <1>6, LoopKeeps DEF RInv
  <2>2. pc' = "aggregate" /\ report' = report /\ previous' = previous
    BY <1>6 DEF SkipMissingPnl, SkipMissingTime, SkipFuture, OpenTrade, AddToTrade, AtFill
  <2> QED BY <1>1, <1>3, <2>1, <2>2
          DEF RInv, FreshGrouped, Fresh, Answered, ReportAnswers, PreviousAnswers
<1>7. CASE Report
  <2>1. /\ report'.known = Len(fills) /\ report'.at = now /\ IsReport(report', rows, now)
    BY <1>7, ReportMade DEF RInv
  <2>2. /\ fills' = fills /\ now' = now /\ rows' = rows /\ previous' = previous
        /\ pc' = "idle" /\ pc = "aggregate" /\ i > Len(fills) /\ i \in 1..Len(fills) + 1
    BY <1>7 DEF Report, input, RInv, IInv, TypeOK
  <2>3. IsGrouping(rows, fills, Len(fills), now)
    <3>1. i - 1 = Len(fills)
      BY <1>2, <2>2, LenProperties
    <3> QED BY <2>2, <3>1 DEF RInv, LoopGrouped
  <2>4. Answers(report', fills', now')
    <3>1. Len(fills) \in 0..Len(fills)
      BY <1>2, LenProperties
    <3>2. now \in 0..now
      BY <1>2
    <3> QED BY <2>1, <2>2, <2>3, <3>1, <3>2 DEF Answers
  <2>5. LoopGrouped' /\ FreshGrouped' /\ ReportAnswers'
    BY <2>1, <2>2, <2>3, <2>4 DEF LoopGrouped, FreshGrouped, ReportAnswers
  <2>6. PreviousAnswers'
    <3>1. previous' # None => Answers(previous', fills', now')
      BY <2>2 DEF RInv, PreviousAnswers
    <3>2. previous' # None => previous'.at <= report'.at
      BY <1>2, <2>1, <2>2, <3>1 DEF Answers
    <3> QED BY <3>1, <3>2 DEF PreviousAnswers
  <2> QED BY <1>1, <2>5, <2>6 DEF RInv
<1>8. CASE UNCHANGED vars
  <2>1. fills' = fills /\ now' = now /\ rows' = rows /\ previous' = previous
        /\ pc' = pc /\ i' = i /\ report' = report
    BY <1>8 DEF vars, input
  <2> QED BY <1>1, <2>1 DEF RInv, LoopGrouped, FreshGrouped, Fresh, Answered,
                            ReportAnswers, PreviousAnswers
<1> QED BY <1>4, <1>5, <1>6, <1>7, <1>8 DEF Next

(* In every behaviour the reports are those of the fills known.            *)
LEMMA ReportInvariant == Spec => []RInv
<1>1. Init => RInv
  <2> SUFFICES ASSUME Init PROVE RInv
    OBVIOUS
  <2>1. IInv
    BY InitType
  <2> QED BY <2>1 DEF Init, RInv, LoopGrouped, FreshGrouped, Fresh, Answered,
                      ReportAnswers, PreviousAnswers
<1>2. RInv /\ [Next]_vars => RInv'
  BY NextReports
<1> QED BY <1>1, <1>2, PTL DEF Spec

\* The group of a row, as RowsAreTrades writes it.
LEMMA FillsOfIsGroup ==
  ASSUME i - 1 \in Nat, NEW r \in DOMAIN rows
  PROVE  FillsOf(r) = Group(fills, i - 1, now, rows[r].key)
BY KeyIsTradeKey DEF FillsOf, Taken, Group

(* The sum over a group, as RowsAreTrades writes it.                       *)
LEMMA PnlsIsTotal ==
  ASSUME NEW g, IsFiniteSet(g), g \subseteq DOMAIN fills
  PROVE  MapThenSumSet(LAMBDA k : fills[k].pnl, g) = TotalOf(Pnls(fills), g)
<1> DEFINE f == [k \in g |-> fills[k].pnl]
           folds(h) == h = [s \in SUBSET g |->
                              IF s = {} THEN 0
                              ELSE fills[Next1(s)].pnl + h[s \ {Next1(s)}]]
<1>1. ASSUME NEW h PROVE IsSum(h, f, g) <=> folds(h)
  <2>1. [s \in SUBSET g |-> IF s = {} THEN 0
                            ELSE fills[Next1(s)].pnl + h[s \ {Next1(s)}]]
        = [s \in SUBSET g |-> IF s = {} THEN 0 ELSE f[Next1(s)] + h[s \ {Next1(s)}]]
    BY Next1In
  <2> QED BY <2>1 DEF IsSum
<1>2. (CHOOSE h : IsSum(h, f, g)) = CHOOSE h : folds(h)
  BY <1>1, Zenon
<1>3. MapThenSumSet(LAMBDA k : fills[k].pnl, g) = (CHOOSE h : folds(h))[g]
  BY DEF MapThenSumSet, MapThenFoldSet, Next1
<1>4. MapThenSumSet(LAMBDA k : fills[k].pnl, g) = TotalOf(f, g)
  BY <1>2, <1>3, TotalIsChosen
<1>5. \A k \in g : f[k] = Pnls(fills)[k]
  BY DEF Pnls
<1> HIDE DEF f
<1>6. TotalOf(f, g) = TotalOf(Pnls(fills), g)
  BY <1>5, TotalAgree
<1> QED BY <1>4, <1>6

(* The first fill of a trade is the least of its positions.                *)
LEMMA FirstIsMin ==
  ASSUME NEW g \in SUBSET Nat, NEW k, IsFirst(g, k)
  PROVE  Min(g) = k
<1>1. k \in g /\ \A j \in g : k <= j
  BY DEF IsFirst
<1>2. Min(g) \in g /\ \A j \in g : Min(g) <= j
  BY <1>1 DEF Min
<1>3. Min(g) <= k /\ k <= Min(g) /\ Min(g) \in Nat /\ k \in Nat
  BY <1>1, <1>2
<1> QED BY <1>3

(* What the rows group is the trades of the fills taken.                   *)
LEMMA GroupingIsTrades ==
  ASSUME RInv
  PROVE  RowsAreTrades
<1> SUFFICES ASSUME pc = "aggregate"
             PROVE  /\ \A q, r \in DOMAIN rows : rows[q].key = rows[r].key => q = r
                    /\ {rows[r].key : r \in DOMAIN rows} = {TradeKey(k) : k \in Taken}
                    /\ \A r \in DOMAIN rows :
                         /\ rows[r].realized_pnl
                              = MapThenSumSet(LAMBDA k : fills[k].pnl, FillsOf(r))
                         /\ \A k \in FillsOf(r) : fills[k].at <= rows[r].closed_at
                         /\ \E k \in FillsOf(r) : fills[k].at = rows[r].closed_at
                         /\ rows[r].symbol = fills[Min(FillsOf(r))].symbol
  BY DEF RowsAreTrades
<1>1. IsGrouping(rows, fills, i - 1, now)
  BY DEF RInv, LoopGrouped
<1>2. i - 1 \in 0..Len(fills) /\ i - 1 \in Nat /\ Len(fills) \in Nat /\ DOMAIN fills = 1..Len(fills)
  BY LenProperties DEF RInv, IInv, TypeOK
<1>3. fills \in Seq(Fill) /\ now \in Nat
  <2>1. FillRecords \subseteq Fill
    BY SessionAssumption
  <2>2. fills \in Seq(Fill)
    BY <2>1, SeqMonotonic DEF RInv, IInv, TypeOK
  <2> QED BY <2>2, SessionAssumption DEF RInv, IInv, TypeOK, Times
<1>4. ASSUME NEW r \in DOMAIN rows
      PROVE  /\ RowSums(rows[r], fills, FillsOf(r))
             /\ FillsOf(r) \in SUBSET Nat /\ FillsOf(r) \subseteq DOMAIN fills /\ IsFiniteSet(FillsOf(r))
  <2>1. FillsOf(r) = Group(fills, i - 1, now, rows[r].key)
    BY <1>2, FillsOfIsGroup
  <2>2. FillsOf(r) \subseteq 1..i - 1 /\ IsFiniteSet(FillsOf(r))
    BY <1>2, <1>3, <2>1, GroupType
  <2>3. RowSums(rows[r], fills, FillsOf(r))
    BY <1>1, <2>1 DEF IsGrouping
  <2> QED BY <1>2, <2>2, <2>3
<1>5. \A q, r \in DOMAIN rows : rows[q].key = rows[r].key => q = r
  BY <1>1 DEF IsGrouping
<1>6. {rows[r].key : r \in DOMAIN rows} = {TradeKey(k) : k \in Taken}
  <2>1. \A r \in DOMAIN rows : \E k \in Taken : TradeKey(k) = rows[r].key
    <3> SUFFICES ASSUME NEW r \in DOMAIN rows PROVE \E k \in Taken : TradeKey(k) = rows[r].key
      OBVIOUS
    <3>1. PICK k \in FillsOf(r) : TRUE
      BY <1>4 DEF RowSums
    <3> QED BY <3>1 DEF FillsOf
  <2>2. \A k \in Taken : \E r \in DOMAIN rows : rows[r].key = TradeKey(k)
    BY <1>1, KeyIsTradeKey DEF IsGrouping, Taken
  <2> QED BY <2>1, <2>2
<1>7. ASSUME NEW r \in DOMAIN rows
      PROVE  /\ rows[r].realized_pnl = MapThenSumSet(LAMBDA k : fills[k].pnl, FillsOf(r))
             /\ \A k \in FillsOf(r) : fills[k].at <= rows[r].closed_at
             /\ \E k \in FillsOf(r) : fills[k].at = rows[r].closed_at
             /\ rows[r].symbol = fills[Min(FillsOf(r))].symbol
  <2>1. RowSums(rows[r], fills, FillsOf(r))
    BY <1>4
  <2>2. MapThenSumSet(LAMBDA k : fills[k].pnl, FillsOf(r)) = TotalOf(Pnls(fills), FillsOf(r))
    BY <1>4, PnlsIsTotal
  <2>3. PICK k \in FillsOf(r) : IsFirst(FillsOf(r), k) /\ rows[r].symbol = fills[k].symbol
    BY <2>1 DEF RowSums
  <2>4. Min(FillsOf(r)) = k
    BY <1>4, <2>3, FirstIsMin
  <2> QED BY <2>1, <2>2, <2>3, <2>4 DEF RowSums
<1> QED BY <1>5, <1>6, <1>7

(* For every sequence of fills and requests, each row the loop builds is   *)
(* one trade: the sum of its usable fills, dated by the latest of them.    *)
THEOREM RowsGroupFills == Spec => []RowsAreTrades
BY ReportInvariant, GroupingIsTrades, PTL

(* Days and weeks of a time: the day begins with it, and the days of a     *)
(* week before it are those of the same week number.                       *)
LEMMA DayOfTime ==
  ASSUME NEW t \in Nat
  PROVE  /\ t \div DayLength \in Nat /\ DayStart(t) \in Nat
         /\ \A u \in Nat : DayStart(t) <= u <=> t \div DayLength <= u \div DayLength
<1> DEFINE day(u) == u \div DayLength
<1>1. DayLength \in Nat /\ DayLength > 0
  BY SessionAssumption
<1>2. \A u \in Nat : /\ day(u) \in Nat
                     /\ day(u) * DayLength <= u /\ u < day(u) * DayLength + DayLength
  BY <1>1
<1>3. ASSUME NEW u \in Nat PROVE day(t) * DayLength <= u <=> day(t) <= day(u)
  <2>1. day(t) \in Nat /\ day(u) \in Nat
    BY <1>2
  <2>2. day(u) * DayLength <= u /\ u < (day(u) + 1) * DayLength
    BY <1>1, <1>2
  <2>3. \A a, b \in Nat : a <= b => a * DayLength <= b * DayLength
    BY <1>1
  <2> HIDE DEF day
  <2>4. ASSUME day(t) <= day(u) PROVE day(t) * DayLength <= u
    <3>1. day(t) * DayLength <= day(u) * DayLength
      BY <2>1, <2>3, <2>4
    <3> QED BY <1>1, <2>1, <2>2, <3>1
  <2>5. ASSUME ~(day(t) <= day(u)) PROVE ~(day(t) * DayLength <= u)
    <3>1. (day(u) + 1) * DayLength <= day(t) * DayLength
      BY <2>1, <2>3, <2>5
    <3> QED BY <1>1, <2>1, <2>2, <3>1
  <2> QED BY <2>4, <2>5
<1>4. day(t) * DayLength \in Nat
  BY <1>1, <1>2
<1> QED BY <1>2, <1>3, <1>4 DEF DayStart

(* Days are in one week when no week begins between them.                  *)
LEMMA WeekOfTime ==
  ASSUME NEW t \in Nat, NEW u \in Nat
  PROVE  LET day(v) == v \div DayLength
         IN  /\ day(t) <= day(u) => WeekStart(t) <= u
             /\ day(u) < day(t) =>
                  (WeekStart(t) <= u <=> day(u) \div WeekLength = day(t) \div WeekLength)
<1> DEFINE a == t \div DayLength
           b == u \div DayLength
           m == a % WeekLength
           q == a \div WeekLength
           p == b \div WeekLength
           n == b % WeekLength
<1>1. DayLength \in Nat /\ DayLength > 0 /\ WeekLength \in Nat /\ WeekLength > 0
  BY SessionAssumption
<1>2. a \in Nat /\ b \in Nat /\ DayStart(u) <= u /\ u < DayStart(u) + DayLength
  BY <1>1 DEF DayStart
<1>3. /\ q \in Nat /\ m \in 0..WeekLength - 1 /\ a = WeekLength * q + m
      /\ p \in Nat /\ n \in 0..WeekLength - 1 /\ b = WeekLength * p + n
  BY <1>1, <1>2
<1>4. a - m \in Nat /\ WeekStart(t) = (a - m) * DayLength
  <2>1. a - m \in Nat
    <3>1. WeekLength * q \in Nat
      BY <1>1, <1>3
    <3> HIDE DEF a, m, q
    <3> QED BY <1>2, <1>3, <3>1
  <2>2. WeekStart(t) = a * DayLength - m * DayLength
    BY DEF WeekStart, DayStart
  <2> HIDE DEF a, m
  <2> QED BY <1>1, <1>2, <1>3, <2>1, <2>2
<1>5. DayStart(u) = b * DayLength
  BY DEF DayStart
<1>6. WeekStart(t) <= u <=> a - m <= b
  <2>1. \A x, y \in Nat : x <= y => x * DayLength <= y * DayLength
    BY <1>1
  <2> HIDE DEF a, b, m
  <2>2. ASSUME a - m <= b PROVE WeekStart(t) <= u
    <3>1. (a - m) * DayLength <= b * DayLength
      BY <1>2, <1>4, <2>1, <2>2
    <3>2. (a - m) * DayLength \in Nat /\ b * DayLength \in Nat
      BY <1>1, <1>2, <1>4
    <3> QED BY <1>2, <1>4, <1>5, <3>1, <3>2
  <2>3. ASSUME ~(a - m <= b) PROVE ~(WeekStart(t) <= u)
    <3>1. (b + 1) * DayLength <= (a - m) * DayLength
      BY <1>2, <1>4, <2>1, <2>3
    <3>2. (b + 1) * DayLength = b * DayLength + DayLength /\ b * DayLength \in Nat
      BY <1>1, <1>2
    <3> QED BY <1>1, <1>2, <1>4, <1>5, <3>1, <3>2
  <2> QED BY <2>2, <2>3
<1>7. ASSUME b < a PROVE a - m <= b <=> p = q
  <2>1. \A x, y \in Nat : x <= y => WeekLength * x <= WeekLength * y
    BY <1>1
  <2>2. WeekLength * q \in Nat /\ WeekLength * p \in Nat
    BY <1>1, <1>3
  <2> HIDE DEF a, b, m, n, p, q
  <2>3. ASSUME p = q PROVE a - m <= b
    BY <1>1, <1>2, <1>3, <2>2, <2>3
  <2>4. ASSUME p < q PROVE ~(a - m <= b)
    <3>1. WeekLength * (p + 1) <= WeekLength * q
      BY <1>3, <2>1, <2>4
    <3>2. WeekLength * (p + 1) = WeekLength * p + WeekLength
      BY <1>1, <1>3
    <3> QED BY <1>1, <1>3, <2>2, <3>1, <3>2
  <2>5. ASSUME q < p PROVE FALSE
    <3>1. WeekLength * (q + 1) <= WeekLength * p
      BY <1>3, <2>1, <2>5
    <3>2. WeekLength * (q + 1) = WeekLength * q + WeekLength
      BY <1>1, <1>3
    <3> QED BY <1>1, <1>3, <1>7, <2>2, <3>1, <3>2
  <2> QED BY <1>3, <2>3, <2>4, <2>5
<1>8. a <= b => a - m <= b
  BY <1>1, <1>2, <1>3
<1> QED BY <1>6, <1>7, <1>8

\* Rows are dated by whole times up to now.
LEMMA RowDates ==
  ASSUME IInv
  PROVE  /\ now \in Nat /\ IsFiniteSet(DOMAIN rows)
         /\ \A r \in DOMAIN rows : /\ rows[r].closed_at \in Nat /\ rows[r].closed_at <= now
                                   /\ rows[r].realized_pnl \in Int
                                   /\ r \in Nat
<1>1. now \in Nat
  BY SessionAssumption DEF IInv, TypeOK, Times
<1>2. DOMAIN rows = 1..Len(rows) /\ Len(rows) \in Nat
  BY LenProperties DEF IInv, RowsOK
<1>3. IsFiniteSet(1..Len(rows))
  BY <1>2, FS_Interval
<1>4. \A r \in DOMAIN rows : rows[r].realized_pnl \in Int /\ rows[r].closed_at \in 0..now
  BY DEF IInv, TypeOK
<1> QED BY <1>1, <1>2, <1>3, <1>4

(* Rounding two sums to cents moves their difference by a cent at most.    *)
LEMMA CentsApart ==
  ASSUME NEW a \in Int, NEW b \in Int
  PROVE  /\ Nearest(a, Cent) \in Int /\ Nearest(a + b, Cent) \in Int
         /\ Distance(Cent * (Nearest(a + b, Cent) - Nearest(a, Cent)), b) <= Cent
<1> DEFINE x == Nearest(a, Cent)
           y == Nearest(a + b, Cent)
<1>1. Cent \in Nat \ {0}
  BY SessionAssumption
<1>2. /\ x \in Int /\ Cent * x \in Int
      /\ 2 * a - Cent <= 2 * (Cent * x) /\ 2 * (Cent * x) <= 2 * a + Cent
  BY <1>1, NearestBy
<1>3. /\ y \in Int /\ Cent * y \in Int
      /\ 2 * (a + b) - Cent <= 2 * (Cent * y) /\ 2 * (Cent * y) <= 2 * (a + b) + Cent
  BY <1>1, NearestBy
<1> HIDE DEF x, y
<1>4. Cent * (y - x) = Cent * y - Cent * x
  BY <1>1, <1>2, <1>3
<1> DEFINE cx == Cent * x
           cy == Cent * y
           d  == Cent * (y - x)
<1>5. /\ cx \in Int /\ cy \in Int /\ d = cy - cx
      /\ 2 * a - Cent <= 2 * cx /\ 2 * cx <= 2 * a + Cent
      /\ 2 * (a + b) - Cent <= 2 * cy /\ 2 * cy <= 2 * (a + b) + Cent
  BY <1>2, <1>3, <1>4
<1> HIDE DEF cx, cy, d
<1>6. Distance(d, b) <= Cent
  BY <1>1, <1>5 DEF Distance
<1> QED BY <1>2, <1>3, <1>6 DEF x, y, d

(* Rounded results are integers.                                           *)
LEMMA RowPnlsType ==
  ASSUME NEW R, NEW r \in DOMAIN R, R[r].realized_pnl \in Int
  PROVE  RowPnls(R)[r] = Nearest(R[r].realized_pnl, Fine) /\ RowPnls(R)[r] \in Int
BY SessionAssumption, NearestBy DEF RowPnls

(* The days of the week are today and those before it.                     *)
LEMMA WeekSplits ==
  ASSUME RInv
  PROVE  WeekIsTodayAndBefore
<1> DEFINE day(r) == rows[r].closed_at \div DayLength
           today == now \div DayLength
           earlier == {r \in DOMAIN rows : /\ day(r) < today
                                           /\ day(r) \div WeekLength = today \div WeekLength}
           D == ClosedIn(rows, DayStart(now), now)
           W == ClosedIn(rows, WeekStart(now), now)
<1> SUFFICES ASSUME Fresh
             PROVE  /\ Distance(Cent * (report.weekly - report.daily), Pnl(earlier)) <= Cent
                    /\ earlier = {} => report.weekly = report.daily
  BY DEF WeekIsTodayAndBefore
<1>1. /\ report.daily = Nearest(TotalOf(RowPnls(rows), D), Cent)
      /\ report.weekly = Nearest(TotalOf(RowPnls(rows), W), Cent)
  BY DEF RInv, FreshGrouped, IsReport
<1>2. /\ now \in Nat /\ IsFiniteSet(DOMAIN rows)
      /\ \A r \in DOMAIN rows : /\ rows[r].closed_at \in Nat /\ rows[r].closed_at <= now
                                /\ rows[r].realized_pnl \in Int
  BY RowDates DEF RInv
<1>3. Pnl(earlier) = TotalOf(RowPnls(rows), earlier)
  BY PnlIsTotal DEF RInv, IInv
<1>4. \A r \in DOMAIN rows : r \in D <=> today <= day(r)
  BY <1>2, DayOfTime DEF ClosedIn
<1>5. \A r \in DOMAIN rows : r \in W <=>
        today <= day(r) \/ (day(r) < today /\ day(r) \div WeekLength = today \div WeekLength)
  <2> SUFFICES ASSUME NEW r \in DOMAIN rows
               PROVE  r \in W <=> today <= day(r) \/ (day(r) < today
                                   /\ day(r) \div WeekLength = today \div WeekLength)
    OBVIOUS
  <2>1. r \in W <=> WeekStart(now) <= rows[r].closed_at
    BY <1>2 DEF ClosedIn
  <2>2. /\ today <= day(r) => WeekStart(now) <= rows[r].closed_at
        /\ day(r) < today =>
             (WeekStart(now) <= rows[r].closed_at
                <=> day(r) \div WeekLength = today \div WeekLength)
    BY <1>2, WeekOfTime
  <2>3. today \in Nat /\ day(r) \in Nat
    BY <1>2, DayOfTime
  <2> HIDE DEF today, day
  <2> QED BY <2>1, <2>2, <2>3
<1>6. \A r \in DOMAIN rows : day(r) < today => ~(today <= day(r))
  <2>1. today \in Int /\ \A r \in DOMAIN rows : day(r) \in Int
    BY <1>2, DayOfTime
  <2> HIDE DEF today, day
  <2> QED BY <2>1
<1>7. IsSplit(W, D, earlier)
  <2>1. W \subseteq DOMAIN rows /\ D \subseteq DOMAIN rows /\ earlier \subseteq DOMAIN rows
    BY DEF ClosedIn
  <2>2. \A r \in DOMAIN rows : r \in earlier <=>
          day(r) < today /\ day(r) \div WeekLength = today \div WeekLength
    OBVIOUS
  <2> HIDE DEF W, D, earlier, day, today
  <2> QED BY <1>4, <1>5, <1>6, <2>1, <2>2 DEF IsSplit
<1>8. IsFiniteSet(W) /\ IntOver(RowPnls(rows), W)
  <2>1. W \subseteq DOMAIN rows
    BY DEF ClosedIn
  <2>2. \A r \in DOMAIN rows : RowPnls(rows)[r] \in Int
    BY <1>2, RowPnlsType
  <2> HIDE DEF W
  <2> QED BY <1>2, <2>1, <2>2, FS_Subset DEF IntOver
<1> HIDE DEF W, D, earlier
<1>9. TotalOf(RowPnls(rows), W) = TotalOf(RowPnls(rows), D) + TotalOf(RowPnls(rows), earlier)
  BY <1>7, <1>8, TotalSplit
<1>10. TotalOf(RowPnls(rows), D) \in Int /\ TotalOf(RowPnls(rows), earlier) \in Int
  <2>1. IsFiniteSet(D) /\ IsFiniteSet(earlier)
    BY <1>7, <1>8, FS_Subset DEF IsSplit
  <2>2. \A r \in D \cup earlier : RowPnls(rows)[r] \in Int
    BY <1>7, <1>8 DEF IsSplit, IntOver
  <2> QED BY <2>1, <2>2, TotalType
<1>11. earlier = {} => W = D
  BY <1>7 DEF IsSplit
<1>12. Distance(Cent * (report.weekly - report.daily), TotalOf(RowPnls(rows), earlier)) <= Cent
  BY <1>1, <1>9, <1>10, CentsApart
<1> QED BY <1>1, <1>3, <1>11, <1>12

(* The report of the week is that of today and of the earlier days of the  *)
(* same week, for every length of days and weeks.                          *)
THEOREM WeekAddsUp == Spec => []WeekIsTodayAndBefore
BY ReportInvariant, WeekSplits, PTL

(* A trade closed after all others decides the streak.                     *)
LEMMA StreakDecided ==
  ASSUME RInv
  PROVE  LatestTradeDecidesStreak
<1> SUFFICES ASSUME Fresh, NEW r \in DOMAIN rows,
                    \A q \in DOMAIN rows \ {r} : rows[q].closed_at < rows[r].closed_at
             PROVE  LET others == {q \in Losses \ {r} :
                                     \A w \in Wins \ {r} : ~SortedBefore(w, q)}
                    IN  report.streak = CASE r \in Losses -> Cardinality(others) + 1
                                          [] r \in Wins   -> 0
                                          [] OTHER        -> Cardinality(others)
  BY DEF LatestTradeDecidesStreak
<1> DEFINE others == {q \in Losses \ {r} : \A w \in Wins \ {r} : ~SortedBefore(w, q)}
           streak == StreakIn(rows)
<1>1. report.streak = Cardinality(streak)
  BY DEF RInv, FreshGrouped, IsReport
<1>2. /\ IsFiniteSet(DOMAIN rows)
      /\ \A q \in DOMAIN rows : rows[q].closed_at \in Nat /\ rows[q].realized_pnl \in Int
  BY RowDates DEF RInv
<1>3. streak = {q \in Losses : \A w \in Wins : ~SortedBefore(w, q)}
  BY RowSigns DEF StreakIn, Later, SortedBefore
<1>4. /\ Losses \subseteq DOMAIN rows /\ Wins \subseteq DOMAIN rows
      /\ \A q \in Losses : q \notin Wins
  <2>1. \A q \in DOMAIN rows : TradePnl(q) \in Int
    BY <1>2, RowPnlsType DEF RowPnls, TradePnl
  <2> QED BY <2>1 DEF Losses, Wins
<1>5. \A q \in DOMAIN rows \ {r} : SortedBefore(r, q) /\ ~SortedBefore(q, r)
  BY <1>2 DEF SortedBefore
<1>6. IsFiniteSet(others) /\ Cardinality(others) \in Nat
  <2>1. others \in SUBSET DOMAIN rows
    BY <1>4
  <2> QED BY <1>2, <2>1, FS_Subset, FS_CardinalityType
<1>7. CASE r \in Losses
  <2>1. streak = others \cup {r} /\ r \notin others
    BY <1>3, <1>4, <1>5, <1>7
  <2>2. Cardinality(streak) = Cardinality(others) + 1
    BY <1>6, <2>1, FS_AddElement
  <2> HIDE DEF streak
  <2> QED BY <1>1, <1>4, <1>7, <2>2
<1>8. CASE r \in Wins
  <2>1. streak = {} /\ r \notin Losses
    BY <1>3, <1>4, <1>5, <1>8
  <2>2. Cardinality(streak) = 0
    BY <2>1, FS_EmptySet
  <2> HIDE DEF streak
  <2> QED BY <1>1, <1>8, <2>1, <2>2
<1>9. CASE r \notin Losses /\ r \notin Wins
  <2>1. streak = others
    BY <1>3, <1>4, <1>9
  <2> HIDE DEF streak
  <2> QED BY <1>1, <1>9, <2>1
<1> QED BY <1>7, <1>8, <1>9

(* The trade that closed last decides whether the streak grows, ends or    *)
(* stays, whatever came before it.                                         *)
THEOREM LatestDecides == Spec => []LatestTradeDecidesStreak
BY ReportInvariant, StreakDecided, PTL

-----------------------------------------------------------------------------
(* Every row closes at the time of one of its fills: within its request's. *)
LEMMA RowClosed ==
  ASSUME NEW s \in Seq(Fill), NEW n \in 0..Len(s), NEW t \in Nat, NEW R,
         IsGrouping(R, s, n, t), NEW r \in DOMAIN R
  PROVE  /\ R[r].closed_at \in Nat /\ R[r].closed_at <= t /\ R[r].realized_pnl \in Int
         /\ \A from \in Int : from <= R[r].closed_at <=>
              \E j \in Group(s, n, t, R[r].key) : from <= s[j].at
<1> DEFINE g == Group(s, n, t, R[r].key)
<1>1. RowSums(R[r], s, g)
  BY DEF IsGrouping
<1>2. \A k \in g : s[k].at \in Nat /\ s[k].at <= t
  BY GroupType DEF Group, UsableAt
<1>3. R[r] \in Row
  BY LenProperties, ElementOfSeq DEF IsGrouping
<1>4. R[r].closed_at \in Nat /\ R[r].realized_pnl \in Int
  BY <1>3 DEF Row
<1> HIDE DEF g
<1>5. PICK k \in g : s[k].at = R[r].closed_at
  BY <1>1 DEF RowSums
<1>6. \A from \in Int : from <= R[r].closed_at <=> \E j \in g : from <= s[j].at
  <2> SUFFICES ASSUME NEW from \in Int
               PROVE  from <= R[r].closed_at <=> \E j \in g : from <= s[j].at
    OBVIOUS
  <2>1. ASSUME NEW j \in g, from <= s[j].at PROVE from <= R[r].closed_at
    <3>1. s[j].at <= R[r].closed_at /\ s[j].at \in Nat
      BY <1>1, <1>2 DEF RowSums
    <3> QED BY <1>4, <2>1, <3>1
  <2> QED BY <1>5, <2>1
<1> QED BY <1>2, <1>4, <1>5, <1>6 DEF g

(* The trades of a window by their keys: a trade closes in it by any of    *)
(* its fills.                                                              *)
InWindow(s, k, t, from) == UsableAt(s, k, t) /\ from <= s[k].at
WindowKeys(s, n, t, from) == {KeyAt(s, k) : k \in {j \in 1..n : InWindow(s, j, t, from)}}

\* What the fills of a trade add up to, and that sum rounded, by trade.
RawPnl(s, n, t, key) == TotalOf(Pnls(s), Group(s, n, t, key))
Results(s, n, t) ==
  [key \in {KeyAt(s, k) : k \in 1..n} |-> Nearest(RawPnl(s, n, t, key), Fine)]

(* A trade's fills add up to an integer, and so does its result.           *)
LEMMA RawType ==
  ASSUME NEW s \in Seq(Fill), NEW n \in 0..Len(s), NEW t \in Nat, NEW key
  PROVE  RawPnl(s, n, t, key) \in Int /\ Nearest(RawPnl(s, n, t, key), Fine) \in Int
<1> DEFINE g == Group(s, n, t, key)
<1>1. IsFiniteSet(g) /\ \A k \in g : Pnls(s)[k] \in Int
  BY GroupType
<1> HIDE DEF g
<1>2. TotalOf(Pnls(s), g) \in Int
  BY <1>1, TotalType
<1> QED BY <1>2, SessionAssumption, NearestBy DEF RawPnl, g

(* The rows of a window add up to the results of its trades.               *)
LEMMA WindowByTrades ==
  ASSUME NEW s \in Seq(Fill), NEW n \in 0..Len(s), NEW t \in Nat, NEW R,
         IsGrouping(R, s, n, t), NEW from \in Int
  PROVE  TotalOf(RowPnls(R), ClosedIn(R, from, t))
           = TotalOf(Results(s, n, t), WindowKeys(s, n, t, from))
<1> DEFINE K == ClosedIn(R, from, t)
           b == [r \in DOMAIN R |-> R[r].key]
<1>1. IsFiniteSet(K) /\ K \subseteq DOMAIN R
  <2>1. DOMAIN R = 1..Len(R) /\ Len(R) \in Int
    BY LenProperties DEF IsGrouping
  <2>2. IsFiniteSet(1..Len(R)) /\ K \subseteq 1..Len(R)
    BY <2>1, FS_Interval DEF ClosedIn
  <2> QED BY <2>1, <2>2, FS_Subset
<1>2. \A r \in DOMAIN R : r \in K <=> \E j \in Group(s, n, t, R[r].key) : from <= s[j].at
  <2>1. \A r \in DOMAIN R : r \in K <=> from <= R[r].closed_at
    BY RowClosed DEF ClosedIn
  <2> HIDE DEF K
  <2> QED BY <2>1, RowClosed
<1> HIDE DEF K
<1>3. \A x, y \in K : b[x] = b[y] => x = y
  BY <1>1 DEF IsGrouping
<1>4. ASSUME NEW r \in K
      PROVE  RowPnls(R)[r] = Results(s, n, t)[b[r]] /\ RowPnls(R)[r] \in Int
  <2>1. r \in DOMAIN R
    BY <1>1
  <2>2. R[r].realized_pnl = RawPnl(s, n, t, R[r].key)
    BY <2>1 DEF IsGrouping, RowSums, RawPnl
  <2>3. \E k \in 1..n : KeyAt(s, k) = R[r].key
    BY <1>2, <2>1 DEF Group
  <2>4. Results(s, n, t)[R[r].key] = Nearest(RawPnl(s, n, t, R[r].key), Fine)
    BY <2>3 DEF Results
  <2>5. RowPnls(R)[r] = Nearest(R[r].realized_pnl, Fine) /\ RowPnls(R)[r] \in Int
    BY <2>1, RowClosed, RowPnlsType
  <2> QED BY <2>1, <2>2, <2>4, <2>5
<1>5. {b[r] : r \in K} = WindowKeys(s, n, t, from)
  <2>1. ASSUME NEW r \in K PROVE b[r] \in WindowKeys(s, n, t, from)
    <3>1. PICK j \in Group(s, n, t, R[r].key) : from <= s[j].at
      BY <1>1, <1>2
    <3>2. j \in 1..n /\ InWindow(s, j, t, from) /\ KeyAt(s, j) = R[r].key
      BY <3>1 DEF Group, InWindow
    <3> QED BY <1>1, <3>2 DEF WindowKeys
  <2>2. ASSUME NEW j \in 1..n, InWindow(s, j, t, from)
        PROVE  \E r \in K : b[r] = KeyAt(s, j)
    <3>1. PICK r \in DOMAIN R : R[r].key = KeyAt(s, j)
      BY <2>2 DEF IsGrouping, InWindow
    <3>2. j \in Group(s, n, t, R[r].key) /\ from <= s[j].at
      BY <2>2, <3>1 DEF Group, InWindow
    <3>3. r \in K
      BY <1>2, <3>2
    <3> QED BY <3>1, <3>3
  <2> QED BY <2>1, <2>2 DEF WindowKeys
<1> HIDE DEF b
<1> QED BY <1>1, <1>3, <1>4, <1>5, TotalRenamed DEF K

\* Two fills are of one trade when their keys are equal.
LEMMA SameTradeIsKey ==
  ASSUME NEW j, NEW k, j # k
  PROVE  SameTrade(j, k) <=> KeyAt(fills, j) = KeyAt(fills, k)
BY DEF SameTrade, KeyAt

(* The fills of a request, and the moments it asks about.                  *)
LEMMA FillsAreFinite ==
  ASSUME RInv
  PROVE  /\ fills \in Seq(Fill) /\ Len(fills) \in Nat /\ DOMAIN fills = 1..Len(fills)
         /\ IsFiniteSet(1..Len(fills)) /\ now \in Nat /\ now <= MaxTime /\ DayStart(now) \in Nat
<1>1. FillRecords \subseteq Fill
  BY SessionAssumption
<1>2. fills \in Seq(Fill)
  BY <1>1, SeqMonotonic DEF RInv, IInv, TypeOK
<1>3. now \in Nat /\ now <= MaxTime
  BY SessionAssumption DEF RInv, IInv, TypeOK, Times
<1>4. Len(fills) \in Nat /\ DOMAIN fills = 1..Len(fills)
  BY <1>2, LenProperties
<1> QED BY <1>2, <1>3, <1>4, FS_Interval, DayOfTime

(* One more fill: the trade it brings into a window, if any, is its own.   *)
LEMMA WindowGrows ==
  ASSUME NEW s, NEW n \in Nat, NEW t, NEW from
  PROVE  LET key    == KeyAt(s, n + 1)
             late   == \E k \in Group(s, n, t, key) : from <= s[k].at
             before == WindowKeys(s, n, t, from)
             after  == WindowKeys(s, n + 1, t, from)
         IN  /\ late <=> key \in before
             /\ ~InWindow(s, n + 1, t, from) => after = before
             /\ InWindow(s, n + 1, t, from) => after = before \cup {key}
<1>1. \A k : k \in 1..n + 1 <=> k \in 1..n \/ k = n + 1
  OBVIOUS
<1> QED BY <1>1 DEF Group, WindowKeys, InWindow

(* One more fill changes the result of its own trade only.                 *)
LEMMA ResultsGrow ==
  ASSUME NEW s \in Seq(Fill), NEW n \in Nat, n + 1 \in 1..Len(s), NEW t \in Nat
  PROVE  LET key == KeyAt(s, n + 1)
             old == Results(s, n, t)
             new == Results(s, n + 1, t)
             raw == RawPnl(s, n, t, key)
         IN  /\ \A x \in DOMAIN old : /\ x \in DOMAIN new
                                      /\ old[x] \in Int /\ new[x] \in Int
                                      /\ old[x] = Nearest(RawPnl(s, n, t, x), Fine)
                                      /\ x # key \/ ~UsableAt(s, n + 1, t) => new[x] = old[x]
             /\ UsableAt(s, n + 1, t) => new[key] = Nearest(raw + s[n + 1].pnl, Fine)
             /\ new[key] \in Int /\ raw \in Int
<1> DEFINE key == KeyAt(s, n + 1)
           old == Results(s, n, t)
           new == Results(s, n + 1, t)
<1>1. /\ \A k : k \in 1..n + 1 <=> k \in 1..n \/ k = n + 1
      /\ n \in 0..Len(s) /\ n + 1 \in 0..Len(s)
  BY LenProperties
<1>2. /\ \A x \in DOMAIN old : x \in DOMAIN new /\ old[x] = Nearest(RawPnl(s, n, t, x), Fine)
      /\ \A x \in DOMAIN new : new[x] = Nearest(RawPnl(s, n + 1, t, x), Fine)
      /\ key \in DOMAIN new
  BY <1>1 DEF Results
<1>3. \A x : /\ RawPnl(s, n, t, x) \in Int /\ Nearest(RawPnl(s, n, t, x), Fine) \in Int
             /\ RawPnl(s, n + 1, t, x) \in Int /\ Nearest(RawPnl(s, n + 1, t, x), Fine) \in Int
  BY <1>1, RawType
<1>4. ASSUME NEW x, x # key \/ ~UsableAt(s, n + 1, t)
      PROVE  RawPnl(s, n + 1, t, x) = RawPnl(s, n, t, x)
  <2>1. Group(s, n + 1, t, x) = Group(s, n, t, x)
    BY <1>1, <1>4 DEF Group
  <2> QED BY <2>1 DEF RawPnl
<1>5. UsableAt(s, n + 1, t) => RawPnl(s, n + 1, t, key) = RawPnl(s, n, t, key) + s[n + 1].pnl
  BY GroupSumGrows DEF RawPnl
<1> HIDE DEF old, new, key
<1> QED BY <1>2, <1>3, <1>4, <1>5 DEF old, new, key

(* What one more fill adds to the result of a window: the change of its    *)
(* trade's result, or all of it if the trade is new there.                 *)
LEMMA WindowTotalGrows ==
  ASSUME NEW s \in Seq(Fill), NEW n \in Nat, n + 1 \in 1..Len(s), NEW t \in Nat, NEW from \in Int
  PROVE  LET key    == KeyAt(s, n + 1)
             late   == \E k \in Group(s, n, t, key) : from <= s[k].at
             usable == UsableAt(s, n + 1, t)
             in     == from <= s[n + 1].at
             raw    == RawPnl(s, n, t, key)
             before == TotalOf(Results(s, n, t), WindowKeys(s, n, t, from))
             after  == TotalOf(Results(s, n + 1, t), WindowKeys(s, n + 1, t, from))
         IN  /\ before \in Int /\ raw \in Int
             /\ ~usable \/ (~late /\ ~in) => after = before
             /\ usable /\ late =>
                  after = before + (Nearest(raw + s[n + 1].pnl, Fine) - Nearest(raw, Fine))
             /\ usable /\ ~late /\ in => after = before + Nearest(raw + s[n + 1].pnl, Fine)
<1> DEFINE key    == KeyAt(s, n + 1)
           late   == \E k \in Group(s, n, t, key) : from <= s[k].at
           usable == UsableAt(s, n + 1, t)
           in     == from <= s[n + 1].at
           raw    == RawPnl(s, n, t, key)
           old    == Results(s, n, t)
           new    == Results(s, n + 1, t)
           B      == WindowKeys(s, n, t, from)
           A      == WindowKeys(s, n + 1, t, from)
<1>1. /\ late <=> key \in B
      /\ ~(usable /\ in) => A = B
      /\ usable /\ in => A = B \cup {key}
  <2> DEFINE inside == InWindow(s, n + 1, t, from)
  <2>1. /\ late <=> key \in B
        /\ ~inside => A = B
        /\ inside => A = B \cup {key}
    BY WindowGrows
  <2>2. inside <=> usable /\ in
    BY DEF InWindow
  <2> HIDE DEF inside, usable, in, late, key, A, B
  <2> QED BY <2>1, <2>2
<1>2. IsFiniteSet(B) /\ B \subseteq DOMAIN old
  <2> DEFINE J == {j \in 1..n : InWindow(s, j, t, from)}
  <2>1. IsFiniteSet(1..n) /\ J \subseteq 1..n
    BY FS_Interval
  <2>2. IsFiniteSet(J)
    BY <2>1, FS_Subset
  <2>3. B = {KeyAt(s, k) : k \in J}
    BY DEF WindowKeys
  <2>4. B \subseteq DOMAIN old
    BY DEF WindowKeys, Results
  <2> HIDE DEF J, B
  <2> DEFINE m == [k \in J |-> KeyAt(s, k)]
  <2>5. IsFiniteSet(ValuesOn(J, m))
    BY <2>2, ValuesFinite
  <2>6. ValuesOn(J, m) = B
    BY <2>3 DEF ValuesOn
  <2> QED BY <2>4, <2>5, <2>6
<1>3. /\ \A x \in DOMAIN old : /\ old[x] \in Int /\ new[x] \in Int
                               /\ old[x] = Nearest(RawPnl(s, n, t, x), Fine)
                               /\ x # key \/ ~usable => new[x] = old[x]
      /\ usable => new[key] = Nearest(raw + s[n + 1].pnl, Fine)
      /\ new[key] \in Int /\ raw \in Int
  BY ResultsGrow
<1>4. key \in B => old[key] = Nearest(raw, Fine)
  BY <1>2, <1>3
<1> HIDE DEF key, late, usable, in, raw, old, new, B, A
<1>5. /\ \A x \in B : old[x] \in Int /\ new[x] \in Int
      /\ IntOver(old, B) /\ IntOver(new, B)
  BY <1>2, <1>3 DEF IntOver
<1>6. TotalOf(old, B) \in Int
  BY <1>2, <1>5, TotalType
<1>7. ASSUME ~usable \/ (~late /\ ~in) PROVE TotalOf(new, A) = TotalOf(old, B)
  <2>1. A = B /\ \A x \in B : x # key \/ ~usable
    BY <1>1, <1>7
  <2>2. \A x \in B : new[x] = old[x]
    BY <1>2, <1>3, <2>1
  <2>3. TotalOf(new, B) = TotalOf(old, B)
    BY <1>2, <2>2, TotalAgree
  <2> QED BY <2>1, <2>3
<1>8. ASSUME usable, late
      PROVE  TotalOf(new, A)
               = TotalOf(old, B) + (Nearest(raw + s[n + 1].pnl, Fine) - Nearest(raw, Fine))
  <2>1. A = B /\ key \in B
    BY <1>1, <1>8
  <2>2. \A x \in B : x # key => new[x] = old[x]
    BY <1>2, <1>3
  <2>3. TotalOf(new, B) = TotalOf(old, B) + (new[key] - old[key])
    BY <1>2, <1>5, <2>1, <2>2, TotalChange
  <2> QED BY <1>3, <1>4, <1>8, <2>1, <2>3
<1>9. ASSUME usable, ~late, in
      PROVE  TotalOf(new, A) = TotalOf(old, B) + Nearest(raw + s[n + 1].pnl, Fine)
  <2>1. IsWith(A, B, key)
    BY <1>1, <1>9 DEF IsWith
  <2>2. IntOver(new, A)
    BY <1>3, <1>5, <2>1 DEF IntOver, IsWith
  <2>3. TotalOf(new, A) = TotalOf(new, B) + new[key]
    BY <1>2, <2>1, <2>2, TotalAdd
  <2>4. \A x \in B : new[x] = old[x]
    BY <1>2, <1>3, <2>1 DEF IsWith
  <2>5. TotalOf(new, B) = TotalOf(old, B)
    BY <1>2, <2>4, TotalAgree
  <2> QED BY <1>3, <1>9, <2>3, <2>5
<1> QED BY <1>3, <1>6, <1>7, <1>8, <1>9 DEF key, late, usable, in, raw, old, new, B, A

(* A change of d in 10^-8 that stands for x finer units, published in      *)
(* cents: how far the published change may be from x.                      *)
LEMMA PublishedChange ==
  ASSUME NEW c \in Int, NEW d \in Int, NEW x \in Int,
         Distance(c, d) <= Cent, Distance(Fine * d, x) <= Fine
  PROVE  Distance(Fine * c, x) <= Fine * Cent + Fine
<1>1. Fine \in Nat \ {0} /\ Cent \in Nat \ {0}
  BY SessionAssumption
<1>2. c - d <= Cent /\ d - c <= Cent
  BY <1>1 DEF Distance
<1>3. /\ Fine * (c - d) <= Fine * Cent /\ Fine * (d - c) <= Fine * Cent
      /\ Fine * Cent \in Int
  BY <1>1, <1>2, MultiplesOrdered
<1>4. /\ Fine * (c - d) = Fine * c - Fine * d /\ Fine * (d - c) = Fine * d - Fine * c
      /\ Fine * c \in Int /\ Fine * d \in Int
  BY <1>1
<1> DEFINE fc == Fine * c
           fd == Fine * d
           f  == Fine * Cent
<1>5. /\ fc \in Int /\ fd \in Int /\ f \in Int
      /\ fc - fd <= f /\ fd - fc <= f /\ Distance(fd, x) <= Fine
  BY <1>3, <1>4
<1> HIDE DEF fc, fd, f
<1>6. Distance(fc, x) <= f + Fine
  BY <1>1, <1>5 DEF Distance
<1> QED BY <1>6 DEF fc, f

(* A trade's result rounded before and after a fill v of it, or after only *)
(* if it had none: the change is the fill's but for the rounding.          *)
LEMMA RoundedChange ==
  ASSUME NEW a \in Int, NEW v \in Int
  PROVE  /\ Nearest(a, Fine) \in Int /\ Nearest(a + v, Fine) \in Int
         /\ Distance(Fine * (Nearest(a + v, Fine) - Nearest(a, Fine)), v) <= Fine
         /\ Distance(Fine * Nearest(a + v, Fine), a + v) <= Fine
<1> DEFINE x == Nearest(a, Fine)
           y == Nearest(a + v, Fine)
<1>1. Fine \in Nat \ {0}
  BY SessionAssumption
<1>2. /\ x \in Int /\ Fine * x \in Int
      /\ 2 * a - Fine <= 2 * (Fine * x) /\ 2 * (Fine * x) <= 2 * a + Fine
  BY <1>1, NearestBy
<1>3. /\ y \in Int /\ Fine * y \in Int
      /\ 2 * (a + v) - Fine <= 2 * (Fine * y) /\ 2 * (Fine * y) <= 2 * (a + v) + Fine
  BY <1>1, NearestBy
<1> HIDE DEF x, y
<1>4. Fine * (y - x) = Fine * y - Fine * x
  BY <1>1, <1>2, <1>3
<1> DEFINE fx == Fine * x
           fy == Fine * y
           d  == Fine * (y - x)
<1>5. /\ fx \in Int /\ fy \in Int /\ d = fy - fx
      /\ 2 * a - Fine <= 2 * fx /\ 2 * fx <= 2 * a + Fine
      /\ 2 * (a + v) - Fine <= 2 * fy /\ 2 * fy <= 2 * (a + v) + Fine
  BY <1>2, <1>3, <1>4
<1> HIDE DEF fx, fy, d
<1>6. Distance(d, v) <= Fine /\ Distance(fy, a + v) <= Fine
  BY <1>1, <1>5 DEF Distance
<1> QED BY <1>2, <1>3, <1>6 DEF x, y, fy, d

(* One more fill moves today's figures by the worth of its trade.          *)
LEMMA FillMoves ==
  ASSUME RInv
  PROVE  OneMoreFill
<1> DEFINE new     == Len(fills)
           others  == {k \in 1..new - 1 : Usable(k) /\ SameTrade(k, new)}
           today   == {k \in others : fills[k].at >= StartOfDay}
           carried == IF today = {} THEN MapThenSumSet(LAMBDA k : fills[k].pnl, others) ELSE 0
           counts  == Usable(new) /\ (today # {} \/ fills[new].at >= StartOfDay)
           n       == new - 1
           from    == DayStart(now)
           mates   == Group(fills, n, now, KeyAt(fills, n + 1))
           late    == \E k \in mates : from <= fills[k].at
           in      == from <= fills[n + 1].at
           usable  == UsableAt(fills, n + 1, now)
           raw     == RawPnl(fills, n, now, KeyAt(fills, n + 1))
           before  == TotalOf(Results(fills, n, now), WindowKeys(fills, n, now, from))
           after   == TotalOf(Results(fills, n + 1, now), WindowKeys(fills, n + 1, now, from))
           change  == report.daily - previous.daily
           fill    == fills[new].pnl
<1> SUFFICES ASSUME Fresh, previous # None, previous.at = now, Len(fills) = previous.known + 1
             PROVE  IF counts THEN Distance(Fine * (Cent * change), fill + carried)
                                     <= Fine * Cent + Fine
                    ELSE change = 0
  BY Zenon DEF OneMoreFill
<1>1. /\ fills \in Seq(Fill) /\ new \in Nat /\ DOMAIN fills = 1..new
      /\ IsFiniteSet(1..new) /\ now \in Nat /\ from \in Nat
  BY FillsAreFinite
<1>2. Answers(previous, fills, now) /\ previous.known \in 0..new
  BY DEF RInv, PreviousAnswers, Answers
<1>3. n \in Nat /\ n + 1 = new /\ n + 1 \in 1..Len(fills) /\ previous.known = n
  BY <1>1, <1>2
<1>4. report.daily = Nearest(after, Cent)
  <2>1. /\ IsGrouping(rows, fills, new, now)
        /\ report.daily = Nearest(TotalOf(RowPnls(rows), ClosedIn(rows, from, now)), Cent)
    BY DEF RInv, FreshGrouped, IsReport
  <2>2. new \in 0..Len(fills) /\ from \in Int
    BY <1>1
  <2>3. TotalOf(RowPnls(rows), ClosedIn(rows, from, now))
          = TotalOf(Results(fills, new, now), WindowKeys(fills, new, now, from))
    BY <1>1, <2>1, <2>2, WindowByTrades
  <2> QED BY <1>3, <2>1, <2>3
<1>5. previous.daily = Nearest(before, Cent)
  <2>1. PICK R : IsGrouping(R, fills, n, now) /\ IsReport(previous, R, now)
    BY <1>2, <1>3 DEF Answers
  <2>2. previous.daily = Nearest(TotalOf(RowPnls(R), ClosedIn(R, from, now)), Cent)
    BY <2>1 DEF IsReport
  <2>3. n \in 0..Len(fills) /\ from \in Int
    BY <1>1, <1>3
  <2>4. TotalOf(RowPnls(R), ClosedIn(R, from, now)) = before
    BY <1>1, <2>1, <2>3, WindowByTrades
  <2> QED BY <2>2, <2>4
<1>6. StartOfDay = from
  BY DEF StartOfDay, DayStart
<1>7. \A k \in 1..new : /\ Usable(k) <=> UsableAt(fills, k, now)
                        /\ UsableAt(fills, k, now) => fills[k].at \in Nat /\ fills[k].pnl \in Int
  BY <1>1, KeyIsTradeKey, UsableType
<1>8. \A k \in 1..n : SameTrade(k, new) <=> KeyAt(fills, k) = KeyAt(fills, n + 1)
  <2>1. \A k \in 1..n : k # new
    BY <1>3
  <2> QED BY <1>3, <2>1, SameTradeIsKey
<1>9. \A k \in 1..n : k \in 1..new
  BY <1>3
<1>10. others = mates
  BY <1>3, <1>7, <1>8, <1>9 DEF Group
<1>11. IsFiniteSet(mates) /\ mates \subseteq 1..n /\ \A k \in mates : fills[k].at \in Nat
  <2>1. n \in 0..Len(fills)
    BY <1>3
  <2> QED BY <1>1, <2>1, GroupType
<1> HIDE DEF mates
<1>12. today # {} <=> late
  BY <1>1, <1>6, <1>10, <1>11
<1>13. counts <=> usable /\ (late \/ in)
  <2>1. Usable(new) <=> usable
    BY <1>3, <1>7
  <2>2. usable => (fills[new].at >= StartOfDay <=> in)
    BY <1>1, <1>3, <1>6, <1>7
  <2> HIDE DEF today, late, in, usable
  <2> QED BY <1>12, <2>1, <2>2
<1>14. carried = IF late THEN 0 ELSE raw
  <2>1. mates \subseteq DOMAIN fills
    BY <1>1, <1>9, <1>11
  <2>2. MapThenSumSet(LAMBDA k : fills[k].pnl, mates) = TotalOf(Pnls(fills), mates)
    BY <1>11, <2>1, PnlsIsTotal
  <2>3. MapThenSumSet(LAMBDA k : fills[k].pnl, others) = MapThenSumSet(LAMBDA k : fills[k].pnl, mates)
    BY <1>10, Zenon
  <2>4. raw = TotalOf(Pnls(fills), mates)
    BY DEF RawPnl, mates
  <2> HIDE DEF raw
  <2> QED BY <1>12, <2>2, <2>3, <2>4
<1>15. /\ before \in Int /\ raw \in Int
       /\ ~usable \/ (~late /\ ~in) => after = before
       /\ usable /\ late =>
            after = before + (Nearest(raw + fills[n + 1].pnl, Fine) - Nearest(raw, Fine))
       /\ usable /\ ~late /\ in => after = before + Nearest(raw + fills[n + 1].pnl, Fine)
  <2>1. from \in Int
    BY <1>1
  <2>2. /\ fills \in Seq(Fill) /\ n \in Nat /\ n + 1 \in 1..Len(fills)
        /\ now \in Nat /\ from \in Int
    BY <1>1, <1>3, <2>1
  <2> HIDE DEF n, from
  <2> QED BY ONLY <2>2, WindowTotalGrows, Zenon DEF mates, late, in, usable, raw, before, after
<1>16. usable => fill \in Int /\ fill = fills[n + 1].pnl
  BY <1>3, <1>7
<1> HIDE DEF before, after, raw, usable, late, in, counts, carried, fill, n, new
<1>17. CASE counts
  <2> DEFINE d == after - before
  <2>1. /\ fill \in Int /\ carried \in Int
        /\ d \in Int /\ Distance(Fine * d, fill + carried) <= Fine
    <3>1. usable /\ fill \in Int /\ fill = fills[n + 1].pnl
      BY <1>13, <1>16, <1>17
    <3>2. /\ Nearest(raw, Fine) \in Int /\ Nearest(raw + fill, Fine) \in Int
          /\ Distance(Fine * (Nearest(raw + fill, Fine) - Nearest(raw, Fine)), fill) <= Fine
          /\ Distance(Fine * Nearest(raw + fill, Fine), raw + fill) <= Fine
      BY <1>15, <3>1, RoundedChange
    <3>3. CASE late
      <4>1. d = Nearest(raw + fill, Fine) - Nearest(raw, Fine)
        BY <1>15, <3>1, <3>2, <3>3
      <4>2. carried = 0 /\ fill + carried = fill
        BY <1>14, <3>1, <3>3
      <4> HIDE DEF d
      <4> QED BY <3>1, <3>2, <4>1, <4>2
    <3>4. CASE ~late
      <4>1. d = Nearest(raw + fill, Fine)
        BY <1>13, <1>15, <1>17, <3>1, <3>2, <3>4
      <4>2. carried = raw /\ fill + carried = raw + fill /\ raw \in Int
        BY <1>14, <1>15, <3>1, <3>4
      <4> HIDE DEF d
      <4> QED BY <3>1, <3>2, <4>1, <4>2
    <3> QED BY <3>3, <3>4
  <2>2. after = before + d /\ before \in Int
    <3>1. usable /\ raw + fill \in Int /\ raw \in Int /\ fill = fills[n + 1].pnl /\ before \in Int
      BY <1>13, <1>15, <1>16, <1>17
    <3>2. Nearest(raw + fill, Fine) \in Int /\ Nearest(raw, Fine) \in Int
      BY <3>1, SessionAssumption, NearestBy
    <3>3. after \in Int
      BY <1>13, <1>15, <1>17, <3>1, <3>2
    <3> QED BY <3>1, <3>3
  <2> HIDE DEF d
  <2>3. Nearest(before, Cent) \in Int /\ Nearest(after, Cent) \in Int
        /\ Distance(Cent * (Nearest(after, Cent) - Nearest(before, Cent)), d) <= Cent
    BY <2>1, <2>2, CentsApart
  <2>4. change \in Int /\ Distance(Cent * change, d) <= Cent
    BY <1>4, <1>5, <2>3
  <2> HIDE DEF change
  <2>5. Cent * change \in Int /\ fill + carried \in Int
    BY <2>1, <2>4, SessionAssumption
  <2>6. Distance(Fine * (Cent * change), fill + carried) <= Fine * Cent + Fine
    BY <2>1, <2>4, <2>5, PublishedChange
  <2> QED BY <1>17, <2>6
<1>18. CASE ~counts
  <2>1. after = before
    BY <1>13, <1>15, <1>18
  <2>2. Nearest(before, Cent) \in Int
    BY <1>15, SessionAssumption, NearestBy
  <2> QED BY <1>4, <1>5, <1>18, <2>1, <2>2
<1> QED BY <1>17, <1>18

(* Of two answers for one moment, the second with one more fill: what      *)
(* today's result changes by, whatever fills were known before.            *)
THEOREM FillCounted == Spec => []OneMoreFill
BY ReportInvariant, FillMoves, PTL

-----------------------------------------------------------------------------
(* Fills have one grouping only: the fills and the time say which are the  *)
(* trades, in which order, and what is in each row.  First: if the rows    *)
(* before r are of the same trades, those at r are.                        *)
LEMMA RowMatches ==
  ASSUME NEW s \in Seq(Fill), NEW n \in 0..Len(s), NEW t \in Nat, NEW R, NEW Q,
         IsGrouping(R, s, n, t), IsGrouping(Q, s, n, t), NEW r \in DOMAIN R,
         \A m \in DOMAIN R \cup DOMAIN Q :
           m < r => m \in DOMAIN R /\ m \in DOMAIN Q /\ R[m].key = Q[m].key
  PROVE  r \in DOMAIN Q /\ R[r].key = Q[r].key
<1> DEFINE g(key) == Group(s, n, t, key)
           named(S, key) == \E m \in DOMAIN S : S[m].key = key
<1>1. /\ DOMAIN R = 1..Len(R) /\ Len(R) \in Nat
      /\ DOMAIN Q = 1..Len(Q) /\ Len(Q) \in Nat
  BY LenProperties DEF IsGrouping
<1>2. /\ \A p, q \in DOMAIN R : R[q].key = R[p].key => q = p
      /\ \A p, q \in DOMAIN Q : Q[q].key = Q[p].key => q = p
  BY DEF IsGrouping
<1>3. /\ \A p, q \in DOMAIN R : q < p => \E k \in g(R[q].key) : \A j \in g(R[p].key) : k < j
      /\ \A p, q \in DOMAIN Q : q < p => \E k \in g(Q[q].key) : \A j \in g(Q[p].key) : k < j
  BY DEF IsGrouping
<1>4. /\ \A q \in DOMAIN R : g(R[q].key) # {}
      /\ \A q \in DOMAIN Q : g(Q[q].key) # {}
  <2>1. \A q \in DOMAIN R : RowSums(R[q], s, g(R[q].key))
    BY DEF IsGrouping
  <2>2. \A q \in DOMAIN Q : RowSums(Q[q], s, g(Q[q].key))
    BY DEF IsGrouping
  <2>3. \A row, h : RowSums(row, s, h) => h # {}
    BY DEF RowSums
  <2> HIDE DEF g
  <2> QED BY <2>1, <2>2, <2>3
<1>5. \A key : g(key) # {} => named(R, key) /\ named(Q, key)
  <2> SUFFICES ASSUME NEW key, NEW k \in g(key) PROVE named(R, key) /\ named(Q, key)
    OBVIOUS
  <2>1. k \in 1..n /\ UsableAt(s, k, t) /\ KeyAt(s, k) = key
    BY DEF Group
  <2>2. /\ \E m \in DOMAIN R : R[m].key = KeyAt(s, k)
        /\ \E m \in DOMAIN Q : Q[m].key = KeyAt(s, k)
    BY <2>1 DEF IsGrouping
  <2> QED BY <2>1, <2>2
<1>6. \A key, k : k \in g(key) => k \in Int
  BY LenProperties DEF Group
<1> HIDE DEF g
<1>7. PICK q \in DOMAIN Q : Q[q].key = R[r].key
  BY <1>4, <1>5
<1>8. ~(q < r)
  BY <1>2, <1>7
<1>9. ASSUME r < q PROVE FALSE
  <2>1. r \in DOMAIN Q
    BY <1>1, <1>9
  <2>2. PICK p \in DOMAIN R : R[p].key = Q[r].key
    BY <1>4, <1>5, <2>1
  <2>3. ~(p < r)
    BY <1>2, <2>1, <2>2
  <2>4. p # r
    BY <1>1, <1>2, <1>7, <1>9, <2>1, <2>2
  <2>5. r < p
    BY <1>1, <2>3, <2>4
  <2>6. PICK k \in g(R[r].key) : \A j \in g(R[p].key) : k < j
    BY <1>3, <2>5
  <2>7. PICK h \in g(Q[r].key) : \A j \in g(Q[q].key) : h < j
    BY <1>3, <1>9, <2>1
  <2>8. h < k /\ k < h
    BY <1>7, <2>2, <2>6, <2>7
  <2> QED BY <1>6, <2>6, <2>7, <2>8
<1>10. q = r
  BY <1>1, <1>8, <1>9
<1> QED BY <1>7, <1>10

(* Then the first row at which they differed would not differ.             *)
LEMMA GroupingUnique ==
  ASSUME NEW s \in Seq(Fill), NEW n \in 0..Len(s), NEW t \in Nat, NEW R, NEW Q,
         IsGrouping(R, s, n, t), IsGrouping(Q, s, n, t)
  PROVE  R = Q
<1> DEFINE same(m) == m \in DOMAIN R /\ m \in DOMAIN Q /\ R[m].key = Q[m].key
           bad == {m \in DOMAIN R \cup DOMAIN Q : ~same(m)}
<1>1. /\ R \in Seq(Row) /\ DOMAIN R = 1..Len(R) /\ Len(R) \in Nat
      /\ Q \in Seq(Row) /\ DOMAIN Q = 1..Len(Q) /\ Len(Q) \in Nat
  BY LenProperties DEF IsGrouping
<1>2. ASSUME bad # {} PROVE FALSE
  <2>1. bad \in SUBSET Nat
    BY <1>1
  <2>2. PICK r \in bad : \A m \in bad : r <= m
    BY <1>2, <2>1, LeastNumber
  <2>3. \A m \in DOMAIN R \cup DOMAIN Q : m < r => same(m)
    <3>1. \A m \in DOMAIN R \cup DOMAIN Q : m < r => m \notin bad
      BY <1>1, <2>1, <2>2
    <3> QED BY <3>1
  <2>4. r \in DOMAIN R => same(r)
    BY <2>3, RowMatches
  <2>5. r \in DOMAIN Q => same(r)
    <3>1. \A m \in DOMAIN Q \cup DOMAIN R :
            m < r => m \in DOMAIN Q /\ m \in DOMAIN R /\ Q[m].key = R[m].key
      BY <2>3
    <3>2. ASSUME r \in DOMAIN Q PROVE r \in DOMAIN R /\ Q[r].key = R[r].key
      BY <3>1, <3>2, RowMatches
    <3> QED BY <3>2
  <2> QED BY <2>2, <2>4, <2>5
<1>3. \A m \in DOMAIN R \cup DOMAIN Q : same(m)
  BY <1>2
<1> HIDE DEF bad
<1>4. Len(R) = Len(Q)
  <2>1. \A m : m \in 1..Len(R) <=> m \in 1..Len(Q)
    BY <1>1, <1>3
  <2>2. \A a, b \in Nat : (\A m : m \in 1..a <=> m \in 1..b) => ~(a < b)
    OBVIOUS
  <2>3. ~(Len(R) < Len(Q)) /\ ~(Len(Q) < Len(R))
    BY <1>1, <2>1, <2>2
  <2>4. Len(R) \in Nat /\ Len(Q) \in Nat
    BY <1>1
  <2> QED BY ONLY <2>3, <2>4
<1>5. ASSUME NEW r \in 1..Len(R) PROVE R[r] = Q[r]
  <2> DEFINE g == Group(s, n, t, R[r].key)
  <2>1. r \in DOMAIN R /\ r \in DOMAIN Q /\ R[r].key = Q[r].key
    BY <1>1, <1>3
  <2>2. RowSums(R[r], s, g) /\ RowSums(Q[r], s, g)
    BY <2>1 DEF IsGrouping
  <2>3. g \subseteq Nat /\ \A k \in g : s[k].at \in Nat
    <3>1. \A k \in g : s[k].at \in Nat
      BY GroupType
    <3>2. g \subseteq Nat
      BY LenProperties DEF Group
    <3> QED BY <3>1, <3>2
  <2> HIDE DEF g
  <2>4. R[r] \in Row /\ Q[r] \in Row
    BY <1>1, <2>1, ElementOfSeq
  <2>5. R[r].realized_pnl = Q[r].realized_pnl
    BY <2>2 DEF RowSums
  <2>6. R[r].closed_at = Q[r].closed_at
    <3>1. R[r].closed_at \in Nat /\ Q[r].closed_at \in Nat
      BY <2>4 DEF Row
    <3>2. R[r].closed_at <= Q[r].closed_at /\ Q[r].closed_at <= R[r].closed_at
      BY <2>2 DEF RowSums
    <3> QED BY <3>1, <3>2
  <2>7. R[r].symbol = Q[r].symbol
    <3>1. PICK k \in g : IsFirst(g, k) /\ R[r].symbol = s[k].symbol
      BY <2>2 DEF RowSums
    <3>2. PICK j \in g : IsFirst(g, j) /\ Q[r].symbol = s[j].symbol
      BY <2>2 DEF RowSums
    <3>3. k <= j /\ j <= k
      BY <3>1, <3>2 DEF IsFirst
    <3>4. k = j
      BY <2>3, <3>3
    <3> QED BY <3>1, <3>2, <3>4
  <2> QED BY <2>1, <2>4, <2>5, <2>6, <2>7 DEF Row
<1> QED BY <1>1, <1>4, <1>5, SeqEqual

(* Times with the same usable fills have the same groupings.               *)
LEMMA GroupingSameTime ==
  ASSUME NEW s, NEW n, NEW t, NEW u, NEW R, IsGrouping(R, s, n, t),
         \A k \in 1..n : UsableAt(s, k, t) <=> UsableAt(s, k, u)
  PROVE  IsGrouping(R, s, n, u)
<1>1. \A key : Group(s, n, t, key) = Group(s, n, u, key)
  BY DEF Group
<1>2. \A row, key : RowSums(row, s, Group(s, n, t, key)) => RowSums(row, s, Group(s, n, u, key))
  BY <1>1
<1> QED BY <1>1, <1>2 DEF IsGrouping

(* A set of numbers up to t has a greatest one.                            *)
LEMMA GreatestUpTo ==
  ASSUME NEW t \in Nat, NEW N \in SUBSET (0..t), N # {}
  PROVE  Max(N) \in 0..t
<1> DEFINE below == {t - x : x \in N}
<1>1. below \in SUBSET Nat /\ below # {}
  <2>1. \A x \in N : x \in 0..t
    OBVIOUS
  <2>2. \A x \in N : t - x \in Nat
    BY <2>1
  <2>3. PICK x \in N : TRUE
    OBVIOUS
  <2> QED BY <2>2, <2>3
<1>2. PICK d \in below : \A e \in below : d <= e
  BY <1>1, LeastNumber
<1>3. PICK x \in N : d = t - x
  OBVIOUS
<1>4. \A y \in N : t - x <= t - y
  BY <1>2, <1>3
<1>5. \A y \in N : x >= y
  BY <1>4
<1>6. Max(N) \in N
  BY <1>5 DEF Max
<1> QED BY <1>6

(* The time since the last of some trades, from one time to a later one.   *)
LEMMA SinceAges ==
  ASSUME NEW R, NEW rs, rs \subseteq DOMAIN R, NEW t \in Nat, NEW u \in Nat, t <= MaxTime,
         \A r \in rs : R[r].closed_at \in 0..t
  PROVE  SinceLast(R, rs, u) =
           IF SinceLast(R, rs, t) = None THEN None ELSE SinceLast(R, rs, t) + (u - t)
<1> DEFINE dates == {R[r].closed_at : r \in rs}
           last == Max(dates)
<1>1. CASE rs = {}
  BY <1>1 DEF SinceLast
<1>2. CASE rs # {}
  <2>1. dates \in SUBSET (0..t) /\ dates # {}
    BY <1>2
  <2>2. last \in 0..t
    BY <2>1, GreatestUpTo
  <2>3. SinceLast(R, rs, u) = u - last /\ SinceLast(R, rs, t) = t - last
    BY <1>2 DEF SinceLast
  <2> HIDE DEF last
  <2>4. t - last \in Times
    BY <2>2, SessionAssumption DEF Times
  <2>5. t - last # None
    BY <2>4, SessionAssumption
  <2>6. u - last = (t - last) + (u - t)
    BY <2>2
  <2> QED BY <2>3, <2>5, <2>6
<1> QED BY <1>1, <1>2

(* Today's trades, at a later time that dates none of them anew.           *)
LEMMA TodayAges ==
  ASSUME NEW R, NEW t \in Nat, NEW u \in Nat, t <= u,
         \A r \in DOMAIN R : R[r].closed_at \in 0..t
  PROVE  Cardinality(ClosedIn(R, DayStart(u), u)) =
           IF u \div DayLength = t \div DayLength
             THEN Cardinality(ClosedIn(R, DayStart(t), t)) ELSE 0
<1> DEFINE day(v) == v \div DayLength
<1>1. /\ day(t) \in Nat /\ day(u) \in Nat
      /\ \A v \in Nat : DayStart(t) <= v <=> day(t) <= day(v)
      /\ \A v \in Nat : DayStart(u) <= v <=> day(u) <= day(v)
  BY DayOfTime
<1>2. /\ DayStart(u) <= u /\ DayStart(t) <= t /\ DayStart(u) \in Nat /\ DayStart(t) \in Nat
  BY <1>1, DayOfTime
<1>3. CASE day(u) = day(t)
  <2>1. \A v \in Nat : DayStart(u) <= v <=> DayStart(t) <= v
    BY <1>1, <1>3
  <2>2. ClosedIn(R, DayStart(u), u) = ClosedIn(R, DayStart(t), t)
    BY <2>1 DEF ClosedIn
  <2> HIDE DEF day
  <2>3. Cardinality(ClosedIn(R, DayStart(u), u)) = Cardinality(ClosedIn(R, DayStart(t), t))
    BY <2>2, Zenon
  <2> QED BY <1>3, <2>3 DEF day
<1>4. CASE day(u) # day(t)
  <2>1. ~(DayStart(u) <= t)
    <3> HIDE DEF day
    <3>1. DayStart(t) <= u
      BY <1>2
    <3>2. day(t) <= day(u)
      BY <1>1, <3>1
    <3> QED BY <1>1, <1>4, <3>2
  <2>2. ClosedIn(R, DayStart(u), u) = {}
    BY <1>2, <2>1 DEF ClosedIn
  <2>3. Cardinality(ClosedIn(R, DayStart(u), u)) = 0
    BY <2>2, FS_EmptySet
  <2> QED BY <1>4, <2>3
<1> QED BY <1>3, <1>4

(* Of the same fills, a later report drops days and nothing else.          *)
LEMMA QuietAges ==
  ASSUME RInv
  PROVE  QuietTimeOnlyAges
<1> DEFINE n == report.known
           t == previous.at
           u == report.at
<1> SUFFICES ASSUME Answered, previous # None, previous.known = n,
                    \A k \in 1..n : fills[k].at # None => fills[k].at <= t \/ fills[k].at > u
             PROVE  /\ report.streak = previous.streak
                    /\ report.since_loss =
                         IF previous.since_loss = None THEN None
                         ELSE previous.since_loss + (u - t)
                    /\ report.today = IF u \div DayLength = t \div DayLength
                                        THEN previous.today ELSE 0
  BY DEF QuietTimeOnlyAges
<1>1. fills \in Seq(Fill) /\ Len(fills) \in Nat /\ now \in Nat /\ now <= MaxTime
  BY FillsAreFinite
<1>2. report # None /\ Answers(report, fills, now) /\ Answers(previous, fills, now) /\ t <= u
  BY DEF RInv, ReportAnswers, PreviousAnswers, Answered
<1>3. n \in 0..Len(fills) /\ t \in 0..now /\ u \in 0..now
  BY <1>2 DEF Answers
<1>4. t \in Nat /\ u \in Nat /\ t <= MaxTime
  BY <1>1, <1>3, SessionAssumption
<1>5. PICK R : IsGrouping(R, fills, n, u) /\ IsReport(report, R, u)
  BY <1>2 DEF Answers
<1>6. PICK Q : IsGrouping(Q, fills, n, t) /\ IsReport(previous, Q, t)
  BY <1>2 DEF Answers
<1>7. ASSUME NEW k \in 1..n PROVE UsableAt(fills, k, u) <=> UsableAt(fills, k, t)
  <2>1. k \in 1..Len(fills)
    BY <1>1, <1>3
  <2>2. UsableAt(fills, k, u) => fills[k].at \in Nat
    BY <1>1, <1>4, <2>1, UsableType
  <2>3. UsableAt(fills, k, t) => fills[k].at \in Nat
    BY <1>1, <1>4, <2>1, UsableType
  <2> HIDE DEF t, u, n
  <2> QED BY <1>2, <1>4, <1>7, <2>2, <2>3 DEF UsableAt
<1>8. IsGrouping(R, fills, n, t)
  BY <1>5, <1>7, GroupingSameTime
<1>9. R = Q
  BY <1>1, <1>3, <1>4, <1>6, <1>8, GroupingUnique
<1>10. \A r \in DOMAIN R : R[r].closed_at \in 0..t
  <2>1. \A r \in DOMAIN R : R[r].closed_at \in Nat /\ R[r].closed_at <= t
    BY <1>1, <1>3, <1>4, <1>8, RowClosed
  <2> QED BY <1>4, <2>1
<1>11. /\ report.streak = Cardinality(StreakIn(R)) /\ previous.streak = Cardinality(StreakIn(R))
       /\ report.since_loss = SinceLast(R, LossesIn(R), u)
       /\ previous.since_loss = SinceLast(R, LossesIn(R), t)
       /\ report.today = Cardinality(ClosedIn(R, DayStart(u), u))
       /\ previous.today = Cardinality(ClosedIn(R, DayStart(t), t))
  BY <1>5, <1>6, <1>9 DEF IsReport
<1>12. LossesIn(R) \subseteq DOMAIN R
  BY DEF LossesIn
<1>13. report.since_loss = IF previous.since_loss = None THEN None
                           ELSE previous.since_loss + (u - t)
  <2>1. SinceLast(R, LossesIn(R), u) =
          IF SinceLast(R, LossesIn(R), t) = None THEN None
          ELSE SinceLast(R, LossesIn(R), t) + (u - t)
    <3> HIDE DEF t, u, n
    <3> QED BY <1>4, <1>10, <1>12, SinceAges
  <2> QED BY <1>11, <2>1, Zenon
<1>14. report.today = IF u \div DayLength = t \div DayLength THEN previous.today ELSE 0
  <2>1. Cardinality(ClosedIn(R, DayStart(u), u)) =
          IF u \div DayLength = t \div DayLength
            THEN Cardinality(ClosedIn(R, DayStart(t), t)) ELSE 0
    <3> HIDE DEF t, u, n
    <3> QED BY <1>2, <1>4, <1>10, TodayAges
  <2> QED BY <1>11, <2>1, Zenon
<1> QED BY <1>11, <1>13, <1>14

(* Between two reports of the same fills, none of which stopped being a    *)
(* future one, only the age of the last loss and the day can tell: for any *)
(* fills, however they are grouped.                                        *)
THEOREM QuietAgesOnly == Spec => []QuietTimeOnlyAges
BY ReportInvariant, QuietAges, PTL
=============================================================================
