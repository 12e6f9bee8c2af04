---------------------------- MODULE FigureProofs ----------------------------
(***************************************************************************)
(* For every list of trades, fills or outcomes that is posted: how the     *)
(* figures that the report, execution cost and shadow endpoints answer     *)
(* with fit together.                                                      *)
(***************************************************************************)
EXTENDS ApiGatewayProofs, SequenceTheorems, SetSums

-----------------------------------------------------------------------------
(* A quotient on one side of an integer is rounded to no other side.       *)
LEMMA NearestSides ==
  ASSUME NEW n \in Int, NEW d \in Nat \ {0}, NEW m \in Int
  PROVE  /\ d * m <= n => m <= Nearest(n, d)
         /\ n <= d * m => Nearest(n, d) <= m
<1> DEFINE r == Nearest(n, d)
<1>1. r \in Int /\ 2 * n - d <= 2 * (d * r) /\ 2 * (d * r) <= 2 * n + d
  BY NearestBy
<1> HIDE DEF r
<1>2. d * m \in Int /\ d * r \in Int
  BY <1>1
<1>3. r < m => d * r + d <= d * m
  BY <1>1, MultiplesOrdered
<1>4. m < r => d * m + d <= d * r
  BY <1>1, MultiplesOrdered
<1>5. d * m <= n => m <= r
  BY <1>1, <1>2, <1>3
<1>6. n <= d * m => r <= m
  BY <1>1, <1>2, <1>4
<1> QED BY <1>5, <1>6 DEF r

(* Half way between two integers the even one is taken.                    *)
LEMMA NearestTie ==
  ASSUME NEW n \in Int, NEW d \in Nat \ {0}, NEW r \in Int,
         2 * n = 2 * (d * r) + d
  PROVE  Nearest(n, d) = IF r % 2 = 0 THEN r ELSE r + 1
<1> DEFINE q == n \div d
           m == n % d
<1>1. q \in Int /\ m \in 0..(d - 1) /\ n = d * q + m
  OBVIOUS
<1>2. Nearest(n, d) = IF 2 * m < d \/ (2 * m = d /\ q % 2 = 0) THEN q ELSE q + 1
  BY DEF Nearest
<1> HIDE DEF q, m
<1>3. d * q \in Int /\ d * r \in Int
  BY <1>1
<1>4. q < r => d * q + d <= d * r
  BY <1>1, MultiplesOrdered
<1>5. r < q => d * r + d <= d * q
  BY <1>1, MultiplesOrdered
<1>6. q = r
  BY <1>1, <1>3, <1>4, <1>5
<1>7. 2 * m = d
  BY <1>1, <1>3, <1>6
<1> QED BY <1>2, <1>6, <1>7

(* Products of a factor that is not negative are ordered as the other      *)
(* factors are, and of a positive one strictly.                            *)
LEMMA ProductsOrdered ==
  ASSUME NEW a \in Int, NEW b \in Int, NEW c \in Nat
  PROVE  /\ a * c \in Int /\ b * c \in Int
         /\ a <= b => a * c <= b * c
         /\ c # 0 /\ a * c <= b * c => a <= b
<1>1. a <= b => 0 <= c * (b - a)
  OBVIOUS
<1>2. c * (b - a) = b * c - a * c /\ a * c \in Int /\ b * c \in Int
  OBVIOUS
<1>3. c # 0 /\ b < a => 0 < c * (a - b)
  OBVIOUS
<1>4. c * (a - b) = a * c - b * c
  OBVIOUS
<1> QED BY <1>1, <1>2, <1>3, <1>4

(* Rounding respects the order of quotients, and takes equal quotients to   *)
(* the same integer.                                                       *)
LEMMA NearestOrdered ==
  ASSUME NEW n \in Int, NEW d \in Nat \ {0}, NEW m \in Int, NEW e \in Nat \ {0},
         n * e <= m * d
  PROVE  Nearest(n, d) <= Nearest(m, e)
<1> DEFINE p == Nearest(n, d)
           r == Nearest(m, e)
<1>1. /\ p \in Int /\ d * p \in Int
      /\ 2 * n - d <= 2 * (d * p) /\ 2 * (d * p) <= 2 * n + d
  BY NearestBy
<1>2. /\ r \in Int /\ e * r \in Int
      /\ 2 * m - e <= 2 * (e * r) /\ 2 * (e * r) <= 2 * m + e
  BY NearestBy
<1> HIDE DEF p, r
<1>3. SUFFICES ASSUME r < p PROVE FALSE
  BY <1>1, <1>2 DEF p, r
<1>4. d * r + d <= d * p /\ d * r \in Int
  BY <1>1, <1>2, <1>3, MultiplesOrdered
<1>5. 2 * (d * r) + d <= 2 * n
  BY <1>1, <1>4
<1>6. 2 * m <= 2 * (e * r) + e
  BY <1>2
\* multiplied by the other's divisor
<1> DEFINE both == 2 * (d * r * e) + d * e
<1>7. both \in Int /\ both = (2 * (d * r) + d) * e /\ both = (2 * (e * r) + e) * d
  BY <1>2
<1>8. both <= (2 * n) * e
  BY <1>4, <1>5, <1>7, ProductsOrdered
<1>9. (2 * m) * d <= both
  BY <1>2, <1>6, <1>7, ProductsOrdered
<1>10. (2 * n) * e = 2 * (n * e) /\ (2 * m) * d = 2 * (m * d)
       /\ n * e \in Int /\ m * d \in Int
  OBVIOUS
<1>11. (2 * n) * e = both /\ (2 * m) * d = both
  <2> HIDE DEF both
  <2> QED BY <1>7, <1>8, <1>9, <1>10
<1>12. 2 * n = 2 * (d * r) + d
  <2>1. (2 * n) * e <= (2 * (d * r) + d) * e
    BY <1>7, <1>11, <1>10
  <2>2. 2 * n <= 2 * (d * r) + d
    BY <1>4, <2>1, ProductsOrdered
  <2> QED BY <1>4, <1>5, <2>2
<1>13. 2 * m = 2 * (e * r) + e
  <2>1. (2 * (e * r) + e) * d <= (2 * m) * d
    BY <1>7, <1>11, <1>10
  <2>2. 2 * (e * r) + e <= 2 * m
    BY <1>2, <2>1, ProductsOrdered
  <2> QED BY <1>2, <1>6, <2>2
<1>14. p = r
  BY <1>2, <1>12, <1>13, NearestTie DEF p, r
<1> QED BY <1>1, <1>2, <1>3, <1>14

(* A quotient is rounded to a positive integer exactly if it is more than  *)
(* a half.                                                                 *)
LEMMA NearestPositive ==
  ASSUME NEW n \in Int, NEW d \in Nat \ {0}
  PROVE  Nearest(n, d) > 0 <=> 2 * n > d
<1>1. Nearest(n, d) \in Int /\ d * Nearest(n, d) \in Int
      /\ 2 * n - d <= 2 * (d * Nearest(n, d)) /\ 2 * (d * Nearest(n, d)) <= 2 * n + d
  BY NearestBy
<1>2. 2 * n = d => Nearest(n, d) = 0
  <2>1. 2 * (d * 0) + d = d /\ 0 % 2 = 0 /\ 0 \in Int
    OBVIOUS
  <2>2. 2 * n = d => 2 * n = 2 * (d * 0) + d
    BY <2>1
  <2>3. 2 * n = d => Nearest(n, d) = IF 0 % 2 = 0 THEN 0 ELSE 0 + 1
    BY <2>1, <2>2, NearestTie
  <2> QED BY <2>1, <2>3
<1> DEFINE p == Nearest(n, d)
<1> HIDE DEF p
<1>3. p > 0 => d <= d * p
  <2>1. 0 < p => d * 0 + d <= d * p
    BY <1>1, MultiplesOrdered DEF p
  <2> QED BY <1>1, <2>1 DEF p
<1>4. p <= 0 => d * p <= 0
  <2>1. p <= 0 => d * p <= d * 0
    BY <1>1, MultiplesOrdered DEF p
  <2> QED BY <1>1, <2>1 DEF p
<1>5. p > 0 => 2 * n >= d
  BY <1>1, <1>3 DEF p
<1>6. p <= 0 => 2 * n <= d
  BY <1>1, <1>4 DEF p
<1> QED BY <1>1, <1>2, <1>5, <1>6 DEF p

-----------------------------------------------------------------------------
(* Ratios with a positive second part: AtMost orders them.                 *)
Ratios == Int \X (Nat \ {0})

(* The order of ratios is one: reflexive, total and transitive.            *)
LEMMA AtMostOrders ==
  ASSUME NEW x \in Ratios, NEW y \in Ratios, NEW z \in Ratios
  PROVE  /\ AtMost(x, x)
         /\ AtMost(x, y) \/ AtMost(y, x)
         /\ AtMost(x, y) /\ AtMost(y, z) => AtMost(x, z)
<1>1. /\ x[1] \in Int /\ y[1] \in Int /\ z[1] \in Int
      /\ x[2] \in Nat \ {0} /\ y[2] \in Nat \ {0} /\ z[2] \in Nat \ {0}
  BY DEF Ratios
<1>2. AtMost(x, x)
  BY <1>1 DEF AtMost
<1>3. x[1] * y[2] \in Int /\ y[1] * x[2] \in Int
  BY <1>1
<1>4. AtMost(x, y) \/ AtMost(y, x)
  BY <1>3 DEF AtMost
<1>5. ASSUME AtMost(x, y), AtMost(y, z) PROVE AtMost(x, z)
  <2>1. /\ x[1] * y[2] \in Int /\ y[1] * x[2] \in Int
        /\ y[1] * z[2] \in Int /\ z[1] * y[2] \in Int
        /\ x[1] * z[2] \in Int /\ z[1] * x[2] \in Int
    BY <1>1
  <2>2. (x[1] * y[2]) * z[2] <= (y[1] * x[2]) * z[2]
    BY <1>1, <1>5, <2>1, ProductsOrdered DEF AtMost
  <2>3. (y[1] * z[2]) * x[2] <= (z[1] * y[2]) * x[2]
    BY <1>1, <1>5, <2>1, ProductsOrdered DEF AtMost
  <2>4. /\ (x[1] * y[2]) * z[2] = (x[1] * z[2]) * y[2]
        /\ (y[1] * x[2]) * z[2] = (y[1] * z[2]) * x[2]
        /\ (z[1] * y[2]) * x[2] = (z[1] * x[2]) * y[2]
    BY <1>1
  <2>5. (x[1] * z[2]) * y[2] <= (z[1] * x[2]) * y[2]
    <3>1. /\ (x[1] * z[2]) * y[2] \in Int /\ (y[1] * z[2]) * x[2] \in Int
          /\ (z[1] * x[2]) * y[2] \in Int
      BY <1>1, <2>1
    <3> QED BY <2>2, <2>3, <2>4, <3>1
  <2>6. x[1] * z[2] <= z[1] * x[2]
    BY <1>1, <2>1, <2>5, ProductsOrdered
  <2> QED BY <2>6 DEF AtMost
<1> QED BY <1>2, <1>4, <1>5

(* The larger of two ratios is one of them and not below either; equal     *)
(* ratios are rounded alike, in any unit.                                  *)
LEMMA LargerOfRatios ==
  ASSUME NEW x \in Ratios, NEW y \in Ratios
  PROVE  /\ Larger(x, y) \in {x, y}
         /\ Larger(x, y) \in Ratios
         /\ AtMost(x, Larger(x, y)) /\ AtMost(y, Larger(x, y))
BY AtMostOrders DEF Larger

(* Ratios are rounded in order.                                            *)
LEMMA RoundedOrdered ==
  ASSUME NEW x \in Ratios, NEW y \in Ratios, NEW unit \in Nat, AtMost(x, y)
  PROVE  /\ Rounded(x, unit) \in Int /\ Rounded(y, unit) \in Int
         /\ Rounded(x, unit) <= Rounded(y, unit)
<1>1. /\ x[1] \in Int /\ y[1] \in Int
      /\ x[2] \in Nat \ {0} /\ y[2] \in Nat \ {0}
  BY DEF Ratios
<1>2. unit * x[1] \in Int /\ unit * y[1] \in Int
      /\ x[1] * y[2] \in Int /\ y[1] * x[2] \in Int
  BY <1>1
<1>3. (x[1] * y[2]) * unit <= (y[1] * x[2]) * unit
  BY <1>2, ProductsOrdered DEF AtMost
<1>4. (x[1] * y[2]) * unit = (unit * x[1]) * y[2]
      /\ (y[1] * x[2]) * unit = (unit * y[1]) * x[2]
  BY <1>1
<1>5. Nearest(unit * x[1], x[2]) <= Nearest(unit * y[1], y[2])
  BY <1>1, <1>2, <1>3, <1>4, NearestOrdered
<1>6. Nearest(unit * x[1], x[2]) \in Int /\ Nearest(unit * y[1], y[2]) \in Int
  BY <1>1, <1>2, NearestBy
<1> QED BY <1>5, <1>6 DEF Rounded

(* Two ratios neither of which is above the other are rounded alike.       *)
LEMMA EqualRatios ==
  ASSUME NEW x \in Ratios, NEW y \in Ratios, NEW unit \in Nat,
         AtMost(x, y), AtMost(y, x)
  PROVE  Rounded(x, unit) = Rounded(y, unit)
<1>1. /\ Rounded(x, unit) \in Int /\ Rounded(y, unit) \in Int
      /\ Rounded(x, unit) <= Rounded(y, unit)
  BY RoundedOrdered
<1>2. Rounded(y, unit) <= Rounded(x, unit)
  BY RoundedOrdered
<1> QED BY <1>1, <1>2

(* The positions of a list are as many as it is long.                      *)
LEMMA CountTo ==
  ASSUME NEW n \in Nat
  PROVE  IsFiniteSet(1..n) /\ Cardinality(1..n) = n
<1>1. 1 \in Int /\ n \in Int
  OBVIOUS
<1>2. IsFiniteSet(1..n) /\ Cardinality(1..n) = IF 1 > n THEN 0 ELSE n - 1 + 1
  BY <1>1, FS_Interval
<1> QED BY <1>2

-----------------------------------------------------------------------------
(* What the modules of the three endpoints take from Numbers and the       *)
(* libraries is the same in each.                                          *)
LEMMA SameOperators ==
  /\ \A f : /\ SumOver(f) = TotalOf(f, DOMAIN f)
            /\ Reports!SumOver(f) = TotalOf(f, DOMAIN f)
            /\ Costs!SumOver(f) = TotalOf(f, DOMAIN f)
            /\ Shadow!SumOver(f) = TotalOf(f, DOMAIN f)
  /\ \A S : /\ Reports!Cardinality(S) = Cardinality(S)
            /\ Costs!Cardinality(S) = Cardinality(S)
            /\ Shadow!Cardinality(S) = Cardinality(S)
  /\ \A n, d : /\ Reports!Nearest(n, d) = Nearest(n, d)
               /\ Costs!Nearest(n, d) = Nearest(n, d)
               /\ Shadow!Nearest(n, d) = Nearest(n, d)
<1>1. \A f : /\ SumOver(f) = TotalOf(f, DOMAIN f)
             /\ Reports!SumOver(f) = TotalOf(f, DOMAIN f)
  BY DEF SumOver, Reports!SumOver, Reports!MapThenSumSet, Reports!MapThenFoldSet,
         TotalOf, MapThenSumSet, MapThenFoldSet
<1>2. \A f : /\ Costs!SumOver(f) = TotalOf(f, DOMAIN f)
             /\ Shadow!SumOver(f) = TotalOf(f, DOMAIN f)
  BY DEF Costs!SumOver, Costs!MapThenSumSet, Costs!MapThenFoldSet,
         Shadow!SumOver, Shadow!MapThenSumSet, Shadow!MapThenFoldSet,
         TotalOf, MapThenSumSet, MapThenFoldSet
<1>3. \A S : /\ Reports!Cardinality(S) = Cardinality(S)
             /\ Costs!Cardinality(S) = Cardinality(S)
             /\ Shadow!Cardinality(S) = Cardinality(S)
  BY DEF Reports!Cardinality, Costs!Cardinality, Shadow!Cardinality, Cardinality
<1>4. \A n, d : /\ Reports!Nearest(n, d) = Nearest(n, d)
                /\ Costs!Nearest(n, d) = Nearest(n, d)
                /\ Shadow!Nearest(n, d) = Nearest(n, d)
  BY DEF Reports!Nearest, Costs!Nearest, Shadow!Nearest, Nearest
<1> QED BY <1>1, <1>2, <1>3, <1>4

-----------------------------------------------------------------------------
FigureEndpoints == {"report", "execution-costs", "shadow"}

\* The figures of a payload.
Figures(endpoint, payload) ==
  CASE endpoint = "report" -> Reports!Report(payload)
    [] endpoint = "execution-costs" -> Costs!Summary(payload)
    [] endpoint = "shadow" -> Shadow!Summary(payload)

\* An answer with figures has those of the payload that was posted, and the
\* confidence that its number of observations gives.
FiguresInv ==
  /\ request # None => request \in Requests
  /\ (pc = "return" \/ answer # None) /\ answer.status = 200 =>
       \A endpoint \in FigureEndpoints : request.endpoint = endpoint =>
         \E q \in Requests : /\ q = request /\ Accepted(q.payload)
                             /\ answer.data = Figures(endpoint, q.payload)
                             /\ endpoint # "report" =>
                                  answer.confidence
                                    = Confidence(answer.data.observation_count,
                                                 q.payload.minimum)

(* Every step keeps this.                                                  *)
LEMMA FiguresStep ==
  ASSUME IInv, FiguresInv, [Next]_vars
  PROVE  FiguresInv'
<1>1. request' = request \/ request' = None \/ request' \in Requests
  BY DEF Next, Deploy, Receive, Deliver, RefuseUnconfigured, CompareFails, RefuseKey,
         Admit, Middleware, Refuse, Ready, Compute, Plain, AskDatabase, Return,
         DatabaseAnswers, DatabaseFails, DatabaseMisreplies, FailToPrint, Respond, vars
<1>2. request' # None => request' \in Requests
  BY <1>1 DEF FiguresInv
<1>3. ASSUME NEW id, Compute(id) PROVE FiguresInv'
  <2>1. /\ request' = request /\ request # None /\ request \in Requests
        /\ answer'.data = Computed[1] /\ answer'.confidence = Computed[2]
    BY <1>3 DEF Compute, Return, IInv, Phases, FiguresInv
  <2>2. ASSUME NEW endpoint \in FigureEndpoints, request.endpoint = endpoint
        PROVE  /\ Accepted(request.payload)
               /\ Computed[1] = Figures(endpoint, request.payload)
               /\ endpoint # "report" =>
                    Computed[2] = Confidence(Computed[1].observation_count,
                                             request.payload.minimum)
    <3>1. Accepted(request.payload)
      BY <1>3, <2>2 DEF Compute, Protected, PUBLIC_PATHS, FigureEndpoints, Valid
    <3>2. Computed[1] = Figures(endpoint, request.payload)
      BY <2>2 DEF FigureEndpoints, Computed, Figures
    <3>3. endpoint # "report" =>
            Computed[2] = Confidence(Computed[1].observation_count, request.payload.minimum)
      BY <2>2 DEF FigureEndpoints, Computed
    <3> QED BY <3>1, <3>2, <3>3
  <2> QED BY <1>2, <2>1, <2>2 DEF FiguresInv
<1>4. CASE Respond
  <2>1. /\ request' = request /\ pc = "return"
        /\ answer' = [x \in DOMAIN answer |-> IF x = "header_id" THEN local_id ELSE answer[x]]
    BY <1>4, Zenon DEF Respond
  <2>2. /\ answer'.data = answer.data /\ answer'.status = answer.status
        /\ answer'.confidence = answer.confidence
    BY <2>1 DEF IInv, Answers
  <2> QED BY <1>2, <2>1, <2>2 DEF FiguresInv
<1>5. ASSUME NEW variables \in Deployments, Deploy(variables) PROVE FiguresInv'
  BY <1>2, <1>5 DEF Deploy, FiguresInv
<1>6. ASSUME NEW q \in Requests, Receive(q) PROVE FiguresInv'
  BY <1>2, <1>6 DEF Receive, FiguresInv, IInv, Phases, Clean
<1>7. CASE Deliver
  BY <1>2, <1>7 DEF Deliver, FiguresInv, IInv, Phases
<1>8. ASSUME NEW id, RefuseUnconfigured(id) \/ CompareFails(id) \/ RefuseKey(id)
      PROVE  FiguresInv'
  BY <1>2, <1>8 DEF RefuseUnconfigured, CompareFails, RefuseKey, Error, FiguresInv
<1>9. ASSUME NEW id, Admit(id) PROVE FiguresInv'
  BY <1>2, <1>9 DEF Admit, Middleware, FiguresInv, IInv, Phases, Clean
<1>10. ASSUME NEW id, Refuse(id) PROVE FiguresInv'
  BY <1>2, <1>10 DEF Refuse, Return, FiguresInv
<1>11. ASSUME NEW id, Ready(id) PROVE FiguresInv'
  BY <1>2, <1>11 DEF Ready, Return, FiguresInv, FigureEndpoints
<1>12. ASSUME NEW id, DatabaseAnswers(id) PROVE FiguresInv'
  BY <1>2, <1>12 DEF DatabaseAnswers, Return, FiguresInv, FigureEndpoints, IInv, Phases
<1>13. ASSUME NEW id, DatabaseFails(id) \/ DatabaseMisreplies(id) \/ FailToPrint(id)
       PROVE  FiguresInv'
  BY <1>2, <1>13 DEF DatabaseFails, DatabaseMisreplies, FailToPrint, Return, Error, FiguresInv
<1>14. CASE Plain
  BY <1>2, <1>14 DEF Plain, Return, FiguresInv, FigureEndpoints
<1>15. CASE AskDatabase
  BY <1>2, <1>15 DEF AskDatabase, FiguresInv, IInv, Phases
<1>16. CASE UNCHANGED vars
  BY <1>2, <1>16 DEF vars, FiguresInv
<1> QED
  BY <1>3, <1>4, <1>5, <1>6, <1>7, <1>8, <1>9, <1>10, <1>11, <1>12, <1>13, <1>14,
     <1>15, <1>16 DEF Next

(* So an answer of one of the three endpoints has the figures of its       *)
(* payload, always.                                                        *)
LEMMA FiguresAlways == Spec => [](IInv /\ FiguresInv)
<1>1. Init => FiguresInv
  BY DEF Init, FiguresInv
<1>2. IInv /\ FiguresInv /\ [Next]_vars => FiguresInv'
  BY FiguresStep
<1> QED BY <1>1, <1>2, Invariance, PTL DEF Spec
-----------------------------------------------------------------------------
(* The rows of a shadow summary.                                           *)
ShadowRows(r) == [k \in DOMAIN r.outcomes |-> Shadow!Normalized(r.outcomes[k])]

(* They are as many as the outcomes, with numbers for net returns.         *)
LEMMA ShadowRowsOf ==
  ASSUME NEW q \in Requests, Accepted(q.payload), q.endpoint = "shadow",
         NEW rows, rows = ShadowRows(q.payload)
  PROVE  /\ DOMAIN rows = 1..Len(rows) /\ Len(rows) \in Nat
         /\ IsFiniteSet(DOMAIN rows) /\ Cardinality(DOMAIN rows) = Len(rows)
         /\ \A k \in DOMAIN rows : rows[k].net \in Int
<1> DEFINE outcomes == q.payload.outcomes
           Normal == {Shadow!Normalized(o) : o \in ShadowTradeOutcome}
<1>1. outcomes \in Seq(ShadowTradeOutcome)
  BY PayloadsAssumption DEF ShadowPerformanceRequest
<1>2. rows = [k \in DOMAIN outcomes |-> Shadow!Normalized(outcomes[k])]
  BY DEF ShadowRows
<1>3. \A n \in Normal : n.net \in Int
  BY DEF Shadow!Normalized, ShadowTradeOutcome
<1> HIDE DEF outcomes
<1>4. DOMAIN outcomes = 1..Len(outcomes) /\ Len(outcomes) \in Nat
      /\ \A k \in DOMAIN outcomes : outcomes[k] \in ShadowTradeOutcome
  BY <1>1
<1>5. \A k \in DOMAIN outcomes : rows[k] \in Normal
  BY <1>2, <1>4
<1> HIDE DEF Normal
<1>6. rows \in Seq(Normal) /\ DOMAIN rows = DOMAIN outcomes
  BY <1>2, <1>4, <1>5
<1>7. DOMAIN rows = 1..Len(rows) /\ Len(rows) \in Nat
  BY <1>6
<1>8. IsFiniteSet(1..Len(rows)) /\ Cardinality(1..Len(rows)) = Len(rows)
  BY <1>7, CountTo
<1> QED BY <1>3, <1>5, <1>6, <1>7, <1>8

(* A summary ready for forward review with the observations asked for is   *)
(* ready for paper review: a mean that is positive rounded is positive.    *)
LEMMA ForwardReadyIsPaperReady ==
  ASSUME NEW q \in Requests, Accepted(q.payload), q.endpoint = "shadow",
         NEW data, data = Shadow!Summary(q.payload),
         Shadow!ForwardReviewReady(data), data.observation_count >= data.minimum
  PROVE  data.paper_review_ready
<1> DEFINE rows == ShadowRows(q.payload)
           all == DOMAIN rows
           total == Shadow!Sum(rows, all, "net")
<1>1. /\ data.observation_count = Len(rows) /\ data.minimum = q.payload.minimum
      /\ data.net_expectancy_pct = Shadow!Average(rows, all, "net")
      /\ data.paper_review_ready
           = (Shadow!Eligible(rows, q.payload) /\ rows # << >> /\ total > 0)
  BY DEF Shadow!Summary, ShadowRows
<1>2. data.net_expectancy_pct # None /\ data.net_expectancy_pct > 0
  BY DEF Shadow!ForwardReviewReady, Shadow!Gates
<1>3. all = 1..Len(rows) /\ Len(rows) \in Nat /\ IsFiniteSet(all)
      /\ Cardinality(all) = Len(rows) /\ \A k \in all : rows[k].net \in Int
  BY ShadowRowsOf
<1>4. all # {} /\ Shadow!Average(rows, all, "net") = Nearest(Unit * total, Whole * Len(rows))
  <2>1. all # {} /\ Shadow!Average(rows, all, "net")
                     = Shadow!Rounded(<<total, Whole * Len(rows)>>, Unit)
    BY <1>1, <1>2, <1>3, SameOperators DEF Shadow!Average
  <2> QED BY <2>1, SameOperators DEF Shadow!Rounded
<1>5. total \in Int
  <2> DEFINE f == [k \in all |-> rows[k]["net"]]
  <2>1. total = TotalOf(f, all)
    BY SameOperators DEF Shadow!Sum
  <2> QED BY <1>3, <2>1, TotalType
<1> HIDE DEF total, all, rows
<1>6. total > 0
  <2>1. Len(rows) \in Nat \ {0} /\ Unit \in Nat \ {0} /\ Whole \in Nat \ {0}
    BY <1>3, <1>4, ScalesAssumption
  <2>2. Unit * total \in Int /\ Whole * Len(rows) \in Nat \ {0}
    BY <1>5, <2>1
  <2> DEFINE n == Unit * total
             d == Whole * Len(rows)
  <2>3. total <= 0 => n <= d * 0
    BY <1>5, <2>1
  <2> HIDE DEF n, d
  <2>4. n \in Int /\ d \in Nat \ {0}
    BY <2>2 DEF n, d
  <2>5. n <= d * 0 => Nearest(n, d) <= 0
    BY <2>4, NearestSides
  <2>6. Nearest(n, d) > 0 /\ Nearest(n, d) \in Int
    BY <1>1, <1>2, <1>4, <2>4, NearestBy DEF n, d
  <2> QED BY <1>5, <2>3, <2>5, <2>6
<1>7. Shadow!Eligible(rows, q.payload) /\ rows # << >>
  BY <1>1, <1>3, <1>4 DEF Shadow!Eligible
<1> QED BY <1>1, <1>6, <1>7

(* A record that is ready for forward review, with the observations its    *)
(* request asks for, is ready for paper review, whatever was posted.       *)
THEOREM ForwardImpliesPaper == Spec => []ForwardNeedsPaper
<1>1. IInv /\ FiguresInv => ForwardNeedsPaper
  BY ForwardReadyIsPaperReady
     DEF FiguresInv, FigureEndpoints, Figures, ForwardNeedsPaper, AnsweredTo, Answered
<1> QED BY <1>1, FiguresAlways, PTL
-----------------------------------------------------------------------------
(* Groups that count their members share what there is to count.           *)
LEMMA CountsShare ==
  ASSUME NEW S, IsFiniteSet(S), NEW m, NEW groups, DOMAIN groups = ValuesOn(S, m),
         NEW field,
         \A key \in DOMAIN groups : groups[key][field] = Cardinality(PartOf(S, m, key))
  PROVE  SumOf(groups, field) = Cardinality(S)
<1> DEFINE f == [key \in DOMAIN groups |-> groups[key][field]]
<1>1. SumOf(groups, field) = SumOver(f)
  BY Zenon DEF SumOf
<1>2. DOMAIN f = ValuesOn(S, m)
  OBVIOUS
<1>3. \A key \in ValuesOn(S, m) : f[key] = Cardinality(PartOf(S, m, key))
  OBVIOUS
<1> HIDE DEF f
<1>4. TotalOf(f, ValuesOn(S, m)) = Cardinality(S)
  BY <1>3, GroupSizes
<1> QED BY <1>1, <1>2, <1>4, SameOperators

(* Groups that add up a number of their members share its sum.             *)
LEMMA SumsShare ==
  ASSUME NEW S, IsFiniteSet(S), NEW m, NEW groups, DOMAIN groups = ValuesOn(S, m),
         NEW field, NEW g, \A x \in S : g[x] \in Int,
         \A key \in DOMAIN groups : groups[key][field] = TotalOf(g, PartOf(S, m, key))
  PROVE  SumOf(groups, field) = TotalOf(g, S)
<1> DEFINE f == [key \in DOMAIN groups |-> groups[key][field]]
<1>1. SumOf(groups, field) = SumOver(f)
  BY Zenon DEF SumOf
<1>2. DOMAIN f = ValuesOn(S, m)
  OBVIOUS
<1>3. \A key \in ValuesOn(S, m) : f[key] = TotalOf(g, PartOf(S, m, key))
  OBVIOUS
<1> HIDE DEF f
<1>4. TotalOf(f, ValuesOn(S, m)) = TotalOf(g, S)
  BY <1>3, GroupSums
<1> QED BY <1>1, <1>2, <1>4, SameOperators

(* Groups that round the sum of a number of their members share its sum to *)
(* within half a unit of the rounding for each group.                      *)
LEMMA RoundedSumsShare ==
  ASSUME NEW S, IsFiniteSet(S), NEW m, NEW groups, DOMAIN groups = ValuesOn(S, m),
         NEW field, NEW g, \A x \in S : g[x] \in Int, NEW d \in Nat \ {0},
         \A key \in DOMAIN groups :
           groups[key][field] = Nearest(TotalOf(g, PartOf(S, m, key)), d)
  PROVE  /\ Cardinality(DOMAIN groups) \in Nat /\ Cardinality(DOMAIN groups) * d \in Nat
         /\ SumOf(groups, field) \in Int /\ d * SumOf(groups, field) \in Int
         /\ TotalOf(g, S) \in Int
         /\ 2 * TotalOf(g, S) - Cardinality(DOMAIN groups) * d
              <= 2 * (d * SumOf(groups, field))
         /\ 2 * (d * SumOf(groups, field))
              <= 2 * TotalOf(g, S) + Cardinality(DOMAIN groups) * d
<1> DEFINE K == ValuesOn(S, m)
           f == [key \in DOMAIN groups |-> groups[key][field]]
           parts == [key \in K |-> TotalOf(g, PartOf(S, m, key))]
<1>1. SumOf(groups, field) = SumOver(f)
  BY Zenon DEF SumOf
<1>2. DOMAIN f = K
  OBVIOUS
<1>3. ASSUME NEW key \in K PROVE parts[key] \in Int /\ f[key] = Nearest(parts[key], d)
  <2>1. PartOf(S, m, key) \in SUBSET S
    BY DEF PartOf
  <2>2. IsFiniteSet(PartOf(S, m, key)) /\ \A x \in PartOf(S, m, key) : g[x] \in Int
    BY <2>1, FS_Subset
  <2>3. TotalOf(g, PartOf(S, m, key)) \in Int
    BY <2>2, TotalType
  <2> QED BY <2>3
<1>4. \A key \in K : parts[key] = TotalOf(g, PartOf(S, m, key))
  OBVIOUS
<1>5. IsFiniteSet(K) /\ DOMAIN groups = K
  BY ValuesFinite
<1> HIDE DEF f, parts
<1>6. TotalOf(parts, K) = TotalOf(g, S)
  BY <1>4, GroupSums
<1> HIDE DEF K
<1>7. SumOf(groups, field) = TotalOf(f, K)
  BY <1>1, <1>2, SameOperators
<1>8. /\ TotalOf(f, K) \in Int /\ TotalOf(parts, K) \in Int
      /\ Cardinality(K) * d \in Nat /\ d * TotalOf(f, K) \in Int
      /\ 2 * TotalOf(parts, K) - Cardinality(K) * d <= 2 * (d * TotalOf(f, K))
      /\ 2 * (d * TotalOf(f, K)) <= 2 * TotalOf(parts, K) + Cardinality(K) * d
  BY <1>3, <1>5, RoundedTotal
<1>9. Cardinality(K) \in Nat
  BY <1>5, FS_CardinalityType
<1> QED BY <1>5, <1>6, <1>7, <1>8, <1>9

(* The groups of a shadow summary share its outcomes.                      *)
LEMMA ShadowGroupsShare ==
  ASSUME NEW q \in Requests, Accepted(q.payload), q.endpoint = "shadow",
         NEW rows, rows = ShadowRows(q.payload), NEW dimension
  PROVE  SumOf(Shadow!Aggregate(rows, dimension), "observation_count") = Len(rows)
<1> DEFINE S == DOMAIN rows
           m == [k \in S |-> rows[k][dimension]]
           groups == Shadow!Aggregate(rows, dimension)
<1>1. IsFiniteSet(S) /\ Cardinality(S) = Len(rows)
  BY ShadowRowsOf
<1>2. ValuesOn(S, m) = {rows[k][dimension] : k \in S}
  BY DEF ValuesOn
<1>3. DOMAIN groups = ValuesOn(S, m)
  BY <1>2 DEF Shadow!Aggregate
<1>4. ASSUME NEW key \in DOMAIN groups
      PROVE  groups[key]["observation_count"] = Cardinality(PartOf(S, m, key))
  <2>1. PartOf(S, m, key) = {k \in S : rows[k][dimension] = key}
    BY DEF PartOf
  <2>2. groups[key]["observation_count"]
          = Shadow!Cardinality({k \in S : rows[k][dimension] = key})
    BY <1>2 DEF Shadow!Aggregate
  <2> QED BY <2>1, <2>2, SameOperators, Zenon
<1> HIDE DEF S, m, groups
<1>5. SumOf(groups, "observation_count") = Cardinality(S)
  BY <1>1, <1>3, <1>4, CountsShare
<1> QED BY <1>1, <1>5 DEF groups

-----------------------------------------------------------------------------
(* The rows of an execution cost summary.                                  *)
CostRows(r) == [k \in DOMAIN r.observations |-> Costs!Row(r.observations[k])]

COST_FIELDS == {"decision_notional", "slippage_cost", "fees", "all_in_execution_cost"}
ROUNDED_FIELDS == {"decision_notional", "slippage_cost", "all_in_execution_cost"}

\* What each fill cost against its decision price, before rounding.
ExactCost(o) == Costs!AdversePriceDelta(o.side, o.decision_price, o.fill_price) * o.quantity
ExactCosts(r) == [k \in DOMAIN r.observations |-> ExactCost(r.observations[k])]

\* The amounts of a row, of a fill with that cost.
IsCostRow(row, cost) ==
  /\ \A field \in COST_FIELDS : row[field] \in Int
  /\ cost \in Int
  /\ row.slippage_cost = Nearest(cost, Fine)
  /\ row.all_in_execution_cost = Nearest(cost + row.fees, Fine)

(* They are as many as the fills, with numbers for their costs, each       *)
(* rounded on its own.                                                     *)
LEMMA CostRowsOf ==
  ASSUME NEW q \in Requests, Accepted(q.payload), q.endpoint = "execution-costs",
         NEW rows, rows = CostRows(q.payload)
  PROVE  /\ DOMAIN rows = 1..Len(rows) /\ Len(rows) \in Nat
         /\ IsFiniteSet(DOMAIN rows) /\ Cardinality(DOMAIN rows) = Len(rows)
         /\ \A k \in DOMAIN rows : IsCostRow(rows[k], ExactCosts(q.payload)[k])
<1> DEFINE observations == q.payload.observations
           Rows == {Costs!Row(o) : o \in ExecutionCostObservation}
<1>1. observations \in Seq(ExecutionCostObservation)
  BY PayloadsAssumption DEF ExecutionCostAttributionRequest
<1>2. rows = [k \in DOMAIN observations |-> Costs!Row(observations[k])]
  BY DEF CostRows
<1>3. ASSUME NEW o \in ExecutionCostObservation
      PROVE  IsCostRow(Costs!Row(o), ExactCost(o))
  <2> DEFINE cost == ExactCost(o)
             delta == Costs!AdversePriceDelta(o.side, o.decision_price, o.fill_price)
             notional == o.quantity * o.decision_price
  <2>1. /\ o.quantity \in Int /\ o.decision_price \in Int
        /\ o.fill_price \in Int /\ o.fees \in Int /\ Fine \in Nat \ {0}
    BY ScalesAssumption DEF ExecutionCostObservation, Positive
  <2>2. delta \in Int
    BY <2>1 DEF Costs!AdversePriceDelta
  <2>3. /\ Costs!Row(o).decision_notional = Costs!Nearest(notional, Fine)
        /\ Costs!Row(o).slippage_cost = Costs!Nearest(cost, Fine)
        /\ Costs!Row(o).fees = o.fees
        /\ Costs!Row(o).all_in_execution_cost = Costs!Nearest(cost + o.fees, Fine)
    BY DEF Costs!Row, ExactCost
  <2>4. cost = delta * o.quantity
    BY DEF ExactCost
  <2> HIDE DEF delta
  <2>5. cost \in Int /\ notional \in Int
    BY <2>1, <2>2, <2>4
  <2> HIDE DEF cost, notional
  <2>6. /\ Costs!Row(o).decision_notional = Nearest(notional, Fine)
        /\ Costs!Row(o).slippage_cost = Nearest(cost, Fine)
        /\ Costs!Row(o).all_in_execution_cost = Nearest(cost + o.fees, Fine)
    BY <2>3, SameOperators
  <2>7. cost + o.fees \in Int
    BY <2>1, <2>5
  <2>8. /\ Costs!Row(o).decision_notional \in Int /\ Costs!Row(o).slippage_cost \in Int
        /\ Costs!Row(o).all_in_execution_cost \in Int /\ Costs!Row(o).fees \in Int
    BY <2>1, <2>3, <2>5, <2>6, <2>7, NearestBy
  <2> QED BY <2>3, <2>5, <2>6, <2>8 DEF IsCostRow, COST_FIELDS, cost
<1> HIDE DEF observations
<1>5. DOMAIN observations = 1..Len(observations) /\ Len(observations) \in Nat
      /\ \A k \in DOMAIN observations : observations[k] \in ExecutionCostObservation
  BY <1>1
<1>6. \A k \in DOMAIN observations : rows[k] \in Rows
  BY <1>2, <1>5
<1> HIDE DEF Rows
<1>7. rows \in Seq(Rows) /\ DOMAIN rows = DOMAIN observations
  BY <1>2, <1>5, <1>6
<1>8. DOMAIN rows = 1..Len(rows) /\ Len(rows) \in Nat
  BY <1>7
<1>9. IsFiniteSet(1..Len(rows)) /\ Cardinality(1..Len(rows)) = Len(rows)
  BY <1>8, CountTo
<1>10. \A k \in DOMAIN observations : ExactCosts(q.payload)[k] = ExactCost(observations[k])
  BY DEF ExactCosts, observations
<1>11. \A k \in DOMAIN rows : IsCostRow(rows[k], ExactCosts(q.payload)[k])
  BY <1>2, <1>3, <1>5, <1>7, <1>10
<1> QED BY <1>8, <1>9, <1>11

(* The groups of an execution cost summary share its fills, and the sums   *)
(* of their rows to within the rounding of each group.                     *)
LEMMA CostGroupsShare ==
  ASSUME NEW q \in Requests, Accepted(q.payload), q.endpoint = "execution-costs",
         NEW rows, rows = CostRows(q.payload), NEW dimension,
         NEW groups, groups = Costs!Aggregate(rows, dimension)
  PROVE  /\ SumOf(groups, "observation_count") = Len(rows)
         /\ Cardinality(DOMAIN groups) \in Nat
         /\ Cardinality(DOMAIN groups) * Coarse \in Nat
         /\ \A field \in ROUNDED_FIELDS :
              LET total == Costs!Sum(rows, DOMAIN rows, field)
                  shared == SumOf(groups, field)
              IN  /\ total \in Int /\ shared \in Int /\ Coarse * shared \in Int
                  /\ 2 * total - Cardinality(DOMAIN groups) * Coarse <= 2 * (Coarse * shared)
                  /\ 2 * (Coarse * shared) <= 2 * total + Cardinality(DOMAIN groups) * Coarse
<1> DEFINE S == DOMAIN rows
           m == [k \in S |-> rows[k][dimension]]
           column(field) == [k \in S |-> rows[k][field]]
           part(key) == {k \in S : rows[k][dimension] = key}
<1>1. IsFiniteSet(S) /\ Cardinality(S) = Len(rows)
  BY CostRowsOf
<1>2. ValuesOn(S, m) = {rows[k][dimension] : k \in S}
  BY DEF ValuesOn
<1>3. DOMAIN groups = ValuesOn(S, m)
  BY <1>2 DEF Costs!Aggregate
<1>4. \A key : PartOf(S, m, key) = part(key) /\ part(key) \in SUBSET S
  BY DEF PartOf
<1>5. ASSUME NEW key \in DOMAIN groups
      PROVE  /\ groups[key]["observation_count"] = Costs!Cardinality(part(key))
             /\ \A field \in ROUNDED_FIELDS :
                  groups[key][field] = Costs!Nearest(Costs!Sum(rows, part(key), field), Coarse)
  BY <1>5, <1>2, <1>3 DEF Costs!Aggregate, ROUNDED_FIELDS
<1>6. \A field, T : Costs!Sum(rows, T, field) = TotalOf([k \in T |-> rows[k][field]], T)
  BY SameOperators DEF Costs!Sum
<1>7. ASSUME NEW field, NEW T \in SUBSET S
      PROVE  Costs!Sum(rows, T, field) = TotalOf(column(field), T)
  <2> DEFINE own == [k \in T |-> rows[k][field]]
  <2>1. \A k \in T : own[k] = column(field)[k]
    OBVIOUS
  <2>2. IsFiniteSet(T)
    BY <1>1, FS_Subset
  <2>3. Costs!Sum(rows, T, field) = TotalOf(own, T)
    BY <1>6
  <2> HIDE DEF own, column
  <2> QED BY <2>1, <2>2, <2>3, TotalAgree
<1>8. \A field \in ROUNDED_FIELDS, k \in S : column(field)[k] \in Int
  BY CostRowsOf DEF IsCostRow, COST_FIELDS, ROUNDED_FIELDS
<1>9. \A key \in DOMAIN groups :
        groups[key]["observation_count"] = Cardinality(PartOf(S, m, key))
  BY <1>4, <1>5, SameOperators
<1> HIDE DEF S, m, column, part
<1>10. SumOf(groups, "observation_count") = Cardinality(S)
  BY <1>1, <1>3, <1>9, CountsShare
<1>11. Coarse \in Nat \ {0}
  BY ScalesAssumption
<1>12. ASSUME NEW field \in ROUNDED_FIELDS
       PROVE  /\ Cardinality(DOMAIN groups) \in Nat /\ Cardinality(DOMAIN groups) * Coarse \in Nat
              /\ SumOf(groups, field) \in Int /\ Coarse * SumOf(groups, field) \in Int
              /\ Costs!Sum(rows, S, field) \in Int
              /\ 2 * Costs!Sum(rows, S, field) - Cardinality(DOMAIN groups) * Coarse
                   <= 2 * (Coarse * SumOf(groups, field))
              /\ 2 * (Coarse * SumOf(groups, field))
                   <= 2 * Costs!Sum(rows, S, field) + Cardinality(DOMAIN groups) * Coarse
  <2>1. \A key \in DOMAIN groups :
          groups[key][field] = Nearest(TotalOf(column(field), PartOf(S, m, key)), Coarse)
    BY <1>4, <1>5, <1>7, SameOperators
  <2>2. \A k \in S : column(field)[k] \in Int
    BY <1>8
  <2>3. Costs!Sum(rows, S, field) = TotalOf(column(field), S)
    BY <1>7
  <2> DEFINE g == column(field)
  <2> HIDE DEF g
  <2>4. /\ \A key \in DOMAIN groups :
             groups[key][field] = Nearest(TotalOf(g, PartOf(S, m, key)), Coarse)
        /\ \A k \in S : g[k] \in Int
        /\ Costs!Sum(rows, S, field) = TotalOf(g, S)
    BY <2>1, <2>2, <2>3 DEF g
  <2>5. /\ Cardinality(DOMAIN groups) \in Nat /\ Cardinality(DOMAIN groups) * Coarse \in Nat
        /\ SumOf(groups, field) \in Int /\ Coarse * SumOf(groups, field) \in Int
        /\ TotalOf(g, S) \in Int
        /\ 2 * TotalOf(g, S) - Cardinality(DOMAIN groups) * Coarse
             <= 2 * (Coarse * SumOf(groups, field))
        /\ 2 * (Coarse * SumOf(groups, field))
             <= 2 * TotalOf(g, S) + Cardinality(DOMAIN groups) * Coarse
    BY <1>1, <1>3, <1>11, <2>4, RoundedSumsShare
  <2> QED BY <2>4, <2>5
<1>13. "slippage_cost" \in ROUNDED_FIELDS
  BY DEF ROUNDED_FIELDS
<1> QED BY <1>1, <1>10, <1>12, <1>13 DEF S

(* What the fills cost in all is what their prices and their fees cost, to *)
(* within the rounding of each fill's two costs.                           *)
LEMMA CostsAddUp ==
  ASSUME NEW q \in Requests, Accepted(q.payload), q.endpoint = "execution-costs",
         NEW rows, rows = CostRows(q.payload),
         NEW whole, whole = Costs!Sum(rows, DOMAIN rows, "all_in_execution_cost"),
         NEW slippage, slippage = Costs!Sum(rows, DOMAIN rows, "slippage_cost"),
         NEW fees, fees = Costs!Sum(rows, DOMAIN rows, "fees")
  PROVE  /\ whole \in Int /\ slippage \in Int /\ fees \in Int
         /\ Fine * whole \in Int /\ Fine * slippage \in Int /\ Len(rows) * Fine \in Nat
         /\ Fine * whole <= Fine * slippage + fees + Len(rows) * Fine
         /\ Fine * slippage + fees <= Fine * whole + Len(rows) * Fine
<1> DEFINE S == DOMAIN rows
           exact == ExactCosts(q.payload)
           f == [k \in S |-> rows[k]["all_in_execution_cost"]]
           g == [k \in S |-> rows[k]["slippage_cost"]]
           h == [k \in S |-> rows[k]["fees"]]
           paid == [k \in S |-> exact[k] + h[k]]
<1>1. IsFiniteSet(S) /\ Cardinality(S) = Len(rows) /\ Fine \in Nat \ {0}
  BY CostRowsOf, ScalesAssumption
<1>2. \A k \in S : /\ exact[k] \in Int /\ h[k] \in Int
                  /\ paid[k] \in Int /\ paid[k] = exact[k] + h[k]
                  /\ g[k] = Nearest(exact[k], Fine)
                  /\ f[k] = Nearest(paid[k], Fine)
  <2>1. \A k \in S : IsCostRow(rows[k], exact[k])
    BY CostRowsOf
  <2> HIDE DEF exact
  <2> QED BY <2>1 DEF IsCostRow, COST_FIELDS
<1>3. /\ whole = TotalOf(f, S) /\ slippage = TotalOf(g, S) /\ fees = TotalOf(h, S)
  BY SameOperators DEF Costs!Sum
<1> HIDE DEF S, exact, f, g, h, paid
<1>4. TotalOf(paid, S) = TotalOf(exact, S) + TotalOf(h, S)
  BY <1>1, <1>2, TotalPlus
<1>5. TotalOf(exact, S) \in Int /\ TotalOf(h, S) \in Int
  BY <1>1, <1>2, TotalType
<1>6. /\ TotalOf(f, S) \in Int /\ TotalOf(paid, S) \in Int
      /\ Cardinality(S) * Fine \in Nat /\ Fine * TotalOf(f, S) \in Int
      /\ 2 * TotalOf(paid, S) - Cardinality(S) * Fine <= 2 * (Fine * TotalOf(f, S))
      /\ 2 * (Fine * TotalOf(f, S)) <= 2 * TotalOf(paid, S) + Cardinality(S) * Fine
  BY <1>1, <1>2, RoundedTotal
<1>7. /\ TotalOf(g, S) \in Int /\ Fine * TotalOf(g, S) \in Int
      /\ 2 * TotalOf(exact, S) - Cardinality(S) * Fine <= 2 * (Fine * TotalOf(g, S))
      /\ 2 * (Fine * TotalOf(g, S)) <= 2 * TotalOf(exact, S) + Cardinality(S) * Fine
  BY <1>1, <1>2, RoundedTotal
<1> DEFINE w == Fine * whole
           x == Fine * slippage
           y == Len(rows) * Fine
<1>8. /\ w \in Int /\ x \in Int /\ y \in Nat /\ whole \in Int /\ slippage \in Int /\ fees \in Int
      /\ 2 * (TotalOf(exact, S) + fees) - y <= 2 * w
      /\ 2 * w <= 2 * (TotalOf(exact, S) + fees) + y
      /\ 2 * TotalOf(exact, S) - y <= 2 * x
      /\ 2 * x <= 2 * TotalOf(exact, S) + y
  BY <1>1, <1>3, <1>4, <1>5, <1>6, <1>7
<1> HIDE DEF w, x, y
<1>9. w <= x + fees + y /\ x + fees <= w + y
  BY <1>5, <1>8
<1> QED BY <1>8, <1>9 DEF w, x, y

-----------------------------------------------------------------------------
\* The P&L of the trades, by position.
Pnl(trades) == [k \in DOMAIN trades |-> Reports!TradePnl(trades[k])]

(* The P&L of a trade is a number, and a sum of them that of its trades.   *)
LEMMA PnlOfTrades ==
  ASSUME NEW q \in Requests, Accepted(q.payload), q.endpoint = "report",
         NEW trades, trades = q.payload.trades
  PROVE  /\ DOMAIN trades = 1..Len(trades) /\ Len(trades) \in Nat
         /\ IsFiniteSet(DOMAIN trades) /\ Cardinality(DOMAIN trades) = Len(trades)
         /\ \A k \in DOMAIN trades : Pnl(trades)[k] \in Int
         /\ \A T \in SUBSET DOMAIN trades :
              /\ IsFiniteSet(T)
              /\ Reports!SumPnl(trades, T) = TotalOf(Pnl(trades), T)
              /\ Reports!SumPnl(trades, T) \in Int
<1>1. trades \in Seq(ClosedTrade)
  BY PayloadsAssumption DEF PerformanceReportRequest
<1>2. /\ DOMAIN trades = 1..Len(trades) /\ Len(trades) \in Nat
      /\ \A k \in DOMAIN trades : trades[k] \in ClosedTrade
  BY <1>1
<1>3. ASSUME NEW t \in ClosedTrade PROVE Reports!TradePnl(t) \in Int
  <2>1. t.entry \in Int /\ t.exit \in Int /\ t.quantity \in Int /\ t.fees \in Int
    BY DEF ClosedTrade
  <2>2. \A a, b, c \in Int : a * b - c \in Int
    OBVIOUS
  <2>3. t.entry - t.exit \in Int /\ t.exit - t.entry \in Int
    BY <2>1
  <2> QED BY <2>1, <2>2, <2>3 DEF Reports!TradePnl
<1>4. \A k \in DOMAIN trades : Pnl(trades)[k] \in Int
  BY <1>2, <1>3 DEF Pnl
<1>5. IsFiniteSet(DOMAIN trades) /\ Cardinality(DOMAIN trades) = Len(trades)
  BY <1>2, CountTo
<1>6. ASSUME NEW T \in SUBSET DOMAIN trades
      PROVE  /\ IsFiniteSet(T)
             /\ Reports!SumPnl(trades, T) = TotalOf(Pnl(trades), T)
             /\ Reports!SumPnl(trades, T) \in Int
  <2> DEFINE own == [k \in T |-> Reports!TradePnl(trades[k])]
  <2>1. IsFiniteSet(T)
    BY <1>5, FS_Subset
  <2>2. \A k \in T : own[k] = Pnl(trades)[k] /\ Pnl(trades)[k] \in Int
    BY <1>4 DEF Pnl
  <2>3. Reports!SumPnl(trades, T) = TotalOf(own, T)
    BY SameOperators DEF Reports!SumPnl
  <2> HIDE DEF own
  <2>4. TotalOf(own, T) = TotalOf(Pnl(trades), T) /\ TotalOf(Pnl(trades), T) \in Int
    BY <2>1, <2>2, TotalAgree, TotalType
  <2> QED BY <2>1, <2>3, <2>4
<1> QED BY <1>2, <1>4, <1>5, <1>6

(* The groups of a report share its trades and their P&L.                  *)
LEMMA ReportGroupsShare ==
  ASSUME NEW q \in Requests, Accepted(q.payload), q.endpoint = "report",
         NEW trades, trades = q.payload.trades, NEW dimension
  PROVE  LET groups == Reports!Groups(trades, dimension)
             keys == Reports!Keys(trades, dimension)
         IN  /\ DOMAIN groups = ValuesOn(DOMAIN trades, keys)
             /\ DOMAIN keys = DOMAIN trades
             /\ SumOf(groups, "trade_count") = Len(trades)
             /\ SumOf(groups, "net_profit") = Reports!SumPnl(trades, DOMAIN trades)
             /\ \A key \in DOMAIN groups : groups[key].net_profit \in Int
<1> DEFINE S == DOMAIN trades
           m == Reports!Keys(trades, dimension)
           groups == Reports!Groups(trades, dimension)
<1>1. IsFiniteSet(S) /\ Cardinality(S) = Len(trades)
  BY PnlOfTrades
<1>2. DOMAIN m = S
  BY DEF Reports!Keys
<1> HIDE DEF m
<1>3. DOMAIN groups = ValuesOn(S, m)
  BY <1>2 DEF Reports!Groups, Reports!Range, ValuesOn, m
<1>4. ASSUME NEW key \in DOMAIN groups
      PROVE  /\ PartOf(S, m, key) \in SUBSET S
             /\ groups[key]["trade_count"] = Cardinality(PartOf(S, m, key))
             /\ groups[key]["net_profit"] = TotalOf(Pnl(trades), PartOf(S, m, key))
             /\ groups[key]["net_profit"] \in Int
  <2> DEFINE part == PartOf(S, m, key)
  <2>1. part = Reports!Members(m, key) /\ part \in SUBSET S
    BY <1>2 DEF Reports!Members, PartOf
  <2>2. groups[key] = Reports!GroupMetrics(trades, Reports!Members(m, key))
    BY <1>3 DEF Reports!Groups, m
  <2>3. groups[key] = Reports!GroupMetrics(trades, part)
    BY <2>1, <2>2, Zenon
  <2> HIDE DEF part, groups
  <2>4. /\ groups[key]["trade_count"] = Reports!Cardinality(part)
        /\ groups[key]["net_profit"] = Reports!SumPnl(trades, part)
    BY <2>3 DEF Reports!GroupMetrics
  <2> QED BY <2>1, <2>4, PnlOfTrades, SameOperators DEF part
<1> HIDE DEF groups
<1>5. SumOf(groups, "trade_count") = Cardinality(S)
  BY <1>1, <1>3, <1>4, CountsShare
<1>6. SumOf(groups, "net_profit") = TotalOf(Pnl(trades), S)
  <2>1. \A k \in S : Pnl(trades)[k] \in Int
    BY PnlOfTrades
  <2> HIDE DEF S
  <2> QED BY <1>1, <1>3, <1>4, <2>1, SumsShare
<1>7. TotalOf(Pnl(trades), S) = Reports!SumPnl(trades, S)
  BY PnlOfTrades
<1> QED BY <1>1, <1>2, <1>3, <1>4, <1>5, <1>6, <1>7 DEF m, groups

(* The strategy that is reported as the best, or with sign -1 the worst,   *)
(* is one: no other has more net profit times sign.                        *)
LEMMA ExtremeIsExtreme ==
  ASSUME NEW keys, NEW groups, DOMAIN groups = ValuesOn(DOMAIN keys, keys),
         NEW n \in Nat, DOMAIN keys = 1..n, DOMAIN groups # {}, NEW sign \in {1, -1},
         \A key \in DOMAIN groups : groups[key].net_profit \in Int
  PROVE  LET extreme == Reports!ExtremeKey(groups, keys, sign) IN
         /\ extreme \in DOMAIN groups
         /\ \A other \in DOMAIN groups :
              sign * groups[other].net_profit <= sign * groups[extreme].net_profit
<1> DEFINE K == DOMAIN groups
           net(key) == sign * groups[key].net_profit
           first(key) == Reports!Min(Reports!Members(keys, key))
           leads(key) == \A other \in K : \/ net(key) > net(other)
                                         \/ /\ net(key) = net(other)
                                            /\ first(key) <= first(other)
           nets == [key \in K |-> net(key)]
           back == [key \in K |-> -first(key)]
<1>1. IsFiniteSet(K)
  BY CountTo, ValuesFinite
<1>2. \A key \in K : nets[key] \in Int /\ nets[key] = net(key)
  OBVIOUS
<1>3. ASSUME NEW key \in K PROVE first(key) \in Int
  <2> DEFINE own == Reports!Members(keys, key)
  <2>1. own \in SUBSET Nat /\ own # {}
    BY DEF Reports!Members, ValuesOn
  <2> HIDE DEF own
  <2>2. \E k \in own : \A l \in own : k <= l
    BY <2>1, LeastNumber
  <2>3. Reports!Min(own) \in own
    BY <2>2 DEF Reports!Min
  <2> QED BY <2>1, <2>3 DEF own
<1>4. \A key \in K : back[key] \in Int /\ back[key] = -first(key)
  BY <1>3
<1> HIDE DEF nets, back
<1>5. PICK top \in K : \A other \in K : nets[other] <= nets[top]
  BY <1>1, <1>2, GreatestOf
<1> DEFINE ties == {key \in K : nets[key] = nets[top]}
<1>6. IsFiniteSet(ties) /\ ties # {} /\ \A key \in ties : back[key] \in Int
  BY <1>1, <1>4, FS_Subset
<1>7. PICK best \in ties : \A other \in ties : back[other] <= back[best]
  <2> HIDE DEF ties
  <2> QED BY <1>6, GreatestOf
<1>8. leads(best)
  <2> SUFFICES ASSUME NEW other \in K
               PROVE  \/ net(best) > net(other)
                      \/ net(best) = net(other) /\ first(best) <= first(other)
    OBVIOUS
  <2>1. best \in K /\ nets[best] = nets[top] /\ nets[other] <= nets[top]
    BY <1>5
  <2>2. /\ nets[best] \in Int /\ nets[best] = net(best)
        /\ nets[other] \in Int /\ nets[other] = net(other)
        /\ first(best) \in Int /\ back[best] = -first(best)
        /\ first(other) \in Int /\ back[other] = -first(other)
    BY <1>2, <1>3, <1>4, <2>1
  <2>3. nets[other] = nets[best] => back[other] <= back[best]
    BY <1>7, <2>1
  <2> HIDE DEF net, first
  <2> QED BY <2>1, <2>2, <2>3
<1>9. Reports!ExtremeKey(groups, keys, sign) = CHOOSE key \in K : leads(key)
  BY Zenon DEF Reports!ExtremeKey
<1> HIDE DEF leads
<1>10. /\ Reports!ExtremeKey(groups, keys, sign) \in K
       /\ leads(Reports!ExtremeKey(groups, keys, sign))
  BY <1>8, <1>9, Zenon
<1>11. ASSUME NEW key \in K, leads(key), NEW other \in K PROVE net(other) <= net(key)
  <2>1. net(key) \in Int /\ net(other) \in Int
    BY <1>2
  <2>2. net(key) > net(other) \/ net(key) = net(other)
    BY <1>11 DEF leads
  <2> HIDE DEF net
  <2> QED BY <2>1, <2>2
<1> QED BY <1>10, <1>11

\* The best strategy is not below the average of all, the worst not above.
ExtremesAroundAverage(data) ==
  data.best_strategy # None =>
    LET total == SumOf(data.by_strategy, "net_profit")
        size == Cardinality(DOMAIN data.by_strategy)
    IN  /\ size * data.by_strategy[data.best_strategy].net_profit >= total
        /\ size * data.by_strategy[data.worst_strategy].net_profit <= total

(* So it is in every report.                                               *)
LEMMA ReportExtremes ==
  ASSUME NEW q \in Requests, Accepted(q.payload), q.endpoint = "report",
         NEW data, data = Reports!Report(q.payload)
  PROVE  ExtremesAroundAverage(data)
<1> DEFINE trades == q.payload.trades
           groups == Reports!Groups(trades, "strategy")
           keys == Reports!Keys(trades, "strategy")
           K == DOMAIN groups
           best == Reports!ExtremeKey(groups, keys, 1)
           worst == Reports!ExtremeKey(groups, keys, -1)
           f == [key \in K |-> groups[key]["net_profit"]]
           total == SumOf(groups, "net_profit")
<1>1. /\ data.by_strategy = groups
      /\ data.best_strategy = best /\ data.worst_strategy = worst
  BY DEF Reports!Report, Reports!BestKey, Reports!WorstKey
<1>2. /\ K = ValuesOn(DOMAIN keys, keys)
      /\ DOMAIN keys = 1..Len(trades) /\ Len(trades) \in Nat
      /\ \A key \in K : groups[key].net_profit \in Int
  BY PnlOfTrades, ReportGroupsShare
<1>3. K = {} => best = None
  BY DEF Reports!ExtremeKey
<1>4. total = TotalOf(f, K)
  BY SameOperators DEF SumOf
<1>5. IsFiniteSet(K) /\ Cardinality(K) \in Nat
  <2> HIDE DEF K, keys
  <2>1. IsFiniteSet(DOMAIN keys)
    BY <1>2, CountTo
  <2>2. IsFiniteSet(K)
    BY <1>2, <2>1, ValuesFinite
  <2> QED BY <2>2, FS_CardinalityType
<1>6. \A key \in K : f[key] = groups[key].net_profit /\ f[key] \in Int
  BY <1>2
<1> HIDE DEF keys, groups, f, total, trades
<1>7. ASSUME K # {}
      PROVE  /\ best \in K /\ \A other \in K : f[other] <= f[best]
             /\ worst \in K /\ \A other \in K : f[worst] <= f[other]
  <2>1. /\ best \in K
        /\ \A other \in K : 1 * groups[other].net_profit <= 1 * groups[best].net_profit
    BY <1>2, <1>7, ExtremeIsExtreme
  <2>2. /\ worst \in K
        /\ \A other \in K : -1 * groups[other].net_profit <= -1 * groups[worst].net_profit
    BY <1>2, <1>7, ExtremeIsExtreme
  <2> HIDE DEF K, best, worst
  <2>3. \A a, b \in Int : (1 * a <= 1 * b => a <= b) /\ (-1 * a <= -1 * b => b <= a)
    OBVIOUS
  <2> QED BY <1>6, <2>1, <2>2, <2>3
<1> HIDE DEF K, best, worst
<1>8. ASSUME K # {}
      PROVE  /\ Cardinality(K) * f[best] >= total
             /\ Cardinality(K) * f[worst] <= total
  <2>1. f[best] \in Int /\ f[worst] \in Int /\ total \in Int
    BY <1>4, <1>5, <1>6, <1>7, <1>8, TotalType
  <2>2. TotalOf(f, K) <= Cardinality(K) * f[best]
    BY <1>5, <1>6, <1>7, <1>8, <2>1, TotalAtMost
  <2>3. Cardinality(K) * f[worst] <= TotalOf(f, K)
    BY <1>5, <1>6, <1>7, <1>8, <2>1, TotalAtLeast
  <2>4. Cardinality(K) * f[best] \in Int /\ Cardinality(K) * f[worst] \in Int
    BY <1>5, <2>1
  <2> QED BY <1>4, <2>1, <2>2, <2>3, <2>4
<1>9. best # None => /\ Cardinality(K) * groups[best].net_profit >= total
                     /\ Cardinality(K) * groups[worst].net_profit <= total
  BY <1>3, <1>6, <1>7, <1>8
<1> QED BY <1>1, <1>9 DEF ExtremesAroundAverage, K, total

(* What every report says of its groups.                                   *)
LEMMA ReportAddsUp ==
  ASSUME NEW q \in Requests, Accepted(q.payload), q.endpoint = "report",
         NEW data, data = Reports!Report(q.payload),
         NEW groups \in {data.by_strategy, data.by_symbol}
  PROVE  /\ SumOf(groups, "trade_count") = data.trade_count
         /\ Nearest(SumOf(groups, "net_profit"), Cent) = data.net_profit
<1> DEFINE trades == q.payload.trades
           total == Reports!SumPnl(trades, DOMAIN trades)
<1>1. /\ data.by_strategy = Reports!Groups(trades, "strategy")
      /\ data.by_symbol = Reports!Groups(trades, "symbol")
      /\ data.trade_count = Len(trades)
      /\ data.net_profit = Reports!Nearest(total, 1 * Cent)
  BY DEF Reports!Report
<1>2. PICK dimension \in {"strategy", "symbol"} : groups = Reports!Groups(trades, dimension)
  BY <1>1
<1>3. SumOf(groups, "trade_count") = Len(trades) /\ SumOf(groups, "net_profit") = total
  BY <1>2, ReportGroupsShare
<1>4. 1 * Cent = Cent
  BY ScalesAssumption
<1> HIDE DEF trades, total
<1> QED BY <1>1, <1>3, <1>4, SameOperators

\* The groups of a dimension against the totals of an execution cost summary.
CostsShared(data, groups) ==
  /\ SumOf(groups, "observation_count") = data.observation_count
  /\ 2 * Distance(SumOf(groups, "decision_notional"), data.total_decision_notional)
       <= Cardinality(DOMAIN groups) + 1
  /\ 2 * (Coarse * Distance(SumOf(groups, "all_in_execution_cost"),
                            data.total_execution_cost))
       <= Coarse * (Cardinality(DOMAIN groups) + 1) + 2 * data.observation_count

(* Two roundings of one sum, in n parts and in one, are (n + 1) / 2 units  *)
(* apart at most.                                                          *)
LEMMA RoundingsOfSum ==
  ASSUME NEW d \in Nat \ {0}, NEW n \in Nat, NEW total \in Int, NEW shared \in Int,
         2 * total - n * d <= 2 * (d * shared), 2 * (d * shared) <= 2 * total + n * d,
         NEW whole, whole = Nearest(total, d)
  PROVE  2 * Distance(shared, whole) <= n + 1
<1>1. /\ whole \in Int /\ d * whole \in Int
      /\ 2 * total - d <= 2 * (d * whole) /\ 2 * (d * whole) <= 2 * total + d
  BY NearestBy
<1>2. /\ d * (2 * shared) = 2 * (d * shared) /\ d * (2 * whole) = 2 * (d * whole)
      /\ d * shared \in Int /\ n * d \in Int
  BY <1>1
<1>3. /\ d * (2 * whole + n + 1) = 2 * (d * whole) + n * d + d
      /\ d * (2 * shared + n + 1) = 2 * (d * shared) + n * d + d
  <2>1. \A a \in Int : d * (2 * a + n + 1) = 2 * (d * a) + n * d + d
    OBVIOUS
  <2> QED BY <1>1, <2>1
<1>4. /\ d * (2 * shared) <= d * (2 * whole + n + 1)
      /\ d * (2 * whole) <= d * (2 * shared + n + 1)
  BY <1>1, <1>2, <1>3
<1>5. 2 * shared <= 2 * whole + n + 1
  <2>1. /\ 2 * shared \in Int /\ 2 * whole + n + 1 \in Int
    BY <1>1
  <2> DEFINE a == 2 * whole + n + 1
             b == 2 * shared
  <2>2. d * b <= d * a /\ a \in Int /\ b \in Int
    BY <1>4, <2>1
  <2> HIDE DEF a, b
  <2>3. b <= a
    BY <2>2, MultiplesOrdered
  <2> QED BY <2>3 DEF a, b
<1>6. 2 * whole <= 2 * shared + n + 1
  <2>1. /\ 2 * whole \in Int /\ 2 * shared + n + 1 \in Int
    BY <1>1
  <2> DEFINE a == 2 * shared + n + 1
             b == 2 * whole
  <2>2. d * b <= d * a /\ a \in Int /\ b \in Int
    BY <1>4, <2>1
  <2> HIDE DEF a, b
  <2>3. b <= a
    BY <2>2, MultiplesOrdered
  <2> QED BY <2>3 DEF a, b
<1> QED BY <1>1, <1>5, <1>6 DEF Distance

(* A sum rounded in n parts, and what it is to within c roundings finer by *)
(* e, rounded in one.                                                      *)
LEMMA RoundingsOfCosts ==
  ASSUME NEW d \in Nat \ {0}, NEW e \in Nat \ {0}, NEW n \in Nat, NEW c \in Nat,
         NEW total \in Int, NEW shared \in Int, NEW fine \in Int,
         2 * total - n * d <= 2 * (d * shared), 2 * (d * shared) <= 2 * total + n * d,
         e * total <= fine + c * e, fine <= e * total + c * e,
         NEW whole, whole = Nearest(fine, e * d)
  PROVE  2 * (d * Distance(shared, whole)) <= d * (n + 1) + 2 * c
<1> DEFINE D == d * shared
           W == d * whole
           N == d * (n + 1)
<1>1. e * d \in Nat \ {0}
  OBVIOUS
<1>2. /\ whole \in Int
      /\ 2 * fine - e * d <= 2 * ((e * d) * whole) /\ 2 * ((e * d) * whole) <= 2 * fine + e * d
  BY <1>1, NearestBy
<1>3. D \in Int /\ W \in Int /\ N \in Int /\ N = n * d + d /\ n * d \in Int
  BY <1>2
<1>4. (e * d) * whole = e * W
  BY <1>2
<1>5. 2 * total - n * d <= 2 * D /\ 2 * D <= 2 * total + n * d
  OBVIOUS
<1>6. /\ 2 * (d * Distance(shared, whole)) = 2 * D - 2 * W
      \/ 2 * (d * Distance(shared, whole)) = 2 * W - 2 * D
  BY <1>2 DEF Distance
<1> HIDE DEF D, W, N
<1>7. /\ e * (2 * D) <= e * (2 * total + n * d)
      /\ e * (2 * total - n * d) <= e * (2 * D)
  <2> DEFINE a == 2 * total + n * d
             b == 2 * D
             z == 2 * total - n * d
  <2>1. a \in Int /\ b \in Int /\ z \in Int /\ b <= a /\ z <= b
    BY <1>3, <1>5
  <2> HIDE DEF a, b, z
  <2>2. e * b <= e * a /\ e * z <= e * b
    BY <2>1, MultiplesOrdered
  <2> QED BY <2>2 DEF a, b, z
<1>8. /\ e * (2 * total + n * d) = 2 * (e * total) + e * (n * d)
      /\ e * (2 * total - n * d) = 2 * (e * total) - e * (n * d)
      /\ e * (2 * W) = 2 * (e * W)
      /\ e * total \in Int /\ e * (n * d) \in Int /\ e * W \in Int /\ e * d \in Int
      /\ c * e \in Int /\ e * (2 * D) \in Int
  <2>1. \A a, b \in Int : /\ e * (2 * a + b) = 2 * (e * a) + e * b
                          /\ e * (2 * a - b) = 2 * (e * a) - e * b
                          /\ e * (2 * a) = 2 * (e * a)
                          /\ e * a \in Int /\ e * (2 * a) \in Int
    OBVIOUS
  <2> QED BY ONLY <1>3, <2>1, e \in Nat, d \in Nat, c \in Nat, total \in Int
<1>9. \A a \in Int : e * (2 * a + N + 2 * c) = e * (2 * a) + e * (n * d) + e * d + 2 * (c * e)
  <2>1. \A a, b \in Int : e * (2 * a + (b + d) + 2 * c) = e * (2 * a) + e * b + e * d + 2 * (c * e)
    OBVIOUS
  <2> QED BY <1>3, <2>1
<1>10. /\ e * (2 * D) <= e * (2 * W + N + 2 * c)
       /\ e * (2 * W) <= e * (2 * D + N + 2 * c)
  <2>1. /\ e * (2 * W + N + 2 * c) = e * (2 * W) + e * (n * d) + e * d + 2 * (c * e)
        /\ e * (2 * D + N + 2 * c) = e * (2 * D) + e * (n * d) + e * d + 2 * (c * e)
    BY <1>3, <1>9
  <2> HIDE DEF D
  <2> QED BY <1>2, <1>4, <1>7, <1>8, <2>1
<1>11. 2 * D <= 2 * W + N + 2 * c
  <2> DEFINE a == 2 * W + N + 2 * c
             b == 2 * D
  <2>1. a \in Int /\ b \in Int /\ e * b <= e * a
    BY <1>3, <1>10
  <2> HIDE DEF a, b
  <2>2. b <= a
    BY <2>1, MultiplesOrdered
  <2> QED BY <2>2 DEF a, b
<1>12. 2 * W <= 2 * D + N + 2 * c
  <2> DEFINE a == 2 * D + N + 2 * c
             b == 2 * W
  <2>1. a \in Int /\ b \in Int /\ e * b <= e * a
    BY <1>3, <1>10
  <2> HIDE DEF a, b
  <2>2. b <= a
    BY <2>1, MultiplesOrdered
  <2> QED BY <2>2 DEF a, b
<1>13. 2 * (d * Distance(shared, whole)) <= N + 2 * c
  BY <1>3, <1>6, <1>11, <1>12
<1> QED BY <1>13 DEF N

(* And every execution cost summary of its.                                *)
LEMMA CostSummaryAddsUp ==
  ASSUME NEW q \in Requests, Accepted(q.payload), q.endpoint = "execution-costs",
         NEW data, data = Costs!Summary(q.payload),
         NEW groups \in {data.by_symbol, data.by_strategy, data.by_regime}
  PROVE  CostsShared(data, groups)
<1> DEFINE rows == CostRows(q.payload)
           n == Cardinality(DOMAIN groups)
           sum(field) == Costs!Sum(rows, DOMAIN rows, field)
           fine == Fine * sum("slippage_cost") + sum("fees")
<1>1. /\ data.by_symbol = Costs!Aggregate(rows, "symbol")
      /\ data.by_strategy = Costs!Aggregate(rows, "strategy")
      /\ data.by_regime = Costs!Aggregate(rows, "regime")
      /\ data.observation_count = Len(rows)
      /\ data.total_decision_notional = Costs!Nearest(sum("decision_notional"), Coarse)
      /\ data.total_execution_cost = Costs!Nearest(fine, Fine * Coarse)
  BY DEF Costs!Summary, CostRows
<1>2. PICK dimension \in {"symbol", "strategy", "regime"} :
        groups = Costs!Aggregate(rows, dimension)
  BY <1>1
<1>3. rows = CostRows(q.payload)
  OBVIOUS
<1> HIDE DEF rows
<1>4. /\ SumOf(groups, "observation_count") = Len(rows) /\ n \in Nat
      /\ \A field \in ROUNDED_FIELDS :
           LET total == Costs!Sum(rows, DOMAIN rows, field)
               shared == SumOf(groups, field)
           IN  /\ total \in Int /\ shared \in Int /\ Coarse * shared \in Int
               /\ 2 * total - n * Coarse <= 2 * (Coarse * shared)
               /\ 2 * (Coarse * shared) <= 2 * total + n * Coarse
  BY <1>2, <1>3, CostGroupsShare
<1>5. Coarse \in Nat \ {0} /\ Fine \in Nat \ {0} /\ Len(rows) \in Nat
  BY <1>3, CostRowsOf, ScalesAssumption
<1>6. "decision_notional" \in ROUNDED_FIELDS /\ "all_in_execution_cost" \in ROUNDED_FIELDS
  BY DEF ROUNDED_FIELDS
<1>7. /\ data.total_decision_notional = Nearest(sum("decision_notional"), Coarse)
      /\ data.total_execution_cost = Nearest(fine, Fine * Coarse)
  BY <1>1, SameOperators
<1>8. 2 * Distance(SumOf(groups, "decision_notional"), data.total_decision_notional) <= n + 1
  <2> DEFINE total == sum("decision_notional")
             shared == SumOf(groups, "decision_notional")
  <2>1. /\ total \in Int /\ shared \in Int
        /\ 2 * total - n * Coarse <= 2 * (Coarse * shared)
        /\ 2 * (Coarse * shared) <= 2 * total + n * Coarse
    BY <1>4, <1>6
  <2>2. data.total_decision_notional = Nearest(total, Coarse)
    BY <1>7
  <2> HIDE DEF total, shared, n
  <2>3. 2 * Distance(shared, data.total_decision_notional) <= n + 1
    BY <1>4, <1>5, <2>1, <2>2, RoundingsOfSum
  <2> QED BY <2>3 DEF shared
<1>9. 2 * (Coarse * Distance(SumOf(groups, "all_in_execution_cost"), data.total_execution_cost))
        <= Coarse * (n + 1) + 2 * Len(rows)
  <2> DEFINE total == sum("all_in_execution_cost")
             shared == SumOf(groups, "all_in_execution_cost")
  <2>1. /\ total \in Int /\ shared \in Int
        /\ 2 * total - n * Coarse <= 2 * (Coarse * shared)
        /\ 2 * (Coarse * shared) <= 2 * total + n * Coarse
    BY <1>4, <1>6
  <2>2. /\ sum("slippage_cost") \in Int /\ sum("fees") \in Int
        /\ Fine * sum("slippage_cost") \in Int
        /\ Fine * total <= Fine * sum("slippage_cost") + sum("fees") + Len(rows) * Fine
        /\ Fine * sum("slippage_cost") + sum("fees") <= Fine * total + Len(rows) * Fine
    BY <1>3, CostsAddUp
  <2>3. /\ fine \in Int
        /\ Fine * total <= fine + Len(rows) * Fine
        /\ fine <= Fine * total + Len(rows) * Fine
    BY <2>2
  <2>4. data.total_execution_cost = Nearest(fine, Fine * Coarse)
    BY <1>7
  <2> HIDE DEF total, shared, n, fine
  <2>5. 2 * (Coarse * Distance(shared, data.total_execution_cost))
          <= Coarse * (n + 1) + 2 * Len(rows)
    BY <1>4, <1>5, <2>1, <2>3, <2>4, RoundingsOfCosts
  <2> QED BY <2>5 DEF shared
<1> QED BY <1>1, <1>4, <1>8, <1>9 DEF CostsShared

(* And every shadow summary.                                               *)
LEMMA ShadowSummaryAddsUp ==
  ASSUME NEW q \in Requests, Accepted(q.payload), q.endpoint = "shadow",
         NEW data, data = Shadow!Summary(q.payload),
         NEW groups \in {data.by_strategy, data.by_regime}
  PROVE  SumOf(groups, "observation_count") = data.observation_count
<1> DEFINE rows == ShadowRows(q.payload)
<1>1. /\ data.by_strategy = Shadow!Aggregate(rows, "strategy")
      /\ data.by_regime = Shadow!Aggregate(rows, "regime")
      /\ data.observation_count = Len(rows)
  BY DEF Shadow!Summary, ShadowRows
<1> HIDE DEF rows
<1> QED BY <1>1, ShadowGroupsShare DEF rows

(* Whatever trades, fills and outcomes are posted, and whatever names they *)
(* carry, the groups of each dimension share all of them and add up to the *)
(* totals answered; the best strategy is not below the average, the worst  *)
(* not above.                                                              *)
THEOREM FiguresAddUp == Spec => []GroupsAddUp
<1>1. ASSUME IInv, FiguresInv PROVE GroupsAddUp
  <2> DEFINE data == answer.data
  <2>1. ASSUME AnsweredTo("report")
        PROVE  /\ \A groups \in {data.by_strategy, data.by_symbol} :
                    /\ SumOf(groups, "trade_count") = data.trade_count
                    /\ Nearest(SumOf(groups, "net_profit"), Cent) = data.net_profit
               /\ ExtremesAroundAverage(data)
    <3>1. PICK q \in Requests : /\ q = request /\ Accepted(q.payload)
                                /\ data = Reports!Report(q.payload)
      BY <1>1, <2>1 DEF FiguresInv, FigureEndpoints, Figures, AnsweredTo, Answered
    <3>2. q.endpoint = "report"
      BY <2>1, <3>1 DEF AnsweredTo
    <3> HIDE DEF data
    <3> QED BY <3>1, <3>2, ReportAddsUp, ReportExtremes
  <2>2. ASSUME AnsweredTo("execution-costs"),
               NEW groups \in {data.by_symbol, data.by_strategy, data.by_regime}
        PROVE  CostsShared(data, groups)
    <3>1. PICK q \in Requests : /\ q = request /\ Accepted(q.payload)
                                /\ data = Costs!Summary(q.payload)
      BY <1>1, <2>2 DEF FiguresInv, FigureEndpoints, Figures, AnsweredTo, Answered
    <3>2. q.endpoint = "execution-costs"
      BY <2>2, <3>1 DEF AnsweredTo
    <3> HIDE DEF data
    <3> QED BY <2>2, <3>1, <3>2, CostSummaryAddsUp
  <2>3. ASSUME AnsweredTo("shadow"), NEW groups \in {data.by_strategy, data.by_regime}
        PROVE  SumOf(groups, "observation_count") = data.observation_count
    <3>1. PICK q \in Requests : /\ q = request /\ Accepted(q.payload)
                                /\ data = Shadow!Summary(q.payload)
      BY <1>1, <2>3 DEF FiguresInv, FigureEndpoints, Figures, AnsweredTo, Answered
    <3>2. q.endpoint = "shadow"
      BY <2>3, <3>1 DEF AnsweredTo
    <3> HIDE DEF data
    <3> QED BY <2>3, <3>1, <3>2, ShadowSummaryAddsUp
  <2> QED BY <2>1, <2>2, <2>3 DEF GroupsAddUp, ExtremesAroundAverage, CostsShared
<1> QED BY <1>1, FiguresAlways, PTL

-----------------------------------------------------------------------------
(* The gains and losses of a report: each is nothing exactly when no trade *)
(* has one, and together they are the net profit.                          *)
LEMMA GainsAndLosses ==
  ASSUME NEW q \in Requests, Accepted(q.payload), q.endpoint = "report",
         NEW trades, trades = q.payload.trades,
         NEW all, all = DOMAIN trades,
         NEW won, won = Reports!Winners(trades, all),
         NEW lost, lost = Reports!Losers(trades, all),
         NEW profit, profit = Reports!SumPnl(trades, won),
         NEW loss, loss = Reports!SumPnl(trades, lost)
  PROVE  /\ profit \in Nat /\ loss \in Int /\ loss <= 0
         /\ Cardinality(won) \in Nat /\ Cardinality(lost) \in Nat
         /\ profit > 0 <=> Cardinality(won) > 0
         /\ loss < 0 <=> Cardinality(lost) > 0
         /\ Reports!SumPnl(trades, all) = profit + loss
<1> DEFINE f == Pnl(trades)
           even == all \ (won \cup lost)
<1>1. /\ IsFiniteSet(all) /\ \A k \in all : f[k] \in Int
      /\ \A T \in SUBSET all : IsFiniteSet(T) /\ Reports!SumPnl(trades, T) = TotalOf(f, T)
  BY PnlOfTrades
<1>2. /\ won = {k \in all : f[k] > 0} /\ lost = {k \in all : f[k] < 0}
  BY DEF Reports!Winners, Reports!Losers, Pnl
<1> HIDE DEF f
<1>3. /\ won \in SUBSET all /\ lost \in SUBSET all /\ even \in SUBSET all
      /\ IsSplit(all, won, lost \cup even) /\ IsSplit(lost \cup even, lost, even)
      /\ lost \cup even \in SUBSET all
  <2>1. \A k \in all : ~(f[k] > 0 /\ f[k] < 0)
    BY <1>1
  <2> QED BY <1>2, <2>1 DEF IsSplit
<1>4. \A k \in even : f[k] = 0
  BY <1>1, <1>2
<1> HIDE DEF even
<1>5. /\ IsFiniteSet(won) /\ IsFiniteSet(lost) /\ IsFiniteSet(even)
      /\ IsFiniteSet(lost \cup even)
      /\ profit = TotalOf(f, won) /\ loss = TotalOf(f, lost)
      /\ Reports!SumPnl(trades, all) = TotalOf(f, all)
  BY <1>1, <1>3
<1>6. profit \in Int /\ loss \in Int
  BY <1>1, <1>3, <1>5, TotalType
<1>7. /\ Cardinality(won) \in Nat /\ Cardinality(lost) \in Nat
      /\ won = {} => profit = 0
      /\ lost = {} => loss = 0
      /\ Cardinality(won) = 0 <=> won = {}
      /\ Cardinality(lost) = 0 <=> lost = {}
  BY <1>5, TotalEmpty, FS_CardinalityType, FS_EmptySet
<1>8. Cardinality(won) <= profit
  <2>1. \A k \in won : f[k] \in Int /\ 1 <= f[k]
    BY <1>1, <1>2
  <2>2. Cardinality(won) * 1 <= TotalOf(f, won)
    BY <1>5, <2>1, TotalAtLeast
  <2> QED BY <1>5, <1>7, <2>2
<1>9. loss <= -Cardinality(lost)
  <2>1. \A k \in lost : f[k] \in Int /\ f[k] <= -1
    BY <1>1, <1>2
  <2>2. TotalOf(f, lost) <= Cardinality(lost) * (-1)
    BY <1>5, <2>1, TotalAtMost
  <2> QED BY <1>5, <1>7, <2>2
<1>10. Reports!SumPnl(trades, all) = profit + loss
  <2>1. IntOver(f, all) /\ IntOver(f, lost \cup even)
    BY <1>1, <1>3 DEF IntOver
  <2>2. TotalOf(f, all) = TotalOf(f, won) + TotalOf(f, lost \cup even)
    BY <1>1, <1>3, <2>1, TotalSplit
  <2>3. TotalOf(f, lost \cup even) = TotalOf(f, lost) + TotalOf(f, even)
    BY <1>3, <1>5, <2>1, TotalSplit
  <2>4. TotalOf(f, even) = 0
    BY <1>4, <1>5, TotalZero
  <2> QED BY <1>5, <1>6, <2>2, <2>3, <2>4
<1>11. profit > 0 <=> Cardinality(won) > 0
  BY <1>6, <1>7, <1>8
<1>12. loss < 0 <=> Cardinality(lost) > 0
  BY <1>6, <1>7, <1>9
<1> QED BY <1>6, <1>7, <1>8, <1>9, <1>10, <1>11, <1>12

(* A rounded quotient is on the side of the rounding unit that its terms   *)
(* are of each other.                                                      *)
LEMMA FactorSides ==
  ASSUME NEW profit \in Int, NEW loss \in Int, loss < 0,
         NEW factor, factor = Nearest(Micro * profit, -loss)
  PROVE  /\ factor \in Int
         /\ factor > Micro => profit + loss > 0
         /\ profit + loss > 0 => factor >= Micro
         /\ profit + loss < 0 => factor <= Micro
<1> DEFINE d == -loss
<1>1. d \in Nat \ {0} /\ Micro \in Nat \ {0}
  BY ScalesAssumption
<1>2. Micro * profit \in Int /\ Micro * d \in Int /\ d * Micro = Micro * d
  BY <1>1
<1> HIDE DEF d
<1>3. factor \in Int
  BY <1>1, <1>2, NearestBy DEF d
<1>4. /\ Micro * d <= Micro * profit => Micro <= factor
      /\ Micro * profit <= Micro * d => factor <= Micro
  <2>1. /\ d * Micro <= Micro * profit => Micro <= Nearest(Micro * profit, d)
        /\ Micro * profit <= d * Micro => Nearest(Micro * profit, d) <= Micro
    BY <1>1, <1>2, NearestSides
  <2>2. factor = Nearest(Micro * profit, d)
    BY DEF d
  <2> QED BY <1>2, <2>1, <2>2
<1>5. /\ d <= profit => Micro * d <= Micro * profit
      /\ profit <= d => Micro * profit <= Micro * d
  BY <1>1, MultiplesOrdered
<1>6. /\ d <= profit => Micro <= factor
      /\ profit <= d => factor <= Micro
  BY <1>4, <1>5
<1>7. d <= profit <=> profit + loss >= 0
  BY DEF d
<1>8. profit <= d <=> profit + loss <= 0
  BY DEF d
<1> QED BY <1>1, <1>3, <1>6, <1>7, <1>8

(* Rounding a sum, or its terms, differs by a unit at most.                *)
LEMMA RoundedApart ==
  ASSUME NEW a \in Int, NEW b \in Int, NEW d \in Nat \ {0}
  PROVE  Nearest(a + b, d) - (Nearest(a, d) + Nearest(b, d)) \in -1..1
<1> DEFINE x == Nearest(a, d)
           y == Nearest(b, d)
           z == Nearest(a + b, d)
           e == z - (x + y)
<1>1. /\ x \in Int /\ d * x \in Int /\ 2 * a - d <= 2 * (d * x) /\ 2 * (d * x) <= 2 * a + d
      /\ y \in Int /\ d * y \in Int /\ 2 * b - d <= 2 * (d * y) /\ 2 * (d * y) <= 2 * b + d
  BY NearestBy
<1>2. /\ z \in Int /\ d * z \in Int
      /\ 2 * (a + b) - d <= 2 * (d * z) /\ 2 * (d * z) <= 2 * (a + b) + d
  BY NearestBy
<1> HIDE DEF x, y, z
<1>3. e \in Int /\ d * e = d * z - (d * x + d * y)
  BY <1>1, <1>2
<1> HIDE DEF e
<1>4. 2 * (d * e) <= 3 * d /\ -3 * d <= 2 * (d * e)
  BY <1>1, <1>2, <1>3
<1>5. /\ 1 < e => d * 1 + d <= d * e
      /\ e < -1 => d * e + d <= d * (-1)
  BY <1>3, MultiplesOrdered
<1>6. d * 1 = d /\ d * (-1) = -d /\ d * e \in Int
  BY <1>3
<1>7. ~(1 < e)
  BY <1>4, <1>5, <1>6
<1>8. ~(e < -1)
  BY <1>4, <1>5, <1>6
<1>9. e \in -1..1
  BY <1>3, <1>7, <1>8
<1> QED BY <1>9 DEF e, x, y, z

(* What every report says of its profit factor and its net profit.         *)
LEMMA ReportFactor ==
  ASSUME NEW q \in Requests, Accepted(q.payload), q.endpoint = "report",
         NEW data, data = Reports!Report(q.payload)
  PROVE  /\ data.profit_factor = None <=> data.winning_trades > 0 /\ data.losing_trades = 0
         /\ data.profit_factor # None =>
              /\ data.profit_factor > Micro => data.net_profit >= 0
              /\ data.net_profit > 0 => data.profit_factor >= Micro
              /\ data.net_profit < 0 => data.profit_factor <= Micro
         /\ data.net_profit - (data.gross_profit + data.gross_loss) \in -1..1
<1> DEFINE trades == q.payload.trades
           all == DOMAIN trades
           won == Reports!Winners(trades, all)
           lost == Reports!Losers(trades, all)
           profit == Reports!SumPnl(trades, won)
           loss == Reports!SumPnl(trades, lost)
           total == Reports!SumPnl(trades, all)
           quotient == Reports!ProfitFactor(profit, loss)
           factor == IF quotient = None THEN None ELSE Reports!Rounded(quotient, Micro)
           net == Nearest(total, Cent)
<1>1. /\ data.profit_factor = factor
      /\ data.winning_trades = Reports!Cardinality(won)
      /\ data.losing_trades = Reports!Cardinality(lost)
      /\ data.net_profit = Reports!Nearest(total, 1 * Cent)
      /\ data.gross_profit = Reports!Nearest(profit, 1 * Cent)
      /\ data.gross_loss = Reports!Nearest(loss, 1 * Cent)
  BY DEF Reports!Report
<1>2. /\ Cent \in Nat \ {0} /\ Micro \in Nat \ {0} /\ 1 * Cent = Cent
  BY ScalesAssumption
<1>3. /\ profit \in Nat /\ loss \in Int /\ loss <= 0
      /\ Cardinality(won) \in Nat /\ Cardinality(lost) \in Nat
      /\ profit > 0 <=> Cardinality(won) > 0
      /\ loss < 0 <=> Cardinality(lost) > 0
      /\ total = profit + loss
  BY GainsAndLosses
<1>4. /\ loss # 0 => quotient = <<profit, -loss>>
      /\ loss = 0 /\ profit > 0 => quotient = None
      /\ loss = 0 /\ ~(profit > 0) => quotient = <<0, 1>>
  BY DEF Reports!ProfitFactor
<1> HIDE DEF trades, won, lost, profit, loss, total, quotient
<1>5. quotient # None => factor = Nearest(Micro * quotient[1], quotient[2])
  BY SameOperators DEF Reports!Rounded
<1>6. quotient = None => factor = None
  OBVIOUS
<1> HIDE DEF factor
<1>7. CASE loss < 0
  <2>1. quotient = <<profit, -loss>> /\ quotient # None
    <3>1. quotient = <<profit, -loss>> /\ quotient \in Int \X Int
      BY <1>3, <1>4, <1>7
    <3> QED BY <3>1, GatewayAssumption
  <2>2. factor = Nearest(Micro * profit, -loss)
    BY <1>5, <2>1
  <2>3. /\ factor \in Int
        /\ factor > Micro => total > 0
        /\ total > 0 => factor >= Micro
        /\ total < 0 => factor <= Micro
    BY <1>3, <1>7, <2>2, FactorSides
  <2>4. factor # None
    BY <2>3, GatewayAssumption
  <2>5. net \in Int /\ (total >= 0 => net >= 0) /\ (total <= 0 => net <= 0)
    <3>1. total \in Int /\ Cent * 0 = 0
      BY <1>2, <1>3
    <3>2. net \in Int
      BY <1>2, <3>1, NearestBy
    <3>3. (Cent * 0 <= total => 0 <= net) /\ (total <= Cent * 0 => net <= 0)
      BY <1>2, <3>1, NearestSides
    <3> QED BY <3>1, <3>2, <3>3
  <2>6. total \in Int
    BY <1>3
  <2> HIDE DEF net
  <2>7. /\ factor > Micro => net >= 0
        /\ net > 0 => factor >= Micro
        /\ net < 0 => factor <= Micro
    BY <2>3, <2>5, <2>6
  <2> QED BY <1>1, <1>2, <1>3, <1>7, <2>4, <2>7, RoundedApart, SameOperators DEF net
<1>8. CASE loss = 0 /\ profit > 0
  BY <1>1, <1>2, <1>3, <1>4, <1>6, <1>8, RoundedApart, SameOperators
<1>9. CASE loss = 0 /\ profit = 0
  <2>1. quotient = <<0, 1>> /\ quotient # None
    BY <1>4, <1>9, GatewayAssumption
  <2>2. factor = Nearest(Micro * 0, 1) /\ Micro * 0 = 0
    BY <1>2, <1>5, <2>1
  <2>3. factor = 0
    <3>1. 1 * 0 <= 0 /\ 0 <= 1 * 0
      OBVIOUS
    <3>2. 0 <= Nearest(0, 1) /\ Nearest(0, 1) <= 0 /\ Nearest(0, 1) \in Int
      BY <3>1, NearestSides, NearestBy
    <3> QED BY <2>2, <3>2
  <2>4. factor # None
    BY <2>3, GatewayAssumption
  <2>5. total = 0 /\ net = 0
    <3>1. total = 0 /\ Cent * 0 = 0
      BY <1>2, <1>3, <1>9
    <3>2. 0 <= Nearest(0, Cent) /\ Nearest(0, Cent) <= 0 /\ Nearest(0, Cent) \in Int
      BY <1>2, <3>1, NearestSides, NearestBy
    <3> QED BY <3>1, <3>2
  <2>6. /\ data.net_profit = net /\ data.winning_trades = Cardinality(won)
        /\ data.losing_trades = Cardinality(lost)
    BY <1>1, <1>2, SameOperators
  <2>7. data.net_profit - (data.gross_profit + data.gross_loss) \in -1..1
    BY <1>1, <1>2, <1>3, RoundedApart, SameOperators
  <2> HIDE DEF net
  <2> QED BY <1>1, <1>2, <1>3, <1>9, <2>3, <2>4, <2>5, <2>6, <2>7
<1> QED BY <1>3, <1>7, <1>8, <1>9

(* Whatever trades are posted, the profit factor is absent exactly for     *)
(* gains without losses, is otherwise on the side of 1 that the net profit *)
(* is of 0, and the rounded gains, losses and net profit agree to a cent.  *)
THEOREM FactorTellsNet == Spec => []ProfitFactorTellsNet
<1>1. ASSUME IInv, FiguresInv PROVE ProfitFactorTellsNet
  <2> SUFFICES ASSUME AnsweredTo("report") PROVE ProfitFactorTellsNet
    BY DEF ProfitFactorTellsNet
  <2>1. PICK q \in Requests : /\ q = request /\ Accepted(q.payload)
                              /\ answer.data = Reports!Report(q.payload)
    BY <1>1 DEF FiguresInv, FigureEndpoints, Figures, AnsweredTo, Answered
  <2>2. q.endpoint = "report"
    BY <2>1 DEF AnsweredTo
  <2> QED BY <2>1, <2>2, ReportFactor DEF ProfitFactorTellsNet
<1> QED BY <1>1, FiguresAlways, PTL

(* The operators on ratios that the report and the shadow summary use are   *)
(* the same.                                                               *)
LEMMA SameRatioOperators ==
  /\ \A S : /\ Reports!Max(S) = Max(S) /\ Shadow!Max(S) = Max(S)
            /\ Costs!Max(S) = Max(S)
  /\ \A x, y : /\ Reports!Larger(x, y) = Larger(x, y)
               /\ Shadow!Larger(x, y) = Larger(x, y)
  /\ \A x, unit : /\ Reports!Rounded(x, unit) = Rounded(x, unit)
                  /\ Shadow!Rounded(x, unit) = Rounded(x, unit)
<1>1. \A S : /\ Reports!Max(S) = Max(S) /\ Shadow!Max(S) = Max(S)
             /\ Costs!Max(S) = Max(S)
  BY DEF Reports!Max, Shadow!Max, Costs!Max, Max
<1>2. \A x, y : /\ Reports!Larger(x, y) = Larger(x, y)
                /\ Shadow!Larger(x, y) = Larger(x, y)
  BY DEF Reports!Larger, Shadow!Larger, Larger, Reports!AtMost, Shadow!AtMost, AtMost
<1>3. \A x, unit : /\ Reports!Rounded(x, unit) = Rounded(x, unit)
                   /\ Shadow!Rounded(x, unit) = Rounded(x, unit)
  BY DEF Reports!Rounded, Shadow!Rounded, Rounded,
         Reports!Nearest, Shadow!Nearest, Nearest
<1> QED BY <1>1, <1>2, <1>3

(* The larger of two integers.                                             *)
LEMMA MaxOfTwo ==
  ASSUME NEW x \in Int, NEW y \in Int
  PROVE  /\ Max({x, y}) \in Int
         /\ Max({x, y}) \in {x, y}
         /\ x <= Max({x, y}) /\ y <= Max({x, y})
<1>1. \E z \in {x, y} : \A u \in {x, y} : z >= u
  <2>1. CASE x >= y
    BY <2>1
  <2>2. CASE y >= x
    BY <2>2
  <2> QED BY <2>1, <2>2
<1>2. Max({x, y}) \in {x, y} /\ \A u \in {x, y} : Max({x, y}) >= u
  BY <1>1, Zenon DEF Max
<1>3. Max({x, y}) >= x /\ Max({x, y}) >= y
  BY <1>2
<1> QED BY <1>2, <1>3

-----------------------------------------------------------------------------
(* The drawdown of outcomes: the state of its loop, and one pass.          *)
OutcomeState == [equity : Int, peak : Positive, fall : Ratios]
OutcomeStart == [equity |-> 1, peak |-> 1, fall |-> <<0, 1>>]
Compound(acc, row) ==
  LET equity == acc.equity * (Whole + row.net)
      peak == Shadow!Max({acc.peak * Whole, equity})
  IN  [equity |-> equity, peak |-> peak,
       fall |-> Shadow!Larger(acc.fall, <<peak - equity, peak>>)]

\* a is that state after each of the rows.
IsOutcomeTrace(a, rows, n) ==
  /\ a \in [0..n -> OutcomeState] /\ a[0] = OutcomeStart
  /\ \A k \in 1..n : a[k] = Compound(a[k - 1], rows[k])

NetsAreInt(rows, n) == \A k \in 1..n : rows[k].net \in Int

(* What a pass does: the peak stays positive and the fall a ratio.         *)
LEMMA CompoundStep ==
  ASSUME NEW acc \in OutcomeState, NEW row, row.net \in Int
  PROVE  LET next == Compound(acc, row) IN
         /\ next \in OutcomeState
         /\ next.equity = acc.equity * (Whole + row.net)
         /\ next.peak \in {acc.peak * Whole, next.equity}
         /\ acc.peak * Whole \in Positive
         /\ acc.peak * Whole <= next.peak /\ next.equity <= next.peak
         /\ <<next.peak - next.equity, next.peak>> \in Ratios
         /\ next.fall = Larger(acc.fall, <<next.peak - next.equity, next.peak>>)
<1> DEFINE equity == acc.equity * (Whole + row.net)
           peak == Max({acc.peak * Whole, equity})
<1>1. Whole \in Nat \ {0}
  BY ScalesAssumption
<1>2. acc.equity \in Int /\ acc.peak \in Nat \ {0} /\ acc.fall \in Ratios
  BY DEF OutcomeState, Positive
<1>3. equity \in Int /\ acc.peak * Whole \in Nat \ {0}
  BY <1>1, <1>2
<1>4. Compound(acc, row) = [equity |-> equity, peak |-> peak,
                            fall |-> Larger(acc.fall, <<peak - equity, peak>>)]
  BY SameRatioOperators DEF Compound
<1> HIDE DEF equity
<1>5. /\ peak \in {acc.peak * Whole, equity} /\ peak \in Int
      /\ acc.peak * Whole <= peak /\ equity <= peak
  <2>1. acc.peak * Whole \in Int
    BY <1>3
  <2> QED BY <1>3, <2>1, MaxOfTwo, Zenon
<1> HIDE DEF peak
<1>6. peak \in Nat \ {0} /\ peak - equity \in Int
  BY <1>3, <1>5
<1>7. <<peak - equity, peak>> \in Ratios
  BY <1>6 DEF Ratios
<1>8. Larger(acc.fall, <<peak - equity, peak>>) \in Ratios
  BY <1>2, <1>7, LargerOfRatios
<1>9. Compound(acc, row) \in OutcomeState
  BY <1>3, <1>4, <1>6, <1>8 DEF OutcomeState, Positive
<1> QED BY <1>3, <1>4, <1>5, <1>7, <1>9 DEF equity, Positive

(* The fold over the rows is the state that such a trace ends with.        *)
LEMMA OutcomeTrace ==
  ASSUME NEW rows, NEW n \in Nat, DOMAIN rows = 1..n, NetsAreInt(rows, n)
  PROVE  \E a : /\ IsOutcomeTrace(a, rows, n)
                /\ Shadow!MaxDrawdown(rows) = a[n].fall
<1> DEFINE T == OutcomeState
           E == {rows[k] : k \in 1..n}
           F == [p \in T \X E |-> Compound(p[1], p[2])]
           Solves(g) == g = [P \in SUBSET (DOMAIN rows) |->
                               IF P = {} THEN OutcomeStart
                               ELSE Compound(g[P \ {Max(P)}], rows[Max(P)])]
<1>1. \A acc \in T, row \in E : Compound(acc, row) \in T
  BY CompoundStep DEF NetsAreInt
<1>2. F \in [T \X E -> T] /\ \A acc \in T, row \in E : F[<<acc, row>>] = Compound(acc, row)
  BY <1>1
<1>3. OutcomeStart \in T
  BY DEF OutcomeStart, OutcomeState, Positive, Ratios
<1>4. \A k \in 1..n : rows[k] \in E
  OBVIOUS
<1>5. Shadow!MaxDrawdown(rows) = ((CHOOSE g : Solves(g))[DOMAIN rows]).fall
  <2>1. Shadow!MaxDrawdown(rows)
          = ((CHOOSE g : g = [P \in SUBSET (DOMAIN rows) |->
                               IF P = {} THEN OutcomeStart
                               ELSE Compound(g[P \ {Shadow!Max(P)}], rows[Shadow!Max(P)])])
                  [DOMAIN rows]).fall
    BY DEF Shadow!MaxDrawdown, Shadow!FoldLeft, Shadow!MapThenFoldSet, OutcomeStart, Compound
  <2> QED BY <2>1 DEF Shadow!Max, Max
<1>6. \A P \in SUBSET (1..n) : P # {} => Max(P) \in 1..n
  BY LastPosition
<1> HIDE DEF T, E, F
<1>6a. IsFolding(F, T, E, OutcomeStart, rows, n)
  BY <1>2, <1>3, <1>4 DEF IsFolding
<1>7. \E g : Solves(g)
  <2>1. PICK g : IsRun(g, F, T, OutcomeStart, rows, n)
    BY <1>6a, RunExists, Zenon
  <2>2. g \in [SUBSET (1..n) -> T]
    BY <2>1 DEF IsRun
  <2>3. ASSUME NEW P \in SUBSET (1..n)
        PROVE  g[P] = IF P = {} THEN OutcomeStart
                      ELSE Compound(g[P \ {Max(P)}], rows[Max(P)])
    <3>1. CASE P = {}
      BY <2>1, <3>1 DEF IsRun
    <3>2. CASE P # {}
      <4>1. g[P] = F[<<g[P \ {Max(P)}], rows[Max(P)]>>]
        BY <2>1, <3>2 DEF IsRun
      <4>2. g[P \ {Max(P)}] \in T /\ rows[Max(P)] \in E
        BY <1>4, <1>6, <2>2, <3>2
      <4> QED BY <1>2, <3>2, <4>1, <4>2
    <3> QED BY <3>1, <3>2
  <2>4. Solves(g)
    BY <2>2, <2>3
  <2> QED BY <2>4
<1>8. ASSUME NEW g, Solves(g)
      PROVE  TraceEnds(F, T, OutcomeStart, rows, n, g[1..n])
  <2>1. ASSUME NEW P \in SUBSET (1..n)
        PROVE  g[P] = IF P = {} THEN OutcomeStart
                      ELSE Compound(g[P \ {Max(P)}], rows[Max(P)])
    BY <1>8
  <2>2. g[{}] = OutcomeStart
    BY <2>1
  <2>3. ASSUME NEW P \in SUBSET (1..n), P # {}, g[P \ {Max(P)}] \in T
        PROVE  g[P] = F[<<g[P \ {Max(P)}], rows[Max(P)]>>]
    <3>1. rows[Max(P)] \in E
      BY <1>4, <1>6, <2>3
    <3> QED BY <1>2, <2>1, <2>3, <3>1
  <2>4. IsFold(g, F, T, OutcomeStart, rows, n)
    BY <2>2, <2>3 DEF IsFold
  <2> HIDE DEF Solves
  <2> QED BY <1>6a, <2>4, FoldTrace, Zenon
<1> DEFINE fold == CHOOSE g : Solves(g)
<1>9. Solves(fold)
  BY <1>7
<1> HIDE DEF fold, Solves
<1>10. PICK a : IsTrace(a, F, T, OutcomeStart, rows, n) /\ a[n] = fold[1..n]
  BY <1>8, <1>9 DEF TraceEnds
<1>11. IsOutcomeTrace(a, rows, n)
  <2>1. a \in [0..n -> T] /\ a[0] = OutcomeStart
    BY <1>10 DEF IsTrace
  <2>2. ASSUME NEW k \in 1..n PROVE a[k] = Compound(a[k - 1], rows[k])
    <3>1. a[k] = F[<<a[k - 1], rows[k]>>] /\ a[k - 1] \in T
      BY <1>10, <2>1 DEF IsTrace
    <3> QED BY <1>2, <1>4, <3>1
  <2> QED BY <2>1, <2>2 DEF IsOutcomeTrace, T
<1>12. Shadow!MaxDrawdown(rows) = a[n].fall
  BY <1>5, <1>10 DEF fold
<1> QED BY <1>11, <1>12

(* The states of a trace do not depend on what comes after them.           *)
LEMMA OutcomeTracesAgree ==
  ASSUME NEW rows, NEW more, NEW n \in Nat, NEW m \in Nat, n <= m, NEW a, NEW b,
         IsOutcomeTrace(a, rows, n), IsOutcomeTrace(b, more, m),
         \A k \in 1..n : rows[k] = more[k]
  PROVE  a[n] = b[n]
<1> DEFINE bad == {k \in 0..n : a[k] # b[k]}
<1>1. SUFFICES ASSUME bad # {} PROVE FALSE
  OBVIOUS
<1>2. bad \in SUBSET Nat
  OBVIOUS
<1> HIDE DEF bad
<1>3. PICK k \in bad : \A l \in bad : k <= l
  BY <1>1, <1>2, LeastNumber
<1>4. k \in 0..n /\ a[k] # b[k]
  BY <1>3 DEF bad
<1>5. CASE k = 0
  BY <1>4, <1>5 DEF IsOutcomeTrace
<1>6. CASE k # 0
  <2>1. k \in 1..n /\ k \in 1..m /\ k - 1 \in 0..n /\ ~(k <= k - 1)
    BY <1>4, <1>6
  <2>2. a[k - 1] = b[k - 1]
    BY <1>3, <2>1 DEF bad
  <2>3. a[k] = Compound(a[k - 1], rows[k]) /\ b[k] = Compound(b[k - 1], more[k])
    BY <2>1 DEF IsOutcomeTrace
  <2>4. rows[k] = more[k]
    BY <2>1
  <2> QED BY <1>4, <2>2, <2>3, <2>4, Zenon
<1> QED BY <1>5, <1>6

\* How far the equity of a state is below its peak.
Below(acc) == <<acc.peak - acc.equity, acc.peak>>

(* The fall kept is never below that of the moment, nor below none, nor     *)
(* below an earlier one.                                                   *)
LEMMA FallKept ==
  ASSUME NEW rows, NEW n \in Nat, NetsAreInt(rows, n), NEW a, IsOutcomeTrace(a, rows, n),
         NEW k \in 0..n
  PROVE  /\ a[k] \in OutcomeState /\ Below(a[k]) \in Ratios /\ a[k].fall \in Ratios
         /\ a[k].equity <= a[k].peak
         /\ AtMost(Below(a[k]), a[k].fall)
         /\ k # 0 => /\ AtMost(a[k - 1].fall, a[k].fall)
                     /\ a[k].fall \in {a[k - 1].fall, Below(a[k])}
<1>1. a[k] \in OutcomeState
  BY DEF IsOutcomeTrace
<1>2. /\ a[k].peak \in Nat \ {0} /\ a[k].equity \in Int /\ a[k].fall \in Ratios
  BY <1>1 DEF OutcomeState, Positive
<1>3. Below(a[k]) \in Ratios
  BY <1>2 DEF Below, Ratios
<1>4. CASE k = 0
  <2>1. a[k] = OutcomeStart
    BY <1>4 DEF IsOutcomeTrace
  <2> QED BY <1>1, <1>3, <1>4, <2>1 DEF OutcomeStart, OutcomeState, Below, AtMost
<1>5. CASE k # 0
  <2>1. k \in 1..n /\ k - 1 \in 0..n
    BY <1>5
  <2>2. /\ a[k - 1] \in OutcomeState /\ rows[k].net \in Int
        /\ a[k] = Compound(a[k - 1], rows[k])
    BY <2>1 DEF IsOutcomeTrace, NetsAreInt
  <2>3. /\ a[k].equity <= a[k].peak
        /\ a[k].fall = Larger(a[k - 1].fall, Below(a[k]))
    BY <2>2, CompoundStep DEF Below
  <2>4. a[k - 1].fall \in Ratios
    BY <2>2 DEF OutcomeState
  <2> QED BY <1>1, <1>2, <1>3, <1>5, <2>3, <2>4, LargerOfRatios
<1> QED BY <1>4, <1>5

(* So a later fall is not below an earlier one.                            *)
LEMMA FallsGrow ==
  ASSUME NEW rows, NEW n \in Nat, NetsAreInt(rows, n), NEW a, IsOutcomeTrace(a, rows, n),
         NEW k \in 0..n
  PROVE  AtMost(a[k].fall, a[n].fall)
<1> DEFINE bad == {m \in Nat : m <= n /\ m >= k /\ ~AtMost(a[k].fall, a[m].fall)}
<1>1. ASSUME NEW m \in bad, \A l \in bad : m <= l PROVE FALSE
  <2>1. /\ m \in 0..n /\ m >= k /\ ~AtMost(a[k].fall, a[m].fall)
    OBVIOUS
  <2>2. a[k].fall \in Ratios /\ a[m].fall \in Ratios
    BY <2>1, FallKept
  <2>3. m # k
    BY <2>1, <2>2, AtMostOrders
  <2>4. m # 0 /\ m - 1 \in 0..n /\ m - 1 >= k /\ ~(m <= m - 1)
    BY <2>1, <2>3
  <2>5. AtMost(a[k].fall, a[m - 1].fall)
    BY <1>1, <2>4
  <2>6. AtMost(a[m - 1].fall, a[m].fall) /\ a[m - 1].fall \in Ratios
    BY <2>1, <2>4, FallKept
  <2> QED BY <2>1, <2>2, <2>5, <2>6, AtMostOrders
<1>2. bad \in SUBSET Nat
  OBVIOUS
<1>3. n \notin bad
  <2> HIDE DEF bad
  <2> QED BY <1>1, <1>2, LeastNumber
<1> QED BY <1>3

(* It is none, or that of some moment.                                     *)
LEMMA FallAttained ==
  ASSUME NEW rows, NEW n \in Nat, NetsAreInt(rows, n), NEW a, IsOutcomeTrace(a, rows, n)
  PROVE  a[n].fall = <<0, 1>> \/ \E k \in 1..n : a[n].fall = Below(a[k])
<1> DEFINE Attained(m) == a[m].fall = <<0, 1>> \/ \E k \in 1..m : a[m].fall = Below(a[k])
           bad == {m \in Nat : m <= n /\ ~Attained(m)}
<1>1. ASSUME NEW m \in bad, \A l \in bad : m <= l PROVE FALSE
  <2>1. m \in 0..n /\ m \in Nat /\ ~Attained(m)
    OBVIOUS
  <2>2. a[0].fall = <<0, 1>>
    BY DEF IsOutcomeTrace, OutcomeStart
  <2>3. m # 0
    BY <2>1, <2>2
  <2>4. m - 1 \in 0..n /\ m - 1 \in Nat /\ ~(m <= m - 1) /\ m \in 1..m
    BY <2>1, <2>3
  <2>5. Attained(m - 1)
    BY <1>1, <2>4
  <2>6. a[m].fall \in {a[m - 1].fall, Below(a[m])}
    BY <2>1, <2>3, FallKept
  <2>7. \A k \in 1..(m - 1) : k \in 1..m
    BY <2>1
  <2> QED BY <2>1, <2>4, <2>5, <2>6, <2>7
<1>2. bad \in SUBSET Nat
  OBVIOUS
<1>3. n \notin bad
  <2> HIDE DEF bad
  <2> QED BY <1>1, <1>2, LeastNumber
<1>4. Attained(n)
  BY <1>3
<1> QED BY <1>4

-----------------------------------------------------------------------------
(* One more gain leaves the rounded drawdown of a record that was never     *)
(* below nothing.                                                          *)
LEMMA WinKeepsDrawdown ==
  ASSUME NEW rows, NEW more, NEW n \in Nat,
         DOMAIN rows = 1..n, DOMAIN more = 1..(n + 1),
         \A k \in 1..n : rows[k] = more[k],
         NetsAreInt(more, n + 1), more[n + 1].net >= 0,
         10 * Rounded(Shadow!MaxDrawdown(rows), Unit) <= Unit
  PROVE  Rounded(Shadow!MaxDrawdown(more), Unit) = Rounded(Shadow!MaxDrawdown(rows), Unit)
<1>1. n + 1 \in Nat /\ n + 1 \in 1..(n + 1) /\ n + 1 \in 0..(n + 1) /\ n \in 0..(n + 1)
      /\ n <= n + 1 /\ n + 1 # 0 /\ n \in 0..n /\ 0 \in 0..n
  OBVIOUS
<1>2. NetsAreInt(rows, n)
  BY DEF NetsAreInt
<1>3. PICK a : IsOutcomeTrace(a, rows, n) /\ Shadow!MaxDrawdown(rows) = a[n].fall
  BY <1>2, OutcomeTrace
<1>4. PICK b : IsOutcomeTrace(b, more, n + 1) /\ Shadow!MaxDrawdown(more) = b[n + 1].fall
  BY <1>1, OutcomeTrace
<1>5. a[n] = b[n]
  BY <1>1, <1>3, <1>4, OutcomeTracesAgree
<1> DEFINE old == a[n]
           new == b[n + 1]
           net == more[n + 1].net
<1>6. new = Compound(old, more[n + 1]) /\ net \in Int
  <2>1. (n + 1) - 1 = n
    OBVIOUS
  <2> QED BY <1>1, <1>4, <1>5, <2>1 DEF IsOutcomeTrace, NetsAreInt
<1>7. /\ old \in OutcomeState /\ Below(old) \in Ratios /\ old.fall \in Ratios
      /\ old.equity <= old.peak /\ AtMost(Below(old), old.fall)
  BY <1>1, <1>2, <1>3, FallKept
<1>8. /\ old.equity \in Int /\ old.peak \in Nat \ {0}
      /\ Unit \in Nat \ {0} /\ Whole \in Nat \ {0}
  BY <1>7, ScalesAssumption DEF OutcomeState, Positive
<1>9. AtMost(<<0, 1>>, old.fall)
  <2>1. AtMost(a[0].fall, a[n].fall)
    BY <1>1, <1>2, <1>3, FallsGrow
  <2> QED BY <1>3, <2>1 DEF IsOutcomeTrace, OutcomeStart
<1>10. /\ new.equity = old.equity * (Whole + net)
       /\ new.peak \in {old.peak * Whole, new.equity}
       /\ old.peak * Whole \in Positive /\ new.peak \in Positive /\ new.equity \in Int
       /\ Below(new) \in Ratios /\ new.fall = Larger(old.fall, Below(new))
  BY <1>6, <1>7, CompoundStep DEF Below, OutcomeState
<1>11. Shadow!MaxDrawdown(rows) = old.fall /\ Shadow!MaxDrawdown(more) = new.fall
  BY <1>3, <1>4
<1>12. net >= 0
  OBVIOUS
<1> HIDE DEF old, new, net
<1>13. old.equity >= 0
  <2> SUFFICES ASSUME old.equity < 0 PROVE FALSE
    BY <1>8
  <2>1. old.peak - old.equity \in Int /\ old.peak <= old.peak - old.equity
    BY <1>8
  <2>2. AtMost(<<1, 1>>, Below(old)) /\ <<1, 1>> \in Ratios
    BY <1>8, <2>1 DEF AtMost, Below, Ratios
  <2>3. AtMost(<<1, 1>>, old.fall)
    BY <1>7, <2>2, AtMostOrders
  <2>4. Rounded(<<1, 1>>, Unit) <= Rounded(old.fall, Unit)
        /\ Rounded(old.fall, Unit) \in Int
    BY <1>7, <1>8, <2>2, <2>3, RoundedOrdered
  <2>5. Unit <= Rounded(<<1, 1>>, Unit) /\ Rounded(<<1, 1>>, Unit) \in Int
    <3>1. 1 * Unit <= Unit * 1 /\ Unit * 1 \in Int /\ 1 \in Nat \ {0}
      BY <1>8
    <3>2. Unit <= Nearest(Unit * 1, 1) /\ Nearest(Unit * 1, 1) \in Int
      BY <1>8, <3>1, NearestSides, NearestBy
    <3> QED BY <3>2 DEF Rounded
  <2> QED BY <1>8, <1>11, <2>4, <2>5
<1>14. AtMost(Below(new), old.fall)
  <2>1. CASE new.peak = new.equity
    <3>1. Below(new) = <<0, new.peak>>
      BY <1>10, <2>1 DEF Below
    <3>2. AtMost(Below(new), <<0, 1>>)
      BY <1>10, <3>1 DEF AtMost, Positive
    <3>3. <<0, 1>> \in Ratios
      BY DEF Ratios
    <3> QED BY <1>7, <1>9, <1>10, <3>2, <3>3, AtMostOrders
  <2>2. CASE new.peak = old.peak * Whole
    <3> DEFINE e == old.equity
               p == old.peak
    <3>1. /\ e \in Nat /\ p \in Nat \ {0} /\ net \in Nat
      BY <1>6, <1>8, <1>12, <1>13
    <3> HIDE DEF e, p
    <3>2. /\ e * (Whole + net) = e * Whole + e * net /\ 0 <= e * net
          /\ e * Whole \in Int /\ e * net \in Int /\ p * Whole \in Int
      BY <1>8, <3>1
    <3>3. p * Whole - e * (Whole + net) <= p * Whole - e * Whole
      BY <3>2
    <3>4. /\ p * Whole - e * (Whole + net) \in Int /\ p * Whole - e * Whole \in Int
      BY <3>2
    <3>5. (p * Whole - e * (Whole + net)) * p <= (p * Whole - e * Whole) * p
      BY <3>1, <3>3, <3>4, ProductsOrdered
    <3>6. (p * Whole - e * Whole) * p = (p - e) * (p * Whole)
      BY <1>8, <3>1
    <3>7. Below(new) = <<p * Whole - e * (Whole + net), p * Whole>>
          /\ Below(old) = <<p - e, p>>
      BY <1>10, <2>2 DEF Below, e, p
    <3>8. AtMost(Below(new), Below(old))
      BY <3>5, <3>6, <3>7 DEF AtMost
    <3> QED BY <1>7, <1>10, <3>8, AtMostOrders
  <2> QED BY <1>10, <2>1, <2>2
<1>15. /\ new.fall \in Ratios /\ AtMost(old.fall, new.fall) /\ AtMost(new.fall, old.fall)
  BY <1>7, <1>10, <1>14, LargerOfRatios, AtMostOrders
<1> QED BY <1>7, <1>8, <1>11, <1>15, EqualRatios

(* A sum over one more position.                                           *)
LEMMA OneMoreAdds ==
  ASSUME NEW n \in Nat, NEW f, NEW g, \A k \in 1..(n + 1) : g[k] \in Int,
         \A k \in 1..n : f[k] = g[k]
  PROVE  /\ TotalOf(f, 1..n) \in Int
         /\ TotalOf(g, 1..(n + 1)) = TotalOf(f, 1..n) + g[n + 1]
<1>1. IsFiniteSet(1..n)
  BY CountTo
<1>2. IsWith(1..(n + 1), 1..n, n + 1) /\ IntOver(g, 1..(n + 1))
  BY DEF IsWith, IntOver
<1>3. TotalOf(g, 1..(n + 1)) = TotalOf(g, 1..n) + g[n + 1]
  BY <1>1, <1>2, TotalAdd
<1>4. TotalOf(f, 1..n) = TotalOf(g, 1..n)
  BY <1>1, TotalAgree
<1>5. \A k \in 1..n : g[k] \in Int
  OBVIOUS
<1>6. TotalOf(g, 1..n) \in Int
  BY <1>1, <1>5, TotalType
<1> QED BY <1>3, <1>4, <1>6

(* The rows of any list of outcomes.                                       *)
LEMMA RowsOfOutcomes ==
  ASSUME NEW r, r.outcomes \in Seq(ShadowTradeOutcome)
  PROVE  LET rows == ShadowRows(r) IN
         /\ DOMAIN rows = 1..Len(r.outcomes) /\ Len(rows) = Len(r.outcomes)
         /\ Len(r.outcomes) \in Nat
         /\ \A k \in 1..Len(r.outcomes) :
              /\ rows[k] = Shadow!Normalized(r.outcomes[k])
              /\ rows[k].net = r.outcomes[k].net /\ rows[k].cost = r.outcomes[k].cost
              /\ rows[k].net \in Int /\ rows[k].cost \in Int
<1> DEFINE outcomes == r.outcomes
           Normal == {Shadow!Normalized(o) : o \in ShadowTradeOutcome}
           rows == ShadowRows(r)
<1>1. DOMAIN outcomes = 1..Len(outcomes) /\ Len(outcomes) \in Nat
      /\ \A k \in DOMAIN outcomes : outcomes[k] \in ShadowTradeOutcome
  OBVIOUS
<1>2. rows = [k \in DOMAIN outcomes |-> Shadow!Normalized(outcomes[k])]
  BY DEF ShadowRows
<1>3. \A o \in ShadowTradeOutcome :
        /\ o.net \in Int /\ o.cost \in Int
        /\ Shadow!Normalized(o).net = o.net /\ Shadow!Normalized(o).cost = o.cost
  BY DEF Shadow!Normalized, ShadowTradeOutcome
<1> HIDE DEF outcomes
<1>4. \A k \in DOMAIN outcomes : rows[k] = Shadow!Normalized(outcomes[k])
  BY <1>2
<1>5. rows \in Seq(Normal) /\ DOMAIN rows = DOMAIN outcomes
  <2>1. \A k \in DOMAIN outcomes : rows[k] \in Normal
    BY <1>1, <1>4
  <2> HIDE DEF Normal
  <2> QED BY <1>1, <1>2, <2>1
<1>6. Len(rows) = Len(outcomes)
  <2> HIDE DEF Normal, rows
  <2> QED BY <1>1, <1>5
<1> HIDE DEF rows
<1> QED BY <1>1, <1>3, <1>4, <1>5, <1>6 DEF rows, outcomes

\* A record with one more outcome, of the first kind but for its return.
Later(r, gain) ==
  [r EXCEPT !.outcomes = Append(@, [r.outcomes[1] EXCEPT !.net = gain])]

(* It has the rows it had and one more.                                    *)
LEMMA LaterRows ==
  ASSUME NEW r \in ShadowPerformanceRequest, r.outcomes # << >>, NEW gain \in Int
  PROVE  LET rows == ShadowRows(r)
             more == ShadowRows(Later(r, gain))
             n == Len(r.outcomes)
         IN  /\ n \in Nat \ {0} /\ Len(rows) = n /\ Len(more) = n + 1
             /\ DOMAIN rows = 1..n /\ DOMAIN more = 1..(n + 1)
             /\ \A k \in 1..n : rows[k] = more[k]
             /\ \A k \in 1..(n + 1) : more[k].net \in Int /\ more[k].cost \in Int
             /\ more[n + 1].net = gain
             /\ Later(r, gain).minimum = r.minimum /\ r.minimum \in Int
<1> DEFINE outcomes == r.outcomes
           win == [outcomes[1] EXCEPT !.net = gain]
           later == Later(r, gain)
           n == Len(outcomes)
<1>1. outcomes \in Seq(ShadowTradeOutcome) /\ r.minimum \in Int
  BY DEF ShadowPerformanceRequest
<1>2. later.outcomes = Append(outcomes, win) /\ later.minimum = r.minimum
  BY DEF Later, ShadowPerformanceRequest
<1>3. n \in Nat \ {0} /\ 1 \in 1..n
  <2> HIDE DEF outcomes
  <2>1. outcomes # << >>
    BY DEF outcomes
  <2> QED BY <1>1, <2>1
<1>4. outcomes[1] \in ShadowTradeOutcome
  BY <1>1, <1>3
<1>5. win \in ShadowTradeOutcome /\ win.net = gain
  BY <1>4 DEF ShadowTradeOutcome
<1> HIDE DEF win, outcomes
<1>6. /\ later.outcomes \in Seq(ShadowTradeOutcome) /\ Len(later.outcomes) = n + 1
      /\ \A k \in 1..n : later.outcomes[k] = outcomes[k]
      /\ later.outcomes[n + 1] = win
  BY <1>1, <1>2, <1>5
<1> HIDE DEF later
<1>7. LET rows == ShadowRows(r) IN
      /\ DOMAIN rows = 1..n /\ Len(rows) = n
      /\ \A k \in 1..n : rows[k] = Shadow!Normalized(outcomes[k])
  BY <1>1, RowsOfOutcomes DEF outcomes
<1>8. LET more == ShadowRows(later) IN
      /\ DOMAIN more = 1..(n + 1) /\ Len(more) = n + 1
      /\ \A k \in 1..(n + 1) :
           /\ more[k] = Shadow!Normalized(later.outcomes[k])
           /\ more[k].net = later.outcomes[k].net
           /\ more[k].net \in Int /\ more[k].cost \in Int
  BY <1>6, RowsOfOutcomes
<1> HIDE DEF n
<1>9. n + 1 \in 1..(n + 1) /\ \A k \in 1..n : k \in 1..(n + 1)
  BY <1>3
<1> QED BY <1>1, <1>2, <1>3, <1>5, <1>6, <1>7, <1>8, <1>9 DEF n, outcomes, later

(* The gain and the loss of a row.                                         *)
GainOf(row) == Shadow!Max({0, row.net})
LossOf(row) == Shadow!Max({0, -row.net})

(* One of them is nothing, and the other the return or its opposite.       *)
LEMMA GainsAndLossesOf ==
  ASSUME NEW row, row.net \in Int
  PROVE  /\ GainOf(row) \in Nat /\ LossOf(row) \in Nat
         /\ row.net > 0 => GainOf(row) = row.net /\ LossOf(row) = 0
<1>1. ASSUME NEW x \in Int
      PROVE  Shadow!Max({0, x}) \in Nat /\ Shadow!Max({0, x}) = IF x >= 0 THEN x ELSE 0
  <2> DEFINE m == Max({0, x})
  <2>1. m \in Int /\ m \in {0, x} /\ 0 <= m /\ x <= m
    <3>1. 0 \in Int
      OBVIOUS
    <3> QED BY <3>1, MaxOfTwo, Zenon
  <2>2. Shadow!Max({0, x}) = m
    BY SameRatioOperators, Zenon
  <2> HIDE DEF m
  <2> QED BY <2>1, <2>2
<1>2. -row.net \in Int
  OBVIOUS
<1>3. /\ GainOf(row) \in Nat /\ GainOf(row) = IF row.net >= 0 THEN row.net ELSE 0
  BY <1>1, Zenon DEF GainOf
<1>4. /\ LossOf(row) \in Nat /\ LossOf(row) = IF -row.net >= 0 THEN -row.net ELSE 0
  BY <1>1, <1>2, Zenon DEF LossOf
<1> QED BY <1>3, <1>4

(* What it adds: the gain to the return and to the gains, nothing to the    *)
(* losses.                                                                 *)
LEMMA LaterSums ==
  ASSUME NEW rows, NEW more, NEW n \in Nat, DOMAIN rows = 1..n, DOMAIN more = 1..(n + 1),
         \A k \in 1..n : rows[k] = more[k],
         \A k \in 1..(n + 1) : more[k].net \in Int /\ more[k].cost \in Int,
         more[n + 1].net > 0
  PROVE  LET all == DOMAIN rows
             every == DOMAIN more
             gain == more[n + 1].net
         IN  /\ Shadow!Sum(rows, all, "net") \in Int
             /\ Shadow!Sum(more, every, "net") = Shadow!Sum(rows, all, "net") + gain
             /\ Shadow!Sum(more, every, "cost") \in Int
             /\ Shadow!Gains(rows, all) \in Int
             /\ Shadow!Gains(more, every) = Shadow!Gains(rows, all) + gain
             /\ Shadow!Losses(rows, all) \in Nat
             /\ Shadow!Losses(more, every) = Shadow!Losses(rows, all)
<1> DEFINE all == 1..n
           every == 1..(n + 1)
           net(t, S) == [k \in S |-> t[k]["net"]]
           cost == [k \in every |-> more[k]["cost"]]
           up(t, S) == [k \in S |-> GainOf(t[k])]
           down(t, S) == [k \in S |-> LossOf(t[k])]
<1>1. /\ Shadow!Sum(rows, all, "net") = TotalOf(net(rows, all), all)
      /\ Shadow!Sum(more, every, "net") = TotalOf(net(more, every), every)
      /\ Shadow!Sum(more, every, "cost") = TotalOf(cost, every)
  BY SameOperators DEF Shadow!Sum
<1>2. /\ Shadow!Gains(rows, all) = TotalOf(up(rows, all), all)
      /\ Shadow!Gains(more, every) = TotalOf(up(more, every), every)
  BY SameOperators DEF Shadow!Gains, GainOf
<1>3. /\ Shadow!Losses(rows, all) = TotalOf(down(rows, all), all)
      /\ Shadow!Losses(more, every) = TotalOf(down(more, every), every)
  BY SameOperators DEF Shadow!Losses, LossOf
<1>4. (\A k \in all : k \in every) /\ n + 1 \in every
  OBVIOUS
<1>5. /\ TotalOf(net(rows, all), all) \in Int
      /\ TotalOf(net(more, every), every)
           = TotalOf(net(rows, all), all) + more[n + 1].net
  <2>1. \A k \in every : net(more, every)[k] \in Int
    OBVIOUS
  <2>2. \A k \in all : net(rows, all)[k] = net(more, every)[k]
    BY <1>4
  <2>3. net(more, every)[n + 1] = more[n + 1].net
    OBVIOUS
  <2> HIDE DEF net
  <2> QED BY <2>1, <2>2, <2>3, OneMoreAdds
<1>6. \A k \in every : GainOf(more[k]) \in Int /\ LossOf(more[k]) \in Nat
  BY GainsAndLossesOf
<1>7. GainOf(more[n + 1]) = more[n + 1].net /\ LossOf(more[n + 1]) = 0
  BY <1>4, GainsAndLossesOf
<1>8. /\ TotalOf(up(rows, all), all) \in Int
      /\ TotalOf(up(more, every), every) = TotalOf(up(rows, all), all) + more[n + 1].net
  <2>1. \A k \in every : up(more, every)[k] \in Int
    BY <1>6
  <2>2. \A k \in all : up(rows, all)[k] = up(more, every)[k]
    BY <1>4
  <2>3. up(more, every)[n + 1] = more[n + 1].net
    BY <1>4, <1>7
  <2> HIDE DEF up
  <2> QED BY <2>1, <2>2, <2>3, OneMoreAdds
<1>9. /\ TotalOf(down(rows, all), all) \in Int
      /\ TotalOf(down(more, every), every) = TotalOf(down(rows, all), all)
  <2>1. \A k \in every : down(more, every)[k] \in Int
    BY <1>6
  <2>2. \A k \in all : down(rows, all)[k] = down(more, every)[k]
    BY <1>4
  <2>3. down(more, every)[n + 1] = 0
    BY <1>4, <1>7
  <2> HIDE DEF down
  <2>4. /\ TotalOf(down(rows, all), all) \in Int
        /\ TotalOf(down(more, every), every)
             = TotalOf(down(rows, all), all) + down(more, every)[n + 1]
    BY <2>1, <2>2, OneMoreAdds
  <2> QED BY <2>3, <2>4
<1>10. TotalOf(down(rows, all), all) >= 0
  <2>1. IsFiniteSet(all) /\ Cardinality(all) = n
    BY CountTo
  <2>2. \A k \in all : down(rows, all)[k] \in Int /\ 0 <= down(rows, all)[k]
    BY <1>4, <1>6
  <2>3. Cardinality(all) * 0 <= TotalOf(down(rows, all), all)
    <3> HIDE DEF down, all
    <3> QED BY <2>1, <2>2, TotalAtLeast
  <2> QED BY <1>9, <2>1, <2>3
<1>11. TotalOf(cost, every) \in Int
  <2>1. IsFiniteSet(every)
    BY CountTo
  <2>2. \A k \in every : cost[k] \in Int
    OBVIOUS
  <2> HIDE DEF cost, every
  <2> QED BY <2>1, <2>2, TotalType
<1> HIDE DEF net, up, down, cost
<1> QED BY <1>1, <1>2, <1>3, <1>5, <1>8, <1>9, <1>10, <1>11

(* The figures of a summary that its verdicts look at.                     *)
LEMMA FiguresOfSummary ==
  ASSUME NEW r, NEW rows, rows = ShadowRows(r), rows # << >>, DOMAIN rows # {}
  PROVE  LET data == Shadow!Summary(r)
             all == DOMAIN rows
         IN  /\ data.observation_count = Len(rows)
             /\ data.net_expectancy_pct
                  = Nearest(Unit * Shadow!Sum(rows, all, "net"), Whole * Cardinality(all))
             /\ data.average_cost_pct
                  = Nearest(Unit * Shadow!Sum(rows, all, "cost"), Whole * Cardinality(all))
             /\ data.profit_factor
                  = IF Shadow!Losses(rows, all) = 0 THEN None
                    ELSE Nearest(FactorUnit * Shadow!Gains(rows, all), Shadow!Losses(rows, all))
             /\ data.max_drawdown_pct = Rounded(Shadow!MaxDrawdown(rows), Unit)
             /\ data.paper_review_ready
                  = (Len(rows) >= r.minimum /\ Shadow!Sum(rows, all, "net") > 0)
<1> DEFINE all == DOMAIN rows
           data == Shadow!Summary(r)
<1>1. /\ data.observation_count = Len(rows)
      /\ data.net_expectancy_pct = Shadow!Average(rows, all, "net")
      /\ data.average_cost_pct = Shadow!Average(rows, all, "cost")
      /\ data.profit_factor = Shadow!ProfitFactor(rows, all)
      /\ data.max_drawdown_pct = Shadow!Rounded(Shadow!MaxDrawdown(rows), Unit)
      /\ data.paper_review_ready
           = (Shadow!Eligible(rows, r) /\ Shadow!Sum(rows, all, "net") > 0)
  BY DEF Shadow!Summary, ShadowRows
<1>2. \A field : Shadow!Average(rows, all, field)
                   = Nearest(Unit * Shadow!Sum(rows, all, field), Whole * Cardinality(all))
  <2>1. \A x, y : Shadow!Rounded(<<x, y>>, Unit) = Nearest(Unit * x, y)
    BY SameOperators DEF Shadow!Rounded
  <2> QED BY <2>1, SameOperators DEF Shadow!Average
<1>3. Shadow!ProfitFactor(rows, all)
        = IF Shadow!Losses(rows, all) = 0 THEN None
          ELSE Nearest(FactorUnit * Shadow!Gains(rows, all), Shadow!Losses(rows, all))
  <2>1. \A x, y : Shadow!Rounded(<<x, y>>, FactorUnit) = Nearest(FactorUnit * x, y)
    BY SameOperators DEF Shadow!Rounded
  <2> QED BY <2>1 DEF Shadow!ProfitFactor
<1>4. Shadow!Rounded(Shadow!MaxDrawdown(rows), Unit) = Rounded(Shadow!MaxDrawdown(rows), Unit)
  BY SameRatioOperators
<1>5. Shadow!Eligible(rows, r) = (Len(rows) >= r.minimum)
  BY DEF Shadow!Eligible
<1> HIDE DEF data
<1> QED BY <1>1, <1>2, <1>3, <1>4, <1>5 DEF data

(* One more gain keeps paper review, and one of a unit of the rounding or  *)
(* more keeps each gate of forward review open.                            *)
LEMMA WinKeepsGates ==
  ASSUME NEW r \in ShadowPerformanceRequest, r.outcomes # << >>, NEW gain \in 1..Whole
  PROVE  LET data == Shadow!Summary(r)
             later == Shadow!Summary(Later(r, gain))
         IN  /\ data.paper_review_ready => later.paper_review_ready
             /\ Shadow!ForwardReviewReady(data) /\ Unit * gain >= Whole
                  => Shadow!ForwardReviewReady(later)
<1> DEFINE rows == ShadowRows(r)
           more == ShadowRows(Later(r, gain))
           n == Len(r.outcomes)
           data == Shadow!Summary(r)
           later == Shadow!Summary(Later(r, gain))
           total == Shadow!Sum(rows, DOMAIN rows, "net")
           gains == Shadow!Gains(rows, DOMAIN rows)
           losses == Shadow!Losses(rows, DOMAIN rows)
           cost == Shadow!Sum(more, DOMAIN more, "cost")
<1>1. /\ gain \in Int /\ gain > 0
      /\ Unit \in Nat \ {0} /\ Whole \in Nat \ {0} /\ FactorUnit \in Nat \ {0}
      /\ MinObservations \in Nat
  BY ScalesAssumption
<1>2. /\ n \in Nat \ {0} /\ Len(rows) = n /\ Len(more) = n + 1
      /\ DOMAIN rows = 1..n /\ DOMAIN more = 1..(n + 1)
      /\ \A k \in 1..n : rows[k] = more[k]
      /\ \A k \in 1..(n + 1) : more[k].net \in Int /\ more[k].cost \in Int
      /\ more[n + 1].net = gain
      /\ Later(r, gain).minimum = r.minimum /\ r.minimum \in Int
  BY <1>1, LaterRows
<1> HIDE DEF rows, more, n
<1>3. /\ total \in Int /\ gains \in Int /\ losses \in Nat /\ cost \in Int
      /\ Shadow!Sum(more, DOMAIN more, "net") = total + gain
      /\ Shadow!Gains(more, DOMAIN more) = gains + gain
      /\ Shadow!Losses(more, DOMAIN more) = losses
  <2> HIDE DEF total, gains, losses, cost
  <2>1. n \in Nat /\ more[n + 1].net > 0
    BY <1>1, <1>2
  <2>2. /\ Shadow!Sum(rows, DOMAIN rows, "net") \in Int
        /\ Shadow!Sum(more, DOMAIN more, "net")
             = Shadow!Sum(rows, DOMAIN rows, "net") + more[n + 1].net
        /\ Shadow!Sum(more, DOMAIN more, "cost") \in Int
        /\ Shadow!Gains(rows, DOMAIN rows) \in Int
        /\ Shadow!Gains(more, DOMAIN more)
             = Shadow!Gains(rows, DOMAIN rows) + more[n + 1].net
        /\ Shadow!Losses(rows, DOMAIN rows) \in Nat
        /\ Shadow!Losses(more, DOMAIN more) = Shadow!Losses(rows, DOMAIN rows)
    BY <1>2, <2>1, LaterSums, Zenon
  <2> QED BY <1>2, <2>2 DEF total, gains, losses, cost
<1>4. /\ Cardinality(1..n) = n /\ Cardinality(1..(n + 1)) = n + 1
      /\ rows # << >> /\ more # << >> /\ DOMAIN rows # {} /\ DOMAIN more # {}
  <2>1. n \in Nat /\ n + 1 \in Nat /\ 1 \in 1..n /\ 1 \in 1..(n + 1)
    BY <1>2
  <2>2. rows # << >> /\ more # << >>
    <3>1. DOMAIN << >> = {}
      OBVIOUS
    <3> QED BY <1>2, <2>1, <3>1
  <2> QED BY <1>2, <2>1, <2>2, CountTo
<1>5. /\ data.observation_count = n
      /\ data.net_expectancy_pct = Nearest(Unit * total, Whole * n)
      /\ data.profit_factor
           = IF losses = 0 THEN None ELSE Nearest(FactorUnit * gains, losses)
      /\ data.max_drawdown_pct = Rounded(Shadow!MaxDrawdown(rows), Unit)
      /\ data.paper_review_ready = (n >= r.minimum /\ total > 0)
  <2> HIDE DEF total, gains, losses, data
  <2>1. rows = ShadowRows(r)
    BY DEF rows
  <2> QED BY <1>2, <1>4, <2>1, FiguresOfSummary DEF total, gains, losses, data
<1>6. /\ later.observation_count = n + 1
      /\ later.net_expectancy_pct = Nearest(Unit * (total + gain), Whole * (n + 1))
      /\ later.average_cost_pct = Nearest(Unit * cost, Whole * (n + 1))
      /\ later.profit_factor
           = IF losses = 0 THEN None ELSE Nearest(FactorUnit * (gains + gain), losses)
      /\ later.max_drawdown_pct = Rounded(Shadow!MaxDrawdown(more), Unit)
      /\ later.paper_review_ready = (n + 1 >= r.minimum /\ total + gain > 0)
  <2> HIDE DEF total, gains, losses, cost, later
  <2> DEFINE posted == Later(r, gain)
  <2>1. more = ShadowRows(posted)
    BY DEF more
  <2>2. /\ later.observation_count = Len(more)
        /\ later.net_expectancy_pct
             = Nearest(Unit * Shadow!Sum(more, DOMAIN more, "net"),
                       Whole * Cardinality(DOMAIN more))
        /\ later.average_cost_pct
             = Nearest(Unit * Shadow!Sum(more, DOMAIN more, "cost"),
                       Whole * Cardinality(DOMAIN more))
        /\ later.profit_factor
             = IF Shadow!Losses(more, DOMAIN more) = 0 THEN None
               ELSE Nearest(FactorUnit * Shadow!Gains(more, DOMAIN more),
                            Shadow!Losses(more, DOMAIN more))
        /\ later.max_drawdown_pct = Rounded(Shadow!MaxDrawdown(more), Unit)
        /\ later.paper_review_ready
             = (Len(more) >= posted.minimum /\ Shadow!Sum(more, DOMAIN more, "net") > 0)
    <3> HIDE DEF posted
    <3> QED BY <1>4, <2>1, FiguresOfSummary DEF later, posted
  <2>3. posted.minimum = r.minimum /\ cost = Shadow!Sum(more, DOMAIN more, "cost")
    BY <1>2 DEF cost
  <2>4. Cardinality(DOMAIN more) = n + 1 /\ Len(more) = n + 1
    BY <1>2, <1>4
  <2> HIDE DEF posted
  <2> QED BY <1>3, <2>2, <2>3, <2>4, Zenon
<1> HIDE DEF total, gains, losses, cost, data, later
<1>7. data.paper_review_ready => later.paper_review_ready
  <2>1. n >= r.minimum /\ total > 0 => n + 1 >= r.minimum /\ total + gain > 0
    BY <1>1, <1>2, <1>3
  <2> QED BY <1>5, <1>6, <2>1, Zenon
<1>8. ASSUME Shadow!ForwardReviewReady(data), Unit * gain >= Whole
      PROVE  Shadow!ForwardReviewReady(later)
  <2>1. /\ data.observation_count >= MinObservations
        /\ data.net_expectancy_pct > 0
        /\ data.profit_factor # None /\ 10 * data.profit_factor >= 11 * FactorUnit
        /\ 10 * data.max_drawdown_pct <= Unit
    BY <1>8 DEF Shadow!ForwardReviewReady, Shadow!Gates
  <2>2. later.observation_count >= MinObservations
    BY <1>1, <1>2, <1>5, <1>6, <2>1
  <2>3. later.net_expectancy_pct > 0 /\ later.net_expectancy_pct \in Int
    <3> DEFINE m == Unit * total
               d == Whole * n
               more_m == Unit * (total + gain)
               more_d == Whole * (n + 1)
    <3>1. /\ m \in Int /\ d \in Nat \ {0} /\ more_m \in Int /\ more_d \in Nat \ {0}
          /\ more_m = m + Unit * gain /\ more_d = d + Whole /\ Unit * gain \in Int
      BY <1>1, <1>2, <1>3
    <3>2. data.net_expectancy_pct = Nearest(m, d) /\ later.net_expectancy_pct = Nearest(more_m, more_d)
      BY <1>5, <1>6
    <3> HIDE DEF m, d, more_m, more_d
    <3>3. 2 * m > d
      BY <2>1, <3>1, <3>2, NearestPositive
    <3>4. 2 * more_m > more_d
      BY <1>1, <1>8, <3>1, <3>3
    <3> QED BY <3>1, <3>2, <3>4, NearestPositive, NearestBy
  <2>4. later.profit_factor \in Int /\ 10 * later.profit_factor >= 11 * FactorUnit
    <3>1. losses \in Nat \ {0} /\ data.profit_factor = Nearest(FactorUnit * gains, losses)
          /\ later.profit_factor = Nearest(FactorUnit * (gains + gain), losses)
      BY <1>3, <1>5, <1>6, <2>1
    <3>2. /\ FactorUnit * gains \in Int /\ FactorUnit * (gains + gain) \in Int
          /\ FactorUnit * gains <= FactorUnit * (gains + gain)
      <4>1. gains \in Int /\ gains + gain \in Int /\ gains <= gains + gain
        BY <1>1, <1>3
      <4> QED BY <1>1, <4>1, MultiplesOrdered, Zenon
    <3>3. (FactorUnit * gains) * losses <= (FactorUnit * (gains + gain)) * losses
      BY <3>1, <3>2, ProductsOrdered
    <3>4. Nearest(FactorUnit * gains, losses) <= Nearest(FactorUnit * (gains + gain), losses)
      BY <3>1, <3>2, <3>3, NearestOrdered
    <3>5. /\ Nearest(FactorUnit * gains, losses) \in Int
          /\ Nearest(FactorUnit * (gains + gain), losses) \in Int
      BY <3>1, <3>2, NearestBy
    <3> QED BY <1>1, <2>1, <3>1, <3>4, <3>5
  <2>5. later.max_drawdown_pct = data.max_drawdown_pct
    <3>1. NetsAreInt(more, n + 1) /\ n \in Nat /\ more[n + 1].net >= 0
      BY <1>1, <1>2 DEF NetsAreInt
    <3> QED BY <1>2, <1>5, <1>6, <2>1, <3>1, WinKeepsDrawdown
  <2>6. data.max_drawdown_pct \in Int
    <3>1. NetsAreInt(rows, n) /\ n \in Nat /\ n \in 0..n
      BY <1>2 DEF NetsAreInt
    <3>2. PICK a : IsOutcomeTrace(a, rows, n) /\ Shadow!MaxDrawdown(rows) = a[n].fall
      BY <1>2, <3>1, OutcomeTrace
    <3>3. a[n].fall \in Ratios
      BY <3>1, <3>2, FallKept
    <3>4. Unit \in Nat
      BY <1>1
    <3> QED BY <1>5, <3>2, <3>3, <3>4, AtMostOrders, RoundedOrdered
  <2>7. later.average_cost_pct \in Int
    <3>1. Whole * (n + 1) \in Nat \ {0} /\ Unit * cost \in Int
      BY <1>1, <1>2, <1>3
    <3> QED BY <1>6, <3>1, NearestBy
  <2>8. \A x \in Int : x # None
    BY GatewayAssumption
  <2>9. \A gate \in DOMAIN Shadow!Gates(later) : Shadow!Gates(later)[gate]
    <3>1. /\ later.net_expectancy_pct # None /\ later.profit_factor # None
          /\ later.max_drawdown_pct # None /\ later.average_cost_pct # None
      BY <2>3, <2>4, <2>5, <2>6, <2>7, <2>8, Zenon
    <3>2. 10 * later.max_drawdown_pct <= Unit
      BY <2>1, <2>5
    <3> DEFINE gates == Shadow!Gates(later)
    <3>3. /\ DOMAIN gates = {"minimum_observations", "positive_net_expectancy",
                             "profit_factor", "max_drawdown", "cost_evidence_present"}
          /\ gates["minimum_observations"] = (later.observation_count >= MinObservations)
          /\ gates["positive_net_expectancy"]
               = (later.net_expectancy_pct # None /\ later.net_expectancy_pct > 0)
          /\ gates["profit_factor"]
               = (later.profit_factor # None /\ 10 * later.profit_factor >= 11 * FactorUnit)
          /\ gates["max_drawdown"]
               = (later.max_drawdown_pct # None /\ 10 * later.max_drawdown_pct <= Unit)
          /\ gates["cost_evidence_present"] = (later.average_cost_pct # None)
      BY DEF Shadow!Gates
    <3> HIDE DEF gates
    <3>4. /\ gates["minimum_observations"] /\ gates["positive_net_expectancy"]
          /\ gates["profit_factor"] /\ gates["max_drawdown"] /\ gates["cost_evidence_present"]
      BY <2>2, <2>3, <2>4, <3>1, <3>2, <3>3, Zenon
    <3>5. \A gate \in DOMAIN gates : gates[gate]
      BY <3>3, <3>4, Zenon
    <3> QED BY <3>5 DEF gates
  <2> QED BY <2>9 DEF Shadow!ForwardReviewReady
<1> QED BY <1>7, <1>8 DEF data, later

(* Whatever was posted, one more gain does not take a record that is ready *)
(* for paper review back; nor, of a unit of the rounding or more, one that *)
(* is ready for forward review.                                            *)
THEOREM ReadinessSurvivesWins == Spec => []WinKeepsReadiness
<1>1. ASSUME IInv, FiguresInv PROVE WinKeepsReadiness
  <2> SUFFICES ASSUME AnsweredTo("shadow"), request.payload.outcomes # << >>,
                      NEW gain \in 1..Whole
               PROVE  LET later == Shadow!Summary(Later(request.payload, gain)) IN
                      /\ answer.data.paper_review_ready => later.paper_review_ready
                      /\ Shadow!ForwardReviewReady(answer.data) /\ Unit * gain >= Whole
                           => Shadow!ForwardReviewReady(later)
    BY DEF WinKeepsReadiness, Later
  <2>1. /\ request \in Requests /\ Accepted(request.payload)
        /\ answer.data = Shadow!Summary(request.payload)
    BY <1>1 DEF FiguresInv, FigureEndpoints, Figures, AnsweredTo, Answered
  <2>2. request.payload \in ShadowPerformanceRequest
    BY <2>1, PayloadsAssumption DEF AnsweredTo
  <2> QED BY <2>1, <2>2, WinKeepsGates
<1> QED BY <1>1, FiguresAlways, PTL

-----------------------------------------------------------------------------
(* The growth over some outcomes, as OutcomeFalls folds it.                *)
GrowthState == Int \X Positive
Grow(acc, o) == <<acc[1] * (Whole + o.net), acc[2] * Whole>>

IsGrowthTrace(b, part, m) ==
  /\ b \in [0..m -> GrowthState] /\ b[0] = <<1, 1>>
  /\ \A k \in 1..m : b[k] = Grow(b[k - 1], part[k])

(* It ends a trace as well.                                                *)
LEMMA GrowthTrace ==
  ASSUME NEW part, NEW n \in Nat, DOMAIN part = 1..n, NetsAreInt(part, n)
  PROVE  \E b : /\ IsGrowthTrace(b, part, n)
                /\ FoldLeft(LAMBDA acc, o : <<acc[1] * (Whole + o.net), acc[2] * Whole>>,
                            <<1, 1>>, part)
                     = b[n]
<1> DEFINE T == GrowthState
           E == {part[k] : k \in 1..n}
           F == [p \in T \X E |-> Grow(p[1], p[2])]
           base == <<1, 1>>
           Solves(g) == g = [P \in SUBSET (DOMAIN part) |->
                               IF P = {} THEN base
                               ELSE Grow(g[P \ {Max(P)}], part[Max(P)])]
<1>1. \A acc \in T, o \in E : Grow(acc, o) \in T
  <2>1. Whole \in Nat \ {0}
    BY ScalesAssumption
  <2>2. ASSUME NEW acc \in T, NEW o \in E PROVE Grow(acc, o) \in T
    <3>1. acc[1] \in Int /\ acc[2] \in Nat \ {0} /\ o.net \in Int
      BY DEF GrowthState, NetsAreInt, Positive
    <3>2. acc[1] * (Whole + o.net) \in Int /\ acc[2] * Whole \in Nat \ {0}
      BY <2>1, <3>1
    <3> QED BY <3>2 DEF GrowthState, Grow, Positive
  <2> QED BY <2>2
<1>2. F \in [T \X E -> T] /\ \A acc \in T, o \in E : F[<<acc, o>>] = Grow(acc, o)
  BY <1>1
<1>3. base \in T
  BY DEF GrowthState, Positive
<1>4. \A k \in 1..n : part[k] \in E
  OBVIOUS
<1>5. FoldLeft(LAMBDA acc, o : <<acc[1] * (Whole + o.net), acc[2] * Whole>>, <<1, 1>>, part)
        = (CHOOSE g : Solves(g))[DOMAIN part]
  BY DEF FoldLeft, MapThenFoldSet, Grow
<1>6. \A P \in SUBSET (1..n) : P # {} => Max(P) \in 1..n
  BY LastPosition
<1> HIDE DEF T, E, F, base
<1>6a. IsFolding(F, T, E, base, part, n)
  BY <1>2, <1>3, <1>4 DEF IsFolding
<1>7. \E g : Solves(g)
  <2>1. PICK g : IsRun(g, F, T, base, part, n)
    BY <1>6a, RunExists, Zenon
  <2>2. g \in [SUBSET (1..n) -> T]
    BY <2>1 DEF IsRun
  <2>3. ASSUME NEW P \in SUBSET (1..n)
        PROVE  g[P] = IF P = {} THEN base ELSE Grow(g[P \ {Max(P)}], part[Max(P)])
    <3>1. CASE P = {}
      BY <2>1, <3>1 DEF IsRun
    <3>2. CASE P # {}
      <4>1. g[P] = F[<<g[P \ {Max(P)}], part[Max(P)]>>]
        BY <2>1, <3>2 DEF IsRun
      <4>2. g[P \ {Max(P)}] \in T /\ part[Max(P)] \in E
        BY <1>4, <1>6, <2>2, <3>2
      <4> QED BY <1>2, <3>2, <4>1, <4>2
    <3> QED BY <3>1, <3>2
  <2>4. Solves(g)
    BY <2>2, <2>3
  <2> QED BY <2>4
<1>8. ASSUME NEW g, Solves(g)
      PROVE  TraceEnds(F, T, base, part, n, g[1..n])
  <2>1. ASSUME NEW P \in SUBSET (1..n)
        PROVE  g[P] = IF P = {} THEN base ELSE Grow(g[P \ {Max(P)}], part[Max(P)])
    BY <1>8
  <2>2. g[{}] = base
    BY <2>1
  <2>3. ASSUME NEW P \in SUBSET (1..n), P # {}, g[P \ {Max(P)}] \in T
        PROVE  g[P] = F[<<g[P \ {Max(P)}], part[Max(P)]>>]
    <3>1. part[Max(P)] \in E
      BY <1>4, <1>6, <2>3
    <3> QED BY <1>2, <2>1, <2>3, <3>1
  <2>4. IsFold(g, F, T, base, part, n)
    BY <2>2, <2>3 DEF IsFold
  <2> HIDE DEF Solves
  <2> QED BY <1>6a, <2>4, FoldTrace, Zenon
<1> DEFINE fold == CHOOSE g : Solves(g)
<1>9. Solves(fold)
  BY <1>7
<1> HIDE DEF fold, Solves
<1>10. PICK b : IsTrace(b, F, T, base, part, n) /\ b[n] = fold[1..n]
  BY <1>8, <1>9 DEF TraceEnds
<1>11. IsGrowthTrace(b, part, n)
  <2>1. b \in [0..n -> T] /\ b[0] = <<1, 1>>
    BY <1>10 DEF IsTrace, base
  <2>2. ASSUME NEW k \in 1..n PROVE b[k] = Grow(b[k - 1], part[k])
    <3>1. b[k] = F[<<b[k - 1], part[k]>>] /\ b[k - 1] \in T
      BY <1>10, <2>1 DEF IsTrace
    <3> QED BY <1>2, <1>4, <3>1
  <2> QED BY <2>1, <2>2 DEF IsGrowthTrace, T
<1>12. FoldLeft(LAMBDA acc, o : <<acc[1] * (Whole + o.net), acc[2] * Whole>>, <<1, 1>>, part)
         = b[n]
  BY <1>5, <1>10 DEF fold
<1> QED BY <1>11, <1>12

(* A factor more, on both sides of an equation or of an order.             *)
LEMMA FactorMoreEqual ==
  ASSUME NEW x \in Int, NEW y \in Int, NEW z, z = x * y, NEW u \in Int
  PROVE  z * u = x * (y * u)
OBVIOUS

(* One factor more on both sides keeps the order.                          *)
LEMMA FactorMoreAtMost ==
  ASSUME NEW x \in Int, NEW y \in Int, NEW z \in Int, x * y <= z, NEW u \in Nat
  PROVE  x * (y * u) <= z * u
<1>1. (x * y) * u = x * (y * u) /\ x * y \in Int
  OBVIOUS
<1> QED BY <1>1, ProductsOrdered

(* ... and what is not negative.                                           *)
LEMMA FactorMoreNatural ==
  ASSUME NEW y \in Int, NEW u \in Int, y >= 0, u >= 0
  PROVE  y * u >= 0
OBVIOUS

\* b grows as the rows after the first j do.
GrowsFrom(b, rows, j, m) ==
  /\ b \in [0..m -> GrowthState] /\ b[0] = <<1, 1>>
  /\ \A i \in 1..m : b[i] = Grow(b[i - 1], rows[j + i])

\* No moment of the m after j is at its peak.
UnderPeak(a, j, m) == \A i \in 1..m : a[j + i].peak # a[j + i].equity

(* Between two moments the equity is multiplied by the growth; the peak     *)
(* by its second part at least, and exactly if no moment after the first    *)
(* is at its peak.                                                         *)
LEMMA GrowthBetween ==
  ASSUME NEW rows, NEW n \in Nat, NetsAreInt(rows, n), NEW a, IsOutcomeTrace(a, rows, n),
         NEW j \in 0..n, NEW m \in 0..(n - j), NEW b, GrowsFrom(b, rows, j, m)
  PROVE  /\ b[m][1] \in Int /\ b[m][2] \in Nat \ {0}
         /\ a[j + m].equity = a[j].equity * b[m][1]
         /\ a[j].peak * b[m][2] <= a[j + m].peak
         /\ (\A k \in 1..n : rows[k].net >= -Whole) => b[m][1] >= 0
         /\ UnderPeak(a, j, m) => a[j + m].peak = a[j].peak * b[m][2]
<1> DEFINE floored == \A k \in 1..n : rows[k].net >= -Whole
           under == UnderPeak(a, j, m)
           Holds(i) == /\ a[j + i].equity = a[j].equity * b[i][1]
                       /\ a[j].peak * b[i][2] <= a[j + i].peak
                       /\ floored => b[i][1] >= 0
                       /\ under => a[j + i].peak = a[j].peak * b[i][2]
           bad == {i \in Nat : i <= m /\ ~Holds(i)}
<1>1. ASSUME NEW k \in 0..n
      PROVE  a[k].equity \in Int /\ a[k].peak \in Nat \ {0} /\ a[k] \in OutcomeState
  BY DEF IsOutcomeTrace, OutcomeState, Positive
<1>2. ASSUME NEW i \in 0..m PROVE b[i][1] \in Int /\ b[i][2] \in Nat \ {0}
  BY DEF GrowsFrom, GrowthState, Positive
<1>3. Whole \in Nat \ {0}
  BY ScalesAssumption
<1>4. ASSUME NEW i \in bad, \A l \in bad : i <= l PROVE FALSE
  <2>1. i \in 0..m /\ i \in Nat /\ ~Holds(i)
    OBVIOUS
  <2>2. i # 0
    <3>1. j + 0 = j /\ j \in 0..n /\ b[0] = <<1, 1>>
      BY DEF GrowsFrom
    <3>2. a[j].equity \in Int /\ a[j].peak \in Nat \ {0}
      BY <1>1
    <3>3. Holds(0)
      BY <3>1, <3>2
    <3> HIDE DEF Holds
    <3> QED BY <2>1, <3>3
  <2>3. /\ i - 1 \in 0..m /\ i - 1 \in Nat /\ ~(i <= i - 1) /\ i \in 1..m
        /\ j + i \in 1..n /\ j + i \in 0..n /\ j + (i - 1) \in 0..n
        /\ (j + i) - 1 = j + (i - 1)
    BY <2>1, <2>2
  <2>4. Holds(i - 1)
    <3>1. i - 1 \notin bad
      BY <1>4, <2>3
    <3> HIDE DEF Holds
    <3> QED BY <2>1, <2>3, <3>1
  <2> DEFINE net == rows[j + i].net
             e0 == a[j].equity
             p0 == a[j].peak
             e == a[j + (i - 1)].equity
             p == a[j + (i - 1)].peak
             x == b[i - 1][1]
             y == b[i - 1][2]
  <2>5. a[j + i] = Compound(a[j + (i - 1)], rows[j + i]) /\ net \in Int
    BY <2>3 DEF IsOutcomeTrace, NetsAreInt
  <2>6. /\ a[j + i].equity = e * (Whole + net)
        /\ a[j + i].peak \in {p * Whole, a[j + i].equity}
        /\ p * Whole <= a[j + i].peak
    <3>1. a[j + (i - 1)] \in OutcomeState /\ rows[j + i].net \in Int
      BY <1>1, <2>3, <2>5
    <3> QED BY <2>5, <3>1, CompoundStep
  <2>7. b[i][1] = x * (Whole + net) /\ b[i][2] = y * Whole
    BY <2>3 DEF GrowsFrom, Grow
  <2>8. /\ e0 \in Int /\ p0 \in Nat \ {0} /\ e \in Int /\ p \in Nat \ {0}
        /\ x \in Int /\ y \in Nat \ {0} /\ a[j + i].equity \in Int
        /\ a[j + i].peak \in Nat \ {0}
    BY <1>1, <1>2, <2>3
  <2>9. /\ e = e0 * x /\ p0 * y <= p
        /\ floored => x >= 0
        /\ under => p = p0 * y
    BY <2>4
  <2>10. Whole + net \in Int /\ (floored => Whole + net >= 0)
    BY <1>3, <2>3, <2>5
  <2>11. under => a[j + i].peak # a[j + i].equity
    BY <2>3 DEF UnderPeak
  <2> HIDE DEF net, e0, p0, e, p, x, y, floored, under
  <2>12. a[j + i].equity = e0 * b[i][1]
    <3> DEFINE u == Whole + net
    <3>1. u \in Int /\ a[j + i].equity = e * u /\ b[i][1] = x * u
      BY <2>6, <2>7, <2>10
    <3> HIDE DEF u
    <3>2. e = e0 * x => e * u = e0 * (x * u)
      <4>1. e0 \in Int /\ x \in Int /\ u \in Int
        BY <2>8, <3>1
      <4> QED BY <4>1, FactorMoreEqual
    <3> QED BY <2>9, <3>1, <3>2, Zenon
  <2>13. p0 * b[i][2] <= a[j + i].peak
    <3>1. Whole \in Nat /\ p0 \in Int /\ y \in Int /\ p \in Int
      BY <1>3, <2>8
    <3>2. p0 * y <= p => p0 * (y * Whole) <= p * Whole
      BY <3>1, FactorMoreAtMost, Zenon
    <3>3. p0 * (y * Whole) \in Int /\ p * Whole \in Int
      BY <3>1
    <3>4. p0 * b[i][2] = p0 * (y * Whole) /\ p0 * y <= p
      BY <2>7, <2>9, Zenon
    <3> QED BY <2>6, <2>8, <3>2, <3>3, <3>4
  <2>14. floored => b[i][1] >= 0
    <3> DEFINE u == Whole + net
    <3>1. u \in Int /\ b[i][1] = x * u /\ (floored => u >= 0)
      BY <2>7, <2>10
    <3> HIDE DEF u
    <3>2. x >= 0 /\ u >= 0 => x * u >= 0
      BY <2>8, <3>1, FactorMoreNatural, Zenon
    <3> QED BY <2>9, <3>1, <3>2, Zenon
  <2>15. under => a[j + i].peak = p0 * b[i][2]
    <3>1. Whole \in Int /\ p0 \in Int /\ y \in Int /\ p \in Int
      BY <1>3, <2>8
    <3>2. p = p0 * y => p * Whole = p0 * (y * Whole)
      BY <3>1, FactorMoreEqual
    <3> QED BY <2>6, <2>7, <2>9, <2>11, <3>2
  <2> QED BY <2>1, <2>12, <2>13, <2>14, <2>15 DEF e0, p0
<1>5. bad \in SUBSET Nat
  OBVIOUS
<1>6. m \notin bad
  <2> HIDE DEF bad
  <2> QED BY <1>4, <1>5, LeastNumber
<1>7. Holds(m)
  <2>1. m \in Nat /\ m <= m
    OBVIOUS
  <2> HIDE DEF Holds
  <2> QED BY <1>6, <2>1
<1>8. b[m][1] \in Int /\ b[m][2] \in Nat \ {0}
  <2>1. m \in 0..m
    OBVIOUS
  <2> QED BY <1>2, <2>1
<1> QED BY <1>7, <1>8

(* A ratio above all of a set and not above one of them is rounded as the   *)
(* greatest of the set.                                                    *)
LEMMA GreatestIs ==
  ASSUME NEW S \in SUBSET Ratios, NEW x \in Ratios, NEW unit \in Nat,
         \A z \in S : AtMost(z, x), \E y \in S : AtMost(x, y)
  PROVE  Rounded(Greatest(S), unit) = Rounded(x, unit)
<1>1. PICK y \in S : AtMost(x, y)
  OBVIOUS
<1>2. \A z \in S : z \in Ratios
  OBVIOUS
<1>3. \A z \in S : AtMost(z, y)
  BY <1>1, <1>2, AtMostOrders
<1> DEFINE g == Greatest(S)
<1>4. g \in S /\ \A z \in S : AtMost(z, g)
  BY <1>1, <1>3, Zenon DEF Greatest
<1> HIDE DEF g
<1>5. g \in Ratios /\ AtMost(g, x) /\ AtMost(x, g)
  BY <1>1, <1>2, <1>4, AtMostOrders
<1>6. Rounded(g, unit) = Rounded(x, unit)
  BY <1>5, EqualRatios
<1> QED BY <1>6 DEF g

(* The growth over a part of the outcomes, as the end of a trace.          *)
LEMMA GrowthOfPart ==
  ASSUME NEW outcomes, NEW n \in Nat, NetsAreInt(outcomes, n),
         NEW from \in 1..n, NEW to \in 1..n
  PROVE  LET m == IF from <= to THEN to - from + 1 ELSE 0 IN
         \E b : GrowsFrom(b, outcomes, from - 1, m) /\ Growth(outcomes, from, to) = b[m]
<1> DEFINE S == {outcomes[k] : k \in 1..n}
           m == IF from <= to THEN to - from + 1 ELSE 0
           part == SubSeq(outcomes, from, to)
<1>1. from \in Int /\ to \in Int /\ m \in Nat
  OBVIOUS
<1>2. \A i \in from..to : outcomes[i] \in S
  OBVIOUS
<1> HIDE DEF S
<1>3. /\ part \in Seq(S) /\ Len(part) = m
      /\ \A i \in 1..(to - from + 1) : part[i] = outcomes[from + i - 1]
  BY <1>1, <1>2, SubSeqProperties
<1> HIDE DEF part
<1>4. DOMAIN part = 1..m
  <2> HIDE DEF m
  <2> QED BY <1>3
<1>5. ASSUME NEW i \in 1..m
      PROVE  part[i] = outcomes[(from - 1) + i] /\ outcomes[(from - 1) + i].net \in Int
  <2>1. from <= to /\ i \in 1..(to - from + 1)
    OBVIOUS
  <2>2. (from - 1) + i = from + i - 1 /\ (from - 1) + i \in 1..n
    BY <2>1
  <2> HIDE DEF m
  <2> QED BY <1>3, <2>1, <2>2 DEF NetsAreInt
<1>6. NetsAreInt(part, m)
  <2> HIDE DEF m
  <2> QED BY <1>5 DEF NetsAreInt
<1> HIDE DEF m
<1>7. PICK b : /\ IsGrowthTrace(b, part, m)
               /\ FoldLeft(LAMBDA acc, o : <<acc[1] * (Whole + o.net), acc[2] * Whole>>,
                           <<1, 1>>, part) = b[m]
  BY <1>1, <1>4, <1>6, GrowthTrace
<1>8. GrowsFrom(b, outcomes, from - 1, m)
  BY <1>5, <1>7 DEF IsGrowthTrace, GrowsFrom
<1>9. Growth(outcomes, from, to) = b[m]
  BY <1>7 DEF Growth, part
<1> QED BY <1>8, <1>9 DEF m

(* A fall over a part is not above the deepest fall kept.                  *)
LEMMA FallOverAtMost ==
  ASSUME NEW outcomes, NEW n \in Nat, NetsAreInt(outcomes, n),
         \A k \in 1..n : outcomes[k].net >= -Whole,
         NEW a, IsOutcomeTrace(a, outcomes, n), NEW from \in 1..n, NEW to \in 1..n
  PROVE  /\ FallOver(outcomes, from, to) \in Ratios
         /\ AtMost(FallOver(outcomes, from, to), a[n].fall)
<1> DEFINE m == IF from <= to THEN to - from + 1 ELSE 0
           j == from - 1
<1>1. PICK b : GrowsFrom(b, outcomes, j, m) /\ Growth(outcomes, from, to) = b[m]
  BY GrowthOfPart, Zenon
<1>2. j \in 0..n /\ m \in 0..(n - j) /\ j + m \in 0..n
  OBVIOUS
<1> HIDE DEF m, j
<1> DEFINE g1 == b[m][1]
           g2 == b[m][2]
           ej == a[j].equity
           pj == a[j].peak
           e == a[j + m].equity
           p == a[j + m].peak
<1>3. g1 \in Int /\ g2 \in Nat \ {0} /\ e = ej * g1 /\ pj * g2 <= p /\ g1 >= 0
  BY <1>1, <1>2, GrowthBetween
<1>4. /\ ej \in Int /\ pj \in Nat \ {0} /\ e \in Int /\ p \in Nat \ {0} /\ ej <= pj
  BY <1>2, FallKept DEF OutcomeState, Positive
<1>5. /\ Below(a[j + m]) = <<p - e, p>> /\ Below(a[j + m]) \in Ratios
      /\ AtMost(Below(a[j + m]), a[j + m].fall) /\ a[j + m].fall \in Ratios
      /\ AtMost(a[j + m].fall, a[n].fall) /\ a[n].fall \in Ratios
  <2>1. n \in 0..n
    OBVIOUS
  <2>2. AtMost(a[j + m].fall, a[n].fall)
    BY <1>2, FallsGrow
  <2> QED BY <1>2, <2>1, <2>2, FallKept DEF Below
<1>6. FallOver(outcomes, from, to) = <<g2 - g1, g2>>
  BY <1>1 DEF FallOver
<1> HIDE DEF g1, g2, ej, pj, e, p
<1>7. g2 - g1 \in Int /\ <<g2 - g1, g2>> \in Ratios
  BY <1>3 DEF Ratios
<1>8. (g2 - g1) * p <= (p - e) * g2
  <2>1. g1 \in Nat /\ g2 \in Nat
    BY <1>3
  <2>2. ej * g2 <= pj * g2 /\ ej * g2 \in Int /\ pj * g2 \in Int
    BY <1>4, <2>1, ProductsOrdered
  <2>3. ej * g2 <= p
    BY <1>3, <1>4, <2>2
  <2>4. (ej * g2) * g1 <= p * g1
    BY <1>4, <2>1, <2>2, <2>3, ProductsOrdered
  <2>5. (ej * g2) * g1 = (ej * g1) * g2 /\ (ej * g1) * g2 \in Int /\ p * g1 \in Int
    BY <1>4, <2>1
  <2>6. e * g2 <= p * g1 /\ e * g2 \in Int
    <3>1. e * g2 = (ej * g1) * g2
      BY <1>3
    <3> QED BY <2>4, <2>5, <3>1
  <2>7. (g2 - g1) * p = g2 * p - p * g1 /\ (p - e) * g2 = g2 * p - e * g2 /\ g2 * p \in Int
    BY <1>4, <2>1
  <2> QED BY <2>5, <2>6, <2>7
<1>9. AtMost(<<g2 - g1, g2>>, Below(a[j + m]))
  BY <1>5, <1>8 DEF AtMost
<1>10. AtMost(<<g2 - g1, g2>>, a[n].fall)
  BY <1>5, <1>7, <1>9, AtMostOrders
<1> QED BY <1>6, <1>7, <1>10

(* And the deepest fall is none or not above the fall over some part.      *)
LEMMA FallOverAttains ==
  ASSUME NEW outcomes, NEW n \in Nat, NetsAreInt(outcomes, n),
         NEW a, IsOutcomeTrace(a, outcomes, n)
  PROVE  \/ AtMost(a[n].fall, <<0, 1>>)
         \/ \E from, to \in 1..n : AtMost(a[n].fall, FallOver(outcomes, from, to))
<1>1. CASE a[n].fall = <<0, 1>>
  BY <1>1 DEF AtMost
<1>2. ASSUME NEW k \in 1..n, a[n].fall = Below(a[k])
      PROVE  \/ AtMost(Below(a[k]), <<0, 1>>)
             \/ \E from, to \in 1..n : AtMost(Below(a[k]), FallOver(outcomes, from, to))
  <2> DEFINE atpeak == {i \in 0..k : a[i].peak = a[i].equity}
             f == [i \in atpeak |-> i]
  <2>1. atpeak # {} /\ IsFiniteSet(atpeak)
    <3>1. a[0].peak = a[0].equity /\ 0 \in 0..k
      BY DEF IsOutcomeTrace, OutcomeStart
    <3>2. IsFiniteSet(0..k) /\ atpeak \subseteq 0..k
      BY FS_Interval
    <3>3. IsFiniteSet(atpeak)
      BY <3>2, FS_Subset
    <3> QED BY <3>1, <3>3
  <2>2. \A i \in atpeak : f[i] \in Int /\ f[i] = i
    OBVIOUS
  <2>2a. \A i \in 0..k : i \in atpeak <=> a[i].peak = a[i].equity
    OBVIOUS
  <2>2b. atpeak \subseteq 0..k
    OBVIOUS
  <2> HIDE DEF f, atpeak
  <2>3. PICK j \in atpeak : \A i \in atpeak : f[i] <= f[j]
    BY <2>1, <2>2, GreatestOf
  <2>4. j \in 0..k /\ a[j].peak = a[j].equity /\ \A i \in atpeak : i <= j
    BY <2>2, <2>2a, <2>2b, <2>3
  <2>5. \A i \in 0..n : a[i].equity \in Int /\ a[i].peak \in Nat \ {0}
    BY DEF IsOutcomeTrace, OutcomeState, Positive
  <2>6. CASE j = k
    <3> DEFINE p == a[k].peak
    <3>1. p \in Nat \ {0} /\ Below(a[k]) = <<p - p, p>>
      BY <2>4, <2>5, <2>6 DEF Below
    <3> HIDE DEF p
    <3>2. p - p = 0 /\ 0 * 1 = 0 /\ 0 * p = 0
      BY <3>1
    <3>3. AtMost(<<0, p>>, <<0, 1>>)
      BY <3>2 DEF AtMost
    <3> QED BY <3>1, <3>2, <3>3
  <2>7. CASE j # k
    <3> DEFINE m == k - j
               from == j + 1
    <3>1. /\ j \in 0..n /\ m \in 0..(n - j) /\ m \in Nat \ {0} /\ j + m = k
          /\ from \in 1..n /\ from - 1 = j /\ from <= k /\ k - from + 1 = m
      BY <2>4, <2>7
    <3> HIDE DEF m, from
    <3>2. PICK b : GrowsFrom(b, outcomes, j, m) /\ Growth(outcomes, from, k) = b[m]
      <4>1. \E b : /\ GrowsFrom(b, outcomes, from - 1, k - from + 1)
                   /\ Growth(outcomes, from, k) = b[k - from + 1]
        <5> DEFINE length == IF from <= k THEN k - from + 1 ELSE 0
        <5>1. \E b : GrowsFrom(b, outcomes, from - 1, length)
                     /\ Growth(outcomes, from, k) = b[length]
          BY <3>1, GrowthOfPart, Zenon
        <5>2. length = k - from + 1
          BY <3>1
        <5> HIDE DEF length
        <5> QED BY <5>1, <5>2
      <4> QED BY <3>1, <4>1
    <3>3. UnderPeak(a, j, m)
      <4> SUFFICES ASSUME NEW i \in 1..m PROVE j + i \notin atpeak
        <5>1. \A i \in 1..m : j + i \in 0..k
          BY <2>4, <3>1
        <5> QED BY <2>2a, <5>1 DEF UnderPeak
      <4>1. ~(j + i <= j)
        BY <2>4, <3>1
      <4> QED BY <2>4, <4>1
    <3> DEFINE g1 == b[m][1]
               g2 == b[m][2]
               pj == a[j].peak
    <3>4. /\ g1 \in Int /\ g2 \in Nat \ {0} /\ pj \in Nat \ {0}
          /\ a[k].equity = pj * g1 /\ a[k].peak = pj * g2
      <4>1. /\ b[m][1] \in Int /\ b[m][2] \in Nat \ {0}
            /\ a[j + m].equity = a[j].equity * b[m][1]
            /\ a[j + m].peak = a[j].peak * b[m][2]
        <5>1. j \in 0..n /\ m \in 0..(n - j) /\ GrowsFrom(b, outcomes, j, m)
          BY <3>1, <3>2
        <5> QED BY <3>3, <5>1, GrowthBetween
      <4> QED BY <2>4, <2>5, <3>1, <4>1
    <3>5. /\ Below(a[k]) = <<a[k].peak - a[k].equity, a[k].peak>>
          /\ FallOver(outcomes, from, k) = <<g2 - g1, g2>>
      BY <3>2 DEF Below, FallOver
    <3> HIDE DEF g1, g2, pj
    <3>6. (pj * g2 - pj * g1) * g2 = (g2 - g1) * (pj * g2)
      BY <3>4
    <3>7. AtMost(<<pj * g2 - pj * g1, pj * g2>>, <<g2 - g1, g2>>)
      <4>1. (g2 - g1) * (pj * g2) <= (g2 - g1) * (pj * g2)
        BY <3>4
      <4> QED BY <3>6, <4>1 DEF AtMost
    <3>8. AtMost(Below(a[k]), FallOver(outcomes, from, k))
      BY <3>4, <3>5, <3>7
    <3> QED BY <3>1, <3>8
  <2> QED BY <2>6, <2>7
<1> QED BY <1>1, <1>2, FallAttained

(* Of outcomes of which none loses more than everything, the drawdown of    *)
(* the summary is the greatest of the falls over their parts.              *)
LEMMA ShadowDrawdown ==
  ASSUME NEW r \in ShadowPerformanceRequest,
         \A k \in DOMAIN r.outcomes : r.outcomes[k].net >= -Whole
  PROVE  Rounded(Shadow!MaxDrawdown(ShadowRows(r)), Unit)
           = Rounded(Greatest(OutcomeFalls(r.outcomes)), Unit)
<1> DEFINE outcomes == r.outcomes
           rows == ShadowRows(r)
           n == Len(outcomes)
           S == OutcomeFalls(outcomes)
<1>1. r.outcomes \in Seq(ShadowTradeOutcome)
  BY DEF ShadowPerformanceRequest
<1>2. /\ n \in Nat /\ DOMAIN outcomes = 1..n /\ DOMAIN rows = 1..n
      /\ \A k \in 1..n : rows[k].net = outcomes[k].net /\ rows[k].net \in Int
  BY <1>1, RowsOfOutcomes
<1>3. \A k \in 1..n : outcomes[k].net >= -Whole
  BY <1>2
<1>4. S = {FallOver(outcomes, from, to) : from, to \in 1..n} \cup {<<0, 1>>}
  BY DEF OutcomeFalls
<1> HIDE DEF outcomes, rows, n, S
<1>5. NetsAreInt(rows, n) /\ NetsAreInt(outcomes, n)
  BY <1>2 DEF NetsAreInt
<1>6. PICK a : IsOutcomeTrace(a, rows, n) /\ Shadow!MaxDrawdown(rows) = a[n].fall
  BY <1>2, <1>5, OutcomeTrace
<1>7. IsOutcomeTrace(a, outcomes, n)
  <2>1. \A k \in 1..n : Compound(a[k - 1], rows[k]) = Compound(a[k - 1], outcomes[k])
    BY <1>2 DEF Compound
  <2> QED BY <1>6, <2>1 DEF IsOutcomeTrace
<1>8. a[n].fall \in Ratios /\ <<0, 1>> \in Ratios /\ AtMost(<<0, 1>>, a[n].fall)
  <2>1. n \in 0..n /\ 0 \in 0..n
    BY <1>2
  <2>2. AtMost(a[0].fall, a[n].fall)
    BY <1>2, <1>5, <1>6, <2>1, FallsGrow
  <2>3. a[0].fall = <<0, 1>>
    BY <1>6 DEF IsOutcomeTrace, OutcomeStart
  <2>4. a[n].fall \in Ratios
    BY <1>2, <1>5, <1>6, <2>1, FallKept
  <2> QED BY <2>2, <2>3, <2>4 DEF Ratios
<1>9. \A from, to \in 1..n : /\ FallOver(outcomes, from, to) \in Ratios
                             /\ AtMost(FallOver(outcomes, from, to), a[n].fall)
  BY <1>2, <1>3, <1>5, <1>7, FallOverAtMost
<1>10. S \in SUBSET Ratios /\ \A z \in S : AtMost(z, a[n].fall)
  BY <1>4, <1>8, <1>9
<1>11. \E y \in S : AtMost(a[n].fall, y)
  <2>1. \/ AtMost(a[n].fall, <<0, 1>>)
        \/ \E from, to \in 1..n : AtMost(a[n].fall, FallOver(outcomes, from, to))
    BY <1>2, <1>5, <1>7, FallOverAttains, Zenon
  <2>2. \A from, to \in 1..n : FallOver(outcomes, from, to) \in S
    BY <1>4
  <2>3. <<0, 1>> \in S
    BY <1>4
  <2> QED BY <2>1, <2>2, <2>3, Zenon
<1>12. Unit \in Nat
  BY ScalesAssumption
<1>13. Rounded(Greatest(S), Unit) = Rounded(a[n].fall, Unit)
  BY <1>8, <1>10, <1>11, <1>12, GreatestIs
<1> QED BY <1>6, <1>13 DEF rows, outcomes, S

-----------------------------------------------------------------------------
(* The report and the cost summary sort alike.                             *)
LEMMA SameSort ==
  \A key : /\ Reports!SortedOrder(key) = SortedOrder(key)
           /\ Costs!SortedOrder(key) = SortedOrder(key)
<1>1. \A key, j, k : /\ Reports!Before(key, j, k) = Before(key, j, k)
                     /\ Costs!Before(key, j, k) = Before(key, j, k)
  BY DEF Reports!Before, Costs!Before, Before
<1>2. ASSUME NEW key, NEW k
      PROVE  Reports!Place(key, k) = Place(key, k) /\ Costs!Place(key, k) = Place(key, k)
  <2>1. /\ {j \in DOMAIN key : Reports!Before(key, j, k)}
             = {j \in DOMAIN key : Before(key, j, k)}
        /\ {j \in DOMAIN key : Costs!Before(key, j, k)}
             = {j \in DOMAIN key : Before(key, j, k)}
    BY <1>1
  <2> QED BY <2>1, SameOperators DEF Reports!Place, Costs!Place, Place
<1> QED BY <1>2 DEF Reports!SortedOrder, Costs!SortedOrder, SortedOrder

\* A list of n integers to sort by.
IsKey(key, n) == n \in Nat /\ DOMAIN key = 1..n /\ \A k \in 1..n : key[k] \in Int

(* Before orders its positions, no two alike.                              *)
LEMMA BeforeOrders ==
  ASSUME NEW key, NEW n, IsKey(key, n), NEW j \in 1..n, NEW k \in 1..n
  PROVE  /\ Before(key, k, k)
         /\ Before(key, j, k) \/ Before(key, k, j)
         /\ Before(key, j, k) /\ Before(key, k, j) => j = k
         /\ \A i \in 1..n : Before(key, i, j) /\ Before(key, j, k) => Before(key, i, k)
<1>1. \A i \in 1..n : key[i] \in Int /\ i \in Int
  BY DEF IsKey
<1> QED BY <1>1 DEF Before

(* So their places are the numbers up to n, each once and in that order.    *)
LEMMA PlacesNumber ==
  ASSUME NEW key, NEW n, IsKey(key, n)
  PROVE  /\ \A k \in 1..n : Place(key, k) \in 1..n
         /\ \A j, k \in 1..n : Before(key, j, k) <=> Place(key, j) <= Place(key, k)
         /\ \A j, k \in 1..n : Place(key, j) = Place(key, k) => j = k
         /\ \A p \in 1..n : \E k \in 1..n : Place(key, k) = p
<1> DEFINE upto(k) == {j \in 1..n : Before(key, j, k)}
           place == [k \in 1..n |-> Place(key, k)]
<1>1. n \in Nat /\ IsFiniteSet(1..n) /\ Cardinality(1..n) = n
  BY CountTo DEF IsKey
<1>2. ASSUME NEW k \in 1..n
      PROVE  /\ k \in upto(k) /\ upto(k) \in SUBSET (1..n)
             /\ IsFiniteSet(upto(k)) /\ Place(key, k) = Cardinality(upto(k))
             /\ Place(key, k) \in 1..n
  <2>1. k \in upto(k) /\ upto(k) \in SUBSET (1..n)
    BY BeforeOrders
  <2>2. Place(key, k) = Cardinality(upto(k))
    BY DEF Place, IsKey
  <2> HIDE DEF upto
  <2>3. IsFiniteSet(upto(k)) /\ Cardinality(upto(k)) <= n /\ Cardinality(upto(k)) \in Nat
    BY <1>1, <2>1, FS_Subset, FS_CardinalityType
  <2>4. Cardinality(upto(k)) # 0
    BY <2>1, <2>3, FS_EmptySet
  <2> QED BY <1>1, <2>1, <2>2, <2>3, <2>4
<1>3. ASSUME NEW j \in 1..n, NEW k \in 1..n, Before(key, j, k), j # k
      PROVE  Place(key, j) < Place(key, k)
  <2>1. upto(j) \in SUBSET upto(k)
    BY <1>3, BeforeOrders
  <2>2. k \in upto(k) /\ k \notin upto(j)
    BY <1>3, BeforeOrders
  <2> HIDE DEF upto
  <2>3. Cardinality(upto(j)) <= Cardinality(upto(k)) /\ Cardinality(upto(j)) # Cardinality(upto(k))
    BY <1>2, <2>1, <2>2, FS_Subset
  <2> QED BY <1>2, <2>3
<1>4. ASSUME NEW j \in 1..n, NEW k \in 1..n
      PROVE  /\ Before(key, j, k) <=> Place(key, j) <= Place(key, k)
             /\ Place(key, j) = Place(key, k) => j = k
  <2>1. Before(key, j, k) \/ Before(key, k, j)
    BY BeforeOrders
  <2>2. Place(key, j) \in Int /\ Place(key, k) \in Int
    <3>1. Place(key, j) \in 1..n /\ Place(key, k) \in 1..n
      BY <1>2
    <3> QED BY <3>1
  <2>3. Before(key, k, k)
    BY BeforeOrders
  <2> QED BY <1>3, <2>1, <2>2, <2>3
<1>5. \A k \in 1..n : place[k] \in 1..n /\ place[k] = Place(key, k)
  BY <1>2
<1>6. place \in Injection(1..n, 1..n)
  <2>1. place \in [1..n -> 1..n]
    BY <1>2
  <2>2. \A j, k \in 1..n : place[j] = place[k] => j = k
    BY <1>4, <1>5
  <2> HIDE DEF place
  <2> QED BY <2>1, <2>2 DEF Injection, IsInjective
<1>7. place \in Surjection(1..n, 1..n)
  BY <1>1, <1>6, FS_Injection
<1>8. \A p \in 1..n : \E k \in 1..n : Place(key, k) = p
  <2> HIDE DEF place
  <2> QED BY <1>5, <1>7 DEF Surjection
<1> QED BY <1>2, <1>4, <1>8

(* And the order reads the positions by their places.                      *)
LEMMA SortedOrderIs ==
  ASSUME NEW key, NEW n, IsKey(key, n), NEW order, order = SortedOrder(key)
  PROVE  /\ DOMAIN order = 1..n
         /\ \A p \in 1..n : order[p] \in 1..n /\ Place(key, order[p]) = p
         /\ \A k \in 1..n : \E p \in 1..n : order[p] = k
         /\ \A p, q \in 1..n : p <= q <=> Before(key, order[p], order[q])
<1> DEFINE place == [k \in DOMAIN key |-> Place(key, k)]
<1>1. DOMAIN key = 1..n /\ order = [p \in DOMAIN key |-> CHOOSE j \in DOMAIN key : place[j] = p]
  BY DEF SortedOrder, IsKey
<1>2. \A k \in 1..n : place[k] = Place(key, k)
  BY <1>1
<1> HIDE DEF place
<1>3. ASSUME NEW p \in 1..n PROVE order[p] \in 1..n /\ Place(key, order[p]) = p
  <2>1. \E j \in 1..n : place[j] = p
    BY <1>2, PlacesNumber
  <2>2. order[p] = CHOOSE j \in 1..n : place[j] = p
    BY <1>1
  <2> QED BY <1>2, <2>1, <2>2
<1>4. ASSUME NEW k \in 1..n PROVE \E p \in 1..n : order[p] = k
  <2>1. Place(key, k) \in 1..n
    BY PlacesNumber
  <2>2. Place(key, order[Place(key, k)]) = Place(key, k) /\ order[Place(key, k)] \in 1..n
    BY <1>3, <2>1
  <2>3. order[Place(key, k)] = k
    BY <2>2, PlacesNumber
  <2> QED BY <2>1, <2>3
<1>5. \A p, q \in 1..n : p <= q <=> Before(key, order[p], order[q])
  BY <1>3, PlacesNumber
<1> QED BY <1>1, <1>3, <1>4, <1>5

-----------------------------------------------------------------------------
(* The drawdown of a curve: the state of its loop, and one pass.           *)
CurveState == [peak : Positive, fall : Ratios]
CurveStart(points) == [peak |-> points[1].equity, fall |-> <<0, 1>>]
Visit(acc, point) ==
  LET peak == Reports!Max({acc.peak, point.equity})
  IN  [peak |-> peak, fall |-> Reports!Larger(acc.fall, <<peak - point.equity, peak>>)]

\* c is that state after each of the points.
IsCurveTrace(c, points, n) ==
  /\ c \in [0..n -> CurveState] /\ c[0] = CurveStart(points)
  /\ \A k \in 1..n : c[k] = Visit(c[k - 1], points[k])

\* The points of a curve that is not empty, in order.
ArePoints(points, n) ==
  /\ n \in Nat \ {0} /\ DOMAIN points = 1..n
  /\ \A k \in 1..n : points[k].equity \in Positive

(* What a pass does.                                                       *)
LEMMA VisitStep ==
  ASSUME NEW acc \in CurveState, NEW point, point.equity \in Positive
  PROVE  LET next == Visit(acc, point) IN
         /\ next \in CurveState
         /\ next.peak \in {acc.peak, point.equity}
         /\ acc.peak <= next.peak /\ point.equity <= next.peak
         /\ <<next.peak - point.equity, next.peak>> \in Ratios
         /\ next.fall = Larger(acc.fall, <<next.peak - point.equity, next.peak>>)
<1> DEFINE peak == Max({acc.peak, point.equity})
<1>1. /\ acc.peak \in Nat \ {0} /\ acc.fall \in Ratios
      /\ point.equity \in Nat \ {0} /\ acc.peak \in Int /\ point.equity \in Int
  BY DEF CurveState, Positive
<1>2. Visit(acc, point) = [peak |-> peak,
                           fall |-> Larger(acc.fall, <<peak - point.equity, peak>>)]
  BY SameRatioOperators DEF Visit
<1>3. /\ peak \in {acc.peak, point.equity} /\ peak \in Int
      /\ acc.peak <= peak /\ point.equity <= peak
  BY <1>1, MaxOfTwo, Zenon
<1> HIDE DEF peak
<1>4. peak \in Nat \ {0} /\ peak - point.equity \in Int
  BY <1>1, <1>3
<1>5. <<peak - point.equity, peak>> \in Ratios
  BY <1>4 DEF Ratios
<1>6. Larger(acc.fall, <<peak - point.equity, peak>>) \in Ratios
  BY <1>1, <1>5, LargerOfRatios
<1>7. Visit(acc, point) \in CurveState
  BY <1>2, <1>4, <1>6 DEF CurveState, Positive
<1> QED BY <1>2, <1>3, <1>5, <1>7

\* The drawdown of a curve in order, as the report folds it.
FallOfPoints(points) ==
  LET visit(acc, point) ==
        LET peak == Reports!Max({acc.peak, point.equity})
        IN  [peak |-> peak,
             fall |-> Reports!Larger(acc.fall, <<peak - point.equity, peak>>)]
  IN  Reports!FoldLeft(visit, [peak |-> points[1].equity, fall |-> <<0, 1>>], points).fall

(* The fold over the points is the state that such a trace ends with.      *)
LEMMA CurveTrace ==
  ASSUME NEW points, NEW n, ArePoints(points, n)
  PROVE  \E c : IsCurveTrace(c, points, n) /\ FallOfPoints(points) = c[n].fall
<1> DEFINE T == CurveState
           E == {points[k] : k \in 1..n}
           F == [p \in T \X E |-> Visit(p[1], p[2])]
           base == CurveStart(points)
           Solves(g) == g = [P \in SUBSET (DOMAIN points) |->
                               IF P = {} THEN base
                               ELSE Visit(g[P \ {Max(P)}], points[Max(P)])]
<1>0. n \in Nat /\ 1 \in 1..n /\ DOMAIN points = 1..n
  BY DEF ArePoints
<1>1. \A acc \in T, point \in E : Visit(acc, point) \in T
  BY VisitStep DEF ArePoints
<1>2. F \in [T \X E -> T] /\ \A acc \in T, point \in E : F[<<acc, point>>] = Visit(acc, point)
  BY <1>1
<1>3. base \in T
  BY <1>0 DEF CurveStart, CurveState, Positive, Ratios, ArePoints
<1>4. \A k \in 1..n : points[k] \in E
  OBVIOUS
<1>5. FallOfPoints(points) = ((CHOOSE g : Solves(g))[DOMAIN points]).fall
  <2>1. FallOfPoints(points)
          = ((CHOOSE g : g = [P \in SUBSET (DOMAIN points) |->
                               IF P = {} THEN base
                               ELSE Visit(g[P \ {Reports!Max(P)}], points[Reports!Max(P)])])
                  [DOMAIN points]).fall
    BY DEF FallOfPoints, Reports!FoldLeft, Reports!MapThenFoldSet, CurveStart, Visit
  <2> QED BY <2>1 DEF Reports!Max, Max
<1>6. \A P \in SUBSET (1..n) : P # {} => Max(P) \in 1..n
  BY <1>0, LastPosition
<1> HIDE DEF T, E, F, base
<1>6a. IsFolding(F, T, E, base, points, n)
  BY <1>0, <1>2, <1>3, <1>4 DEF IsFolding
<1>7. \E g : Solves(g)
  <2>1. PICK g : IsRun(g, F, T, base, points, n)
    BY <1>6a, RunExists, Zenon
  <2>2. g \in [SUBSET (1..n) -> T]
    BY <2>1 DEF IsRun
  <2>3. ASSUME NEW P \in SUBSET (1..n)
        PROVE  g[P] = IF P = {} THEN base ELSE Visit(g[P \ {Max(P)}], points[Max(P)])
    <3>1. CASE P = {}
      BY <2>1, <3>1 DEF IsRun
    <3>2. CASE P # {}
      <4>1. g[P] = F[<<g[P \ {Max(P)}], points[Max(P)]>>]
        BY <2>1, <3>2 DEF IsRun
      <4>2. g[P \ {Max(P)}] \in T /\ points[Max(P)] \in E
        BY <1>4, <1>6, <2>2, <3>2
      <4> QED BY <1>2, <3>2, <4>1, <4>2
    <3> QED BY <3>1, <3>2
  <2>4. Solves(g)
    BY <1>0, <2>2, <2>3
  <2> QED BY <2>4
<1>8. ASSUME NEW g, Solves(g)
      PROVE  TraceEnds(F, T, base, points, n, g[1..n])
  <2>1. ASSUME NEW P \in SUBSET (1..n)
        PROVE  g[P] = IF P = {} THEN base ELSE Visit(g[P \ {Max(P)}], points[Max(P)])
    BY <1>0, <1>8
  <2>2. g[{}] = base
    BY <2>1
  <2>3. ASSUME NEW P \in SUBSET (1..n), P # {}, g[P \ {Max(P)}] \in T
        PROVE  g[P] = F[<<g[P \ {Max(P)}], points[Max(P)]>>]
    <3>1. points[Max(P)] \in E
      BY <1>4, <1>6, <2>3
    <3> QED BY <1>2, <2>1, <2>3, <3>1
  <2>4. IsFold(g, F, T, base, points, n)
    BY <2>2, <2>3 DEF IsFold
  <2> HIDE DEF Solves
  <2> QED BY <1>6a, <2>4, FoldTrace, Zenon
<1> DEFINE fold == CHOOSE g : Solves(g)
<1>9. Solves(fold)
  BY <1>7
<1> HIDE DEF fold, Solves
<1>10. PICK c : IsTrace(c, F, T, base, points, n) /\ c[n] = fold[1..n]
  BY <1>8, <1>9 DEF TraceEnds
<1>11. IsCurveTrace(c, points, n)
  <2>1. c \in [0..n -> T] /\ c[0] = base
    BY <1>10 DEF IsTrace
  <2>2. ASSUME NEW k \in 1..n PROVE c[k] = Visit(c[k - 1], points[k])
    <3>1. c[k] = F[<<c[k - 1], points[k]>>] /\ c[k - 1] \in T
      BY <1>0, <1>10, <2>1 DEF IsTrace
    <3> QED BY <1>2, <1>4, <3>1
  <2> QED BY <2>1, <2>2 DEF IsCurveTrace, T, base
<1>12. FallOfPoints(points) = c[n].fall
  BY <1>0, <1>5, <1>10 DEF fold
<1> QED BY <1>11, <1>12

\* The fall from one point to another.
Drop(points, j, k) == <<points[j].equity - points[k].equity, points[j].equity>>

\* The peak is the highest equity so far, the fall the deepest drop.
HighestSoFar(c, points, m) ==
  /\ \A j \in 1..m : points[j].equity <= c[m].peak
  /\ IF m = 0 THEN c[m].peak = points[1].equity
     ELSE \E j \in 1..m : c[m].peak = points[j].equity
DeepestSoFar(c, points, m) ==
  /\ \A j, k \in 1..m : j <= k => AtMost(Drop(points, j, k), c[m].fall)
  /\ \/ c[m].fall = <<0, 1>>
     \/ \E j, k \in 1..m : j <= k /\ c[m].fall = Drop(points, j, k)

(* One more point: the peak stays the highest so far and the fall the      *)
(* deepest so far.                                                         *)
LEMMA CurveTracePasses ==
  ASSUME NEW points, NEW n, ArePoints(points, n), NEW c, IsCurveTrace(c, points, n),
         NEW m \in 1..n, HighestSoFar(c, points, m - 1), DeepestSoFar(c, points, m - 1)
  PROVE  HighestSoFar(c, points, m) /\ DeepestSoFar(c, points, m)
<1> DEFINE eq(k) == points[k].equity
           peak == c[m].peak
           before == c[m - 1].peak
           now == <<peak - eq(m), peak>>
<1>1. /\ n \in Nat /\ m - 1 \in 0..n /\ m \in 0..n /\ 1 \in 1..n
      /\ \A k \in 1..n : eq(k) \in Nat \ {0}
      /\ \A k \in 1..m : k = m \/ k \in 1..(m - 1)
      /\ \A k \in 1..m : k \in 1..n
      /\ m \in 1..m
  BY DEF ArePoints, Positive
<1>2. /\ c[m] = Visit(c[m - 1], points[m]) /\ c[m - 1] \in CurveState
      /\ c[m - 1].fall \in Ratios /\ before \in Nat \ {0}
  BY <1>1 DEF IsCurveTrace, CurveState, Positive
<1>3. /\ peak \in Nat \ {0} /\ peak \in {before, eq(m)} /\ before <= peak /\ eq(m) <= peak
      /\ now \in Ratios /\ c[m].fall = Larger(c[m - 1].fall, now)
  <2>1. points[m].equity \in Positive
    BY <1>1 DEF Positive
  <2> QED BY <1>2, <2>1, VisitStep DEF CurveState, Positive
<1>4. /\ c[m].fall \in Ratios /\ AtMost(c[m - 1].fall, c[m].fall) /\ AtMost(now, c[m].fall)
      /\ c[m].fall \in {c[m - 1].fall, now}
  BY <1>2, <1>3, LargerOfRatios
<1>5. \A j \in 1..(m - 1) : eq(j) <= before
  BY DEF HighestSoFar
<1>6. \E j \in 1..m : peak = eq(j)
  <2>1. CASE peak = eq(m)
    BY <1>1, <2>1
  <2>2. CASE peak = before /\ m = 1
    <3>1. before = eq(1) /\ 1 \in 1..m
      BY <1>1, <2>2 DEF HighestSoFar
    <3> QED BY <2>2, <3>1
  <2>3. CASE peak = before /\ m # 1
    <3>1. \E j \in 1..(m - 1) : before = eq(j)
      BY <1>1, <2>3 DEF HighestSoFar
    <3>2. \A j \in 1..(m - 1) : j \in 1..m
      OBVIOUS
    <3> QED BY <2>3, <3>1, <3>2
  <2> QED BY <1>3, <2>1, <2>2, <2>3
<1>7. \A j \in 1..m : eq(j) <= peak
  <2> SUFFICES ASSUME NEW j \in 1..m PROVE eq(j) <= peak
    OBVIOUS
  <2>1. CASE j = m
    BY <1>3, <2>1
  <2>2. CASE j \in 1..(m - 1)
    <3>1. eq(j) <= before /\ eq(j) \in Int
      BY <1>1, <1>5, <2>2
    <3> HIDE DEF eq, before, peak
    <3> QED BY <1>2, <1>3, <3>1
  <2> QED BY <1>1, <2>1, <2>2
<1>8. HighestSoFar(c, points, m)
  <2>1. m # 0
    OBVIOUS
  <2> QED BY <1>6, <1>7, <2>1 DEF HighestSoFar
<1>9. ASSUME NEW j \in 1..m PROVE AtMost(Drop(points, j, m), now)
  <2>1. eq(j) \in Nat \ {0} /\ eq(m) \in Nat \ {0} /\ eq(j) <= peak
    BY <1>1, <1>7
  <2>2. Drop(points, j, m) = <<eq(j) - eq(m), eq(j)>>
    BY DEF Drop
  <2> DEFINE x == eq(j)
             y == eq(m)
  <2>3. x \in Nat \ {0} /\ y \in Nat \ {0} /\ x <= peak
    BY <2>1
  <2>4. Drop(points, j, m) = <<x - y, x>> /\ now = <<peak - y, peak>>
    BY <2>2
  <2> HIDE DEF x, y, peak, now
  <2>5. x * y <= peak * y /\ x * y \in Int /\ peak * y \in Int /\ x * peak \in Int
    <3>1. x \in Int /\ y \in Nat /\ peak \in Int
      BY <1>3, <2>3
    <3> QED BY <2>3, <3>1, ProductsOrdered
  <2>6. (x - y) * peak = x * peak - peak * y /\ (peak - y) * x = x * peak - x * y
    BY <1>3, <2>3
  <2>7. (x - y) * peak <= (peak - y) * x
    BY <2>5, <2>6
  <2> QED BY <2>4, <2>7 DEF AtMost
<1>10. ASSUME NEW j \in 1..m, NEW k \in 1..m
       PROVE  Drop(points, j, k) \in Ratios
  BY <1>1 DEF Drop, Ratios
<1>11. ASSUME NEW j \in 1..m, NEW k \in 1..m, j <= k
       PROVE  AtMost(Drop(points, j, k), c[m].fall)
  <2> HIDE DEF now
  <2>1. CASE k = m
    BY <1>3, <1>4, <1>9, <1>10, <2>1, AtMostOrders
  <2>2. CASE k # m
    <3>1. j \in 1..(m - 1) /\ k \in 1..(m - 1)
      BY <1>1, <1>11, <2>2
    <3>2. AtMost(Drop(points, j, k), c[m - 1].fall)
      BY <1>11, <3>1 DEF DeepestSoFar
    <3> QED BY <1>2, <1>4, <1>10, <3>2, AtMostOrders
  <2> QED BY <2>1, <2>2
<1>12. \/ c[m].fall = <<0, 1>>
       \/ \E j, k \in 1..m : j <= k /\ c[m].fall = Drop(points, j, k)
  <2>1. CASE c[m].fall = now
    <3>1. PICK j \in 1..m : peak = eq(j)
      BY <1>6
    <3>2. now = Drop(points, j, m) /\ j <= m
      BY <3>1 DEF Drop
    <3> QED BY <1>1, <2>1, <3>2
  <2>2. CASE c[m].fall = c[m - 1].fall
    <3>1. \A j \in 1..(m - 1) : j \in 1..m
      OBVIOUS
    <3> QED BY <2>2, <3>1 DEF DeepestSoFar
  <2> QED BY <1>4, <2>1, <2>2
<1>13. DeepestSoFar(c, points, m)
  BY <1>11, <1>12 DEF DeepestSoFar
<1> QED BY <1>8, <1>13

(* ... so the fall the pass ends with is the deepest of the curve.         *)
LEMMA CurveTraceEnds ==
  ASSUME NEW points, NEW n, ArePoints(points, n), NEW c, IsCurveTrace(c, points, n)
  PROVE  c[n].fall \in Ratios /\ DeepestSoFar(c, points, n)
<1> DEFINE Holds(m) == HighestSoFar(c, points, m) /\ DeepestSoFar(c, points, m)
           bad == {m \in Nat : m <= n /\ ~Holds(m)}
<1>1. n \in Nat
  BY DEF ArePoints
<1>2. ASSUME NEW m \in bad, \A l \in bad : m <= l PROVE FALSE
  <2>1. m \in 0..n /\ m \in Nat /\ ~Holds(m)
    BY <1>1
  <2>2. Holds(0)
    <3>1. c[0] = CurveStart(points) /\ 1..0 = {}
      BY DEF IsCurveTrace
    <3> QED BY <3>1 DEF HighestSoFar, DeepestSoFar, CurveStart
  <2>3. m # 0
    BY <2>1, <2>2
  <2>4. m \in 1..n /\ m - 1 \in Nat /\ m - 1 <= n /\ ~(m <= m - 1)
    BY <1>1, <2>1, <2>3
  <2>5. Holds(m - 1)
    BY <1>2, <2>4
  <2> QED BY <2>1, <2>4, <2>5, CurveTracePasses
<1>3. bad \in SUBSET Nat
  OBVIOUS
<1>4. n \notin bad
  <2> HIDE DEF bad
  <2> QED BY <1>2, <1>3, LeastNumber
<1>5. Holds(n)
  BY <1>1, <1>4
<1>6. c[n].fall \in Ratios
  <2>1. n \in 0..n
    BY <1>1
  <2> QED BY <2>1 DEF IsCurveTrace, CurveState
<1> QED BY <1>5, <1>6

(* The drawdown of the report is the greatest of the falls of its curve.    *)
LEMMA CurveDrawdown ==
  ASSUME NEW curve \in Seq(EquityPoint), curve # << >>
  PROVE  Rounded(Reports!MaxDrawdown(curve), Micro) = Rounded(Greatest(CurveFalls(curve)), Micro)
<1> DEFINE n == Len(curve)
           key == [k \in DOMAIN curve |-> curve[k].timestamp]
           order == SortedOrder(key)
           points == Reports!ByTime(curve)
           S == CurveFalls(curve)
<1>1. n \in Nat \ {0} /\ DOMAIN curve = 1..n
  OBVIOUS
<1>2. \A k \in 1..n : curve[k].timestamp \in Int /\ curve[k].equity \in Nat \ {0}
  <2>1. \A k \in 1..n : curve[k] \in EquityPoint
    BY <1>1
  <2> HIDE DEF n
  <2> QED BY <2>1 DEF EquityPoint, Positive
<1>3. IsKey(key, n)
  <2>1. DOMAIN key = 1..n /\ \A k \in 1..n : key[k] = curve[k].timestamp
    BY <1>1
  <2> HIDE DEF key
  <2> QED BY <1>1, <1>2, <2>1 DEF IsKey
<1>4. \A j, k \in 1..n : Before(key, j, k)
        <=> \/ curve[j].timestamp < curve[k].timestamp
            \/ curve[j].timestamp = curve[k].timestamp /\ j <= k
  BY <1>1 DEF Before
<1>5. points = [k \in DOMAIN curve |-> curve[order[k]]]
  BY SameSort DEF Reports!ByTime
<1> HIDE DEF n, key
<1>6. /\ \A p \in 1..n : order[p] \in 1..n
      /\ \A k \in 1..n : \E p \in 1..n : order[p] = k
      /\ \A p, q \in 1..n : p <= q <=> Before(key, order[p], order[q])
  BY <1>3, SortedOrderIs
<1>7. S = UNION {{Drop(curve, j, k) : k \in {m \in 1..n : Before(key, j, m)}} : j \in 1..n}
  BY <1>1, <1>4 DEF CurveFalls, Drop
<1> HIDE DEF order
<1>8. DOMAIN points = 1..n /\ \A p \in 1..n : points[p] = curve[order[p]]
  BY <1>1, <1>5
<1> HIDE DEF points, S
<1>9. ArePoints(points, n)
  BY <1>1, <1>2, <1>6, <1>8 DEF ArePoints, Positive
<1>10. PICK c : IsCurveTrace(c, points, n) /\ FallOfPoints(points) = c[n].fall
  BY <1>9, CurveTrace
<1>11. c[n].fall \in Ratios /\ DeepestSoFar(c, points, n)
  BY <1>9, <1>10, CurveTraceEnds
<1>12. \A p, q \in 1..n : Drop(points, p, q) = Drop(curve, order[p], order[q])
  BY <1>8 DEF Drop
<1>13. ASSUME NEW z \in S PROVE z \in Ratios /\ AtMost(z, c[n].fall)
  <2>1. PICK j \in 1..n, k \in 1..n : Before(key, j, k) /\ z = Drop(curve, j, k)
    BY <1>7
  <2>2. z \in Ratios
    BY <1>2, <2>1 DEF Drop, Ratios
  <2>3. PICK p \in 1..n, q \in 1..n : order[p] = j /\ order[q] = k
    BY <1>6
  <2>4. p <= q /\ z = Drop(points, p, q)
    BY <1>6, <1>12, <2>1, <2>3
  <2> QED BY <1>11, <2>2, <2>4 DEF DeepestSoFar
<1>14. \A p, q \in 1..n : p <= q => Drop(points, p, q) \in S
  <2> SUFFICES ASSUME NEW p \in 1..n, NEW q \in 1..n, p <= q PROVE Drop(points, p, q) \in S
    OBVIOUS
  <2>1. order[p] \in 1..n /\ order[q] \in 1..n /\ Before(key, order[p], order[q])
    BY <1>6
  <2> QED BY <1>7, <1>12, <2>1
<1>15. \E y \in S : AtMost(c[n].fall, y)
  <2>1. CASE c[n].fall = <<0, 1>>
    <3>1. 1 \in 1..n /\ points[1].equity \in Nat \ {0}
      BY <1>1, <1>9 DEF ArePoints, Positive
    <3>2. Drop(points, 1, 1) \in S
      BY <1>14, <3>1
    <3>3. AtMost(<<0, 1>>, Drop(points, 1, 1))
      BY <3>1 DEF AtMost, Drop
    <3> QED BY <2>1, <3>2, <3>3
  <2>2. ASSUME NEW p \in 1..n, NEW q \in 1..n, p <= q, c[n].fall = Drop(points, p, q)
        PROVE  \E y \in S : AtMost(c[n].fall, y)
    <3>1. AtMost(c[n].fall, c[n].fall)
      BY <1>11, AtMostOrders
    <3> QED BY <1>14, <2>2, <3>1
  <2> QED BY <1>11, <2>1, <2>2 DEF DeepestSoFar
<1>16. Rounded(Greatest(S), Micro) = Rounded(c[n].fall, Micro)
  <2>1. S \in SUBSET Ratios /\ \A z \in S : AtMost(z, c[n].fall)
    BY <1>13
  <2>2. Micro \in Nat
    BY ScalesAssumption
  <2> QED BY <1>11, <1>15, <2>1, <2>2, GreatestIs
<1>17. Reports!MaxDrawdown(curve) = FallOfPoints(points)
  BY DEF Reports!MaxDrawdown, FallOfPoints, points
<1> QED BY <1>10, <1>16, <1>17 DEF S

(* Whatever was posted, the drawdown of an answer, kept in one pass over    *)
(* points sorted by time or over compounded outcomes of which none loses    *)
(* more than everything, is the deepest relative fall from a moment to a    *)
(* later one, rounded.                                                     *)
THEOREM DrawdownIsDeepest == Spec => []DrawdownIsWorstFall
<1>1. ASSUME IInv, FiguresInv PROVE DrawdownIsWorstFall
  <2>1. ASSUME AnsweredTo("report"), request.payload.equity_curve # << >>
        PROVE  answer.data.max_drawdown
                 = -Rounded(Greatest(CurveFalls(request.payload.equity_curve)), Micro)
    <3>1. /\ request \in Requests /\ Accepted(request.payload)
          /\ answer.data = Reports!Report(request.payload)
      BY <1>1, <2>1 DEF FiguresInv, FigureEndpoints, Figures, AnsweredTo, Answered
    <3>2. request.payload.equity_curve \in Seq(EquityPoint)
      BY <2>1, <3>1, PayloadsAssumption DEF AnsweredTo, PerformanceReportRequest
    <3> DEFINE curve == request.payload.equity_curve
    <3>3. answer.data.max_drawdown = -Rounded(Reports!MaxDrawdown(curve), Micro)
      BY <3>1, SameRatioOperators DEF Reports!Report
    <3>4. Rounded(Reports!MaxDrawdown(curve), Micro) = Rounded(Greatest(CurveFalls(curve)), Micro)
      BY <2>1, <3>2, CurveDrawdown
    <3> QED BY <3>3, <3>4
  <2>2. ASSUME AnsweredTo("shadow"), answer.data.max_drawdown_pct # None,
               \A k \in DOMAIN request.payload.outcomes :
                 request.payload.outcomes[k].net >= -Whole
        PROVE  answer.data.max_drawdown_pct
                 = Rounded(Greatest(OutcomeFalls(request.payload.outcomes)), Unit)
    <3>1. /\ request \in Requests /\ Accepted(request.payload)
          /\ answer.data = Shadow!Summary(request.payload)
      BY <1>1, <2>2 DEF FiguresInv, FigureEndpoints, Figures, AnsweredTo, Answered
    <3>2. request.payload \in ShadowPerformanceRequest
      BY <2>2, <3>1, PayloadsAssumption DEF AnsweredTo
    <3>3. answer.data.max_drawdown_pct
            = Rounded(Shadow!MaxDrawdown(ShadowRows(request.payload)), Unit)
      BY <2>2, <3>1, SameRatioOperators DEF Shadow!Summary, ShadowRows
    <3> QED BY <2>2, <3>2, <3>3, ShadowDrawdown
  <2> QED BY <2>1, <2>2 DEF DrawdownIsWorstFall
<1> QED BY <1>1, FiguresAlways, PTL

-----------------------------------------------------------------------------
\* The values of a list in order.
Ordered(values) ==
  LET order == SortedOrder(values) IN [k \in DOMAIN values |-> values[order[k]]]

(* The sorted values are integers that do not fall.                        *)
LEMMA OrderedRises ==
  ASSUME NEW values, NEW n, IsKey(values, n)
  PROVE  /\ n \in Nat /\ DOMAIN Ordered(values) = 1..n
         /\ \A k \in 1..n : Ordered(values)[k] \in Int
         /\ \A j, k \in 1..n : j <= k => Ordered(values)[j] <= Ordered(values)[k]
<1> DEFINE order == SortedOrder(values)
<1>1. /\ \A p \in 1..n : order[p] \in 1..n
      /\ \A p, q \in 1..n : p <= q <=> Before(values, order[p], order[q])
  BY SortedOrderIs
<1>2. n \in Nat /\ DOMAIN values = 1..n /\ \A k \in 1..n : values[k] \in Int
  BY DEF IsKey
<1>3. Ordered(values) = [k \in DOMAIN values |-> values[order[k]]]
  BY DEF Ordered
<1> HIDE DEF order
<1>4. \A j, k \in 1..n : Before(values, j, k) => values[j] <= values[k]
  BY <1>2 DEF Before
<1>5. /\ DOMAIN Ordered(values) = 1..n
      /\ \A k \in 1..n : Ordered(values)[k] = values[order[k]]
  BY <1>2, <1>3
<1> QED BY <1>1, <1>2, <1>4, <1>5

(* At most n - k of n values are above the k-th in order, and if the k-th   *)
(* is above a number then at least n - k + 1 are.                          *)
LEMMA CountAbove ==
  ASSUME NEW values, NEW n, IsKey(values, n), NEW k \in 1..n
  PROVE  /\ IsFiniteSet({i \in 1..n : values[i] > Ordered(values)[k]})
         /\ Cardinality({i \in 1..n : values[i] > Ordered(values)[k]}) <= n - k
         /\ \A x \in Int : Ordered(values)[k] > x =>
              Cardinality({i \in 1..n : values[i] > x}) >= n - k + 1
<1> DEFINE order == SortedOrder(values)
           ordered == Ordered(values)
<1>1. /\ \A p \in 1..n : order[p] \in 1..n /\ Place(values, order[p]) = p
      /\ \A i \in 1..n : \E p \in 1..n : order[p] = i
  BY SortedOrderIs
<1>2. n \in Nat /\ DOMAIN values = 1..n /\ \A i \in 1..n : values[i] \in Int
  BY DEF IsKey
<1>3. /\ \A p \in 1..n : ordered[p] = values[order[p]] /\ ordered[p] \in Int
      /\ \A p, q \in 1..n : p <= q => ordered[p] <= ordered[q]
  <2>1. \A p \in 1..n : ordered[p] = values[order[p]]
    BY <1>2 DEF Ordered
  <2> QED BY <2>1, OrderedRises
<1>4. IsFiniteSet(1..n)
  BY <1>2, FS_Interval
<1>5. /\ IsFiniteSet((k + 1)..n) /\ Cardinality((k + 1)..n) = n - k
      /\ IsFiniteSet(k..n) /\ Cardinality(k..n) = n - k + 1
  <2>1. k \in Int /\ k + 1 \in Int /\ n \in Int /\ k <= n
    BY <1>2
  <2>2. /\ IsFiniteSet((k + 1)..n)
        /\ Cardinality((k + 1)..n) = IF k + 1 > n THEN 0 ELSE n - (k + 1) + 1
        /\ IsFiniteSet(k..n) /\ Cardinality(k..n) = IF k > n THEN 0 ELSE n - k + 1
    BY <2>1, FS_Interval
  <2>3. (IF k + 1 > n THEN 0 ELSE n - (k + 1) + 1) = n - k
    BY <2>1
  <2>4. (IF k > n THEN 0 ELSE n - k + 1) = n - k + 1
    BY <2>1
  <2> QED BY <2>2, <2>3, <2>4
<1> HIDE DEF order, ordered
<1>6. LET S == {i \in 1..n : values[i] > ordered[k]} IN
      IsFiniteSet(S) /\ Cardinality(S) <= n - k
  <2> DEFINE S == {i \in 1..n : values[i] > ordered[k]}
             f == [i \in S |-> Place(values, i)]
  <2>1. ASSUME NEW i \in S PROVE f[i] \in (k + 1)..n /\ f[i] = Place(values, i)
    <3>1. PICK p \in 1..n : order[p] = i
      BY <1>1
    <3>2. ordered[p] > ordered[k]
      BY <1>3, <3>1
    <3>3. ~(p <= k)
      BY <1>3, <3>2
    <3>4. p \in (k + 1)..n
      BY <1>2, <3>3
    <3> QED BY <1>1, <3>1, <3>4
  <2>2. \A i, j \in S : f[i] = f[j] => i = j
    <3>1. \A i \in S : i \in 1..n
      OBVIOUS
    <3> HIDE DEF f, S
    <3> QED BY <2>1, <3>1, PlacesNumber
  <2>3. f \in [S -> (k + 1)..n]
    BY <2>1
  <2> HIDE DEF f, S
  <2>4. f \in Injection(S, (k + 1)..n)
    BY <2>2, <2>3 DEF Injection, IsInjective
  <2>5. IsFiniteSet(S) /\ Cardinality(S) <= n - k
    BY <1>5, <2>4, FS_Injection
  <2> QED BY <2>5 DEF S
<1>7. ASSUME NEW x \in Int, ordered[k] > x
      PROVE  Cardinality({i \in 1..n : values[i] > x}) >= n - k + 1
  <2> DEFINE S == {i \in 1..n : values[i] > x}
             f == [p \in k..n |-> order[p]]
  <2>1. ASSUME NEW p \in k..n PROVE f[p] \in S /\ Place(values, f[p]) = p
    <3>1. p \in 1..n /\ k <= p /\ k \in 1..n
      BY <1>2
    <3>2. ordered[k] <= ordered[p] /\ ordered[p] \in Int /\ ordered[k] \in Int
      BY <1>3, <3>1
    <3>3. values[order[p]] > x
      BY <1>3, <1>7, <3>1, <3>2
    <3> QED BY <1>1, <3>1, <3>3
  <2>2. \A p, q \in k..n : f[p] = f[q] => p = q
    <3> HIDE DEF f, S
    <3> QED BY <2>1
  <2>3. f \in [k..n -> S]
    BY <2>1
  <2>4. IsFiniteSet(S)
    BY <1>4, FS_Subset
  <2> HIDE DEF f, S
  <2>5. f \in Injection(k..n, S)
    BY <2>2, <2>3 DEF Injection, IsInjective
  <2>6. Cardinality(k..n) <= Cardinality(S)
    BY <2>4, <2>5, FS_Injection
  <2> QED BY <1>5, <2>6 DEF S
<1> QED BY <1>6, <1>7 DEF ordered

(* A list that is nowhere above another is not above it in order.          *)
LEMMA OrderedAtMost ==
  ASSUME NEW values, NEW n, IsKey(values, n), NEW others, IsKey(others, n),
         \A i \in 1..n : values[i] <= others[i], NEW k \in 1..n
  PROVE  Ordered(values)[k] <= Ordered(others)[k]
<1> DEFINE x == Ordered(others)[k]
           above(list) == {i \in 1..n : list[i] > x}
<1>1. x \in Int /\ Ordered(values)[k] \in Int /\ n \in Nat
  BY OrderedRises
<1>2. SUFFICES ASSUME Ordered(values)[k] > x PROVE FALSE
  BY <1>1
<1>3. Cardinality(above(values)) >= n - k + 1
  <2> HIDE DEF x
  <2> QED BY <1>1, <1>2, CountAbove
<1>4. IsFiniteSet(above(others)) /\ Cardinality(above(others)) <= n - k
  BY CountAbove
<1> HIDE DEF x
<1>5. above(values) \in SUBSET above(others)
  <2>1. \A i \in 1..n : values[i] \in Int /\ others[i] \in Int
    BY DEF IsKey
  <2> QED BY <1>1, <2>1
<1> HIDE DEF above
<1>6. Cardinality(above(values)) <= Cardinality(above(others)) /\ IsFiniteSet(above(values))
  BY <1>4, <1>5, FS_Subset
<1>7. Cardinality(above(values)) \in Nat /\ Cardinality(above(others)) \in Nat
  BY <1>4, <1>6, FS_CardinalityType
<1> QED BY <1>1, <1>3, <1>4, <1>6, <1>7

\* The position of a percentile of n values, and how far it is to the next.
PositionOf(n, percent) == ((n - 1) * percent) \div 100 + 1
RestOf(n, percent) == ((n - 1) * percent) % 100

\* Values of which a percentile can be taken.
AreValues(values, n) == n # 0 /\ IsKey(values, n) /\ Len(values) = n

(* A percentile's neighbours are among the values.                         *)
LEMMA PositionIn ==
  ASSUME NEW n \in Nat \ {0}, NEW percent \in 0..100
  PROVE  /\ PositionOf(n, percent) \in 1..n /\ RestOf(n, percent) \in 0..99
         /\ RestOf(n, percent) # 0 => PositionOf(n, percent) + 1 \in 1..n
         /\ 100 * (PositionOf(n, percent) - 1) + RestOf(n, percent) = (n - 1) * percent
<1> DEFINE position == (n - 1) * percent
           q == position \div 100
           r == position % 100
<1>1. position \in Nat /\ position <= 100 * (n - 1)
  <2>1. n - 1 \in Nat /\ percent \in Nat /\ percent <= 100
    OBVIOUS
  <2>2. percent * (n - 1) <= 100 * (n - 1)
    BY <2>1, ProductsOrdered
  <2>3. percent * (n - 1) = position /\ position \in Nat
    BY <2>1
  <2> QED BY <2>2, <2>3
<1> HIDE DEF position
<1>2. q \in Nat /\ r \in 0..99 /\ position = 100 * q + r
  BY <1>1
<1> HIDE DEF q, r
<1>3. q <= n - 1 /\ (r # 0 => q < n - 1)
  BY <1>1, <1>2
<1>4. PositionOf(n, percent) = q + 1 /\ RestOf(n, percent) = r
  BY DEF PositionOf, RestOf, position, q, r
<1> QED BY <1>2, <1>3, <1>4 DEF position

(* A percentile lies between its neighbours.                               *)
LEMMA PercentileBetween ==
  ASSUME NEW values, NEW n, AreValues(values, n), NEW percent \in 0..100
  PROVE  LET ordered == Ordered(values)
             lower == PositionOf(n, percent)
             rest == RestOf(n, percent)
             p == Costs!Percentile(values, percent)
         IN  /\ p \in Int
             /\ 100 * ordered[lower] <= p
             /\ rest = 0 => p = 100 * ordered[lower]
             /\ rest # 0 => /\ p = 100 * ordered[lower]
                                     + (ordered[lower + 1] - ordered[lower]) * rest
                            /\ p <= 100 * ordered[lower + 1]
<1> DEFINE ordered == Ordered(values)
           lower == PositionOf(n, percent)
           rest == RestOf(n, percent)
<1>1. n \in Nat \ {0} /\ IsKey(values, n) /\ Len(values) = n
  BY DEF AreValues, IsKey
<1>2. lower \in 1..n /\ rest \in 0..99 /\ (rest # 0 => lower + 1 \in 1..n)
  BY <1>1, PositionIn
<1>3. /\ \A k \in 1..n : ordered[k] \in Int
      /\ \A j, k \in 1..n : j <= k => ordered[j] <= ordered[k]
  BY <1>1, OrderedRises
<1>4. Costs!Percentile(values, percent)
        = IF rest = 0 THEN 100 * ordered[lower]
          ELSE 100 * ordered[lower] + (ordered[lower + 1] - ordered[lower]) * rest
  BY <1>1, SameSort DEF Costs!Percentile, Ordered, PositionOf, RestOf
<1> HIDE DEF ordered, lower, rest
<1>5. ordered[lower] \in Int
  BY <1>2, <1>3
<1>6. CASE rest = 0
  BY <1>4, <1>5, <1>6 DEF ordered, lower, rest
<1>7. CASE rest # 0
  <2> DEFINE step == ordered[lower + 1] - ordered[lower]
  <2>1. step \in Nat /\ rest \in Nat /\ rest <= 100 /\ ordered[lower + 1] = ordered[lower] + step
        /\ ordered[lower + 1] \in Int
    <3>1. lower + 1 \in 1..n /\ lower <= lower + 1
      BY <1>2, <1>7
    <3> QED BY <1>2, <1>3, <1>5, <3>1
  <2> HIDE DEF step
  <2>2. 0 <= step * rest /\ step * rest \in Int /\ step * rest <= 100 * step
    BY <2>1
  <2>3. Costs!Percentile(values, percent) = 100 * ordered[lower] + step * rest
    BY <1>4, <1>7 DEF step
  <2> QED BY <1>5, <1>7, <2>1, <2>2, <2>3 DEF ordered, lower, rest, step
<1> QED BY <1>6, <1>7

(* A higher percentile is not lower.                                       *)
LEMMA PercentileRises ==
  ASSUME NEW values, NEW n, AreValues(values, n),
         NEW small \in 0..100, NEW large \in 0..100, small <= large
  PROVE  Costs!Percentile(values, small) <= Costs!Percentile(values, large)
<1> DEFINE ordered == Ordered(values)
           l1 == PositionOf(n, small)
           r1 == RestOf(n, small)
           l2 == PositionOf(n, large)
           r2 == RestOf(n, large)
           p1 == Costs!Percentile(values, small)
           p2 == Costs!Percentile(values, large)
<1>1. n \in Nat \ {0} /\ IsKey(values, n)
  BY DEF AreValues, IsKey
<1>2. /\ l1 \in 1..n /\ r1 \in 0..99 /\ (r1 # 0 => l1 + 1 \in 1..n)
      /\ l2 \in 1..n /\ r2 \in 0..99 /\ (r2 # 0 => l2 + 1 \in 1..n)
  BY <1>1, PositionIn
<1>3. 100 * (l1 - 1) + r1 <= 100 * (l2 - 1) + r2
  <2>1. small * (n - 1) <= large * (n - 1)
    <3>1. n - 1 \in Nat /\ small \in Int /\ large \in Int
      BY <1>1
    <3> QED BY <3>1, ProductsOrdered
  <2>2. small * (n - 1) = (n - 1) * small /\ large * (n - 1) = (n - 1) * large
    BY <1>1
  <2>3. /\ 100 * (l1 - 1) + r1 = (n - 1) * small
        /\ 100 * (l2 - 1) + r2 = (n - 1) * large
    BY <1>1, PositionIn
  <2> HIDE DEF l1, r1, l2, r2
  <2> QED BY <2>1, <2>2, <2>3
<1>4. /\ \A k \in 1..n : ordered[k] \in Int
      /\ \A j, k \in 1..n : j <= k => ordered[j] <= ordered[k]
  BY <1>1, OrderedRises
<1>5. /\ p1 \in Int /\ (r1 = 0 => p1 = 100 * ordered[l1])
      /\ r1 # 0 => /\ p1 = 100 * ordered[l1] + (ordered[l1 + 1] - ordered[l1]) * r1
                   /\ p1 <= 100 * ordered[l1 + 1]
  BY PercentileBetween
<1>6. /\ p2 \in Int /\ 100 * ordered[l2] <= p2
      /\ r2 # 0 => p2 = 100 * ordered[l2] + (ordered[l2 + 1] - ordered[l2]) * r2
  BY PercentileBetween
<1> HIDE DEF ordered, l1, r1, l2, r2, p1, p2
<1>7. ordered[l1] \in Int /\ ordered[l2] \in Int
  BY <1>2, <1>4
<1>8. CASE l1 = l2
  <2>1. r1 <= r2
    BY <1>2, <1>3, <1>8
  <2>2. CASE r1 = 0
    BY <1>5, <1>6, <1>8, <2>2 DEF p1, p2
  <2>3. CASE r1 # 0
    <3> DEFINE step == ordered[l1 + 1] - ordered[l1]
    <3>1. step \in Nat
      <4>1. l1 + 1 \in 1..n /\ l1 <= l1 + 1
        BY <1>2, <2>3
      <4> QED BY <1>2, <1>4, <4>1
    <3>2. /\ p1 = 100 * ordered[l1] + step * r1
          /\ p2 = 100 * ordered[l1] + step * r2
      BY <1>2, <1>5, <1>6, <1>8, <2>1, <2>3
    <3> HIDE DEF step
    <3>3. r1 * step <= r2 * step
      <4>1. r1 \in Int /\ r2 \in Int
        BY <1>2
      <4> QED BY <2>1, <3>1, <4>1, ProductsOrdered
    <3>4. step * r1 = r1 * step /\ step * r2 = r2 * step
          /\ step * r1 \in Int /\ step * r2 \in Int
      BY <1>2, <3>1
    <3> QED BY <1>7, <3>2, <3>3, <3>4 DEF p1, p2
  <2> QED BY <2>2, <2>3 DEF p1, p2
<1>9. CASE l1 # l2
  <2>1. l1 < l2
    BY <1>2, <1>3, <1>9
  <2>2. CASE r1 = 0
    <3>1. ordered[l1] <= ordered[l2]
      BY <1>2, <1>4, <2>1
    <3> QED BY <1>5, <1>6, <1>7, <2>2, <3>1 DEF p1, p2
  <2>3. CASE r1 # 0
    <3>1. l1 + 1 \in 1..n /\ l1 + 1 <= l2
      BY <1>2, <2>1, <2>3
    <3>2. ordered[l1 + 1] <= ordered[l2] /\ ordered[l1 + 1] \in Int
      BY <1>2, <1>4, <3>1
    <3> QED BY <1>5, <1>6, <1>7, <2>3, <3>2 DEF p1, p2
  <2> QED BY <2>2, <2>3
<1> QED BY <1>8, <1>9 DEF p1, p2

(* Nor is that of values nowhere lower.                                    *)
LEMMA PercentileAtMost ==
  ASSUME NEW values, NEW n, AreValues(values, n), NEW others, AreValues(others, n),
         \A i \in 1..n : values[i] <= others[i], NEW percent \in 0..100
  PROVE  Costs!Percentile(values, percent) <= Costs!Percentile(others, percent)
<1> DEFINE u == Ordered(values)
           w == Ordered(others)
           lower == PositionOf(n, percent)
           rest == RestOf(n, percent)
           p == Costs!Percentile(values, percent)
           q == Costs!Percentile(others, percent)
<1>1. n \in Nat \ {0} /\ IsKey(values, n) /\ IsKey(others, n)
  BY DEF AreValues, IsKey
<1>2. lower \in 1..n /\ rest \in 0..99 /\ (rest # 0 => lower + 1 \in 1..n)
  BY <1>1, PositionIn
<1>3. \A k \in 1..n : u[k] \in Int /\ w[k] \in Int /\ u[k] <= w[k]
  BY <1>1, OrderedRises, OrderedAtMost
<1>4. /\ p \in Int /\ (rest = 0 => p = 100 * u[lower])
      /\ rest # 0 => p = 100 * u[lower] + (u[lower + 1] - u[lower]) * rest
  BY PercentileBetween
<1>5. /\ q \in Int /\ (rest = 0 => q = 100 * w[lower])
      /\ rest # 0 => q = 100 * w[lower] + (w[lower + 1] - w[lower]) * rest
  BY PercentileBetween
<1> HIDE DEF u, w, lower, rest, p, q
<1>6. u[lower] \in Int /\ w[lower] \in Int /\ u[lower] <= w[lower]
  BY <1>2, <1>3
<1>7. CASE rest = 0
  BY <1>4, <1>5, <1>6, <1>7 DEF p, q
<1>8. CASE rest # 0
  <2> DEFINE a == u[lower]
             b == w[lower]
             c == u[lower + 1]
             d == w[lower + 1]
             to == 100 - rest
  <2>1. /\ a \in Int /\ b \in Int /\ a <= b /\ c \in Int /\ d \in Int /\ c <= d
        /\ rest \in Nat /\ to \in Nat
    BY <1>2, <1>3, <1>6, <1>8
  <2>2. p = 100 * a + (c - a) * rest /\ q = 100 * b + (d - b) * rest /\ rest = 100 - to
    BY <1>2, <1>4, <1>5, <1>8
  <2> HIDE DEF a, b, c, d, to
  <2>3. /\ a * to <= b * to /\ a * to \in Int /\ b * to \in Int
        /\ c * rest <= d * rest /\ c * rest \in Int /\ d * rest \in Int
    BY <2>1, ProductsOrdered
  <2>4. to = 100 - rest
    BY <2>1, <2>2
  <2>5. 100 * a + (c - a) * rest = a * to + c * rest
    BY <2>1, <2>4
  <2>6. 100 * b + (d - b) * rest = b * to + d * rest
    BY <2>1, <2>4
  <2> QED BY <2>2, <2>3, <2>5, <2>6 DEF p, q
<1> QED BY <1>7, <1>8 DEF p, q

(* Quotients of one divisor are rounded in order, and what is at least      *)
(* nothing to at least nothing.                                            *)
LEMMA NearestRises ==
  ASSUME NEW x \in Int, NEW y \in Int, x <= y, NEW d \in Nat \ {0}
  PROVE  /\ Nearest(x, d) \in Int /\ Nearest(y, d) \in Int
         /\ Nearest(x, d) <= Nearest(y, d)
         /\ 0 <= x => 0 <= Nearest(x, d)
<1>1. x * d <= y * d /\ x * d \in Int /\ y * d \in Int
  BY ProductsOrdered
<1>2. Nearest(x, d) \in Int /\ Nearest(y, d) \in Int /\ Nearest(x, d) <= Nearest(y, d)
  BY <1>1, NearestBy, NearestOrdered
<1>3. 0 <= x => 0 <= Nearest(x, d)
  <2>1. d * 0 = 0 /\ 0 \in Int
    OBVIOUS
  <2> QED BY <2>1, NearestSides
<1> QED BY <1>2, <1>3

(* A published figure is not below more than a few of the values that a     *)
(* number at least their 95th percentile was rounded from.                 *)
LEMMA FewAboveFloor ==
  ASSUME NEW values, NEW n, AreValues(values, n),
         NEW x \in Int, Costs!Percentile(values, 95) <= x
  PROVE  LET floor == Nearest(x, 100 * Coarse) IN
         Cardinality({k \in 1..n : 2 * values[k] > (2 * floor + 1) * Coarse})
           <= (n + 18) \div 20
<1> DEFINE floor == Nearest(x, 100 * Coarse)
           lower == PositionOf(n, 95)
           ordered == Ordered(values)
           bar == (2 * floor + 1) * Coarse
           S == {k \in 1..n : 2 * values[k] > bar}
           U == {k \in 1..n : values[k] > ordered[lower]}
<1>1. /\ n \in Nat \ {0} /\ IsKey(values, n) /\ Coarse \in Nat \ {0}
      /\ 95 \in 0..100 /\ 100 * Coarse \in Nat \ {0}
  BY ScalesAssumption DEF AreValues, IsKey
<1>2. /\ lower \in 1..n /\ RestOf(n, 95) \in 0..99
      /\ 100 * (lower - 1) + RestOf(n, 95) = (n - 1) * 95
  BY <1>1, PositionIn
<1>3. n - lower <= (n + 18) \div 20
  <2> DEFINE rest == RestOf(n, 95)
  <2>1. rest \in 0..99 /\ 100 * lower - 100 + rest = 95 * n - 95
    BY <1>1, <1>2
  <2> HIDE DEF rest, lower
  <2>2. 20 * (n - lower) < n + 19
    BY <1>1, <1>2, <2>1
  <2> QED BY <1>1, <1>2, <2>2
<1>4. /\ \A k \in 1..n : values[k] \in Int
      /\ ordered[lower] \in Int
  <2>1. \A k \in 1..n : values[k] \in Int
    BY <1>1 DEF IsKey
  <2>2. \A k \in 1..n : Ordered(values)[k] \in Int
    BY <1>1, OrderedRises
  <2> HIDE DEF lower
  <2> QED BY <1>2, <2>1, <2>2
<1>5. 100 * ordered[lower] <= Costs!Percentile(values, 95)
      /\ Costs!Percentile(values, 95) \in Int
  BY <1>1, PercentileBetween
<1>6. floor \in Int /\ bar \in Int /\ 200 * ordered[lower] <= 100 * bar
  <2> DEFINE d == 100 * Coarse
  <2>1. Nearest(x, d) \in Int /\ d * Nearest(x, d) \in Int
        /\ 2 * x - d <= 2 * (d * Nearest(x, d))
    BY <1>1, NearestBy
  <2>2. 2 * (d * Nearest(x, d)) + d = 100 * ((2 * Nearest(x, d) + 1) * Coarse)
        /\ (2 * Nearest(x, d) + 1) * Coarse \in Int
    <3> DEFINE f == Nearest(x, 100 * Coarse)
    <3>1. f \in Int
      BY <2>1
    <3> HIDE DEF f
    <3>2. 2 * ((100 * Coarse) * f) + 100 * Coarse = 100 * ((2 * f + 1) * Coarse)
          /\ (2 * f + 1) * Coarse \in Int
      BY <1>1, <3>1
    <3> QED BY <3>2 DEF f
  <2>3. floor = Nearest(x, d) /\ bar = (2 * Nearest(x, d) + 1) * Coarse
    OBVIOUS
  <2> HIDE DEF d, floor, bar, ordered, lower
  <2>4. 2 * x <= 100 * bar
    BY <1>1, <2>1, <2>2, <2>3 DEF d
  <2> QED BY <1>4, <1>5, <2>1, <2>2, <2>3, <2>4
<1> HIDE DEF floor, lower, ordered, bar
<1>7. S \in SUBSET U
  BY <1>4, <1>6
<1>8. IsFiniteSet(U) /\ Cardinality(U) <= n - lower
  BY <1>1, <1>2, CountAbove DEF ordered
<1> HIDE DEF S, U
<1>9. Cardinality(S) <= Cardinality(U) /\ IsFiniteSet(S)
  BY <1>7, <1>8, FS_Subset
<1>10. Cardinality(S) \in Nat /\ Cardinality(U) \in Nat
  BY <1>8, <1>9, FS_CardinalityType
<1>11. Cardinality(S) <= (n + 18) \div 20
  BY <1>1, <1>2, <1>3, <1>8, <1>9, <1>10
<1> QED BY <1>11 DEF S, bar, floor

(* The confidence is full exactly from the minimum on.                     *)
LEMMA FullConfidence ==
  ASSUME NEW count \in Nat, NEW minimum \in 1..ConfidenceUnit
  PROVE  IF count >= minimum THEN Confidence(count, minimum) = ConfidenceUnit
         ELSE Confidence(count, minimum) < ConfidenceUnit
<1>1. /\ ConfidenceUnit \in Nat \ {0} /\ minimum \in Nat \ {0}
      /\ count \in Int /\ minimum \in Int /\ minimum <= ConfidenceUnit
  BY ScalesAssumption
<1>2. Min({count, minimum}) = IF count >= minimum THEN minimum ELSE count
  <2> DEFINE least == IF count >= minimum THEN minimum ELSE count
  <2>1. least \in {count, minimum} /\ \A y \in {count, minimum} : least <= y
    BY <1>1
  <2>2. \A z \in {count, minimum} : z \in Int
    BY <1>1
  <2> HIDE DEF least
  <2>3. /\ Min({count, minimum}) \in {count, minimum}
        /\ \A y \in {count, minimum} : Min({count, minimum}) <= y
    BY <2>1, Zenon DEF Min
  <2>4. Min({count, minimum}) <= least /\ least <= Min({count, minimum})
    BY <2>1, <2>3
  <2> QED BY <2>1, <2>2, <2>3, <2>4 DEF least
<1>3. CASE count >= minimum
  <2>1. Confidence(count, minimum) = Nearest(ConfidenceUnit * minimum, minimum)
    BY <1>2, <1>3 DEF Confidence
  <2>2. /\ minimum * ConfidenceUnit = ConfidenceUnit * minimum
        /\ ConfidenceUnit * minimum \in Int
    BY <1>1
  <2> DEFINE x == ConfidenceUnit * minimum
  <2>3. x \in Int /\ minimum * ConfidenceUnit <= x /\ x <= minimum * ConfidenceUnit
    BY <1>1, <2>2
  <2> HIDE DEF x
  <2>4. ConfidenceUnit <= Nearest(x, minimum) /\ Nearest(x, minimum) <= ConfidenceUnit
    BY <1>1, <2>3, NearestSides
  <2>5. Nearest(x, minimum) \in Int
    BY <1>1, <2>3, NearestBy
  <2> QED BY <1>1, <1>3, <2>1, <2>4, <2>5 DEF x
<1>4. CASE ~(count >= minimum)
  <2>1. Confidence(count, minimum) = Nearest(ConfidenceUnit * count, minimum)
    BY <1>2, <1>4 DEF Confidence
  <2> DEFINE x == ConfidenceUnit * count
             m == ConfidenceUnit - 1
  <2>2. x \in Int /\ m \in Int /\ m < ConfidenceUnit
    BY <1>1
  <2>3. x <= minimum * m
    <3>1. count * ConfidenceUnit <= (minimum - 1) * ConfidenceUnit
      <4>1. count <= minimum - 1 /\ minimum - 1 \in Int /\ ConfidenceUnit \in Nat
        BY <1>1, <1>4
      <4> QED BY <1>1, <4>1, ProductsOrdered
    <3>2. /\ (minimum - 1) * ConfidenceUnit = minimum * ConfidenceUnit - ConfidenceUnit
          /\ minimum * m = minimum * ConfidenceUnit - minimum
          /\ count * ConfidenceUnit = x
          /\ minimum * ConfidenceUnit \in Int
      BY <1>1
    <3> HIDE DEF x, m
    <3> QED BY <1>1, <2>2, <3>1, <3>2
  <2> HIDE DEF x, m
  <2>4. Nearest(x, minimum) <= m /\ Nearest(x, minimum) \in Int
    BY <1>1, <2>2, <2>3, NearestSides, NearestBy
  <2> QED BY <1>1, <1>4, <2>1, <2>2, <2>4 DEF x
<1> QED BY <1>3, <1>4

(* The rates of a row: fees are not negative, so with them it is not lower. *)
LEMMA RatesOfRow ==
  ASSUME NEW o \in ExecutionCostObservation
  PROVE  LET row == Costs!Row(o) IN
         /\ row.price_slippage_bps \in Int /\ row.all_in_cost_bps \in Int
         /\ row.price_slippage_bps <= row.all_in_cost_bps
<1> DEFINE delta == Costs!AdversePriceDelta(o.side, o.decision_price, o.fill_price)
           price == o.decision_price
           quantity == o.quantity
           fees == o.fees
           x == BpsScale * delta
           y == BpsScale * (delta * quantity + fees)
           notional == quantity * price
<1>1. /\ quantity \in Nat \ {0} /\ price \in Nat \ {0} /\ o.fill_price \in Int
      /\ fees \in Nat /\ BpsScale \in Nat \ {0}
  BY ScalesAssumption DEF ExecutionCostObservation, Positive
<1>2. delta \in Int
  BY <1>1 DEF Costs!AdversePriceDelta
<1>3. /\ Costs!Row(o).price_slippage_bps = Nearest(BpsScale * delta, price)
      /\ Costs!Row(o).all_in_cost_bps
           = Nearest(BpsScale * (delta * quantity + fees), quantity * price)
  BY SameOperators DEF Costs!Row, Costs!Bps
<1> HIDE DEF delta, price, quantity, fees
<1>4. /\ delta * quantity \in Int /\ notional \in Nat \ {0}
      /\ x \in Int /\ y \in Int
  BY <1>1, <1>2
<1>5. x * notional <= y * price
  <2>1. /\ x * notional = (BpsScale * delta * quantity) * price
        /\ BpsScale * delta * quantity \in Int
    BY <1>1, <1>2
  <2>2. y = BpsScale * delta * quantity + BpsScale * fees /\ 0 <= BpsScale * fees
        /\ BpsScale * fees \in Int
    BY <1>1, <1>2
  <2> DEFINE z == BpsScale * delta * quantity
  <2>3. z <= y /\ z \in Int /\ x * notional = z * price
    BY <1>4, <2>1, <2>2
  <2>4. price \in Nat
    BY <1>1
  <2> HIDE DEF x, y, z, notional
  <2>5. z * price <= y * price
    BY <1>4, <2>3, <2>4, ProductsOrdered
  <2> QED BY <2>3, <2>5
<1> HIDE DEF x, y, notional
<1>6. Nearest(x, price) <= Nearest(y, notional)
  BY <1>1, <1>4, <1>5, NearestOrdered
<1>7. Nearest(x, price) \in Int /\ Nearest(y, notional) \in Int
  BY <1>1, <1>4, NearestBy
<1> QED BY <1>3, <1>6, <1>7 DEF x, y, notional

Rates(rows, field) == [k \in DOMAIN rows |-> rows[k][field]]

(* A function on the first numbers with integer values is a list of them.  *)
LEMMA ListOfIntegers ==
  ASSUME NEW n \in Nat, NEW f, f = [k \in 1..n |-> f[k]], \A k \in 1..n : f[k] \in Int
  PROVE  f \in Seq(Int) /\ Len(f) = n
<1>1. f \in [1..n -> Int]
  OBVIOUS
<1>2. f \in Seq(Int)
  BY <1>1
<1> QED BY <1>1, <1>2

(* The two rates of the rows of a request, as lists to take percentiles of. *)
LEMMA RatesOfRows ==
  ASSUME NEW r \in ExecutionCostAttributionRequest, NEW rows, rows = CostRows(r)
  PROVE  LET n == Len(rows)
             bps == Rates(rows, "price_slippage_bps")
             all_in == Rates(rows, "all_in_cost_bps")
         IN  /\ n \in Nat /\ DOMAIN rows = 1..n
             /\ n # 0 => AreValues(bps, n) /\ AreValues(all_in, n)
             /\ \A k \in 1..n : bps[k] <= all_in[k]
<1> DEFINE observations == r.observations
           n == Len(observations)
           bps == Rates(rows, "price_slippage_bps")
           all_in == Rates(rows, "all_in_cost_bps")
           Rows == {Costs!Row(o) : o \in ExecutionCostObservation}
<1>1. observations \in Seq(ExecutionCostObservation)
  BY DEF ExecutionCostAttributionRequest
<1>2. rows = [k \in DOMAIN observations |-> Costs!Row(observations[k])]
  BY DEF CostRows
<1> HIDE DEF observations
<1>3. DOMAIN observations = 1..n /\ n \in Nat
      /\ \A k \in 1..n : observations[k] \in ExecutionCostObservation
  BY <1>1
<1>4. DOMAIN rows = 1..n /\ \A k \in 1..n : rows[k] = Costs!Row(observations[k])
  BY <1>2, <1>3
<1>5. Len(rows) = n
  <2>1. \A k \in 1..n : rows[k] \in Rows
    BY <1>3, <1>4
  <2> HIDE DEF Rows, n
  <2>2. rows \in Seq(Rows)
    BY <1>2, <1>3, <1>4, <2>1
  <2> QED BY <1>3, <1>4, <2>2
<1> HIDE DEF n
<1>6. ASSUME NEW k \in 1..n
      PROVE  /\ bps[k] \in Int /\ all_in[k] \in Int /\ bps[k] <= all_in[k]
  <2>1. /\ bps[k] = rows[k].price_slippage_bps
        /\ all_in[k] = rows[k].all_in_cost_bps
    BY <1>4 DEF Rates
  <2> QED BY <1>3, <1>4, <2>1, RatesOfRow
<1>7. DOMAIN bps = 1..n /\ DOMAIN all_in = 1..n
  BY <1>4 DEF Rates
<1>8. Len(bps) = n /\ Len(all_in) = n
  <2>1. bps = [k \in 1..n |-> bps[k]] /\ all_in = [k \in 1..n |-> all_in[k]]
    BY <1>4 DEF Rates
  <2>2. /\ \A k \in 1..n : bps[k] \in Int
        /\ \A k \in 1..n : all_in[k] \in Int
    BY <1>6
  <2> HIDE DEF bps, all_in
  <2> QED BY <1>3, <2>1, <2>2, ListOfIntegers
<1>9. n # 0 => AreValues(bps, n) /\ AreValues(all_in, n)
  <2> HIDE DEF bps, all_in
  <2> QED BY <1>3, <1>6, <1>7, <1>8 DEF AreValues, IsKey
<1> QED BY <1>3, <1>4, <1>5, <1>6, <1>9

AtLeastNothing(x) == Max({0, x})
CostFloor(values) == Nearest(AtLeastNothing(Costs!Percentile(values, 95)), 100 * Coarse)
Quantile(values, percent) == Nearest(Costs!Percentile(values, percent), 100 * Coarse)

(* The figures of a cost summary that the property looks at.               *)
LEMMA FloorsOfSummary ==
  ASSUME NEW r, NEW rows, rows = CostRows(r), NEW data, data = Costs!Summary(r),
         NEW bps, bps = Rates(rows, "price_slippage_bps"),
         NEW all_in, all_in = Rates(rows, "all_in_cost_bps")
  PROVE  /\ data.observation_count = Len(rows) /\ data.observations = rows
         /\ IF Len(rows) >= r.minimum /\ rows # << >>
            THEN data.slippage_bps_floor = CostFloor(bps)
                 /\ data.all_in_cost_bps_floor = CostFloor(all_in)
            ELSE data.slippage_bps_floor = None /\ data.all_in_cost_bps_floor = None
         /\ rows # << >> => /\ data.median_price_slippage_bps = Quantile(bps, 50)
                            /\ data.p90_price_slippage_bps = Quantile(bps, 90)
                            /\ data.p95_price_slippage_bps = Quantile(bps, 95)
<1>1. \A x : Costs!Published(x) = Nearest(x, 100 * Coarse)
  BY SameOperators DEF Costs!Published
<1>2. \A S : Costs!Max(S) = Max(S)
  BY SameRatioOperators
<1>3. /\ data.observation_count = Len(rows) /\ data.observations = rows
      /\ data.slippage_bps_floor
           = IF ~(Len(rows) >= r.minimum) \/ rows = << >> THEN None
             ELSE Costs!Published(Costs!Max({0, Costs!Percentile(bps, 95)}))
      /\ data.all_in_cost_bps_floor
           = IF ~(Len(rows) >= r.minimum) \/ rows = << >> THEN None
             ELSE Costs!Published(Costs!Max({0, Costs!Percentile(all_in, 95)}))
      /\ data.median_price_slippage_bps
           = IF rows = << >> THEN None ELSE Costs!Published(Costs!Percentile(bps, 50))
      /\ data.p90_price_slippage_bps
           = IF rows = << >> THEN None ELSE Costs!Published(Costs!Percentile(bps, 90))
      /\ data.p95_price_slippage_bps
           = IF rows = << >> THEN None ELSE Costs!Published(Costs!Percentile(bps, 95))
  BY DEF Costs!Summary, CostRows, Rates
<1>4. /\ Costs!Published(Costs!Max({0, Costs!Percentile(bps, 95)})) = CostFloor(bps)
      /\ Costs!Published(Costs!Max({0, Costs!Percentile(all_in, 95)})) = CostFloor(all_in)
  BY <1>1, <1>2, Zenon DEF CostFloor, AtLeastNothing
<1>5. \A p : Costs!Published(Costs!Percentile(bps, p)) = Quantile(bps, p)
  BY <1>1, Zenon DEF Quantile
<1> QED BY <1>3, <1>4, <1>5

(* What max(0, x) is.                                                      *)
LEMMA AtLeastNothingIs ==
  ASSUME NEW x \in Int
  PROVE  /\ AtLeastNothing(x) \in Int /\ 0 <= AtLeastNothing(x) /\ x <= AtLeastNothing(x)
         /\ AtLeastNothing(x) \in {0, x}
<1>1. 0 \in Int
  OBVIOUS
<1> QED BY <1>1, MaxOfTwo, Zenon DEF AtLeastNothing

(* A floor is nothing or a cost, and few of its values are above it.       *)
LEMMA FloorOfValues ==
  ASSUME NEW values, NEW n, AreValues(values, n)
  PROVE  /\ CostFloor(values) \in Int /\ 0 <= CostFloor(values)
         /\ Cardinality({k \in 1..n : 2 * values[k] > (2 * CostFloor(values) + 1) * Coarse})
              <= (n + 18) \div 20
<1> DEFINE p == Costs!Percentile(values, 95)
           x == AtLeastNothing(p)
<1>1. p \in Int
  <2>1. 95 \in 0..100
    OBVIOUS
  <2> QED BY <2>1, PercentileBetween
<1> HIDE DEF p
<1>2. x \in Int /\ 0 <= x /\ p <= x
  BY <1>1, AtLeastNothingIs
<1> HIDE DEF x
<1>3. 100 * Coarse \in Nat \ {0}
  BY ScalesAssumption
<1>4. Nearest(x, 100 * Coarse) \in Int /\ 0 <= Nearest(x, 100 * Coarse)
  BY <1>2, <1>3, NearestRises
<1>5. Cardinality({k \in 1..n : 2 * values[k] > (2 * Nearest(x, 100 * Coarse) + 1) * Coarse})
        <= (n + 18) \div 20
  BY <1>2, FewAboveFloor DEF p
<1>6. CostFloor(values) = Nearest(x, 100 * Coarse)
  BY DEF CostFloor, x, p
<1> QED BY <1>4, <1>5, <1>6

(* Values nowhere lower have no lower floor.                               *)
LEMMA FloorsOrdered ==
  ASSUME NEW values, NEW n, AreValues(values, n), NEW others, AreValues(others, n),
         \A i \in 1..n : values[i] <= others[i]
  PROVE  CostFloor(values) <= CostFloor(others)
<1> DEFINE p == Costs!Percentile(values, 95)
           q == Costs!Percentile(others, 95)
<1>1. 95 \in 0..100
  OBVIOUS
<1>2. p \in Int /\ q \in Int /\ p <= q
  BY <1>1, PercentileBetween, PercentileAtMost
<1> HIDE DEF p, q
<1>3. /\ AtLeastNothing(p) \in Int /\ AtLeastNothing(q) \in Int
      /\ AtLeastNothing(p) <= AtLeastNothing(q)
  <2>1. /\ AtLeastNothing(p) \in {0, p} /\ AtLeastNothing(p) \in Int
        /\ AtLeastNothing(q) \in Int /\ 0 <= AtLeastNothing(q) /\ q <= AtLeastNothing(q)
    BY <1>2, AtLeastNothingIs
  <2> QED BY <1>2, <2>1
<1>4. 100 * Coarse \in Nat \ {0}
  BY ScalesAssumption
<1>5. Nearest(AtLeastNothing(p), 100 * Coarse) <= Nearest(AtLeastNothing(q), 100 * Coarse)
  BY <1>3, <1>4, NearestRises
<1> QED BY <1>5 DEF CostFloor, p, q

(* The percentiles of a summary are in order.                              *)
LEMMA QuantilesOrdered ==
  ASSUME NEW values, NEW n, AreValues(values, n),
         NEW small \in 0..100, NEW large \in 0..100, small <= large
  PROVE  Quantile(values, small) <= Quantile(values, large)
<1>1. /\ Costs!Percentile(values, small) \in Int /\ Costs!Percentile(values, large) \in Int
      /\ Costs!Percentile(values, small) <= Costs!Percentile(values, large)
  BY PercentileBetween, PercentileRises
<1>2. 100 * Coarse \in Nat \ {0}
  BY ScalesAssumption
<1> QED BY <1>1, <1>2, NearestRises DEF Quantile

\* What the property counts.
Above(rows, field, floor) ==
  {k \in DOMAIN rows : 2 * rows[k][field] > (2 * floor + 1) * Coarse}

(* The figures of a cost summary, when there is one to publish.            *)
LEMMA FloorsOfRows ==
  ASSUME NEW r \in ExecutionCostAttributionRequest, NEW rows, rows = CostRows(r),
         rows # << >>,
         NEW bps, bps = Rates(rows, "price_slippage_bps"),
         NEW all_in, all_in = Rates(rows, "all_in_cost_bps")
  PROVE  LET few == (Len(rows) + 18) \div 20
         IN  /\ CostFloor(bps) \in Int /\ CostFloor(all_in) \in Int
             /\ 0 <= CostFloor(bps) /\ CostFloor(bps) <= CostFloor(all_in)
             /\ Cardinality(Above(rows, "price_slippage_bps", CostFloor(bps))) <= few
             /\ Cardinality(Above(rows, "all_in_cost_bps", CostFloor(all_in))) <= few
             /\ Quantile(bps, 50) <= Quantile(bps, 90) /\ Quantile(bps, 90) <= Quantile(bps, 95)
<1> DEFINE n == Len(rows)
<1>1. /\ n \in Nat /\ DOMAIN rows = 1..n
      /\ n # 0 => AreValues(bps, n) /\ AreValues(all_in, n)
      /\ \A k \in 1..n : bps[k] <= all_in[k]
  BY RatesOfRows
<1>2. n # 0
  <2>1. rows = [k \in DOMAIN r.observations |-> Costs!Row(r.observations[k])]
    BY DEF CostRows
  <2> HIDE DEF n
  <2> QED BY <1>1, <2>1
<1> HIDE DEF n
<1>3. AreValues(bps, n) /\ AreValues(all_in, n)
  BY <1>1, <1>2
<1>4. /\ Above(rows, "price_slippage_bps", CostFloor(bps))
           = {k \in 1..n : 2 * bps[k] > (2 * CostFloor(bps) + 1) * Coarse}
      /\ Above(rows, "all_in_cost_bps", CostFloor(all_in))
           = {k \in 1..n : 2 * all_in[k] > (2 * CostFloor(all_in) + 1) * Coarse}
  <2>1. /\ \A k \in 1..n : bps[k] = rows[k].price_slippage_bps
        /\ \A k \in 1..n : all_in[k] = rows[k].all_in_cost_bps
    BY <1>1 DEF Rates
  <2> QED BY <1>1, <2>1 DEF Above
<1>5. CostFloor(bps) <= CostFloor(all_in)
  BY <1>1, <1>3, FloorsOrdered
<1>6. /\ CostFloor(bps) \in Int /\ 0 <= CostFloor(bps) /\ CostFloor(all_in) \in Int
      /\ Cardinality(Above(rows, "price_slippage_bps", CostFloor(bps))) <= (n + 18) \div 20
      /\ Cardinality(Above(rows, "all_in_cost_bps", CostFloor(all_in))) <= (n + 18) \div 20
  BY <1>3, <1>4, FloorOfValues
<1>7. 50 \in 0..100 /\ 90 \in 0..100 /\ 95 \in 0..100 /\ 50 <= 90 /\ 90 <= 95
  OBVIOUS
<1>8. Quantile(bps, 50) <= Quantile(bps, 90) /\ Quantile(bps, 90) <= Quantile(bps, 95)
  BY <1>3, <1>7, QuantilesOrdered
<1> QED BY <1>5, <1>6, <1>8 DEF n

(* Whatever was posted, the floors of an answer, rounded from an            *)
(* interpolation of rounded rates, cover all but one in twenty of its       *)
(* observations, are in order, and are there only with full confidence.    *)
THEOREM FloorsCover == Spec => []FloorCoversObservations
<1>1. ASSUME IInv, FiguresInv PROVE FloorCoversObservations
  <2> SUFFICES ASSUME AnsweredTo("execution-costs") PROVE FloorCoversObservations
    BY DEF FloorCoversObservations
  <2> DEFINE r == request.payload
             data == answer.data
             rows == CostRows(r)
             bps == Rates(rows, "price_slippage_bps")
             all_in == Rates(rows, "all_in_cost_bps")
             full == Len(rows) >= r.minimum
  <2>1. /\ request \in Requests /\ Accepted(r)
        /\ data = Costs!Summary(r)
        /\ answer.confidence = Confidence(data.observation_count, r.minimum)
    BY <1>1 DEF FiguresInv, FigureEndpoints, Figures, AnsweredTo, Answered
  <2>2. r \in ExecutionCostAttributionRequest
    BY <2>1, PayloadsAssumption DEF AnsweredTo
  <2>3. Len(rows) \in Nat /\ DOMAIN rows = 1..Len(rows)
    BY <2>2, RatesOfRows
  <2>4. r.minimum \in 1..ConfidenceUnit
    BY <2>2 DEF ExecutionCostAttributionRequest
  <2>5. /\ data = Costs!Summary(r) /\ rows = CostRows(r)
        /\ bps = Rates(rows, "price_slippage_bps") /\ all_in = Rates(rows, "all_in_cost_bps")
    BY <2>1
  <2> HIDE DEF r, data, rows, bps, all_in
  <2>6. data.observation_count = Len(rows) /\ data.observations = rows
    BY <2>5, FloorsOfSummary
  <2>7. IF full THEN answer.confidence = ConfidenceUnit ELSE answer.confidence < ConfidenceUnit
    BY <2>1, <2>3, <2>4, <2>6, FullConfidence
  <2>8. IF full /\ rows # << >>
        THEN data.slippage_bps_floor = CostFloor(bps)
             /\ data.all_in_cost_bps_floor = CostFloor(all_in)
        ELSE data.slippage_bps_floor = None /\ data.all_in_cost_bps_floor = None
    BY <2>5, FloorsOfSummary
  <2>9. rows # << >> =>
          /\ data.median_price_slippage_bps = Quantile(bps, 50)
          /\ data.p90_price_slippage_bps = Quantile(bps, 90)
          /\ data.p95_price_slippage_bps = Quantile(bps, 95)
    BY <2>5, FloorsOfSummary
  <2> HIDE DEF full
  <2>10. CASE full /\ rows # << >>
    <3>1. /\ CostFloor(bps) \in Int /\ CostFloor(all_in) \in Int
          /\ 0 <= CostFloor(bps) /\ CostFloor(bps) <= CostFloor(all_in)
          /\ Cardinality(Above(rows, "price_slippage_bps", CostFloor(bps)))
               <= (Len(rows) + 18) \div 20
          /\ Cardinality(Above(rows, "all_in_cost_bps", CostFloor(all_in)))
               <= (Len(rows) + 18) \div 20
          /\ Quantile(bps, 50) <= Quantile(bps, 90)
          /\ Quantile(bps, 90) <= Quantile(bps, 95)
      BY <2>2, <2>10, FloorsOfRows DEF rows, bps, all_in
    <3>2. data.slippage_bps_floor # None
      BY <2>8, <2>10, <3>1, GatewayAssumption
    <3>3. /\ Cardinality(Above(data.observations, "price_slippage_bps",
                               data.slippage_bps_floor))
               <= (data.observation_count + 18) \div 20
          /\ Cardinality(Above(data.observations, "all_in_cost_bps",
                               data.all_in_cost_bps_floor))
               <= (data.observation_count + 18) \div 20
      BY <2>6, <2>8, <2>10, <3>1
    <3>4. /\ answer.confidence = ConfidenceUnit
          /\ 0 <= data.slippage_bps_floor
          /\ data.slippage_bps_floor <= data.all_in_cost_bps_floor
          /\ data.median_price_slippage_bps <= data.p90_price_slippage_bps
          /\ data.p90_price_slippage_bps <= data.p95_price_slippage_bps
      BY <2>7, <2>8, <2>9, <2>10, <3>1
    <3> QED BY <3>2, <3>3, <3>4, Zenon DEF FloorCoversObservations, Above, data
  <2>11. CASE ~full
    <3>1. /\ data.slippage_bps_floor = None /\ data.all_in_cost_bps_floor = None
          /\ answer.confidence < ConfidenceUnit
      BY <2>7, <2>8, <2>11
    <3> QED BY <3>1, Zenon DEF FloorCoversObservations, data
  <2>12. CASE rows = << >>
    <3>1. /\ data.slippage_bps_floor = None /\ data.all_in_cost_bps_floor = None
          /\ data.observation_count = 0
      BY <2>6, <2>8, <2>12
    <3> QED BY <3>1, Zenon DEF FloorCoversObservations, data
  <2> QED BY <2>10, <2>11, <2>12
<1> QED BY <1>1, FiguresAlways, PTL
=============================================================================
