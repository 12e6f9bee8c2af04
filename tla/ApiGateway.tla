----------------------------- MODULE ApiGateway -----------------------------
(***************************************************************************)
(* One request at a time through the service: the middleware that checks   *)
(* the key and gives the request its correlation id, readiness, the        *)
(* endpoints with the statistics they compute, the call to Database_Agent  *)
(* and the error handlers, for every way the service may be deployed.      *)
(*                                                                         *)
(* What the endpoints of session risk, TradePlan summary and learning      *)
(* outcomes compute is in SessionRisk, FillAttribution, LearningOutcomes   *)
(* and DatabaseEndpoint.  Faulty... operators: see FillPaging.             *)
(***************************************************************************)
EXTENDS Numbers, SequencesExt

CONSTANTS
  None, Empty, Blank,   \* a value that is absent, empty, white space
  Slashes,              \* a URL of slashes only
  Localhost,            \* "http://localhost:8001"
  Unusual,              \* keys with characters outside ASCII
  FreshIds,             \* uuid4
  Deployments,          \* environments: records of variables
  Requests,             \* [endpoint, key, id, payload]
  Malformed,            \* a payload that does not validate
  Unprintable,          \* one whose errors or figures JSON cannot carry
  Upper, Cent, Micro, Fine, BpsScale, Coarse,
  Whole, Unit, FactorUnit, MinObservations, MaxMinimum,
  ConfidenceUnit        \* 10^4, of the confidence

ASSUME GatewayAssumption ==
  /\ None \notin Requests
  /\ None # Empty /\ {None, Empty} \cap FreshIds = {}
  /\ None \notin Int \cup (Int \X Int)

ASSUME ScalesAssumption ==
  /\ {Cent, Micro, Fine, BpsScale, Coarse, Whole, Unit, FactorUnit, ConfidenceUnit}
       \subseteq Nat \ {0}
  /\ MinObservations \in Nat

\* What pydantic lets through: lists of records with numbers and names.
Positive == Nat \ {0}
ClosedTrade == [symbol : DOMAIN Upper, strategy : STRING, side : {"long", "short"},
                entry : Int, exit : Int, quantity : Int, fees : Int]
EquityPoint == [timestamp : Int, equity : Positive]
ExecutionCostObservation ==
  [symbol : DOMAIN Upper, strategy : STRING, regime : STRING, side : {"buy", "sell"},
   quantity : Positive, decision_price : Positive,
   submitted_price : Positive \cup {None}, fill_price : Positive, fees : Nat]
ShadowTradeOutcome ==
  [net : Int, gross : Int, cost : Int, strategy : STRING, regime : STRING]

PerformanceReportRequest ==
  [initial_equity : Positive, trades : Seq(ClosedTrade), equity_curve : Seq(EquityPoint)]
ExecutionCostAttributionRequest ==
  [observations : Seq(ExecutionCostObservation), minimum : 1..ConfidenceUnit]
ShadowPerformanceRequest == [outcomes : Seq(ShadowTradeOutcome), minimum : Int]

\* What validation lets through, but for the number a shadow request asks for.
Accepted(payload) == payload \notin {Malformed, Unprintable}

ASSUME PayloadsAssumption ==
  \A q \in Requests : Accepted(q.payload) =>
    /\ q.endpoint = "report" => q.payload \in PerformanceReportRequest
    /\ q.endpoint = "execution-costs" => q.payload \in ExecutionCostAttributionRequest
    /\ q.endpoint = "shadow" => q.payload \in ShadowPerformanceRequest

VARIABLES
  env,       \* the environment variables of the process
  pc,
  request,
  state_id,  \* request.state.correlation_id
  local_id,  \* correlation_id of the middleware
  sent,      \* the URL and key of the exchange with Database_Agent
  answer

vars == <<env, pc, request, state_id, local_id, sent, answer>>

Reports == INSTANCE PerformanceReport
Costs == INSTANCE ExecutionCosts
Shadow == INSTANCE ShadowEvidence

PUBLIC_PATHS == {"/", "/health", "/ready", "/version", "/docs"}

-----------------------------------------------------------------------------
(* security.py                                                             *)
Flag(name) == env[name] # "off"     \* absent: on
AuthEnabled == Flag("auth")
DatabaseRequired == Flag("database_required")

ConfiguredKey == IF env.key = Empty THEN None ELSE env.key

\* The first of the two variables that is not blank, without its slashes.
FaultyDatabaseUrl ==
  IF env.runtime_url # None THEN env.runtime_url ELSE env.database_url
DatabaseUrl ==
  LET url == IF env.runtime_url \in {None, Empty, Blank} THEN env.database_url
             ELSE env.runtime_url
  IN  IF url \in {Empty, Blank} THEN None ELSE IF url = Slashes THEN Empty ELSE url

DatabaseKey ==
  IF env.database_key \in {Empty, Blank} THEN None ELSE env.database_key

DatabaseReady ==
  ~DatabaseRequired \/ (DatabaseUrl \notin {None, Empty} /\ DatabaseKey # None)

\* (a path is public if it starts with a public one, and all start with "/")
FaultyProtected == FALSE
Protected == request.endpoint \notin PUBLIC_PATHS

\* request_correlation_id: the id of the request's state, else the header
\* sent with it, else a new one.
FaultyIdentified(id) ==
  IF request.id \notin {None, Empty} THEN id = request.id
  ELSE id \in FreshIds \ {state_id, local_id}
Identified(id) ==
  IF state_id # None THEN id = state_id
  ELSE IF request.id \notin {None, Empty} THEN id = request.id
  ELSE id \in FreshIds

Error(status, id) == [status |-> status, body_id |-> id, header_id |-> id,
                      data |-> None, confidence |-> None]

-----------------------------------------------------------------------------
Init ==
  /\ env \in Deployments
  /\ pc = "idle"
  /\ request = None /\ answer = None
  /\ state_id = None /\ local_id = None /\ sent = None

\* Between requests the service may be started again with other variables.
Deploy(variables) ==
  /\ request = None
  /\ env' = variables
  /\ UNCHANGED <<pc, request, state_id, local_id, sent, answer>>

Receive(q) ==
  /\ request = None
  /\ pc' = "middleware"
  /\ request' = q
  /\ UNCHANGED <<env, state_id, local_id, sent, answer>>

\* The caller has its answer; nothing of the request is left.
Deliver ==
  /\ pc = "idle" /\ answer # None
  /\ request' = None /\ answer' = None
  /\ state_id' = None /\ local_id' = None /\ sent' = None
  /\ UNCHANGED <<env, pc>>

Middleware(id) ==
  /\ pc = "middleware"
  /\ Identified(id)
  /\ state_id' = id /\ local_id' = id
  /\ UNCHANGED <<env, request, sent>>

RefuseUnconfigured(id) ==
  /\ Middleware(id)
  /\ Protected /\ AuthEnabled /\ ConfiguredKey = None
  /\ answer' = Error(503, id)
  /\ pc' = "idle"

\* compare_digest takes ASCII only: the request ends in the handler of
\* unexpected errors.
Incomparable == request.key # None /\ {request.key, ConfiguredKey} \cap Unusual # {}
ValidKey == request.key # None /\ request.key = ConfiguredKey

CompareFails(id) ==
  /\ Middleware(id)
  /\ Protected /\ AuthEnabled /\ ConfiguredKey # None
  /\ Incomparable
  /\ answer' = Error(500, id)
  /\ pc' = "idle"

RefuseKey(id) ==
  /\ Middleware(id)
  /\ Protected /\ AuthEnabled /\ ConfiguredKey # None
  /\ ~Incomparable /\ ~ValidKey
  /\ answer' = Error(401, id)
  /\ pc' = "idle"

Admit(id) ==
  /\ Middleware(id)
  /\ Protected /\ AuthEnabled => /\ ConfiguredKey # None
                                 /\ ~Incomparable /\ ValidKey
  /\ pc' = "endpoint"
  /\ UNCHANGED answer

-----------------------------------------------------------------------------
Valid == /\ Accepted(request.payload)
         /\ request.endpoint = "shadow" => Shadow!ValidRequest(request.payload)

\* What an endpoint returns goes through the middleware again.
Return(status, id, data, confidence) ==
  /\ pc' = "return"
  /\ state_id' = IF id = None THEN state_id ELSE id
  /\ answer' = [status |-> status, body_id |-> id, header_id |-> None,
                data |-> data, confidence |-> confidence]
  /\ UNCHANGED <<env, request, local_id>>

Refuse(id) ==
  /\ pc = "endpoint"
  /\ Protected /\ request.endpoint # "unknown"
  /\ ~Valid /\ request.payload # Unprintable
  /\ Identified(id)
  /\ Return(422, id, None, None)
  /\ UNCHANGED sent

\* The error of a validator is an exception, which JSONResponse cannot carry
\* to the caller, nor can it numbers that are not finite: the request ends in
\* the handler of unexpected errors.
FailToPrint(id) ==
  /\ pc = "endpoint"
  /\ Protected /\ request.endpoint # "unknown"
  /\ request.payload = Unprintable
  /\ Identified(id)
  /\ answer' = Error(500, id)
  /\ pc' = "idle"
  /\ UNCHANGED <<env, request, state_id, local_id, sent>>

\* documentation, "/" and 404 answer without the contract's fields
Plain ==
  /\ pc = "endpoint"
  /\ request.endpoint \in {"/", "/docs", "unknown"}
  /\ Return(IF request.endpoint = "unknown" THEN 404 ELSE 200, None, None, None)
  /\ UNCHANGED sent

FailedChecks ==
  (IF AuthEnabled /\ ConfiguredKey = None THEN {"performance_api_key"} ELSE {})
    \cup (IF DatabaseRequired /\ DatabaseUrl = None THEN {"database_agent_url"} ELSE {})
    \cup (IF DatabaseRequired /\ DatabaseKey = None THEN {"database_agent_api_key"} ELSE {})

ReadyStatus == IF (~AuthEnabled \/ ConfiguredKey # None) /\ DatabaseReady THEN 200 ELSE 503

Ready(id) ==
  /\ pc = "endpoint"
  /\ request.endpoint = "/ready"
  /\ Identified(id)
  /\ Return(ReadyStatus, id, FailedChecks, IF ReadyStatus = 200 THEN 1 ELSE 0)
  /\ UNCHANGED sent

Confidence(count, minimum) ==
  Nearest(ConfidenceUnit * Min({count, minimum}), minimum)

\* Endpoint by endpoint, the data and the confidence.
Computed ==
  CASE request.endpoint = "report" ->
         <<Reports!Report(request.payload), None>>
    [] request.endpoint = "execution-costs" ->
         LET data == Costs!Summary(request.payload)
         IN  <<data, Confidence(data.observation_count, request.payload.minimum)>>
    [] request.endpoint = "shadow" ->
         LET data == Shadow!Summary(request.payload)
         IN  <<data, Confidence(data.observation_count, request.payload.minimum)>>
    [] OTHER -> <<request.endpoint, None>>

Compute(id) ==
  /\ pc = "endpoint"
  /\ request.endpoint \notin {"/", "/docs", "/ready", "unknown", "database"}
  /\ Protected => Valid
  /\ Identified(id)
  /\ Return(200, id, Computed[1], Computed[2])
  /\ UNCHANGED sent

\* DatabaseAgentClient(): the URL it asks and the key header it sends.
AskDatabase ==
  /\ pc = "endpoint"
  /\ request.endpoint = "database"
  /\ Valid
  /\ sent' = [url |-> IF DatabaseUrl \in {None, Empty} THEN Localhost ELSE DatabaseUrl,
              key |-> DatabaseKey]
  /\ pc' = "database"
  /\ UNCHANGED <<env, request, state_id, local_id, answer>>

DatabaseAnswers(id) ==
  /\ pc = "database"
  /\ Identified(id)
  /\ Return(200, id, request.endpoint, None)
  /\ UNCHANGED sent

DatabaseFails(id) ==
  /\ pc = "database"
  /\ Identified(id)
  /\ Return(502, id, None, None)
  /\ UNCHANGED sent

\* A reply that is no JSON object fails outside the client's own handling.
DatabaseMisreplies(id) ==
  /\ pc = "database"
  /\ Identified(id)
  /\ answer' = Error(500, id)
  /\ pc' = "idle"
  /\ UNCHANGED <<env, request, state_id, local_id, sent>>

Respond ==
  /\ pc = "return"
  /\ pc' = "idle"
  /\ answer' = [answer EXCEPT !.header_id = local_id]
  /\ UNCHANGED <<env, request, state_id, local_id, sent>>

Next ==
  \/ \E variables \in Deployments : Deploy(variables)
  \/ \E q \in Requests : Receive(q)
  \/ \E id \in FreshIds \cup {state_id} \cup (IF request = None THEN {} ELSE {request.id}) :
       \/ RefuseUnconfigured(id) \/ CompareFails(id) \/ RefuseKey(id) \/ Admit(id)
       \/ Refuse(id) \/ FailToPrint(id) \/ Ready(id) \/ Compute(id)
       \/ DatabaseAnswers(id) \/ DatabaseFails(id) \/ DatabaseMisreplies(id)
  \/ Plain \/ AskDatabase \/ Respond \/ Deliver

Spec == Init /\ [][Next]_vars

-----------------------------------------------------------------------------
Answered == pc = "idle" /\ answer # None

NeedsKey == request # None /\ request.endpoint \notin PUBLIC_PATHS /\ AuthEnabled

(* However the service is deployed, a request that needs the key reaches    *)
(* an endpoint, and Database_Agent, only with the key the service was       *)
(* deployed with; without one, no request does.                             *)
OnlyKeyHoldersServed ==
  NeedsKey /\ (sent # None \/ pc \in {"endpoint", "database", "return"}) =>
    request.key = env.key /\ env.key \notin {None, Empty}

(* /ready looks at the variables, the other endpoints read them again.      *)
(* While it reports 200, a caller with the key (in ASCII) is served, unless  *)
(* its payload or Database_Agent is at fault; none is told that the service  *)
(* is not configured, and a Database_Agent that is required is asked at the  *)
(* URL meant for the runtime, with its key.                                  *)
ReadyMeansServed ==
  (ReadyStatus = 200 /\ request # None) =>
    /\ Answered => answer.status # 503
    /\ Answered /\ NeedsKey /\ request.key = env.key /\ env.key \notin Unusual =>
         /\ answer.status # 401
         /\ answer.status = 500 => request.endpoint = "database"
                                   \/ request.payload = Unprintable
         /\ answer.status = 422 => ~Valid
    /\ sent # None /\ DatabaseRequired =>
         /\ sent.key = env.database_key /\ sent.key \notin {None, Empty, Blank}
         /\ sent.url = IF env.runtime_url \notin {None, Empty, Blank}
                       THEN env.runtime_url ELSE env.database_url
         /\ sent.url \notin {None, Empty, Blank, Slashes}

(* The middleware, the endpoint and the error handlers each ask for the     *)
(* correlation id; every answer carries one id, the caller's if it sent     *)
(* one, in its header and, where the contract has it, in its body.          *)
OneCorrelationId ==
  Answered =>
    /\ answer.body_id \in {None, answer.header_id}
    /\ request.id \notin {None, Empty} => answer.header_id = request.id
    /\ answer.header_id \notin {None, Empty}
    /\ answer.body_id = None => request.endpoint \in {"/", "/docs", "unknown"}

AnsweredTo(endpoint) == Answered /\ request.endpoint = endpoint /\ answer.status = 200

SumOf(groups, field) == SumOver([key \in DOMAIN groups |-> groups[key][field]])

(* Trades and fills are grouped by names that callers spell differently or  *)
(* leave out.  The groups of each dimension share all of them: they add up  *)
(* to the totals of the report, and the best strategy is not worse than     *)
(* the average nor the worst one better.  The amounts of fills are rounded  *)
(* row by row, then group by group and in all: with those of groups and     *)
(* total each half a unit off and those of rows half of 10^-8, twice.       *)
GroupsAddUp ==
  LET data == answer.data IN
  /\ AnsweredTo("report") =>
       /\ \A groups \in {data.by_strategy, data.by_symbol} :
            /\ SumOf(groups, "trade_count") = data.trade_count
            /\ Nearest(SumOf(groups, "net_profit"), Cent) = data.net_profit
       /\ data.best_strategy # None =>
            LET total == SumOf(data.by_strategy, "net_profit")
                size == Cardinality(DOMAIN data.by_strategy)
            IN  /\ size * data.by_strategy[data.best_strategy].net_profit >= total
                /\ size * data.by_strategy[data.worst_strategy].net_profit <= total
  /\ AnsweredTo("execution-costs") =>
       \A groups \in {data.by_symbol, data.by_strategy, data.by_regime} :
         /\ SumOf(groups, "observation_count") = data.observation_count
         /\ 2 * Distance(SumOf(groups, "decision_notional"), data.total_decision_notional)
              <= Cardinality(DOMAIN groups) + 1
         /\ 2 * (Coarse * Distance(SumOf(groups, "all_in_execution_cost"),
                                   data.total_execution_cost))
              <= Coarse * (Cardinality(DOMAIN groups) + 1) + 2 * data.observation_count
  /\ AnsweredTo("shadow") =>
       \A groups \in {data.by_strategy, data.by_regime} :
         SumOf(groups, "observation_count") = data.observation_count

(* The profit factor of a report is absent exactly for gains without        *)
(* losses, and otherwise on the side of 1 that the net profit is of 0; the  *)
(* net profit is that of the rounded gains and losses to within a cent.     *)
ProfitFactorTellsNet ==
  AnsweredTo("report") =>
    LET data == answer.data
        factor == data.profit_factor
        apart == data.net_profit - (data.gross_profit + data.gross_loss)
    IN  /\ factor = None <=> data.winning_trades > 0 /\ data.losing_trades = 0
        /\ factor # None =>
             /\ factor > Micro => data.net_profit >= 0
             /\ data.net_profit > 0 => factor >= Micro
             /\ data.net_profit < 0 => factor <= Micro
        /\ apart \in -1..1

CurveFalls(curve) ==
  LET before(j, k) == \/ curve[j].timestamp < curve[k].timestamp
                      \/ curve[j].timestamp = curve[k].timestamp /\ j <= k
  IN  UNION {{<<curve[j].equity - curve[k].equity, curve[j].equity>> :
                k \in {m \in DOMAIN curve : before(j, m)}} : j \in DOMAIN curve}

Growth(outcomes, from, to) ==
  FoldLeft(LAMBDA acc, o : <<acc[1] * (Whole + o.net), acc[2] * Whole>>,
           <<1, 1>>, SubSeq(outcomes, from, to))
FallOver(outcomes, from, to) ==
  LET growth == Growth(outcomes, from, to)
  IN  <<growth[2] - growth[1], growth[2]>>
OutcomeFalls(outcomes) ==
  {FallOver(outcomes, from, to) : from, to \in 1..Len(outcomes)} \cup {<<0, 1>>}

(* The drawdown is kept in one pass over a running peak, of a curve in any  *)
(* order of its points and of outcomes that compound; it is the deepest     *)
(* relative fall from any moment to a later one.                            *)
DrawdownIsWorstFall ==
  /\ AnsweredTo("report") /\ request.payload.equity_curve # << >> =>
       answer.data.max_drawdown
         = -Rounded(Greatest(CurveFalls(request.payload.equity_curve)), Micro)
  /\ AnsweredTo("shadow") /\ answer.data.max_drawdown_pct # None
     /\ (\A k \in DOMAIN request.payload.outcomes :
           request.payload.outcomes[k].net >= -Whole) =>
       answer.data.max_drawdown_pct
         = Rounded(Greatest(OutcomeFalls(request.payload.outcomes)), Unit)

(* The published cost floor, interpolated and rounded twice, is not below   *)
(* more than one in twenty of the observations by more than the rounding;   *)
(* it is no gain, with fees not lower than without, and published exactly   *)
(* when the confidence is full.                                             *)
FloorCoversObservations ==
  AnsweredTo("execution-costs") =>
    LET data == answer.data
        above(field, floor) ==
          {k \in DOMAIN data.observations :
             2 * data.observations[k][field] > (2 * floor + 1) * Coarse}
        covers(field, floor) ==
          Cardinality(above(field, floor)) <= (data.observation_count + 18) \div 20
    IN  IF data.slippage_bps_floor = None
        THEN /\ data.all_in_cost_bps_floor = None
             /\ data.observation_count = 0 \/ answer.confidence < ConfidenceUnit
        ELSE /\ answer.confidence = ConfidenceUnit
             /\ 0 <= data.slippage_bps_floor
             /\ data.slippage_bps_floor <= data.all_in_cost_bps_floor
             /\ covers("price_slippage_bps", data.slippage_bps_floor)
             /\ covers("all_in_cost_bps", data.all_in_cost_bps_floor)
             /\ data.median_price_slippage_bps <= data.p90_price_slippage_bps
             /\ data.p90_price_slippage_bps <= data.p95_price_slippage_bps

(* Two verdicts on one record: forward review looks at the rounded figures  *)
(* and a constant number of observations, paper review at the exact mean    *)
(* and the number asked for.  A record with that number is ready for        *)
(* forward review only if it is for paper review.                           *)
ForwardNeedsPaper ==
  AnsweredTo("shadow") =>
    LET data == answer.data
    IN  Shadow!ForwardReviewReady(data) /\ data.observation_count >= data.minimum
          => data.paper_review_ready

(* One more gain, small or large, does not take a record that is ready for  *)
(* paper review back; nor, if it is at least a unit that returns are        *)
(* rounded to, one that is ready for forward review.                        *)
WinKeepsReadiness ==
  AnsweredTo("shadow") /\ request.payload.outcomes # << >> =>
    \A gain \in 1..Whole :
      LET win == [request.payload.outcomes[1] EXCEPT !.net = gain]
          later == Shadow!Summary([request.payload EXCEPT !.outcomes = Append(@, win)])
      IN  /\ answer.data.paper_review_ready => later.paper_review_ready
          /\ Shadow!ForwardReviewReady(answer.data) /\ Unit * gain >= Whole
               => Shadow!ForwardReviewReady(later)
=============================================================================
