---------------------------- MODULE MCApiGateway ----------------------------
(* Deployments with variables absent, empty, blank or set, and payloads that *)
(* exercise ties, gains without losses, rounding and the thresholds.        *)
EXTENDS ApiGateway

CONSTANTS key, other_key, odd_key, runtime, remote, database_key, my_id

MCUnusual == {odd_key}

Deployed == [auth |-> None, key |-> key, database_required |-> None,
             runtime_url |-> runtime, database_url |-> None, database_key |-> database_key]
MCDeployments ==
  {[Deployed EXCEPT !.auth = a, !.key = k, !.database_url = u] :
     a \in {None, "off"}, k \in {None, Empty, Blank, key, odd_key}, u \in {None, remote}}
  \cup
  {[Deployed EXCEPT !.database_required = d, !.runtime_url = r, !.database_url = u] :
     d \in {None, "off"}, r \in {None, Empty, Blank, Slashes, runtime},
     u \in {None, Empty, Blank, remote}}
  \cup
  {[Deployed EXCEPT !.database_required = d, !.database_key = k] :
     d \in {None, "off"}, k \in {None, Empty, Blank}}

Trades ==
  LET trade(symbol, strategy, side, exit, fees) ==
        [symbol |-> symbol, strategy |-> strategy, side |-> side,
         entry |-> 10, exit |-> exit, quantity |-> 2, fees |-> fees]
  IN  { trade("aa", "", "long", 13, 0),         \*  6
        trade("AA", "trend", "long", 13, 2),    \*  4
        trade("AA", "trend", "short", 13, 0),   \* -6
        trade("aa", "unknown", "short", 8, 9),  \* -5
        trade("BB", "", "long", 11, 2) }        \*  0
Curves == {c \in UNION {[1..n -> [timestamp : 1..3, equity : {4, 6, 9}]] : n \in 0..3} :
             Len(c) = 3 => c[1].timestamp # 1}
ReportPayloads ==
  [initial_equity : {7}, equity_curve : {<< >>},
   trades : UNION {[1..n -> Trades] : n \in 0..3}]
  \cup
  [initial_equity : {7}, equity_curve : Curves, trades : {<< >>}]

Fills ==
  LET fill(symbol, side, price, at, fees) ==
        [symbol |-> symbol, side |-> side, quantity |-> 7, decision_price |-> price,
         submitted_price |-> IF side = "buy" THEN price + 1 ELSE None,
         fill_price |-> at, fees |-> fees,
         strategy |-> IF fees = 0 THEN "" ELSE "trend", regime |-> "unknown"]
  IN  { fill("aa", "buy", 6, 7, 0), fill("AA", "sell", 7, 8, 7),
        fill("BB", "sell", 3, 2, 0), fill("BB", "buy", 7, 7, 13) }
\* n fills of which the last dear ones cost more, at the edges of 1 in 20
Batch(n, dear) ==
  LET cheap == CHOOSE f \in Fills : f.symbol = "AA"
      costly == CHOOSE f \in Fills : f.decision_price = 3
  IN  [k \in 1..n |-> IF k <= dear THEN costly ELSE cheap]
CostPayloads ==
  [minimum : {1, 3, 4}, observations : UNION {[1..n -> Fills] : n \in 0..3}]
  \cup
  [minimum : {4}, observations : {Batch(n, dear) : n \in {20, 21, 22, 41, 42}, dear \in 0..4}]

Outcomes ==
  [net : {7, 1, 0, -2, -7, -23}, gross : {5}, cost : {3}, strategy : {"trend"},
   regime : {"bull"}]
  \cup [net : {3}, gross : {5}, cost : {3}, strategy : {""}, regime : {"unknown"}]
ShadowPayloads ==
  [minimum : {1, 2, 3}, outcomes : UNION {[1..n -> Outcomes] : n \in 0..3}]

Post(endpoint, payloads) ==
  [endpoint : {endpoint}, key : {key}, id : {None}, payload : payloads]
MCRequests ==
  [endpoint : {"/", "/ready", "unknown", "session-risk", "database"},
   key : {None, Empty, key, other_key, odd_key}, id : {None, Empty, my_id},
   payload : {None, Malformed}]
  \cup Post("session-risk", {Unprintable})
  \cup Post("report", ReportPayloads \cup {Malformed, Unprintable})
  \cup Post("execution-costs", CostPayloads \cup {Unprintable})
  \cup Post("shadow", ShadowPayloads \cup {Unprintable})

MCUpper == [symbol \in {"aa", "AA", "BB"} |-> IF symbol = "aa" THEN "AA" ELSE symbol]
=============================================================================
