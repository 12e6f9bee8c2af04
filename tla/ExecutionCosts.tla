---------------------------- MODULE ExecutionCosts ----------------------------
(***************************************************************************)
(* build_execution_cost_attribution: what fills cost against the price at  *)
(* decision time, and the cost floor suggested for backtests, of a request *)
(* [observations, minimum].  Faulty... operators: see FillPaging.          *)
(***************************************************************************)
EXTENDS Numbers, SequencesExt

CONSTANTS
  None,
  Upper,      \* symbol -> its upper case
  Fine,       \* units of a posted amount in 10^-8, round(.., 8)
  BpsScale,   \* units of a bps figure in the ratio 1, 10^4 * 10^8
  Coarse      \* steps of 10^-8 in one of the published figures, 10^8 / 10^6

\* Positive means worse execution.
AdversePriceDelta(side, reference, fill) ==
  IF side = "buy" THEN fill - reference ELSE reference - fill

Bps(delta, reference) == Nearest(BpsScale * delta, reference)

\* bps figures are of the exact amounts, the amounts themselves rounded,
\* the fees as they were posted.
Row(o) ==
  LET delta == AdversePriceDelta(o.side, o.decision_price, o.fill_price)
      notional == o.quantity * o.decision_price
      cost == delta * o.quantity
  IN  [symbol |-> Upper[o.symbol],
       strategy |-> IF o.strategy = "" THEN "unknown" ELSE o.strategy,
       regime |-> IF o.regime = "" THEN "unknown" ELSE o.regime,
       decision_notional |-> Nearest(notional, Fine),
       price_slippage_bps |-> Bps(delta, o.decision_price),
       submitted_to_fill_slippage_bps |->
         IF o.submitted_price = None THEN None
         ELSE Bps(AdversePriceDelta(o.side, o.submitted_price, o.fill_price),
                  o.submitted_price),
       slippage_cost |-> Nearest(cost, Fine),
       fees |-> o.fees,
       all_in_execution_cost |-> Nearest(cost + o.fees, Fine),
       all_in_cost_bps |-> Bps(cost + o.fees, notional)]

Sum(rows, S, field) == SumOver([k \in S |-> rows[k][field]])

\* in published units; rounded from the sums of the rounded rows
Weighted(cost, notional) ==
  IF notional = 0 THEN 0 ELSE Nearest(BpsScale * cost, notional * Coarse)

Aggregate(rows, dimension) ==
  [key \in {rows[k][dimension] : k \in DOMAIN rows} |->
     LET S == {k \in DOMAIN rows : rows[k][dimension] = key}
         notional == Sum(rows, S, "decision_notional")
         slippage == Sum(rows, S, "slippage_cost")
         all_in == Sum(rows, S, "all_in_execution_cost")
     IN  [observation_count     |-> Cardinality(S),
          decision_notional     |-> Nearest(notional, Coarse),
          slippage_cost         |-> Nearest(slippage, Coarse),
          fees                  |-> Nearest(Sum(rows, S, "fees"), Fine * Coarse),
          all_in_execution_cost |-> Nearest(all_in, Coarse),
          weighted_price_slippage_bps |-> Weighted(slippage, notional),
          weighted_all_in_cost_bps    |-> Weighted(all_in, notional)]]

\* In hundredths of a unit: linear between the neighbours of (n - 1) percent/100.
FaultyPercentile(values, percent) ==     \* (of the values as they come)
  100 * values[(Len(values) * percent) \div 100 + 1]
Percentile(values, percent) ==
  LET order == SortedOrder(values)
      ordered == [k \in DOMAIN values |-> values[order[k]]]
      position == (Len(values) - 1) * percent
      lower == position \div 100 + 1
      rest == position % 100
  IN  IF rest = 0 THEN 100 * ordered[lower]
      ELSE 100 * ordered[lower] + (ordered[lower + 1] - ordered[lower]) * rest

Published(x) == Nearest(x, 100 * Coarse)

Summary(r) ==
  LET rows == [k \in DOMAIN r.observations |-> Row(r.observations[k])]
      all == DOMAIN rows
      column(field) == [k \in all |-> rows[k][field]]
      bps == column("price_slippage_bps")
      quantile(values, p) == IF rows = << >> THEN None ELSE Published(Percentile(values, p))
      ready == Len(rows) >= r.minimum
      floor(values) == IF ~ready \/ rows = << >> THEN None
                       ELSE Published(Max({0, Percentile(values, 95)}))
      slippage == Sum(rows, all, "slippage_cost")
      fees == Sum(rows, all, "fees")
      total == Fine * slippage + fees
      notional == Sum(rows, all, "decision_notional")
  IN  [observation_count |-> Len(rows),
       total_decision_notional |-> Nearest(notional, Coarse),
       total_slippage_cost |-> Nearest(slippage, Coarse),
       total_fees |-> Nearest(fees, Fine * Coarse),
       total_execution_cost |-> Nearest(total, Fine * Coarse),
       weighted_price_slippage_bps |-> Weighted(slippage, notional),
       weighted_all_in_cost_bps |-> Weighted(total, Fine * notional),
       price_improvement_count |-> Cardinality({k \in all : bps[k] < 0}),
       adverse_slippage_count |-> Cardinality({k \in all : bps[k] > 0}),
       median_price_slippage_bps |-> quantile(bps, 50),
       p90_price_slippage_bps |-> quantile(bps, 90),
       p95_price_slippage_bps |-> quantile(bps, 95),
       p95_all_in_cost_bps |-> quantile(column("all_in_cost_bps"), 95),
       slippage_bps_floor |-> floor(bps),
       all_in_cost_bps_floor |-> floor(column("all_in_cost_bps")),
       stress_floor_ready |-> ready,
       by_symbol |-> Aggregate(rows, "symbol"),
       by_strategy |-> Aggregate(rows, "strategy"),
       by_regime |-> Aggregate(rows, "regime"),
       observations |-> rows]
=============================================================================
