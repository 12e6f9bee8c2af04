---------------------------- MODULE ShadowEvidence ----------------------------
(***************************************************************************)
(* build_shadow_performance, the summary of simulated outcomes with the    *)
(* verdict paper_review_ready, of a request [outcomes, minimum], and       *)
(* build_forward_evidence, the verdict forward_review_ready on such a      *)
(* summary.  Faulty... operators: see FillPaging.                          *)
(***************************************************************************)
EXTENDS Numbers, SequencesExt

CONSTANTS
  None,
  Whole,            \* a return of 1, in the units of posted returns
  Unit,             \* a return of 1, in the units it is rounded to: 10^8
  FactorUnit,       \* a profit factor of 1, in its units: 10^6
  MinObservations,  \* 100, in both modules
  MaxMinimum        \* 100000

ValidRequest(r) == r.minimum \in MinObservations..MaxMinimum

\* of the rows in a set of positions
Sum(rows, S, field) == SumOver([k \in S |-> rows[k][field]])
Gains(rows, S) == SumOver([k \in S |-> Max({0, rows[k].net})])
Losses(rows, S) == SumOver([k \in S |-> Max({0, -rows[k].net})])

ProfitFactor(rows, S) ==
  IF Losses(rows, S) = 0 THEN None
  ELSE Rounded(<<Gains(rows, S), Losses(rows, S)>>, FactorUnit)

\* The deepest fall below the peak so far; the equity after k outcomes is
\* held times Whole^k.
MaxDrawdown(rows) ==
  LET compound(acc, row) ==
        LET equity == acc.equity * (Whole + row.net)
            peak == Max({acc.peak * Whole, equity})
        IN  [equity |-> equity, peak |-> peak,
             fall |-> Larger(acc.fall, <<peak - equity, peak>>)]
  IN  FoldLeft(compound, [equity |-> 1, peak |-> 1, fall |-> <<0, 1>>], rows).fall

\* (of the latest observations)
FaultyAverage(rows, S, field) ==
  LET latest == {k \in S : k > Len(rows) - MinObservations}
  IN  IF latest = {} THEN None
      ELSE Rounded(<<Sum(rows, latest, field), Whole * Cardinality(latest)>>, Unit)
Average(rows, S, field) ==
  IF S = {} THEN None
  ELSE Rounded(<<Sum(rows, S, field), Whole * Cardinality(S)>>, Unit)

Aggregate(rows, dimension) ==
  [key \in {rows[k][dimension] : k \in DOMAIN rows} |->
     LET own == {k \in DOMAIN rows : rows[k][dimension] = key}
     IN  [observation_count  |-> Cardinality(own),
          net_expectancy_pct |-> Average(rows, own, "net"),
          profit_factor      |-> ProfitFactor(rows, own)]]

\* strategy and regime, normalised; the mfe, mae and holding averages are
\* like the others and left out
Normalized(o) ==
  [o EXCEPT !.strategy = IF @ = "" THEN "unknown" ELSE @,
            !.regime = IF @ = "" THEN "unknown" ELSE @]

FaultyEligible(rows, r) == Len(rows) > r.minimum
Eligible(rows, r) == Len(rows) >= r.minimum

Summary(r) ==
  LET rows == [k \in DOMAIN r.outcomes |-> Normalized(r.outcomes[k])]
      all == DOMAIN rows
      eligible == Eligible(rows, r)
  IN  [observation_count   |-> Len(rows),
       minimum             |-> r.minimum,
       winning_trades      |-> Cardinality({k \in all : rows[k].net > 0}),
       losing_trades       |-> Cardinality({k \in all : rows[k].net < 0}),
       net_expectancy_pct  |-> Average(rows, all, "net"),
       gross_expectancy_pct |-> Average(rows, all, "gross"),
       average_cost_pct    |-> Average(rows, all, "cost"),
       profit_factor       |-> ProfitFactor(rows, all),
       max_drawdown_pct    |-> IF rows = << >> THEN None
                               ELSE Rounded(MaxDrawdown(rows), Unit),
       promotion_net_expectancy_pct |->
         IF eligible THEN Average(rows, all, "net") ELSE None,
       paper_review_ready  |-> eligible /\ rows # << >> /\ Sum(rows, all, "net") > 0,
       by_strategy         |-> Aggregate(rows, "strategy"),
       by_regime           |-> Aggregate(rows, "regime")]

-----------------------------------------------------------------------------
\* MIN_PROFIT_FACTOR = 1.10, MAX_DRAWDOWN_PCT = 0.10
Gates(s) ==
  [minimum_observations |-> s.observation_count >= MinObservations,
   positive_net_expectancy |-> s.net_expectancy_pct # None /\ s.net_expectancy_pct > 0,
   profit_factor |-> s.profit_factor # None /\ 10 * s.profit_factor >= 11 * FactorUnit,
   max_drawdown |-> s.max_drawdown_pct # None /\ 10 * s.max_drawdown_pct <= Unit,
   cost_evidence_present |-> s.average_cost_pct # None]

ForwardReviewReady(s) == \A gate \in DOMAIN Gates(s) : Gates(s)[gate]
=============================================================================
