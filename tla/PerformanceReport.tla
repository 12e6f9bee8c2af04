-------------------------- MODULE PerformanceReport --------------------------
(***************************************************************************)
(* build_performance_report: the statistics of the closed trades and of    *)
(* the equity curve of a request, [initial_equity, trades, equity_curve].  *)
(* Faulty... operators: see FillPaging.                                    *)
(***************************************************************************)
EXTENDS Numbers, SequencesExt

CONSTANTS
  None,
  Upper,   \* symbol -> its upper case
  Cent,    \* units of money in a cent, round(.., 2)
  Micro    \* units of a ratio, the 10^6 of round(.., 6)

FaultyTradePnl(t) == (t.exit - t.entry) * t.quantity - t.fees
TradePnl(t) ==
  (IF t.side = "short" THEN t.entry - t.exit ELSE t.exit - t.entry)
    * t.quantity - t.fees

\* winners, losers and sums over the trades in a set of positions
Winners(trades, S) == {k \in S : TradePnl(trades[k]) > 0}
Losers(trades, S) == {k \in S : TradePnl(trades[k]) < 0}
SumPnl(trades, S) == SumOver([k \in S |-> TradePnl(trades[k])])

FaultyProfitFactor(profit, loss) ==
  IF loss = 0 THEN None ELSE <<profit, -loss>>
ProfitFactor(profit, loss) ==
  IF loss # 0 THEN <<profit, -loss>>
  ELSE IF profit > 0 THEN None ELSE <<0, 1>>

GroupMetrics(trades, S) ==
  LET profit == SumPnl(trades, Winners(trades, S))
      loss == SumPnl(trades, Losers(trades, S))
  IN  [trade_count   |-> Cardinality(S),
       win_rate      |-> Mean(Cardinality(Winners(trades, S)), Cardinality(S)),
       net_profit    |-> SumPnl(trades, S),
       gross_profit  |-> profit,
       gross_loss    |-> loss,
       profit_factor |-> ProfitFactor(profit, loss),
       expectancy    |-> Mean(SumPnl(trades, S), Cardinality(S))]

\* (trades without a strategy belong to no group)
FaultyKeys(trades, dimension) ==
  [k \in {j \in DOMAIN trades : dimension = "symbol" \/ trades[j].strategy # ""} |->
     IF dimension = "symbol" THEN Upper[trades[k].symbol] ELSE trades[k].strategy]
Keys(trades, dimension) ==
  [k \in DOMAIN trades |->
     IF dimension = "symbol" THEN Upper[trades[k].symbol]
     ELSE IF trades[k].strategy = "" THEN "unknown" ELSE trades[k].strategy]

Members(keys, key) == {k \in DOMAIN keys : keys[k] = key}

Groups(trades, dimension) ==
  LET keys == Keys(trades, dimension)
  IN  [key \in Range(keys) |-> GroupMetrics(trades, Members(keys, key))]

\* The key of most net profit times sign; of equals the one met first.
ExtremeKey(groups, keys, sign) ==
  LET first(key) == Min(Members(keys, key))
      net(key) == sign * groups[key].net_profit
  IN  IF DOMAIN groups = {} THEN None
      ELSE CHOOSE key \in DOMAIN groups : \A other \in DOMAIN groups :
             \/ net(key) > net(other)
             \/ net(key) = net(other) /\ first(key) <= first(other)
BestKey(groups, keys) == ExtremeKey(groups, keys, 1)
WorstKey(groups, keys) == ExtremeKey(groups, keys, -1)

\* sorted by timestamp; points of one moment stay in the order given
FaultyByTime(curve) == curve
ByTime(curve) ==
  LET order == SortedOrder([k \in DOMAIN curve |-> curve[k].timestamp])
  IN  [k \in DOMAIN curve |-> curve[order[k]]]

\* The deepest fall below the peak so far, as a positive ratio.
MaxDrawdown(curve) ==
  LET visit(acc, point) ==
        LET peak == Max({acc.peak, point.equity})
        IN  [peak |-> peak, fall |-> Larger(acc.fall, <<peak - point.equity, peak>>)]
      points == ByTime(curve)
  IN  IF curve = << >> THEN <<0, 1>>
      ELSE FoldLeft(visit, [peak |-> points[1].equity, fall |-> <<0, 1>>], points).fall

Report(r) ==
  LET all == DOMAIN r.trades
      won == Winners(r.trades, all)
      lost == Losers(r.trades, all)
      factor == ProfitFactor(SumPnl(r.trades, won), SumPnl(r.trades, lost))
      strategies == Groups(r.trades, "strategy")
      keys == Keys(r.trades, "strategy")
      cents(total, count) == Nearest(total, count * Cent)
      average(S) == IF S = {} THEN 0 ELSE cents(SumPnl(r.trades, S), Cardinality(S))
  IN  [trade_count    |-> Len(r.trades),
       winning_trades |-> Cardinality(won),
       losing_trades  |-> Cardinality(lost),
       win_rate       |-> Rounded(Mean(Cardinality(won), Len(r.trades)), Micro),
       gross_profit   |-> cents(SumPnl(r.trades, won), 1),
       gross_loss     |-> cents(SumPnl(r.trades, lost), 1),
       net_profit     |-> cents(SumPnl(r.trades, all), 1),
       return_pct     |-> Rounded(<<SumPnl(r.trades, all), r.initial_equity>>, Micro),
       average_win    |-> average(won),
       average_loss   |-> average(lost),
       expectancy     |-> average(all),
       profit_factor  |-> IF factor = None THEN None ELSE Rounded(factor, Micro),
       max_drawdown   |-> -Rounded(MaxDrawdown(r.equity_curve), Micro),
       best_strategy  |-> BestKey(strategies, keys),
       worst_strategy |-> WorstKey(strategies, keys),
       by_strategy    |-> strategies,
       by_symbol      |-> Groups(r.trades, "symbol"),
       warnings       |-> (IF r.trades = << >> THEN {"no_trades"} ELSE {})
                            \cup (IF r.equity_curve = << >> THEN {"no_curve"} ELSE {})]
=============================================================================
