----------------------------- MODULE SessionRisk -----------------------------
(***************************************************************************)
(* Session risk metrics: build_session_risk_metrics groups the realised    *)
(* fills of a request into trades and reports today's and this week's      *)
(* result, the losing streak and the time since the last loss.             *)
(*                                                                         *)
(* Risk controls ask again and again while fills come in, late or out of   *)
(* order, and the clock moves; `previous' remembers the last answer.       *)
(***************************************************************************)
EXTENDS Numbers, Sequences

CONSTANTS
  FillRecords,   \* fills that may arrive
  PlanIds, TradeIds, OrderIds, Symbols, Amounts,
  None,
  Fine,          \* amount units in 10^-8, to which a trade's result is rounded
  Cent,          \* such steps in a cent, to which the published results are
  DayLength,     \* clock units in a day
  WeekLength,    \* days in a week; day 0 is a Monday
  MaxFills,      \* bound: fills that arrive
  MaxTime        \* bound: on the clock

Times == 0..MaxTime

Fill == [plan   : PlanIds \cup {None},
         trade  : TradeIds \cup {None},
         order  : OrderIds \cup {None},
         symbol : Symbols,
         pnl    : Amounts \cup {None},
         at     : Times \cup {None}]

ASSUME SessionAssumption ==
  /\ FillRecords \subseteq Fill
  /\ Amounts \subseteq Int /\ None \notin Amounts
  /\ Fine \in Nat \ {0} /\ Cent \in Nat \ {0}
  /\ DayLength \in Nat \ {0} /\ WeekLength \in Nat \ {0}
  /\ MaxFills \in Nat /\ MaxTime \in Nat /\ None \notin Times

VARIABLES
  fills,      \* the fills known so far, in the order of the request
  now,        \* generated_at
  symbol,     \* asked about, or None
  pc,
  i,          \* the fill the loop is at
  rows,       \* grouped: the trades, in order of their first fill
  skipped,    \* fills excluded, by warning
  report,
  previous    \* the last report, with the fills and the time it was made of

input == <<fills, now, symbol>>
vars == <<input, pc, i, rows, skipped, report, previous>>

Warnings == {"missing_pnl", "missing_time", "future_time", "unidentified"}

\* Faulty... operators: see FillPaging.  Here: orders before plans.
FaultyTradeKey(k) ==
  IF fills[k].order # None THEN <<"order", fills[k].order>>
  ELSE IF fills[k].trade # None THEN <<"trade", fills[k].trade>>
  ELSE <<"unidentified_fill", k>>
TradeKey(k) ==
  IF fills[k].plan # None THEN <<"trade_plan", fills[k].plan>>
  ELSE IF fills[k].trade # None THEN <<"trade", fills[k].trade>>
  ELSE IF fills[k].order # None THEN <<"order", fills[k].order>>
  ELSE <<"unidentified_fill", k>>

-----------------------------------------------------------------------------
Init ==
  /\ fills = << >>
  /\ now \in Times
  /\ symbol \in Symbols \cup {None}
  /\ pc = "idle"
  /\ i = 1
  /\ rows = << >>
  /\ skipped = [w \in Warnings |-> 0]
  /\ report = None
  /\ previous = None

Arrive ==
  /\ pc = "idle"
  /\ Len(fills) < MaxFills
  /\ \E f \in FillRecords : fills' = Append(fills, f)
  /\ UNCHANGED <<now, symbol, pc, i, rows, skipped, report, previous>>

Tick ==
  /\ pc = "idle"
  /\ now < MaxTime
  /\ now' = now + 1
  /\ UNCHANGED <<fills, symbol, pc, i, rows, skipped, report, previous>>

AskMetrics ==
  /\ pc = "idle"
  /\ pc' = "aggregate"
  /\ i' = 1
  /\ rows' = << >>
  /\ skipped' = [w \in Warnings |-> 0]
  /\ previous' = report
  /\ UNCHANGED <<input, report>>

AtFill ==
  /\ pc = "aggregate"
  /\ i <= Len(fills)
  /\ i' = i + 1
  /\ UNCHANGED <<input, pc, report, previous>>

Skip(warning) ==
  /\ skipped' = [skipped EXCEPT ![warning] = @ + 1]
  /\ UNCHANGED rows

SkipMissingPnl ==
  /\ AtFill
  /\ fills[i].pnl = None
  /\ Skip("missing_pnl")

SkipMissingTime ==
  /\ AtFill
  /\ fills[i].pnl # None
  /\ fills[i].at = None
  /\ Skip("missing_time")

SkipFuture ==
  /\ AtFill
  /\ fills[i].pnl # None
  /\ fills[i].at # None
  /\ fills[i].at > now
  /\ Skip("future_time")

FaultyUsable(k) == fills[k].pnl # None /\ fills[k].at # None
Usable(k) ==
  /\ fills[k].pnl # None
  /\ fills[k].at # None
  /\ fills[k].at <= now

RowsOf(key) == {r \in DOMAIN rows : rows[r].key = key}

OpenTrade ==
  /\ AtFill
  /\ Usable(i)
  /\ RowsOf(TradeKey(i)) = {}
  /\ rows' = Append(rows, [key          |-> TradeKey(i),
                           symbol       |-> fills[i].symbol,
                           realized_pnl |-> fills[i].pnl,
                           closed_at    |-> fills[i].at])
  /\ skipped' = IF TradeKey(i)[1] = "unidentified_fill"
                  THEN [skipped EXCEPT !["unidentified"] = @ + 1] ELSE skipped

\* A later fill re-dates its trade.
FaultyAddToTrade ==
  /\ AtFill
  /\ Usable(i)
  /\ \E r \in RowsOf(TradeKey(i)) :
       rows' = [rows EXCEPT ![r].realized_pnl = @ + fills[i].pnl,
                            ![r].closed_at    = fills[i].at]
  /\ UNCHANGED skipped
AddToTrade ==
  /\ AtFill
  /\ Usable(i)
  /\ \E r \in RowsOf(TradeKey(i)) :
       rows' = [rows EXCEPT ![r].realized_pnl = @ + fills[i].pnl,
                            ![r].closed_at    =
                              IF fills[i].at > @ THEN fills[i].at ELSE @]
  /\ UNCHANGED skipped

StartOfDay == (now \div DayLength) * DayLength
FaultyStartOfWeek == StartOfDay - (WeekLength - 1) * DayLength
StartOfWeek == StartOfDay - ((now \div DayLength) % WeekLength) * DayLength

ClosedSince(t) == {r \in DOMAIN rows : t <= rows[r].closed_at /\ rows[r].closed_at <= now}
TradePnl(r) == Nearest(rows[r].realized_pnl, Fine)
Pnl(rs) == MapThenSumSet(LAMBDA r : TradePnl(r), rs)
InCents(pnl) == Nearest(pnl, Cent)
Loss(pnl) == IF pnl < 0 THEN -pnl ELSE 0
Losses == {r \in DOMAIN rows : TradePnl(r) < 0}
Wins == {r \in DOMAIN rows : TradePnl(r) > 0}
OfSymbol(s) == {r \in DOMAIN rows : s = None \/ rows[r].symbol = s}

\* The stable sort by closed_at, latest first: ties stay in row order.
FaultySortedBefore(q, r) == rows[q].closed_at < rows[r].closed_at
SortedBefore(q, r) ==
  \/ rows[q].closed_at > rows[r].closed_at
  \/ rows[q].closed_at = rows[r].closed_at /\ q < r

\* Losses up to the first win; break-even trades neither count nor end it.
FaultyConsecutiveLosses ==
  Cardinality({r \in Losses \cap ClosedSince(StartOfDay) :
                 \A w \in Wins : ~SortedBefore(w, r)})
ConsecutiveLosses == Cardinality({r \in Losses : \A w \in Wins : ~SortedBefore(w, r)})

MinutesSince(rs) ==
  IF rs = {} THEN None ELSE now - Max({rows[r].closed_at : r \in rs})

Report ==
  /\ pc = "aggregate"
  /\ i > Len(fills)
  /\ pc' = "idle"
  /\ report' =
       LET today  == ClosedSince(StartOfDay)
           week   == ClosedSince(StartOfWeek)
           daily  == InCents(Pnl(today))
           weekly == InCents(Pnl(week))
       IN  [known        |-> Len(fills),
            at           |-> now,
            daily        |-> daily,
            weekly       |-> weekly,
            daily_loss   |-> Loss(daily),
            weekly_loss  |-> Loss(weekly),
            streak       |-> ConsecutiveLosses,
            today        |-> Cardinality(today),
            today_symbol |-> Cardinality(today \cap OfSymbol(symbol)),
            since_loss   |-> MinutesSince(Losses),
            since_symbol |-> IF symbol = None THEN None
                             ELSE MinutesSince(OfSymbol(symbol)),
            warned       |-> {w \in Warnings : skipped[w] > 0}]
  /\ UNCHANGED <<input, i, rows, skipped, previous>>

Next ==
  \/ Arrive \/ Tick \/ AskMetrics
  \/ SkipMissingPnl \/ SkipMissingTime \/ SkipFuture \/ OpenTrade \/ AddToTrade
  \/ Report

Spec == Init /\ [][Next]_vars

-----------------------------------------------------------------------------
(* The loop stays within the fills, and no trade is ever dated after the   *)
(* time the metrics are asked for.                                         *)
TypeOK ==
  /\ fills \in Seq(FillRecords)
  /\ now \in Times
  /\ symbol \in Symbols \cup {None}
  /\ pc \in {"idle", "aggregate"}
  /\ i \in 1..Len(fills) + 1
  /\ \A r \in DOMAIN rows :
       rows[r].realized_pnl \in Int /\ rows[r].closed_at \in 0..now
  /\ skipped \in [Warnings -> Nat]

Taken == {k \in 1..i - 1 : Usable(k)}
FillsOf(r) == {k \in Taken : TradeKey(k) = rows[r].key}

(* While fills are grouped, each row stands for one trade: it has the sum  *)
(* of the trade's usable fills so far, the time of the latest of them,     *)
(* which is never in the future, and the symbol of the first; and no       *)
(* usable fill is without its row.                                         *)
RowsAreTrades ==
  pc = "aggregate" =>
    /\ \A q, r \in DOMAIN rows : rows[q].key = rows[r].key => q = r
    /\ {rows[r].key : r \in DOMAIN rows} = {TradeKey(k) : k \in Taken}
    /\ \A r \in DOMAIN rows :
         /\ rows[r].realized_pnl = MapThenSumSet(LAMBDA k : fills[k].pnl, FillsOf(r))
         /\ \A k \in FillsOf(r) : fills[k].at <= rows[r].closed_at
         /\ \E k \in FillsOf(r) : fills[k].at = rows[r].closed_at
         /\ rows[r].symbol = fills[Min(FillsOf(r))].symbol

Answered == pc = "idle" /\ report # None
Fresh == Answered /\ report.known = Len(fills) /\ report.at = now

SameTrade(j, k) ==
  \/ fills[j].plan # None /\ fills[k].plan = fills[j].plan
  \/ /\ fills[j].plan = None /\ fills[k].plan = None
     /\ \/ fills[j].trade # None /\ fills[k].trade = fills[j].trade
        \/ /\ fills[j].trade = None /\ fills[k].trade = None
           /\ fills[j].order # None /\ fills[k].order = fills[j].order

(* Of two answers for the same moment, the second with one more fill: if   *)
(* that fill's trade closed today, by it or by another of its fills,       *)
(* today's result changes by the fill and, when the trade was of an        *)
(* earlier day before, by the whole trade, which it brings to today, up to *)
(* what rounding the trade and the two answers may move: a cent and 10^-8. *)
(* Otherwise today's result stays exactly, whatever day the fill is of.    *)
OneMoreFill ==
  (Fresh /\ previous # None /\ previous.at = now /\ Len(fills) = previous.known + 1) =>
    LET new     == Len(fills)
        others  == {k \in 1..new - 1 : Usable(k) /\ SameTrade(k, new)}
        today   == {k \in others : fills[k].at >= StartOfDay}
        carried == IF today = {} THEN MapThenSumSet(LAMBDA k : fills[k].pnl, others) ELSE 0
        counts  == Usable(new) /\ (today # {} \/ fills[new].at >= StartOfDay)
        change  == report.daily - previous.daily
    IN  IF counts
          THEN Distance(Fine * (Cent * change), fills[new].pnl + carried)
                 <= Fine * Cent + Fine
          ELSE change = 0

(* The week's result is today's plus that of the trades closed on its      *)
(* earlier days, up to the cent that rounding the two figures may move: on *)
(* a Monday there are none and the figures are the same, and no trade of   *)
(* the last week counts.                                                   *)
WeekIsTodayAndBefore ==
  Fresh =>
    LET day(r)  == rows[r].closed_at \div DayLength
        today   == now \div DayLength
        earlier == {r \in DOMAIN rows :
                      /\ day(r) < today
                      /\ day(r) \div WeekLength = today \div WeekLength}
    IN  /\ Distance(Cent * (report.weekly - report.daily), Pnl(earlier)) <= Cent
        /\ earlier = {} => report.weekly = report.daily

(* If one trade closed later than all the others, a losing one lengthens   *)
(* the streak the others leave by one, a winning one ends it and a         *)
(* break-even one leaves it as it was.                                     *)
LatestTradeDecidesStreak ==
  Fresh =>
    \A r \in DOMAIN rows :
      (\A q \in DOMAIN rows \ {r} : rows[q].closed_at < rows[r].closed_at) =>
        LET others == {q \in Losses \ {r} :
                         \A w \in Wins \ {r} : ~SortedBefore(w, q)}
        IN  report.streak = CASE r \in Losses -> Cardinality(others) + 1
                              [] r \in Wins   -> 0
                              [] OTHER        -> Cardinality(others)

(* Between two reports, if the clock moved but no fill arrived and none    *)
(* stopped being a future fill: the streak is the same, the last loss is   *)
(* older by the time that passed, and today's trades are those of before   *)
(* or, on another day, none.                                               *)
QuietTimeOnlyAges ==
  (Answered /\ previous # None /\ previous.known = report.known) =>
    ( (\A k \in 1..report.known :
         fills[k].at # None => fills[k].at <= previous.at \/ fills[k].at > report.at)
      => /\ report.streak = previous.streak
         /\ report.since_loss =
              IF previous.since_loss = None THEN None
              ELSE previous.since_loss + (report.at - previous.at)
         /\ report.today =
              IF report.at \div DayLength = previous.at \div DayLength
                THEN previous.today ELSE 0 )
=============================================================================
