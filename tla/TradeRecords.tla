---------------------------- MODULE TradeRecords ----------------------------
(***************************************************************************)
(* The fills that the endpoints read from Database_Agent or take in a      *)
(* request body: TradePlanFill of models.py, with the data the algorithms  *)
(* of service.py and outcome_builder.py tell apart.                        *)
(***************************************************************************)
EXTENDS Numbers, Sequences

CONSTANTS
  PlanIds,      \* TradePlan ids, in the batch or not
  OrderIds,
  ExternalIds,  \* fill_id / broker_fill_id / execution_id in the metadata
  Amounts,      \* of money
  None          \* an optional field that is absent

ASSUME AmountsAssumption == Amounts \subseteq Int

(* trade_id is compared with plan ids only, so it ranges over them; est    *)
(* stands for side, quantity, price, fees and time through the P&L they    *)
(* give against the plan's entry price.                                    *)
Fill == [ext   : ExternalIds \cup {None},
         plan  : PlanIds \cup {None},
         trade : PlanIds \cup {None},
         order : OrderIds \cup {None},
         pnl   : Amounts \cup {None},
         est   : Amounts]

\* An external id identifies a fill; without one all that it says does.
Fingerprint(f) ==
  IF f.ext # None THEN <<"external_fill_id", f.ext>> ELSE <<"composite", f>>

FingerprintsIn(s) == {Fingerprint(s[k]) : k \in DOMAIN s}
=============================================================================
