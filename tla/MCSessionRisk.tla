---------------------------- MODULE MCSessionRisk ----------------------------
(* Instances of SessionRisk: days of two clock units, weeks of two days.    *)
EXTENDS SessionRisk

CONSTANTS p1, t1, o1, s1, s2

MCFill(p, t, o, s, v, x) ==
  [plan |-> p, trade |-> t, order |-> o, symbol |-> s, pnl |-> v, at |-> x]

MCAmounts == {-43, -30, -22, 0, 1, 44, 51}

\* An amount of 1 is less than half of 10^-8: a trade of it is break-even.
MCFillRecords ==
  { MCFill(p1, None, o1, s1, -30, 1), MCFill(p1, t1, None, s1, 51, 3),
    MCFill(None, t1, None, s2, -43, 3), MCFill(None, None, o1, s1, 1, 1),
    MCFill(None, None, None, s2, -22, 0), MCFill(None, None, None, s1, 0, 4),
    MCFill(p1, None, None, s1, None, 2), MCFill(None, t1, None, s2, 44, None) }
=============================================================================
