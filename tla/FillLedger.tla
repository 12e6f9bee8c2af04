----------------------------- MODULE FillLedger -----------------------------
(***************************************************************************)
(* What attribution promises of one batch: each execution is settled at    *)
(* most once, on a plan that claims it or on none, and stays there.        *)
(***************************************************************************)
CONSTANTS
  Executions,
  Plans,
  Unsettled,   \* not seen yet
  Excluded     \* seen, and given to no plan

VARIABLE fate

Fates == Plans \cup {Unsettled, Excluded}

Init == fate = [e \in Executions |-> Unsettled]

Settle(e) ==
  /\ fate[e] = Unsettled
  /\ \E outcome \in Plans \cup {Excluded} :
       fate' = [fate EXCEPT ![e] = outcome]

Next == \E e \in Executions : Settle(e)

Spec == Init /\ [][Next]_fate
=============================================================================
