----------------------------- MODULE MCBudget -----------------------------
(***************************************************************************)
(* Budget for TLC: two sessions, two plans and a clock of a few hours.     *)
(***************************************************************************)
EXTENDS Budget
CONSTANTS s1, s2, plan1, plan2

MCEstimate == [p \in {plan1, plan2} |-> IF p = plan1 THEN 1 ELSE 2]
=============================================================================
