-------------------------- MODULE MCTaskLifecycle --------------------------
(***************************************************************************)
(* TaskLifecycle for TLC: two tasks, of which either may be created as the *)
(* child of the other, two agents and one retry; t2 is exempt from the     *)
(* verifier gate.                                                          *)
(***************************************************************************)
EXTENDS TaskLifecycle
CONSTANTS t1, t2, a1, a2

MCTasks == {t1, t2}
MCAgents == {a1, a2}
MCSelfReview == {t2}
=============================================================================
