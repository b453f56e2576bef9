------------------------- MODULE MCControllerLease -------------------------
(***************************************************************************)
(* ControllerLease for TLC: two processes, two generations of the code and *)
(* one workflow mutation to approve.                                       *)
(***************************************************************************)
EXTENDS ControllerLease
CONSTANTS p1, p2, g1, g2, x1

MCProcesses == {p1, p2}
MCGenerations == {g1, g2}
MCProposals == {x1}
=============================================================================
