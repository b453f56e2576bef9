--------------------------- MODULE MCToolApproval ---------------------------
(***************************************************************************)
(* ToolApproval for TLC: two intercepted calls of either kind and two      *)
(* routers.                                                                *)
(***************************************************************************)
EXTENDS ToolApproval
CONSTANTS p1, p2, r1, r2

MCProposals == {p1, p2}
MCRouters == {r1, r2}
MCKeys == {"approved", "rejected"} \X MCProposals
=============================================================================
