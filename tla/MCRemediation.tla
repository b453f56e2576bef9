--------------------------- MODULE MCRemediation ---------------------------
(***************************************************************************)
(* Remediation for TLC: an issue with a remediation task and the failure   *)
(* of the check itself, two mutations and two promotions.                  *)
(***************************************************************************)
EXTENDS Remediation
CONSTANTS i1, sys, m1, m2, q1, q2
=============================================================================
