-------------------------- MODULE MCRecurringJobs --------------------------
(* Instance of RecurringJobs for TLC.                                      *)
EXTENDS RecurringJobs, TLC

CONSTANTS r1, r2

MCRuns == {r1, r2}

\* The runs of a job are interchangeable.
Interchangeable == Permutations(MCRuns)
=============================================================================
