-------------------------- MODULE MCDispatchQueue --------------------------
(***************************************************************************)
(* DispatchQueue for TLC: one task, two queue items that are reused once   *)
(* settled, and two dispatch calls or sessions at a time.                  *)
(***************************************************************************)
EXTENDS DispatchQueue, TLC
CONSTANTS t1, i1, i2, r1, r2

MCTasks == {t1}
MCItems == {i1, i2}
MCRuns == {r1, r2}
MCOneRun == {r1}

\* Runs are interchangeable, and so are items; no liveness is checked under it.
Interchangeable == Permutations(MCRuns) \cup Permutations(MCItems)
=============================================================================
