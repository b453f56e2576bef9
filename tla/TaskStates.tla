----------------------------- MODULE TaskStates -----------------------------
(***************************************************************************)
(* The task states of Clawforce and the table of transitions between them  *)
(* (src/tasks/state-machine.ts).  A constant module: the task and the      *)
(* dispatch components both read the table.                                *)
(***************************************************************************)

\* Every state a row of the tasks table can have.
TaskState == {"OPEN", "ASSIGNED", "IN_PROGRESS", "REVIEW",
              "DONE", "FAILED", "BLOCKED", "CANCELLED"}

\* VALID_TRANSITIONS, grouped by the state that is left.
ValidNext ==
  [s \in TaskState |->
     CASE s = "OPEN"        -> {"ASSIGNED", "BLOCKED", "CANCELLED"}
       [] s = "ASSIGNED"    -> {"IN_PROGRESS", "BLOCKED", "FAILED", "OPEN",
                                "CANCELLED"}
       [] s = "IN_PROGRESS" -> {"REVIEW", "BLOCKED", "FAILED", "ASSIGNED",
                                "CANCELLED"}
       [] s = "REVIEW"      -> {"DONE", "IN_PROGRESS", "FAILED", "BLOCKED",
                                "CANCELLED"}
       [] s = "BLOCKED"     -> {"OPEN", "ASSIGNED", "FAILED", "CANCELLED"}
       [] s = "FAILED"      -> {"OPEN", "CANCELLED"}
       [] OTHER             -> {}]

\* The states whose tasks a dispatcher may run.
Dispatchable == {"ASSIGNED", "IN_PROGRESS"}

\* The verdicts on submitted work, which the verifier gate guards.
Verdict == {"DONE", "FAILED", "IN_PROGRESS"}
=============================================================================
