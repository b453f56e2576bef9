----------------------------- MODULE WorkGraph -----------------------------
(***************************************************************************)
(* The order of work between tasks: dependencies (src/tasks/deps.ts), a    *)
(* workflow with phases and gates (src/workflow.ts), and the steps that    *)
(* move both on when a task ends: the handler of task_completed and        *)
(* task_failed (src/events/router.ts) and the sweep (src/sweep/actions.ts).*)
(*                                                                         *)
(* What moves a single task is in TaskLifecycle; here a task has only the  *)
(* stage that this order reads, and anybody may move it along the table.   *)
(* Handlers and the sweep are single steps, unless the process dies in a   *)
(* handler; addDependency checks and inserts in two steps, because another *)
(* process may insert in between.                                          *)
(***************************************************************************)
EXTENDS TaskStates, EventPipeline, Sequences

CONSTANTS
  Tasks,     \* task ids
  Edges,     \* dependencies somebody wants: <<task, the task it depends on>>
  Adders,    \* processes that add dependencies
  NoEdge,    \* an adder with nothing to insert
  Gates,     \* the gate conditions of the workflow's phases, in order
  MaxFails   \* bound: how often a task fails

ASSUME EdgesAssumption == Edges \subseteq Tasks \X Tasks /\ NoEdge \notin Edges
ASSUME KeysAssumption ==
  Keys = (Tasks \X {"completed"}) \cup (Tasks \X {"failed"} \X (1..MaxFails))
ASSUME GatesAssumption ==
  Gates \in Seq({"all_done", "any_done", "all_resolved", "any_resolved"})
ASSUME FailsAssumption == MaxFails \in Nat

VARIABLES
  stage,    \* the state of a task, its three running states taken as one
  fails,    \* how often a task has failed (its FAILED transitions)
  hard,     \* task_dependencies of type "blocks"
  soft,     \* task_dependencies of type "soft"
  adding,   \* a dependency checked and not inserted yet
  lists,    \* workflows.phases: the tasks of each phase
  place,    \* tasks.workflow_phase, 0 for a task outside the workflow
  current,  \* workflows.current_phase
  workflow, \* workflows.state
  barrier   \* history: the tasks whose completion opened a later phase

taskVars == <<stage, fails>>
depVars == <<hard, soft, adding>>
flowVars == <<lists, place, current, workflow, barrier>>
vars == <<eventVars, taskVars, depVars, flowVars>>

-----------------------------------------------------------------------------
(* Stages                                                                  *)

Running == {"ASSIGNED", "IN_PROGRESS", "REVIEW"}
Stages == (TaskState \ Running) \cup {"running"}
StageOf(s) == IF s \in Running THEN "running" ELSE s

\* The table of transitions between stages.
NextStages ==
  [g \in Stages |-> {StageOf(n) : n \in UNION {ValidNext[s] :
                       s \in {u \in TaskState : StageOf(u) = g}}}]

Phases == 1..Len(Gates)

TypeOK ==
  /\ EventsTypeOK
  /\ stage \in [Tasks -> Stages]
  /\ fails \in [Tasks -> 0..MaxFails]
  /\ hard \subseteq Edges /\ soft \subseteq Edges /\ hard \cap soft = {}
  /\ adding \in [Adders -> Edges \cup {NoEdge}]
  /\ lists \in [Phases -> SUBSET Tasks]
  /\ place \in [Tasks -> Phases \cup {0}]
  /\ current \in Phases \cup {1}
  /\ workflow \in {"active", "completed"}
  /\ barrier \in [Phases -> SUBSET Tasks]

Init ==
  /\ EventsInit
  /\ stage = [t \in Tasks |-> "OPEN"]
  /\ fails = [t \in Tasks |-> 0]
  /\ hard = {} /\ soft = {}
  /\ adding = [a \in Adders |-> NoEdge]
  /\ lists = [k \in Phases |-> {}]
  /\ place = [t \in Tasks |-> 0]
  /\ current = 1
  /\ workflow = IF Gates = <<>> THEN "completed" ELSE "active"
  /\ barrier = [k \in Phases |-> {}]

-----------------------------------------------------------------------------
(* Dependencies                                                            *)

\* The breadth-first search of wouldCreateCycle from task d along the
\* dependencies E finds t: every set with d that is closed under E has t.
Reaches(E, d, t) ==
  \A S \in SUBSET Tasks :
    (d \in S /\ \A e \in E : e[1] \in S => e[2] \in S) => t \in S

\* Fault: soft dependencies are left out of the search.
CheckHardOnly(a, e) ==
  /\ adding[a] = NoEdge
  /\ e[1] # e[2]
  /\ e \notin hard \cup soft
  /\ ~Reaches(hard, e[2], e[1])
  /\ adding' = [adding EXCEPT ![a] = e]
  /\ UNCHANGED <<eventVars, taskVars, hard, soft, flowVars>>

\* addDependency up to its INSERT: no self-dependency, no duplicate, no cycle.
CheckDependency(a, e) ==
  /\ adding[a] = NoEdge
  /\ e[1] # e[2]
  /\ e \notin hard \cup soft
  /\ ~Reaches(hard \cup soft, e[2], e[1])
  /\ adding' = [adding EXCEPT ![a] = e]
  /\ UNCHANGED <<eventVars, taskVars, hard, soft, flowVars>>

\* The INSERT, which only the unique index of the pair can refuse.
InsertDependency(a) ==
  /\ adding[a] # NoEdge
  /\ adding' = [adding EXCEPT ![a] = NoEdge]
  /\ \/ adding[a] \in hard \cup soft /\ UNCHANGED <<hard, soft>>
     \/ adding[a] \notin hard \cup soft
        /\ \/ hard' = hard \cup {adding[a]} /\ UNCHANGED soft
           \/ soft' = soft \cup {adding[a]} /\ UNCHANGED hard
  /\ UNCHANGED <<eventVars, taskVars, flowVars>>

\* removeDependency: the row goes, the dependent keeps its state.
RemoveDependency(e) ==
  /\ e \in hard \cup soft
  /\ hard' = hard \ {e} /\ soft' = soft \ {e}
  /\ UNCHANGED <<eventVars, taskVars, adding, flowVars>>

Blockers(t) == {d \in Tasks : <<t, d>> \in hard}
Dependents(d) == {t \in Tasks : <<t, d>> \in hard}

\* getUnresolvedBlockers returns nothing.
Unblocked(t) == \A d \in Blockers(t) : stage[d] = "DONE"

\* cascadeUnblock: the dependents a completed task releases.
Released(d) == {t \in Dependents(d) : stage[t] = "BLOCKED" /\ Unblocked(t)}

-----------------------------------------------------------------------------
(* The workflow                                                            *)

\* Fault: a failed task counts as done.
ReadyWhenResolved(k) ==
  LET resolved == {t \in lists[k] : stage[t] \in {"DONE", "FAILED"}} IN
    CASE Gates[k] \in {"all_done", "all_resolved"} ->
           lists[k] # {} /\ resolved = lists[k]
      [] Gates[k] \in {"any_done", "any_resolved"} -> resolved # {}

\* getPhaseStatus(...).ready
Ready(k) ==
  LET done == {t \in lists[k] : stage[t] = "DONE"}
      resolved == {t \in lists[k] : stage[t] \in {"DONE", "FAILED"}} IN
    CASE Gates[k] = "all_done"     -> lists[k] # {} /\ done = lists[k]
      [] Gates[k] = "any_done"     -> done # {}
      [] Gates[k] = "all_resolved" -> lists[k] # {} /\ resolved = lists[k]
      [] Gates[k] = "any_resolved" -> resolved # {}

\* Fault: the last phase is not told from the others.
LeaveLast(waited) ==
  /\ current' = current + 1
  /\ barrier' = [barrier EXCEPT ![current] = waited]
  /\ UNCHANGED <<lists, place, workflow>>

\* A phase is left; whom it waited for is remembered if it waited for all.
Leave(waited) ==
  /\ IF current < Len(Gates)
       THEN current' = current + 1 /\ UNCHANGED workflow
       ELSE workflow' = "completed" /\ UNCHANGED current
  /\ barrier' = [barrier EXCEPT ![current] = waited]
  /\ UNCHANGED <<lists, place>>

\* Fault: a workflow that stands at its last phase is not advanced.
AdvanceButLast ==
  IF workflow = "active" /\ current < Len(Gates) /\ Ready(current)
    THEN Leave(IF Gates[current] = "all_done" THEN lists[current] ELSE {})
    ELSE UNCHANGED flowVars

\* advanceWorkflow, one phase at a time.
Advance ==
  IF workflow = "active" /\ Ready(current)
    THEN Leave(IF Gates[current] = "all_done" THEN lists[current] ELSE {})
    ELSE UNCHANGED flowVars

\* forceAdvanceWorkflow, asked for by an agent.
ForceAdvance ==
  /\ workflow = "active"
  /\ Leave({})
  /\ UNCHANGED <<eventVars, taskVars, depVars>>

\* addTaskToPhase: to any phase and whatever the task's state; the phase it
\* was in before keeps it in its list.
AddTaskToPhase(t, k) ==
  /\ t \notin lists[k]
  /\ lists' = [lists EXCEPT ![k] = @ \cup {t}]
  /\ place' = [place EXCEPT ![t] = k]
  /\ UNCHANGED <<eventVars, taskVars, depVars, current, workflow, barrier>>

\* isTaskInFuturePhase
InFuturePhase(t) == workflow = "active" /\ place[t] > current

-----------------------------------------------------------------------------
(* Tasks                                                                   *)

\* The events of a transition, in its transaction.
Announced(ev, t, to) ==
  CASE to = "DONE"   -> Ingested(ev, <<t, "completed">>)
    [] to = "FAILED" -> Ingested(ev, <<t, "failed", fails[t] + 1>>)
    [] OTHER         -> ev

\* transitionTask, called by anybody for any reason.
Transition(t, to) ==
  /\ to \in NextStages[stage[t]] \ {stage[t]}
  /\ to = "running" => ~InFuturePhase(t)
  /\ to = "FAILED" => fails[t] < MaxFails
  /\ stage' = [stage EXCEPT ![t] = to]
  /\ fails' = IF to = "FAILED" THEN [fails EXCEPT ![t] = @ + 1] ELSE fails
  /\ events' = Announced(events, t, to)
  /\ UNCHANGED <<batch, reruns, crashes, depVars, flowVars>>

-----------------------------------------------------------------------------
(* The handler of task_completed and task_failed, and the sweep            *)

Subject(k) == k[1]

\* handleTaskCompleted, which handleTaskFailed ends in: the dependents are
\* released one after another, each in a transaction of its own, then the
\* workflow of the task is advanced.
HandleTaskEnd(r, k) ==
  /\ k \in batch[r]
  /\ LET all == Released(Subject(k)) IN
       \E some \in SUBSET all :
         /\ stage' = [t \in Tasks |-> IF t \in some THEN "OPEN" ELSE stage[t]]
         /\ \/ /\ some = all
               /\ IF place[Subject(k)] # 0 THEN Advance ELSE UNCHANGED flowVars
               /\ Settled(r, k, events, "handled")
            \/ UNCHANGED flowVars /\ Abandoned(r, events)
  /\ UNCHANGED <<fails, depVars>>

\* Fault: the sweep wants soft dependencies resolved too.
SweepAllResolved(t) ==
  /\ stage[t] = "BLOCKED" /\ Blockers(t) # {} /\ Unblocked(t)
  /\ \A d \in Tasks : <<t, d>> \in soft => stage[d] = "DONE"

\* The sweep releases a blocked task with hard dependencies, all of them DONE,
\* whatever it was blocked for.
SweepReleases(t) ==
  stage[t] = "BLOCKED" /\ Blockers(t) # {} /\ Unblocked(t)

\* One sweep, in one transaction: releases, then the workflow.  (Only the
\* dependency part of it; events put back are ReclaimStale.)
Sweep ==
  /\ (\E t \in Tasks : SweepReleases(t))
       \/ (workflow = "active" /\ Ready(current))
  /\ stage' = [t \in Tasks |-> IF SweepReleases(t) THEN "OPEN" ELSE stage[t]]
  /\ Advance
  /\ UNCHANGED <<eventVars, fails, depVars>>

\* The workflow tool's "advance".
AdvanceByTool ==
  /\ workflow = "active" /\ Ready(current)
  /\ Advance
  /\ UNCHANGED <<eventVars, taskVars, depVars>>

-----------------------------------------------------------------------------
Events ==
  /\ \/ \E r \in Routers : Claim(r)
     \/ \E k \in Keys : Age(k) \/ Requeue(k)
     \/ ReclaimStale
  /\ UNCHANGED <<taskVars, depVars, flowVars>>

Dependencies ==
  \/ \E a \in Adders : InsertDependency(a) \/ \E e \in Edges : CheckDependency(a, e)
  \/ \E e \in Edges : RemoveDependency(e)

Workflow ==
  \/ ForceAdvance \/ AdvanceByTool
  \/ \E t \in Tasks, k \in Phases : AddTaskToPhase(t, k)

Next ==
  \/ Events \/ Dependencies \/ Workflow \/ Sweep
  \/ \E t \in Tasks, to \in Stages : Transition(t, to)
  \/ \E r \in Routers, k \in Keys : HandleTaskEnd(r, k)

\* The sweep runs on a timer for as long as any process of the project does.
Fairness == WF_vars(Sweep)

Spec == Init /\ [][Next]_vars /\ Fairness

-----------------------------------------------------------------------------
(* Properties                                                              *)

\* No chain of dependencies leads back to its start: every nonempty set of
\* tasks has one that depends on none of the set.  With a cycle of hard ones
\* each task would wait for the next (wouldCreateCycle).
AcyclicIn(E) ==
  \A S \in SUBSET Tasks :
    S # {} => \E t \in S : \A e \in E : e[1] = t => e[2] \notin S

Acyclic == AcyclicIn(hard \cup soft)

\* A task of a later phase starts to run only when every earlier phase was left
\* and every task for which an earlier "all_done" phase waited is DONE, though
\* tasks fail, are tried again and are added to phases at any time.
PhaseBarrier ==
  [][\A t \in Tasks :
       (workflow = "active" /\ stage[t] # "running" /\ stage'[t] = "running")
         => \A k \in 1..(place[t] - 1) :
              k < current /\ \A u \in barrier[k] : stage[u] = "DONE"]_vars

\* A blocked task whose hard dependencies are all DONE does not stay so: even
\* if the router died with every event of theirs, the sweep finds it.
DependentsReleased ==
  \A t \in Tasks :
    (stage[t] = "BLOCKED" /\ Blockers(t) # {} /\ Unblocked(t))
      ~> (stage[t] # "BLOCKED" \/ Blockers(t) = {} \/ ~Unblocked(t))

\* A phase whose gate is satisfied is left.
PhaseAdvances ==
  \A k \in Phases :
    (workflow = "active" /\ current = k /\ Ready(k))
      ~> (workflow # "active" \/ current # k \/ ~Ready(k))
=============================================================================
