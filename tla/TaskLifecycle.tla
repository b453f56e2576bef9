--------------------------- MODULE TaskLifecycle ---------------------------
(***************************************************************************)
(* The task table of one project and the operations of src/tasks/ops.ts    *)
(* that change it, called by agents (through their tools) and by the       *)
(* system's own callers (sweep, event router, dispatcher, session hooks),  *)
(* in several processes that share the database.                           *)
(*                                                                         *)
(* A transition is one BEGIN IMMEDIATE transaction that re-reads the state *)
(* of the row, so it is one step.  Two things happen outside a transaction *)
(* and are steps of their own, between which other processes run and the   *)
(* process may die:                                                        *)
(*   - createTask reads the parent before it inserts the child (draft);    *)
(*   - after a parent's commit to DONE, transitionTask releases the        *)
(*     blocked children one by one from a list it read (todo).             *)
(*                                                                         *)
(* A rejected call changes nothing here, so only accepted ones are         *)
(* actions; the risk gate and the lease-conflict check only reject.        *)
(***************************************************************************)
EXTENDS TaskStates, Naturals

CONSTANTS
  Tasks,        \* task ids
  Agents,       \* agent ids, each a possible assignee and actor
  System,       \* the actor of the system's own callers ("system:...")
  NoOne,        \* the NULL of an assignee or actor column
  NoTask,       \* the NULL of parent_task_id
  SelfReview,   \* tasks exempt from the verifier gate: by their priority
                \* (review.selfReviewAllowed), or as runs of a recurring job,
                \* which dispatcher.ts moves to DONE in the worker's name
  MaxRetries    \* max_retries of every task

ASSUME ActorsAssumption == System \notin Agents /\ NoOne \notin Agents \cup {System}
ASSUME TasksAssumption == NoTask \notin Tasks /\ SelfReview \subseteq Tasks
ASSUME MaxRetriesAssumption == MaxRetries \in Nat

Actors == Agents \cup {System}

VARIABLES
  state,       \* tasks.state; "NONE" for a row not inserted yet
  assignee,    \* tasks.assigned_to
  parent,      \* tasks.parent_task_id, set at insertion only
  retries,     \* tasks.retry_count
  evidence,    \* does the evidence table hold a row of this task
  future,      \* is the task in a phase its workflow has not reached
  draft,       \* createTask calls between their reads and their INSERT
  todo,        \* children a committed DONE still has to release
  acceptedBy   \* the actor of the transitions row that entered DONE

rows == <<state, assignee, parent, retries, evidence, future>>
vars == <<rows, draft, todo, acceptedBy>>

NoDraft == [state |-> "NONE", assignee |-> NoOne, parent |-> NoTask,
            future |-> FALSE]

Draft == [state : {"OPEN", "ASSIGNED", "BLOCKED"},
          assignee : Agents \cup {NoOne}, parent : Tasks \cup {NoTask},
          future : BOOLEAN]

\* A child a DONE transition means to release, with the target it chose.
Release == [task : Tasks, to : {"OPEN", "ASSIGNED"}]

TypeOK ==
  /\ state \in [Tasks -> TaskState \cup {"NONE"}]
  /\ assignee \in [Tasks -> Actors \cup {NoOne}]
  /\ parent \in [Tasks -> Tasks \cup {NoTask}]
  /\ retries \in [Tasks -> Nat]
  /\ evidence \in [Tasks -> BOOLEAN]
  /\ future \in [Tasks -> BOOLEAN]
  /\ draft \in [Tasks -> Draft \cup {NoDraft}]
  /\ todo \subseteq Release
  /\ acceptedBy \in [Tasks -> Actors \cup {NoOne}]

Init ==
  /\ state = [t \in Tasks |-> "NONE"]
  /\ assignee = [t \in Tasks |-> NoOne]
  /\ parent = [t \in Tasks |-> NoTask]
  /\ retries = [t \in Tasks |-> 0]
  /\ evidence = [t \in Tasks |-> FALSE]
  /\ future = [t \in Tasks |-> FALSE]
  /\ draft = [t \in Tasks |-> NoDraft]
  /\ todo = {}
  /\ acceptedBy = [t \in Tasks |-> NoOne]

-----------------------------------------------------------------------------
(* createTask                                                              *)

\* The call reads the parent (which must exist), drops a "system:" assignee
\* and settles the initial state: a future phase keeps the task OPEN, an
\* unfinished parent makes it BLOCKED; both keep the assignee.
ReadForCreate(t, p, a, f) ==
  /\ state[t] = "NONE" /\ draft[t] = NoDraft
  /\ p # NoTask => state[p] # "NONE"
  /\ draft' = [draft EXCEPT ![t] =
       [state    |-> IF p # NoTask /\ state[p] # "DONE" THEN "BLOCKED"
                     ELSE IF a # NoOne /\ ~f THEN "ASSIGNED" ELSE "OPEN",
        assignee |-> a,
        parent   |-> p,
        future   |-> f]]
  /\ UNCHANGED <<rows, todo, acceptedBy>>

\* The INSERT.
InsertTask(t) ==
  /\ draft[t] # NoDraft
  /\ state' = [state EXCEPT ![t] = draft[t].state]
  /\ assignee' = [assignee EXCEPT ![t] = draft[t].assignee]
  /\ parent' = [parent EXCEPT ![t] = draft[t].parent]
  /\ future' = [future EXCEPT ![t] = draft[t].future]
  /\ draft' = [draft EXCEPT ![t] = NoDraft]
  /\ UNCHANGED <<retries, evidence, todo, acceptedBy>>

-----------------------------------------------------------------------------
(* transitionTask                                                          *)

ParentDone(t) == parent[t] # NoTask => state[parent[t]] = "DONE"

\* Fault: whoever may submit work may judge it.
JudgesItself(t, to, by) == by # NoOne

\* The assignee may not judge its own work, unless its task is exempt or the
\* caller passes verificationRequired = false, as the system's own do.
PassesVerifierGate(t, to, by) ==
  (state[t] = "REVIEW" /\ to \in Verdict) =>
     \/ by # assignee[t]
     \/ by = System
     \/ t \in SelfReview

\* An agent may name an evidence_id, which counts without being looked up.
HasEvidence(t, by) == evidence[t] \/ by \in Agents

\* Fault: starting work does not look at the parent.
StartsBeforeParent(t, to, by) ==
  /\ state[t] # "NONE"
  /\ to \in ValidNext[state[t]]
  /\ to \in Dispatchable => ~future[t]
  /\ (state[t] = "IN_PROGRESS" /\ to = "REVIEW") => HasEvidence(t, by)
  /\ PassesVerifierGate(t, to, by)
  /\ (state[t] = "FAILED" /\ to = "OPEN") => retries[t] < MaxRetries

\* Fault: one retry too many.
RetriesOnceMore(t, to, by) ==
  /\ state[t] # "NONE"
  /\ to \in ValidNext[state[t]]
  /\ to \in Dispatchable => ~future[t]
  /\ to = "IN_PROGRESS" => ParentDone(t)
  /\ (state[t] = "IN_PROGRESS" /\ to = "REVIEW") => HasEvidence(t, by)
  /\ PassesVerifierGate(t, to, by)
  /\ (state[t] = "FAILED" /\ to = "OPEN") => retries[t] <= MaxRetries

\* The gates of transitionTask and validateTransition on the row as read.
MayTransition(t, to, by) ==
  /\ state[t] # "NONE"
  /\ to \in ValidNext[state[t]]
  /\ to \in Dispatchable => ~future[t]
  /\ to = "IN_PROGRESS" => ParentDone(t)
  /\ (state[t] = "IN_PROGRESS" /\ to = "REVIEW") => HasEvidence(t, by)
  /\ PassesVerifierGate(t, to, by)
  /\ (state[t] = "FAILED" /\ to = "OPEN") => retries[t] < MaxRetries

\* assigned_to after the UPDATE: a given assignee always counts, the actor is
\* the assignee only of a task that was OPEN, and going back to OPEN clears
\* it except on a retry.
AssigneeAfter(t, to, by, for) ==
  CASE to = "ASSIGNED" /\ for # NoOne           -> for
    [] to = "ASSIGNED" /\ for = NoOne /\ state[t] = "OPEN" -> by
    [] to = "OPEN" /\ state[t] # "FAILED"       -> NoOne
    [] OTHER                                    -> assignee[t]

\* The transaction: the row and the transitions row.
WriteTransition(t, to, by, for) ==
  /\ state' = [state EXCEPT ![t] = to]
  /\ assignee' = [assignee EXCEPT ![t] = AssigneeAfter(t, to, by, for)]
  /\ retries' = [retries EXCEPT ![t] =
       IF state[t] = "FAILED" /\ to = "OPEN" THEN @ + 1 ELSE @]
  /\ acceptedBy' = [acceptedBy EXCEPT ![t] = IF to = "DONE" THEN by ELSE @]
  /\ UNCHANGED <<parent, evidence, future, draft>>

\* Fault: a released child is resumed at once.
ResumedChildren(t) ==
  {[task |-> c, to |-> IF assignee[c] # NoOne THEN "IN_PROGRESS" ELSE "OPEN"] :
     c \in {c \in Tasks : parent[c] = t /\ state[c] = "BLOCKED"}}

\* The children the auto-unblock query returns, each with its target.
BlockedChildren(t) ==
  {[task |-> c, to |-> IF assignee[c] # NoOne THEN "ASSIGNED" ELSE "OPEN"] :
     c \in {c \in Tasks : parent[c] = t /\ state[c] = "BLOCKED"}}

Transition(t, to, by, for) ==
  /\ MayTransition(t, to, by)
  /\ for # NoOne => to = "ASSIGNED"
  /\ WriteTransition(t, to, by, for)
  /\ todo' = IF to = "DONE" THEN todo \cup BlockedChildren(t) ELSE todo

\* One round of the auto-unblock loop.  The child may have moved since the
\* list was read; the nested transitionTask judges the row it finds.
ReleaseChild(r) ==
  /\ r \in todo
  /\ todo' = todo \ {r}
  /\ IF MayTransition(r.task, r.to, System)
       THEN WriteTransition(r.task, r.to, System, NoOne)
       ELSE UNCHANGED <<rows, draft, acceptedBy>>

\* A process dies between its steps: its draft or its list is lost.
Crash ==
  \/ \E r \in todo :
       /\ todo' = todo \ {r}
       /\ UNCHANGED <<rows, draft, acceptedBy>>
  \/ \E t \in Tasks :
       /\ draft[t] # NoDraft
       /\ draft' = [draft EXCEPT ![t] = NoDraft]
       /\ UNCHANGED <<rows, todo, acceptedBy>>

-----------------------------------------------------------------------------
(* The other writers of these columns                                      *)

\* Fault: work in review can be given to somebody else.
ReassignInReview(t, a) ==
  /\ state[t] \in {"ASSIGNED", "REVIEW"} /\ assignee[t] # a /\ ~future[t]
  /\ assignee' = [assignee EXCEPT ![t] = a]
  /\ UNCHANGED <<state, parent, retries, evidence, future, draft, todo,
                 acceptedBy>>

\* reassignTask on an ASSIGNED row; on an IN_PROGRESS one it is a Transition.
ReassignTask(t, a) ==
  /\ state[t] = "ASSIGNED" /\ assignee[t] # a /\ ~future[t]
  /\ assignee' = [assignee EXCEPT ![t] = a]
  /\ UNCHANGED <<state, parent, retries, evidence, future, draft, todo,
                 acceptedBy>>

AttachEvidence(t) ==
  /\ state[t] # "NONE" /\ ~evidence[t]
  /\ evidence' = [evidence EXCEPT ![t] = TRUE]
  /\ UNCHANGED <<state, assignee, parent, retries, future, draft, todo, acceptedBy>>

\* The workflow reaches the task's phase.
PhaseOpens(t) ==
  /\ state[t] # "NONE" /\ future[t]
  /\ future' = [future EXCEPT ![t] = FALSE]
  /\ UNCHANGED <<state, assignee, parent, retries, evidence, draft, todo, acceptedBy>>

\* addTaskToPhase: an existing task joins a phase that is not reached yet.
JoinLaterPhase(t) ==
  /\ state[t] # "NONE" /\ ~future[t]
  /\ future' = [future EXCEPT ![t] = TRUE]
  /\ UNCHANGED <<state, assignee, parent, retries, evidence, draft, todo, acceptedBy>>

\* Fault: the sweep releases assigned children only.
SweepReleaseAssigned(t) ==
  /\ state[t] = "BLOCKED" /\ parent[t] # NoTask /\ ParentDone(t)
  /\ assignee[t] # NoOne
  /\ MayTransition(t, "ASSIGNED", System)
  /\ WriteTransition(t, "ASSIGNED", System, NoOne)
  /\ UNCHANGED todo

\* The sweep's step 1.5: the backstop for children the loop above missed.
SweepReleaseChild(t) ==
  /\ state[t] = "BLOCKED" /\ parent[t] # NoTask /\ ParentDone(t)
  /\ LET to == IF assignee[t] # NoOne THEN "ASSIGNED" ELSE "OPEN" IN
       /\ MayTransition(t, to, System)
       /\ WriteTransition(t, to, System, NoOne)
       /\ UNCHANGED todo

-----------------------------------------------------------------------------

\* Agents act for themselves; the system names an assignee when it assigns.
Next ==
  \/ \E t \in Tasks, p \in Tasks \cup {NoTask}, a \in Agents \cup {NoOne},
        f \in BOOLEAN : ReadForCreate(t, p, a, f)
  \/ \E t \in Tasks : InsertTask(t)
  \/ \E t \in Tasks, to \in TaskState, by \in Actors,
        for \in Agents \cup {NoOne} :
       /\ by = System /\ to = "ASSIGNED" /\ state[t] = "OPEN" => for # NoOne
       /\ Transition(t, to, by, for)
  \/ \E r \in todo : ReleaseChild(r)
  \/ Crash
  \/ \E t \in Tasks, a \in Agents : ReassignTask(t, a)
  \/ \E t \in Tasks : AttachEvidence(t)
  \/ \E t \in Tasks : PhaseOpens(t) \/ JoinLaterPhase(t)
  \/ \E t \in Tasks : SweepReleaseChild(t)

\* The sweep runs on an interval timer and visits every BLOCKED row.
Fairness == \A t \in Tasks : WF_vars(SweepReleaseChild(t))

Spec == Init /\ [][Next]_vars
FairSpec == Spec /\ Fairness

-----------------------------------------------------------------------------
(* Properties                                                              *)

\* Work on a child starts only when its parent has been accepted, whatever
\* way the child took: the parent gate, the release loop, a stale list, a
\* reassignment, a retry or the sweep.
ParentGate ==
  \A t \in Tasks :
    state[t] \in {"IN_PROGRESS", "REVIEW", "DONE"} => ParentDone(t)

\* Outside the self-review exemption nobody has accepted the work of a task
\* that was assigned to it.
VerifierGate ==
  \A t \in Tasks \ SelfReview :
    state[t] = "DONE" /\ acceptedBy[t] \in Agents =>
      acceptedBy[t] # assignee[t]

\* No interleaving of transitions, stale lists, crashes and sweeps brings a
\* task more retries than its limit allows.
RetryLimit == \A t \in Tasks : retries[t] <= MaxRetries

\* What a column value means to whoever ordered the work.
PhaseOf(s) ==
  CASE s = "NONE"        -> "absent"
    [] s = "IN_PROGRESS" -> "working"
    [] s = "REVIEW"      -> "submitted"
    [] s = "DONE"        -> "accepted"
    [] s = "CANCELLED"   -> "dropped"
    [] OTHER             -> "waiting"

Promise == INSTANCE ReviewedWork WITH
  phase <- [t \in Tasks |-> PhaseOf(state[t])],
  needs <- parent, owner <- assignee, judge <- acceptedBy

\* Every step of every process, with its crashes, stale lists and retries,
\* is a step of reviewed work or none: in particular accepted and cancelled
\* tasks never move again, and work in review never changes hands.
KeepsPromise == Promise!Spec

\* A child left BLOCKED by a missed or lost release (a crash after the
\* parent's commit, an INSERT that raced it) is released by the sweep, unless
\* the phase gate holds it back.
ChildIsReleased ==
  \A t \in Tasks :
    (state[t] = "BLOCKED" /\ parent[t] # NoTask /\ ParentDone(t)) ~>
      (state[t] # "BLOCKED" \/ future[t])
=============================================================================
