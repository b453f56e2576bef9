------------------------ MODULE TaskLifecycleProofs ------------------------
(***************************************************************************)
(* Proofs about TaskLifecycle, for any tasks, agents and retry limit.      *)
(***************************************************************************)
EXTENDS TaskLifecycle, TLAPS

\* What TypeOK alone does not say: a draft is of a row that is not inserted
\* yet and names an inserted parent, and such a row is still blank.
Fresh ==
  \A t \in Tasks :
    /\ draft[t] # NoDraft =>
         /\ state[t] = "NONE"
         /\ draft[t] \in Draft
         /\ draft[t].parent # NoTask => state[draft[t].parent] # "NONE"
    /\ state[t] = "NONE" => parent[t] = NoTask /\ acceptedBy[t] = NoOne
    /\ parent[t] # NoTask => state[parent[t]] # "NONE"

IInv == TypeOK /\ Fresh /\ ParentGate /\ VerifierGate /\ RetryLimit

\* The facts about the transition table that the proofs use.
LEMMA TableFacts ==
  ASSUME NEW s \in TaskState, NEW to \in ValidNext[s]
  PROVE  /\ to \in TaskState
         /\ s \notin {"DONE", "CANCELLED"}
         /\ to = "DONE" => s = "REVIEW"
         /\ to = "REVIEW" => s = "IN_PROGRESS"
         /\ to = "IN_PROGRESS" => s \in {"ASSIGNED", "REVIEW"}
         /\ to = "OPEN" => s \in {"ASSIGNED", "BLOCKED", "FAILED"}
         /\ to = "ASSIGNED" => s \in {"OPEN", "IN_PROGRESS", "BLOCKED"}
BY DEF TaskState, ValidNext

\* An accepted transition preserves the invariant, whoever calls it.
LEMMA TransitionPreserves ==
  ASSUME IInv, NEW t \in Tasks, NEW to \in TaskState, NEW by \in Actors,
         NEW for \in Agents \cup {NoOne},
         MayTransition(t, to, by), WriteTransition(t, to, by, for),
         todo' \subseteq Release
  PROVE  IInv'
<1> USE ActorsAssumption, TasksAssumption, MaxRetriesAssumption
<1>1. /\ state[t] \in TaskState /\ to \in ValidNext[state[t]]
  BY DEF IInv, TypeOK, MayTransition
<1>2. /\ state[t] \notin {"NONE", "DONE", "CANCELLED"}
      /\ to # "NONE"
      /\ to = "DONE" => state[t] = "REVIEW"
      /\ to = "REVIEW" => state[t] = "IN_PROGRESS"
      /\ to = "IN_PROGRESS" => state[t] \in {"ASSIGNED", "REVIEW"}
  BY <1>1, TableFacts DEF TaskState
<1>3. AssigneeAfter(t, to, by, for) \in Actors \cup {NoOne}
  BY DEF AssigneeAfter, Actors, IInv, TypeOK
<1>4. TypeOK'
  BY <1>3 DEF WriteTransition, IInv, TypeOK
<1>5. Fresh'
  BY <1>2 DEF WriteTransition, MayTransition, IInv, TypeOK, Fresh
<1>6. \A c \in Tasks : ParentDone(c) => ParentDone(c)'
  BY <1>2 DEF ParentDone, WriteTransition, IInv, TypeOK
<1>7. ParentGate'
  BY <1>2, <1>6 DEF WriteTransition, MayTransition, IInv, TypeOK, ParentGate
<1>8. VerifierGate'
  <2>1. CASE to = "DONE"
    <3>1. AssigneeAfter(t, to, by, for) = assignee[t]
      BY <2>1 DEF AssigneeAfter
    <3>2. t \notin SelfReview /\ by \in Agents => by # assignee[t]
      BY <1>2, <2>1 DEF MayTransition, PassesVerifierGate, Verdict
    <3> QED
      BY <2>1, <3>1, <3>2 DEF WriteTransition, IInv, TypeOK, VerifierGate
  <2>2. CASE to # "DONE"
    BY <1>2, <2>2 DEF WriteTransition, IInv, TypeOK, VerifierGate
  <2> QED BY <2>1, <2>2
<1>9. RetryLimit'
  BY <1>2 DEF WriteTransition, MayTransition, IInv, TypeOK, RetryLimit
<1> QED BY <1>4, <1>5, <1>7, <1>8, <1>9 DEF IInv

LEMMA InitInvariant == Init => IInv
BY ActorsAssumption, TasksAssumption, MaxRetriesAssumption
   DEF Init, IInv, TypeOK, Fresh, ParentGate, VerifierGate, RetryLimit,
       TaskState, ParentDone, NoDraft

LEMMA NextInvariant == IInv /\ [Next]_vars => IInv'
<1> SUFFICES ASSUME IInv, [Next]_vars PROVE IInv'
  OBVIOUS
<1> USE ActorsAssumption, TasksAssumption, MaxRetriesAssumption
<1>1. ASSUME NEW t \in Tasks, NEW p \in Tasks \cup {NoTask},
             NEW a \in Agents \cup {NoOne}, NEW f \in BOOLEAN,
             ReadForCreate(t, p, a, f)
      PROVE  IInv'
  <2> DEFINE d == [state    |-> IF p # NoTask /\ state[p] # "DONE"
                                  THEN "BLOCKED"
                                ELSE IF a # NoOne /\ ~f THEN "ASSIGNED"
                                ELSE "OPEN",
                   assignee |-> a, parent |-> p, future |-> f]
  <2>1. d \in Draft
    BY DEF Draft
  <2>2. draft' = [draft EXCEPT ![t] = d]
    BY <1>1 DEF ReadForCreate
  <2>3. UNCHANGED <<state, assignee, parent, retries, evidence, future, todo,
                    acceptedBy>>
    BY <1>1 DEF ReadForCreate, rows
  <2>4. TypeOK'
    BY <2>1, <2>2, <2>3 DEF IInv, TypeOK
  <2>5. Fresh'
    <3>1. d.parent # NoTask => state[d.parent] # "NONE"
      BY <1>1 DEF ReadForCreate
    <3> QED
      BY <1>1, <2>1, <2>2, <2>3, <3>1 DEF ReadForCreate, IInv, TypeOK, Fresh
  <2> QED
    BY <2>3, <2>4, <2>5
    DEF IInv, ParentGate, ParentDone, VerifierGate, RetryLimit
<1>2. ASSUME NEW t \in Tasks, InsertTask(t) PROVE IInv'
  <2>1. /\ draft[t] \in Draft /\ state[t] = "NONE"
        /\ draft[t].parent # NoTask => state[draft[t].parent] # "NONE"
        /\ acceptedBy[t] = NoOne
    BY <1>2 DEF InsertTask, IInv, Fresh
  <2>2. /\ draft[t].state \in {"OPEN", "ASSIGNED", "BLOCKED"}
        /\ draft[t].assignee \in Actors \cup {NoOne}
        /\ draft[t].parent \in Tasks \cup {NoTask}
        /\ draft[t].future \in BOOLEAN
    BY <2>1 DEF Draft, Actors
  <2>3. TypeOK'
    BY <1>2, <2>2 DEF InsertTask, IInv, TypeOK, TaskState
  <2>4. Fresh'
    BY <1>2, <2>1, <2>2 DEF InsertTask, IInv, TypeOK, Fresh
  <2>5. ParentGate'
    BY <1>2, <2>1, <2>2
    DEF InsertTask, IInv, TypeOK, Fresh, ParentGate, ParentDone
  <2>6. VerifierGate' /\ RetryLimit'
    BY <1>2, <2>1, <2>2
    DEF InsertTask, IInv, TypeOK, VerifierGate, RetryLimit
  <2> QED BY <2>3, <2>4, <2>5, <2>6 DEF IInv
<1>3. ASSUME NEW t \in Tasks, NEW to \in TaskState, NEW by \in Actors,
             NEW for \in Agents \cup {NoOne}, Transition(t, to, by, for)
      PROVE  IInv'
  <2>1. BlockedChildren(t) \subseteq Release
    BY DEF BlockedChildren, Release
  <2>2. todo' \subseteq Release
    BY <1>3, <2>1 DEF Transition, IInv, TypeOK
  <2> QED BY <1>3, <2>2, TransitionPreserves DEF Transition
<1>4. ASSUME NEW r \in todo, ReleaseChild(r) PROVE IInv'
  <2>1. /\ r.task \in Tasks /\ r.to \in TaskState
        /\ todo' \subseteq Release
    BY <1>4 DEF ReleaseChild, IInv, TypeOK, Release, TaskState
  <2>2. CASE MayTransition(r.task, r.to, System)
    BY <1>4, <2>1, <2>2, TransitionPreserves DEF ReleaseChild, Actors
  <2>3. CASE ~MayTransition(r.task, r.to, System)
    BY <1>4, <2>1, <2>3
    DEF ReleaseChild, rows, IInv, TypeOK, Fresh, ParentGate, ParentDone,
        VerifierGate, RetryLimit
  <2> QED BY <2>2, <2>3
<1>5. CASE Crash
  <2>1. ASSUME NEW r \in todo, todo' = todo \ {r},
               UNCHANGED <<rows, draft, acceptedBy>>
        PROVE  IInv'
    BY <2>1
    DEF rows, IInv, TypeOK, Fresh, ParentGate, ParentDone, VerifierGate,
        RetryLimit
  <2>2. ASSUME NEW t \in Tasks, draft' = [draft EXCEPT ![t] = NoDraft],
               UNCHANGED <<rows, todo, acceptedBy>>
        PROVE  IInv'
    BY <2>2
    DEF rows, IInv, TypeOK, Fresh, ParentGate, ParentDone, VerifierGate,
        RetryLimit
  <2> QED BY <1>5, <2>1, <2>2 DEF Crash
<1>6. ASSUME NEW t \in Tasks, NEW a \in Agents, ReassignTask(t, a)
      PROVE  IInv'
  BY <1>6
  DEF ReassignTask, IInv, TypeOK, Fresh, ParentGate, ParentDone,
      VerifierGate, RetryLimit, Actors
<1>7. ASSUME NEW t \in Tasks, AttachEvidence(t) PROVE IInv'
  BY <1>7
  DEF AttachEvidence, IInv, TypeOK, Fresh, ParentGate, ParentDone,
      VerifierGate, RetryLimit
<1>8. ASSUME NEW t \in Tasks, PhaseOpens(t) \/ JoinLaterPhase(t) PROVE IInv'
  <2>1. future' \in [Tasks -> BOOLEAN]
    BY <1>8 DEF PhaseOpens, JoinLaterPhase, IInv, TypeOK
  <2>2. UNCHANGED <<state, assignee, parent, retries, evidence, draft, todo,
                    acceptedBy>>
    BY <1>8 DEF PhaseOpens, JoinLaterPhase
  <2> QED
    BY <2>1, <2>2
    DEF IInv, TypeOK, Fresh, ParentGate, ParentDone, VerifierGate,
        RetryLimit
<1>9. ASSUME NEW t \in Tasks, SweepReleaseChild(t) PROVE IInv'
  <2> DEFINE to == IF assignee[t] # NoOne THEN "ASSIGNED" ELSE "OPEN"
  <2>1. to \in TaskState
    BY DEF TaskState
  <2>2. todo' \subseteq Release
    BY <1>9 DEF SweepReleaseChild, IInv, TypeOK
  <2>3. MayTransition(t, to, System) /\ WriteTransition(t, to, System, NoOne)
    BY <1>9 DEF SweepReleaseChild
  <2> HIDE DEF to
  <2> QED BY <2>1, <2>2, <2>3, TransitionPreserves DEF Actors
<1>10. CASE UNCHANGED vars
  BY <1>10
  DEF vars, rows, IInv, TypeOK, Fresh, ParentGate, ParentDone, VerifierGate,
      RetryLimit
<1> QED
  BY <1>1, <1>2, <1>3, <1>4, <1>5, <1>6, <1>7, <1>8, <1>9, <1>10 DEF Next

LEMMA Invariant == Spec => []IInv
BY InitInvariant, NextInvariant, PTL DEF Spec

-----------------------------------------------------------------------------

\* The columns hold what the code reads them as.
THEOREM TypeCorrect == Spec => []TypeOK
<1>1. IInv => TypeOK
  BY DEF IInv
<1> QED BY <1>1, Invariant, PTL

\* No child is started, reviewed or accepted before its parent is accepted.
THEOREM ParentGateHolds == Spec => []ParentGate
<1>1. IInv => ParentGate
  BY DEF IInv
<1> QED BY <1>1, Invariant, PTL

\* No agent accepts a task assigned to it, outside the exemption.
THEOREM VerifierGateHolds == Spec => []VerifierGate
<1>1. IInv => VerifierGate
  BY DEF IInv
<1> QED BY <1>1, Invariant, PTL

\* Whatever interleaves, no task is retried more often than its limit allows.
THEOREM RetryLimitHolds == Spec => []RetryLimit
<1>1. IInv => RetryLimit
  BY DEF IInv
<1> QED BY <1>1, Invariant, PTL

-----------------------------------------------------------------------------
(* The task table implements ReviewedWork                                  *)

\* An accepted transition is a step of reviewed work or changes none of it.
LEMMA TransitionRefines ==
  ASSUME IInv, NEW t \in Tasks, NEW to \in TaskState, NEW by \in Actors,
         NEW for \in Agents \cup {NoOne},
         MayTransition(t, to, by), WriteTransition(t, to, by, for)
  PROVE  [Promise!Next]_(Promise!vars)
<1> USE ActorsAssumption, TasksAssumption
<1> DEFINE ph == [c \in Tasks |-> PhaseOf(state[c])]
           o  == AssigneeAfter(t, to, by, for)
<1>1. state[t] \in TaskState /\ to \in ValidNext[state[t]]
  BY DEF IInv, TypeOK, MayTransition
<1>2. /\ state[t] \notin {"NONE", "DONE", "CANCELLED"}
      /\ to # "NONE"
      /\ to = "DONE" => state[t] = "REVIEW"
      /\ to = "REVIEW" => state[t] = "IN_PROGRESS"
      /\ to = "IN_PROGRESS" => state[t] \in {"ASSIGNED", "REVIEW"}
  BY <1>1, TableFacts DEF TaskState
<1>3. /\ ph' = [ph EXCEPT ![t] = PhaseOf(to)]
      /\ assignee' = [assignee EXCEPT ![t] = o]
      /\ acceptedBy' = [acceptedBy EXCEPT ![t] = IF to = "DONE" THEN by ELSE @]
      /\ parent' = parent
  BY DEF WriteTransition, IInv, TypeOK
<1>4. ph[t] = PhaseOf(state[t]) /\ ph \in [Tasks -> {"absent", "waiting",
        "working", "submitted", "accepted", "dropped"}]
  BY DEF PhaseOf
<1>5. o \in Agents \cup {System, NoOne}
  BY DEF AssigneeAfter, Actors, IInv, TypeOK
<1>6. to \notin {"OPEN", "ASSIGNED"} => o = assignee[t]
  BY DEF AssigneeAfter
<1>7. CASE to = "DONE"
  <2>1. ph[t] = "submitted" /\ PhaseOf(to) = "accepted"
    BY <1>2, <1>4, <1>7 DEF PhaseOf
  <2>2. by = System \/ by # assignee[t] \/ t \in SelfReview
    BY <1>2, <1>7 DEF MayTransition, PassesVerifierGate, Verdict
  <2>3. assignee' = assignee
    BY <1>3, <1>6, <1>7 DEF IInv, TypeOK
  <2>4. Promise!Accept(t, by)
    BY <1>3, <1>7, <2>1, <2>2, <2>3 DEF Promise!Accept
  <2> QED BY <2>4 DEF Promise!Next, Actors
<1>8. CASE to = "REVIEW"
  <2>1. ph[t] = "working" /\ PhaseOf(to) = "submitted"
    BY <1>2, <1>4, <1>8 DEF PhaseOf
  <2>2. assignee' = assignee /\ acceptedBy' = acceptedBy
    BY <1>3, <1>6, <1>8 DEF IInv, TypeOK
  <2>3. Promise!Submit(t)
    BY <1>3, <2>1, <2>2 DEF Promise!Submit
  <2> QED BY <2>3 DEF Promise!Next
<1>9. CASE to = "IN_PROGRESS"
  <2>1. ph[t] \in {"waiting", "submitted"} /\ PhaseOf(to) = "working"
    BY <1>2, <1>4, <1>9 DEF PhaseOf
  <2>2. parent[t] # NoTask => ph[parent[t]] = "accepted"
    BY <1>9 DEF MayTransition, ParentDone, PhaseOf, IInv, TypeOK
  <2>3. assignee' = assignee /\ acceptedBy' = acceptedBy
    BY <1>3, <1>6, <1>9 DEF IInv, TypeOK
  <2>4. Promise!Start(t)
    BY <1>3, <2>1, <2>2, <2>3 DEF Promise!Start
  <2> QED BY <2>4 DEF Promise!Next
<1>10. CASE to = "CANCELLED"
  <2>1. ph[t] \in {"waiting", "working", "submitted"} /\ PhaseOf(to) = "dropped"
    BY <1>1, <1>2, <1>4, <1>10 DEF PhaseOf, TaskState
  <2>2. assignee' = assignee /\ acceptedBy' = acceptedBy
    BY <1>3, <1>6, <1>10 DEF IInv, TypeOK
  <2>3. Promise!Drop(t)
    BY <1>3, <2>1, <2>2 DEF Promise!Drop
  <2> QED BY <2>3 DEF Promise!Next
<1>11. CASE to \in {"OPEN", "ASSIGNED", "BLOCKED", "FAILED"}
  <2>1. PhaseOf(to) = "waiting" /\ ph[t] \in {"waiting", "working", "submitted"}
    BY <1>1, <1>2, <1>4, <1>11 DEF PhaseOf, TaskState
  <2>2. acceptedBy' = acceptedBy
    BY <1>3, <1>11 DEF IInv, TypeOK
  <2>3. CASE ph[t] = "waiting"
    <3>1. ph' = ph
      BY <1>3, <1>4, <2>1, <2>3
    <3>2. Promise!Give(t, o)
      BY <1>3, <2>2, <2>3, <3>1 DEF Promise!Give
    <3> QED BY <1>5, <3>2 DEF Promise!Next
  <2>4. CASE ph[t] # "waiting"
    <3>1. Promise!PutBack(t, o)
      BY <1>3, <2>1, <2>2, <2>4 DEF Promise!PutBack
    <3> QED BY <1>5, <3>1 DEF Promise!Next
  <2> QED BY <2>3, <2>4
<1> QED BY <1>7, <1>8, <1>9, <1>10, <1>11 DEF TaskState

LEMMA InitRefines == Init => Promise!Init
BY DEF Init, Promise!Init, PhaseOf

LEMMA NextRefines == IInv /\ [Next]_vars => [Promise!Next]_(Promise!vars)
<1> SUFFICES ASSUME IInv, [Next]_vars PROVE [Promise!Next]_(Promise!vars)
  OBVIOUS
<1> USE ActorsAssumption, TasksAssumption
<1> DEFINE ph == [c \in Tasks |-> PhaseOf(state[c])]
<1>1. ASSUME UNCHANGED <<state, assignee, parent, acceptedBy>>
      PROVE  UNCHANGED Promise!vars
  <2>1. ph' = ph
    BY <1>1
  <2> QED BY <1>1, <2>1 DEF Promise!vars
<1>2. ASSUME NEW t \in Tasks, InsertTask(t) PROVE Promise!Next
  <2> DEFINE d == draft[t]
  <2>1. /\ d \in Draft /\ state[t] = "NONE"
        /\ d.parent # NoTask => state[d.parent] # "NONE"
    BY <1>2 DEF InsertTask, IInv, Fresh
  <2>2. /\ d.state \in {"OPEN", "ASSIGNED", "BLOCKED"}
        /\ d.assignee \in Agents \cup {NoOne}
        /\ d.parent \in Tasks \cup {NoTask}
    BY <2>1 DEF Draft
  <2>3. ph[t] = "absent" /\ PhaseOf(d.state) = "waiting"
    BY <2>1, <2>2 DEF PhaseOf
  <2>4. d.parent # NoTask => ph[d.parent] # "absent"
    BY <2>1, <2>2 DEF PhaseOf
  <2>5. /\ state' = [state EXCEPT ![t] = d.state]
        /\ assignee' = [assignee EXCEPT ![t] = d.assignee]
        /\ parent' = [parent EXCEPT ![t] = d.parent]
        /\ acceptedBy' = acceptedBy
    BY <1>2 DEF InsertTask
  <2>6. ph' = [ph EXCEPT ![t] = "waiting"]
    BY <2>3, <2>5 DEF IInv, TypeOK
  <2>7. Promise!Order(t, d.parent, d.assignee)
    BY <2>3, <2>4, <2>5, <2>6 DEF Promise!Order
  <2> QED BY <2>2, <2>7 DEF Promise!Next
<1>3. ASSUME NEW t \in Tasks, NEW to \in TaskState, NEW by \in Actors,
             NEW for \in Agents \cup {NoOne}, Transition(t, to, by, for)
      PROVE  [Promise!Next]_(Promise!vars)
  BY <1>3, TransitionRefines DEF Transition
<1>4. ASSUME NEW r \in todo, ReleaseChild(r)
      PROVE  [Promise!Next]_(Promise!vars)
  <2>1. r.task \in Tasks /\ r.to \in TaskState
    BY <1>4 DEF IInv, TypeOK, Release, TaskState
  <2>2. CASE MayTransition(r.task, r.to, System)
    BY <1>4, <2>1, <2>2, TransitionRefines DEF ReleaseChild, Actors
  <2>3. CASE ~MayTransition(r.task, r.to, System)
    BY <1>1, <1>4, <2>3 DEF ReleaseChild, rows
  <2> QED BY <2>2, <2>3
<1>5. ASSUME NEW t \in Tasks, NEW a \in Agents, ReassignTask(t, a)
      PROVE  Promise!Next
  <2>1. ph[t] = "waiting"
    BY <1>5 DEF ReassignTask, PhaseOf
  <2>2. /\ ph' = ph
        /\ assignee' = [assignee EXCEPT ![t] = a]
        /\ parent' = parent /\ acceptedBy' = acceptedBy
    BY <1>5 DEF ReassignTask
  <2>3. Promise!Give(t, a)
    BY <2>1, <2>2 DEF Promise!Give
  <2> QED BY <2>3 DEF Promise!Next
<1>6. ASSUME NEW t \in Tasks, SweepReleaseChild(t)
      PROVE  [Promise!Next]_(Promise!vars)
  <2> DEFINE to == IF assignee[t] # NoOne THEN "ASSIGNED" ELSE "OPEN"
  <2>1. to \in TaskState
    BY DEF TaskState
  <2>2. MayTransition(t, to, System) /\ WriteTransition(t, to, System, NoOne)
    BY <1>6 DEF SweepReleaseChild
  <2> HIDE DEF to
  <2> QED BY <2>1, <2>2, TransitionRefines DEF Actors
<1>7. ASSUME NEW t \in Tasks, NEW p \in Tasks \cup {NoTask},
             NEW a \in Agents \cup {NoOne}, NEW f \in BOOLEAN,
             ReadForCreate(t, p, a, f)
      PROVE  UNCHANGED Promise!vars
  BY <1>1, <1>7 DEF ReadForCreate, rows
<1>8. ASSUME NEW t \in Tasks,
             AttachEvidence(t) \/ PhaseOpens(t) \/ JoinLaterPhase(t)
      PROVE  UNCHANGED Promise!vars
  BY <1>1, <1>8 DEF AttachEvidence, PhaseOpens, JoinLaterPhase
<1>9. CASE Crash \/ UNCHANGED vars
  BY <1>1, <1>9 DEF Crash, vars, rows
<1> QED
  BY <1>2, <1>3, <1>4, <1>5, <1>6, <1>7, <1>8, <1>9 DEF Next

\* The task table implements the promise of reviewed work: creation, every
\* transition, releases from stale lists, crashes and the sweep included.
THEOREM TaskLifecycleKeepsPromise == Spec => KeepsPromise
BY InitRefines, NextRefines, Invariant, PTL DEF Spec, Promise!Spec, KeepsPromise
=============================================================================
