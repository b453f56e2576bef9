-------------------------- MODULE WorkGraphProofs --------------------------
(***************************************************************************)
(* Proofs about WorkGraph for any tasks, dependencies and gates.  The      *)
(* dependencies never form a cycle as long as one process adds them:       *)
(* between the search of wouldCreateCycle and the INSERT edges may go, but *)
(* none comes.  And a workflow never runs ahead of the tasks that its      *)
(* phases have waited for.                                                 *)
(***************************************************************************)
EXTENDS WorkGraph, TLAPS

-----------------------------------------------------------------------------
(* Cycles                                                                  *)

\* Without an edge nothing depends on anything.
LEMMA EmptyAcyclic == AcyclicIn({})
  BY DEF AcyclicIn

\* Dropping edges opens no cycle.
LEMMA AcyclicSubset ==
  ASSUME NEW E, NEW F \in SUBSET E, AcyclicIn(E)
  PROVE  AcyclicIn(F)
  BY DEF AcyclicIn

\* Dropping edges opens no path.
LEMMA ReachesSubset ==
  ASSUME NEW E, NEW F \in SUBSET E, NEW d, NEW t, ~Reaches(E, d, t)
  PROVE  ~Reaches(F, d, t)
  BY DEF Reaches

\* An edge from t to d closes no cycle if no path leads from d to t: the
\* search has left a closed set with d and without t, and any set of tasks
\* has a sink inside it, or is disjoint from it.
LEMMA AcyclicAdd ==
  ASSUME NEW E, NEW e, NEW S0, AcyclicIn(E), ~Reaches(E, e[2], e[1])
  PROVE  AcyclicIn(E \cup {e})
<1>1. PICK C \in SUBSET Tasks :
        /\ e[2] \in C /\ e[1] \notin C
        /\ \A x \in E : x[1] \in C => x[2] \in C
  BY DEF Reaches
<1>2. SUFFICES ASSUME NEW S \in SUBSET Tasks, S # {}
               PROVE  \E t \in S : \A x \in E \cup {e} : x[1] = t => x[2] \notin S
  BY DEF AcyclicIn
<1>3. CASE S \cap C # {}
  <2>1. S \cap C \in SUBSET Tasks
    OBVIOUS
  <2>2. PICK t \in S \cap C : \A x \in E : x[1] = t => x[2] \notin S \cap C
    BY <1>3, <2>1 DEF AcyclicIn
  <2>3. ASSUME NEW x \in E \cup {e}, x[1] = t
        PROVE  x[2] \notin S
    BY <1>1, <2>2, <2>3
  <2>. QED
    BY <2>2, <2>3
<1>4. CASE S \cap C = {}
  <2>1. PICK t \in S : \A x \in E : x[1] = t => x[2] \notin S
    BY <1>2 DEF AcyclicIn
  <2>2. e[2] \notin S
    BY <1>1, <1>4
  <2>. QED
    BY <2>1, <2>2
<1>. QED
  BY <1>3, <1>4

-----------------------------------------------------------------------------
(* The invariant                                                           *)

OneAdder == \A a, b \in Adders : a = b

\* What an adder has checked still closes no cycle when it comes to insert.
Checked ==
  \A a \in Adders :
    adding[a] # NoEdge => ~Reaches(hard \cup soft, adding[a][2], adding[a][1])

AddingType == adding \in [Adders -> Edges \cup {NoEdge}]

IInv == AddingType /\ Acyclic /\ Checked

\* Initially there is no dependency and no adder at work.
LEMMA InitIInv == Init => IInv
  BY EmptyAcyclic DEF Init, IInv, AddingType, Acyclic, Checked

\* Every step of a single adder keeps the invariant.
LEMMA NextIInv ==
  ASSUME OneAdder, IInv, [Next]_vars
  PROVE  IInv'
<1>. USE DEF IInv, Acyclic
<1>1. CASE UNCHANGED depVars
  BY <1>1 DEF depVars, AddingType, Checked, Reaches, AcyclicIn
<1>2. ASSUME NEW a \in Adders, NEW e \in Edges, CheckDependency(a, e)
      PROVE  IInv'
  <2>1. UNCHANGED <<hard, soft>> /\ adding' = [adding EXCEPT ![a] = e]
    BY <1>2 DEF CheckDependency
  <2>2. ~Reaches(hard \cup soft, e[2], e[1])
    BY <1>2 DEF CheckDependency
  <2>3. AddingType'
    BY <2>1 DEF AddingType
  <2>4. Acyclic'
    BY <2>1 DEF AcyclicIn
  <2>5. Checked'
    BY <2>1, <2>2 DEF Checked, AddingType, Reaches
  <2>. QED
    BY <2>3, <2>4, <2>5
<1>3. ASSUME NEW a \in Adders, InsertDependency(a)
      PROVE  IInv'
  <2>1. adding[a] # NoEdge /\ adding' = [adding EXCEPT ![a] = NoEdge]
    BY <1>3 DEF InsertDependency
  <2>2. hard' \cup soft' \in {hard \cup soft, (hard \cup soft) \cup {adding[a]}}
    BY <1>3 DEF InsertDependency
  <2>3. AddingType'
    BY <2>1 DEF AddingType
  <2>4. AcyclicIn((hard \cup soft) \cup {adding[a]})
    BY <2>1, AcyclicAdd DEF Checked
  <2>5. AcyclicIn(hard' \cup soft')
    BY <2>2, <2>4
  <2>6. Acyclic'
    BY <2>5 DEF AcyclicIn
  <2>7. \A b \in Adders : adding'[b] = NoEdge
    BY <2>1 DEF OneAdder, AddingType
  <2>8. Checked'
    BY <2>7 DEF Checked
  <2>. QED
    BY <2>3, <2>6, <2>8
<1>4. ASSUME NEW e \in Edges, RemoveDependency(e)
      PROVE  IInv'
  <2>1. UNCHANGED adding /\ hard' \cup soft' \in SUBSET (hard \cup soft)
    BY <1>4 DEF RemoveDependency
  <2>2. AddingType'
    BY <2>1 DEF AddingType
  <2>3. AcyclicIn(hard' \cup soft')
    BY <2>1, AcyclicSubset
  <2>4. Acyclic'
    BY <2>3 DEF AcyclicIn
  <2>5. ASSUME NEW a \in Adders, adding[a] # NoEdge
        PROVE  ~Reaches(hard' \cup soft', adding[a][2], adding[a][1])
    BY <2>1, <2>5, ReachesSubset DEF Checked
  <2>6. Checked'
    BY <2>1, <2>5 DEF Checked, Reaches
  <2>. QED
    BY <2>2, <2>4, <2>6
<1>5. CASE Dependencies
  BY <1>2, <1>3, <1>4, <1>5 DEF Dependencies
<1>6. CASE Events
  BY <1>1, <1>6 DEF Events
<1>7. CASE Workflow
  BY <1>1, <1>7 DEF Workflow, ForceAdvance, AdvanceByTool, AddTaskToPhase
<1>8. CASE Sweep
  BY <1>1, <1>8 DEF Sweep
<1>9. ASSUME NEW t \in Tasks, NEW to \in Stages, Transition(t, to)
      PROVE  IInv'
  BY <1>1, <1>9 DEF Transition
<1>10. ASSUME NEW r \in Routers, NEW k \in Keys, HandleTaskEnd(r, k)
       PROVE  IInv'
  BY <1>1, <1>10 DEF HandleTaskEnd
<1>11. CASE UNCHANGED vars
  BY <1>1, <1>11 DEF vars
<1>. QED
  BY <1>5, <1>6, <1>7, <1>8, <1>9, <1>10, <1>11 DEF Next

\* With one process that adds dependencies, no sequence of additions,
\* removals, completions and sweeps makes a cycle, whatever the tasks are.
THEOREM DependenciesAcyclic == OneAdder /\ Spec => []Acyclic
<1>1. ASSUME OneAdder PROVE IInv /\ [Next]_vars => IInv'
  BY <1>1, NextIInv
<1>2. IInv => Acyclic
  BY DEF IInv
<1>3. OneAdder => OneAdder'
  BY DEF OneAdder
<1>. QED
  BY <1>1, <1>2, <1>3, InitIInv, PTL DEF Spec

-----------------------------------------------------------------------------
(* Types and phases                                                        *)

\* What has become old has a rerun left: Age sees to it.
EventsOK == /\ EventsTypeOK
            /\ \A k \in Keys : events[k] = "stale" => reruns[k] < MaxReruns
StagesOK == stage \in [Tasks -> Stages] /\ fails \in [Tasks -> 0..MaxFails]
DependenciesOK == /\ hard \subseteq Edges /\ soft \subseteq Edges
                  /\ hard \cap soft = {} /\ AddingType

\* An active workflow has phases, and is in one of them.
FlowOK ==
  /\ lists \in [Phases -> SUBSET Tasks]
  /\ place \in [Tasks -> Phases \cup {0}]
  /\ current \in Phases \cup {1}
  /\ workflow \in {"active", "completed"}
  /\ barrier \in [Phases -> SUBSET Tasks]
  /\ workflow = "active" => Gates # <<>>

\* Whomever an "all_done" phase has waited for is DONE for good.
BarrierDone == \A k \in Phases : \A u \in barrier[k] : stage[u] = "DONE"

PhasesIInv == EventsOK /\ StagesOK /\ DependenciesOK /\ FlowOK /\ BarrierDone

\* No transition leaves DONE.
LEMMA DoneIsFinal == NextStages["DONE"] = {}
<1>1. \A u \in TaskState : StageOf(u) = "DONE" => u = "DONE"
  BY DEF StageOf, Running
<1>2. ValidNext["DONE"] = {}
  BY DEF ValidNext, TaskState
<1>3. "DONE" \in Stages
  BY DEF Stages, TaskState, Running
<1>4. UNION {ValidNext[s] : s \in {u \in TaskState : StageOf(u) = "DONE"}} = {}
  BY <1>1, <1>2
<1>. QED
  BY <1>3, <1>4 DEF NextStages

LEMMA PhasesFacts ==
  /\ Len(Gates) \in Nat
  /\ Gates # <<>> => Len(Gates) > 0 /\ 1 \in Phases
  BY GatesAssumption DEF Phases

\* The pipeline around the handlers.
LEMMA PipelineKeeps ==
  ASSUME EventsOK, Events
  PROVE  EventsOK'
<1>. USE DEF EventsOK, EventsTypeOK, EventStatus
<1>1. \A n \in 0..MaxReruns : n \in Nat /\ (n < MaxReruns => n + 1 \in 0..MaxReruns)
  BY EventBoundsAssumption
<1>2. ASSUME NEW r \in Routers, Claim(r) PROVE EventsOK'
  BY <1>2 DEF Claim
<1>3. ASSUME NEW k \in Keys, Age(k) PROVE EventsOK'
  <2>1. /\ events' = [events EXCEPT ![k] = "stale"] /\ reruns[k] < MaxReruns
        /\ UNCHANGED <<batch, reruns, crashes>>
    BY <1>3 DEF Age
  <2>2. \A q \in Keys : events'[q] = "stale" => reruns[q] < MaxReruns
    BY <2>1
  <2>. QED
    BY <2>1, <2>2
<1>4. ASSUME NEW k \in Keys, Requeue(k) PROVE EventsOK'
  <2>1. /\ events' = [events EXCEPT ![k] = "pending"] /\ reruns[k] < MaxReruns
        /\ reruns' = [reruns EXCEPT ![k] = reruns[k] + 1]
        /\ UNCHANGED <<batch, crashes>>
    BY <1>4 DEF Requeue
  <2>2. reruns[k] + 1 \in 0..MaxReruns
    BY <1>1, <2>1
  <2>. DEFINE n == reruns[k] + 1
  <2>. HIDE DEF n
  <2>3. events' \in [Keys -> EventStatus] /\ reruns' \in [Keys -> 0..MaxReruns]
    BY <2>1, <2>2 DEF n
  <2>4. ASSUME NEW q \in Keys, events'[q] = "stale" PROVE reruns'[q] < MaxReruns
    BY <2>1, <2>4
  <2>. QED
    BY <2>1, <2>3, <2>4
<1>5. CASE ReclaimStale
  <2>1. /\ events' = [k \in Keys |->
                        IF events[k] = "stale" THEN "pending" ELSE events[k]]
        /\ reruns' = [k \in Keys |->
                        IF events[k] = "stale" THEN reruns[k] + 1 ELSE reruns[k]]
        /\ UNCHANGED <<batch, crashes>>
    BY <1>5 DEF ReclaimStale
  <2>2. \A k \in Keys : (IF events[k] = "stale" THEN reruns[k] + 1 ELSE reruns[k])
                          \in 0..MaxReruns
    BY <1>1
  <2>3. events' \in [Keys -> EventStatus] /\ reruns' \in [Keys -> 0..MaxReruns]
    BY <2>1, <2>2
  <2>4. \A k \in Keys : events'[k] # "stale"
    BY <2>1
  <2>. QED
    BY <2>1, <2>3, <2>4
<1>. QED
  BY <1>2, <1>3, <1>4, <1>5 DEF Events

\* The events of a transition, and those a handler settles or abandons.
LEMMA EventsKeep ==
  ASSUME PhasesIInv, Next
  PROVE  EventsOK'
<1>1. EventsOK
  BY DEF PhasesIInv
<1>2. CASE Events
  BY <1>1, <1>2, PipelineKeeps
<1>3. ASSUME NEW t \in Tasks, NEW to \in Stages, Transition(t, to) PROVE EventsOK'
  <2>1. /\ \E k : events' \in {events, [events EXCEPT ![k] = "pending"]}
        /\ UNCHANGED <<batch, reruns, crashes>>
    BY <1>3 DEF Transition, Announced, Ingested
  <2>. QED
    BY <1>1, <2>1 DEF EventsOK, EventsTypeOK, EventStatus
<1>4. ASSUME NEW r \in Routers, NEW k \in Keys, HandleTaskEnd(r, k) PROVE EventsOK'
  <2>1. Settled(r, k, events, "handled") \/ Abandoned(r, events)
    BY <1>4 DEF HandleTaskEnd
  <2>2. CASE Settled(r, k, events, "handled")
    BY <1>1, <2>2 DEF Settled, EventsOK, EventsTypeOK, EventStatus
  <2>3. CASE Abandoned(r, events)
    <3>1. crashes' \in 0..MaxCrashes
      BY <1>1, <2>3, EventBoundsAssumption DEF Abandoned, EventsOK, EventsTypeOK
    <3>. QED
      BY <1>1, <2>3, <3>1 DEF Abandoned, EventsOK, EventsTypeOK
  <2>. QED
    BY <2>1, <2>2, <2>3
<1>5. CASE UNCHANGED eventVars
  BY <1>1, <1>5 DEF eventVars, EventsOK, EventsTypeOK
<1>6. CASE Dependencies
  BY <1>5, <1>6 DEF Dependencies, CheckDependency, InsertDependency, RemoveDependency
<1>7. CASE Workflow
  BY <1>5, <1>7 DEF Workflow, ForceAdvance, AdvanceByTool, AddTaskToPhase
<1>8. CASE Sweep
  BY <1>5, <1>8 DEF Sweep
<1>. QED
  BY <1>2, <1>3, <1>4, <1>6, <1>7, <1>8 DEF Next

\* Tasks keep to the stages, and whoever is DONE stays DONE.
LEMMA StagesKeep ==
  ASSUME PhasesIInv, Next
  PROVE  StagesOK' /\ \A t \in Tasks : stage[t] = "DONE" => stage'[t] = "DONE"
<1>1. stage \in [Tasks -> Stages] /\ fails \in [Tasks -> 0..MaxFails]
  BY DEF PhasesIInv, StagesOK
<1>2. CASE UNCHANGED taskVars
  BY <1>1, <1>2 DEF taskVars, StagesOK
<1>3. CASE /\ \E some \in SUBSET {t \in Tasks : stage[t] = "BLOCKED"} :
                stage' = [t \in Tasks |-> IF t \in some THEN "OPEN" ELSE stage[t]]
           /\ fails' = fails
  <2>1. "OPEN" \in Stages
    BY DEF Stages, TaskState, Running
  <2>. QED
    BY <1>1, <1>3, <2>1 DEF StagesOK
<1>4. ASSUME NEW t \in Tasks, NEW to \in Stages, Transition(t, to)
      PROVE  StagesOK' /\ \A u \in Tasks : stage[u] = "DONE" => stage'[u] = "DONE"
  <2>1. /\ to \in NextStages[stage[t]] /\ stage' = [stage EXCEPT ![t] = to]
        /\ \/ fails' = fails
           \/ fails[t] < MaxFails /\ fails' = [fails EXCEPT ![t] = fails[t] + 1]
    BY <1>4 DEF Transition
  <2>2. stage[t] # "DONE"
    BY <2>1, DoneIsFinal
  <2>3. stage' \in [Tasks -> Stages]
        /\ \A u \in Tasks : stage[u] = "DONE" => stage'[u] = "DONE"
    BY <1>1, <2>1, <2>2
  <2>4. fails' \in [Tasks -> 0..MaxFails]
    <3>1. fails[t] < MaxFails => fails[t] + 1 \in 0..MaxFails
      BY <1>1, FailsAssumption
    <3>. DEFINE n == fails[t] + 1
    <3>. HIDE DEF n
    <3>2. fails[t] < MaxFails => n \in 0..MaxFails
      BY <3>1 DEF n
    <3>3. \/ fails' = fails
          \/ fails[t] < MaxFails /\ fails' = [fails EXCEPT ![t] = n]
      BY <2>1 DEF n
    <3>. QED
      BY <1>1, <3>2, <3>3
  <2>. QED
    BY <2>3, <2>4 DEF StagesOK
<1>5. ASSUME NEW r \in Routers, NEW k \in Keys, HandleTaskEnd(r, k)
      PROVE  /\ \E some \in SUBSET {t \in Tasks : stage[t] = "BLOCKED"} :
                  stage' = [t \in Tasks |-> IF t \in some THEN "OPEN" ELSE stage[t]]
             /\ fails' = fails
  <2>1. Released(Subject(k)) \subseteq {t \in Tasks : stage[t] = "BLOCKED"}
    BY DEF Released, Dependents
  <2>. QED
    BY <1>5, <2>1 DEF HandleTaskEnd
<1>6. CASE Sweep
  <2>1. /\ stage' = [t \in Tasks |-> IF t \in {u \in Tasks : SweepReleases(u)}
                                       THEN "OPEN" ELSE stage[t]]
        /\ fails' = fails
    BY <1>6 DEF Sweep
  <2>2. {u \in Tasks : SweepReleases(u)} \subseteq {t \in Tasks : stage[t] = "BLOCKED"}
    BY DEF SweepReleases
  <2>. QED
    BY <1>3, <2>1, <2>2
<1>7. CASE Events \/ Dependencies \/ Workflow
  BY <1>2, <1>7 DEF Events, Dependencies, CheckDependency, InsertDependency,
     RemoveDependency, Workflow, ForceAdvance, AdvanceByTool, AddTaskToPhase
<1>. QED
  BY <1>3, <1>4, <1>5, <1>6, <1>7 DEF Next

LEMMA DependenciesKeep ==
  ASSUME PhasesIInv, Next
  PROVE  DependenciesOK'
<1>1. /\ hard \subseteq Edges /\ soft \subseteq Edges /\ hard \cap soft = {}
      /\ adding \in [Adders -> Edges \cup {NoEdge}]
  BY DEF PhasesIInv, DependenciesOK, AddingType
<1>2. CASE UNCHANGED depVars
  BY <1>1, <1>2 DEF depVars, DependenciesOK, AddingType
<1>3. ASSUME NEW a \in Adders, NEW e \in Edges, CheckDependency(a, e) PROVE DependenciesOK'
  BY <1>1, <1>3 DEF CheckDependency, DependenciesOK, AddingType
<1>4. ASSUME NEW a \in Adders, InsertDependency(a) PROVE DependenciesOK'
  <2>1. adding[a] \in Edges
    BY <1>1, <1>4 DEF InsertDependency
  <2>. QED
    BY <1>1, <1>4, <2>1 DEF InsertDependency, DependenciesOK, AddingType
<1>5. ASSUME NEW e \in Edges, RemoveDependency(e) PROVE DependenciesOK'
  BY <1>1, <1>5 DEF RemoveDependency, DependenciesOK, AddingType
<1>6. ASSUME NEW t \in Tasks, NEW to \in Stages, Transition(t, to) PROVE UNCHANGED depVars
  BY <1>6 DEF Transition
<1>7. ASSUME NEW r \in Routers, NEW k \in Keys, HandleTaskEnd(r, k) PROVE UNCHANGED depVars
  BY <1>7 DEF HandleTaskEnd
<1>8. CASE Events \/ Workflow \/ Sweep
  BY <1>2, <1>8 DEF Events, Workflow, ForceAdvance, AdvanceByTool, AddTaskToPhase, Sweep
<1>. QED
  BY <1>2, <1>3, <1>4, <1>5, <1>6, <1>7, <1>8 DEF Next, Dependencies

-----------------------------------------------------------------------------
(* The barrier                                                             *)

\* A phase is left for the next, or the workflow is completed; whom it waited
\* for is DONE.
LEMMA LeaveKeeps ==
  ASSUME PhasesIInv, workflow = "active", NEW waited \in SUBSET Tasks, Leave(waited),
         \A u \in waited : stage[u] = "DONE"
  PROVE  FlowOK' /\ \A k \in Phases : \A u \in barrier'[k] : stage[u] = "DONE"
<1>1. FlowOK /\ BarrierDone
  BY DEF PhasesIInv
<1>2. Len(Gates) \in Nat /\ 1 \in Phases /\ current \in Phases
  BY <1>1, PhasesFacts DEF FlowOK
<1>3. current' \in Phases /\ workflow' \in {"active", "completed"}
      /\ (workflow' = "active" => Gates # <<>>)
  BY <1>1, <1>2 DEF Leave, Phases, FlowOK
<1>4. /\ barrier' = [barrier EXCEPT ![current] = waited]
      /\ UNCHANGED <<lists, place>>
  BY DEF Leave
<1>5. FlowOK'
  BY <1>1, <1>3, <1>4 DEF FlowOK
<1>. QED
  BY <1>1, <1>4, <1>5 DEF FlowOK, BarrierDone

LEMMA AdvanceKeeps ==
  ASSUME PhasesIInv, Advance
  PROVE  FlowOK' /\ \A k \in Phases : \A u \in barrier'[k] : stage[u] = "DONE"
<1>1. FlowOK /\ BarrierDone
  BY DEF PhasesIInv
<1>2. CASE workflow = "active" /\ Ready(current)
  <2>. DEFINE waited == IF Gates[current] = "all_done" THEN lists[current] ELSE {}
  <2>1. Leave(waited)
    BY <1>2 DEF Advance
  <2>2. current \in Phases
    BY <1>1, <1>2, PhasesFacts DEF FlowOK
  <2>3. waited \in SUBSET Tasks
    BY <1>1, <2>2 DEF FlowOK
  <2>4. Gates[current] = "all_done" => \A u \in lists[current] : stage[u] = "DONE"
    BY <1>2 DEF Ready
  <2>5. \A u \in waited : stage[u] = "DONE"
    BY <2>4
  <2>. HIDE DEF waited
  <2>. QED
    BY <1>2, <2>1, <2>3, <2>5, LeaveKeeps
<1>3. CASE ~(workflow = "active" /\ Ready(current))
  BY <1>1, <1>3 DEF Advance, flowVars, FlowOK, BarrierDone
<1>. QED
  BY <1>2, <1>3

LEMMA FlowKeeps ==
  ASSUME PhasesIInv, Next
  PROVE  FlowOK' /\ \A k \in Phases : \A u \in barrier'[k] : stage[u] = "DONE"
<1>1. FlowOK /\ BarrierDone
  BY DEF PhasesIInv
<1>2. CASE UNCHANGED flowVars
  BY <1>1, <1>2 DEF flowVars, FlowOK, BarrierDone
<1>3. CASE ForceAdvance
  BY <1>3, LeaveKeeps DEF ForceAdvance
<1>4. CASE AdvanceByTool \/ Sweep
  BY <1>4, AdvanceKeeps DEF AdvanceByTool, Sweep
<1>5. ASSUME NEW t \in Tasks, NEW k \in Phases, AddTaskToPhase(t, k)
      PROVE  FlowOK' /\ \A n \in Phases : \A u \in barrier'[n] : stage[u] = "DONE"
  BY <1>1, <1>5 DEF AddTaskToPhase, FlowOK, BarrierDone
<1>6. ASSUME NEW r \in Routers, NEW k \in Keys, HandleTaskEnd(r, k)
      PROVE  Advance \/ UNCHANGED flowVars
  BY <1>6 DEF HandleTaskEnd
<1>7. ASSUME NEW t \in Tasks, NEW to \in Stages, Transition(t, to)
      PROVE  UNCHANGED flowVars
  BY <1>7 DEF Transition
<1>8. CASE Events \/ Dependencies
  BY <1>2, <1>8 DEF Events, Dependencies, CheckDependency, InsertDependency,
     RemoveDependency
<1>. QED
  BY <1>2, <1>3, <1>4, <1>5, <1>6, <1>7, <1>8, AdvanceKeeps DEF Next, Workflow

LEMMA PhasesStep ==
  ASSUME PhasesIInv, [Next]_vars
  PROVE  PhasesIInv'
<1>1. CASE Next
  <2>1. StagesOK' /\ \A t \in Tasks : stage[t] = "DONE" => stage'[t] = "DONE"
    BY <1>1, StagesKeep
  <2>2. FlowOK' /\ \A k \in Phases : \A u \in barrier'[k] : stage[u] = "DONE"
    BY <1>1, FlowKeeps
  <2>3. BarrierDone'
    BY <2>1, <2>2 DEF FlowOK, BarrierDone
  <2>. QED
    BY <1>1, <2>1, <2>2, <2>3, EventsKeep, DependenciesKeep DEF PhasesIInv
<1>2. CASE UNCHANGED vars
  BY <1>2 DEF vars, eventVars, taskVars, depVars, flowVars, PhasesIInv, EventsOK,
     EventsTypeOK, StagesOK, DependenciesOK, AddingType, FlowOK, BarrierDone
<1>. QED
  BY <1>1, <1>2

LEMMA PhasesInit == Init => PhasesIInv
<1>. SUFFICES ASSUME Init PROVE PhasesIInv
  OBVIOUS
<1>1. EventsOK
  BY EventBoundsAssumption DEF Init, EventsInit, EventsOK, EventsTypeOK, EventStatus
<1>2. StagesOK
  BY FailsAssumption DEF Init, StagesOK, Stages, TaskState, Running
<1>3. DependenciesOK
  BY DEF Init, DependenciesOK, AddingType
<1>4. FlowOK /\ BarrierDone
  BY DEF Init, FlowOK, BarrierDone
<1>. QED
  BY <1>1, <1>2, <1>3, <1>4 DEF PhasesIInv

\* The types and the tasks behind each barrier hold in every reachable state.
THEOREM Invariant == Spec => []PhasesIInv
<1>1. PhasesIInv /\ [Next]_vars => PhasesIInv'
  BY PhasesStep
<1>. QED
  BY PhasesInit, <1>1, PTL DEF Spec

\* Every variable keeps its type: the events, stages, dependencies and the
\* place of the workflow, which never leaves its phases.
THEOREM TypeCorrect == Spec => []TypeOK
<1>1. PhasesIInv => TypeOK
  BY DEF PhasesIInv, EventsOK, StagesOK, DependenciesOK, AddingType, FlowOK, TypeOK
<1>. QED
  BY <1>1, Invariant, PTL

\* A task that starts to run is in no phase ahead of an active workflow.
LEMMA StartsInPlace ==
  ASSUME PhasesIInv, Next, NEW t \in Tasks,
         workflow = "active", stage[t] # "running", stage'[t] = "running"
  PROVE  place[t] <= current
<1>1. stage \in [Tasks -> Stages] /\ place[t] \in Nat /\ current \in Nat
  BY PhasesFacts DEF PhasesIInv, StagesOK, FlowOK, Phases
<1>2. ASSUME NEW u \in Tasks, NEW to \in Stages, Transition(u, to)
      PROVE  ~InFuturePhase(t)
  <2>1. stage' = [stage EXCEPT ![u] = to] /\ (to = "running" => ~InFuturePhase(u))
    BY <1>2 DEF Transition
  <2>2. u = t /\ to = "running"
    BY <1>1, <2>1
  <2>. QED
    BY <2>1, <2>2
<1>3. ASSUME NEW r \in Routers, NEW k \in Keys, HandleTaskEnd(r, k) PROVE FALSE
  <2>1. PICK some : stage' = [u \in Tasks |-> IF u \in some THEN "OPEN" ELSE stage[u]]
    BY <1>3 DEF HandleTaskEnd
  <2>. QED
    BY <2>1
<1>4. ~Sweep
  BY DEF Sweep
<1>5. ~Events /\ ~Dependencies /\ ~Workflow
  BY DEF Events, Dependencies, CheckDependency, InsertDependency, RemoveDependency,
         Workflow, ForceAdvance, AdvanceByTool, AddTaskToPhase, taskVars
<1>6. ~InFuturePhase(t)
  BY <1>2, <1>3, <1>4, <1>5 DEF Next
<1>. QED
  BY <1>1, <1>6 DEF InFuturePhase

\* However tasks fail, are retried and are added to phases, one of a later phase
\* starts to run only when the earlier phases were left and those an "all_done"
\* phase has waited for are DONE (advanceWorkflow, isTaskInFuturePhase).
THEOREM PhaseBarrierHolds == Spec => PhaseBarrier
<1>1. ASSUME PhasesIInv, Next, NEW t \in Tasks,
             workflow = "active", stage[t] # "running", stage'[t] = "running"
      PROVE  \A k \in 1..(place[t] - 1) :
               k < current /\ \A u \in barrier[k] : stage[u] = "DONE"
  <2>. SUFFICES ASSUME NEW k \in 1..(place[t] - 1)
                PROVE  k < current /\ \A u \in barrier[k] : stage[u] = "DONE"
    OBVIOUS
  <2>1. place[t] \in Phases \cup {0} /\ Len(Gates) \in Nat /\ current \in Nat
    BY <1>1, PhasesFacts DEF PhasesIInv, FlowOK, Phases
  <2>2. place[t] <= current
    BY <1>1, StartsInPlace
  <2>3. k \in Phases /\ k < current
    BY <2>1, <2>2 DEF Phases
  <2>. QED
    BY <1>1, <2>3 DEF PhasesIInv, BarrierDone
<1>2. PhasesIInv /\ [Next]_vars
        => [\A t \in Tasks :
              (workflow = "active" /\ stage[t] # "running" /\ stage'[t] = "running")
                => \A k \in 1..(place[t] - 1) :
                     k < current /\ \A u \in barrier[k] : stage[u] = "DONE"]_vars
  BY <1>1
<1>. QED
  BY <1>2, Invariant, PTL DEF Spec, PhaseBarrier
=============================================================================
