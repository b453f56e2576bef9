---------------------------- MODULE ReviewedWork ----------------------------
(***************************************************************************)
(* What the task table promises to whoever orders work from it, without    *)
(* queues, events, phases, crashes or retries: ordered work is started     *)
(* when the work it needs has been accepted, submitted, and accepted by    *)
(* somebody other than its owner; accepted and dropped work stays so.      *)
(* TaskLifecycle implements this specification.                            *)
(***************************************************************************)
CONSTANTS Tasks, Agents, System, NoOne, NoTask, SelfReview

VARIABLES
  phase,   \* absent, waiting, working, submitted, accepted or dropped
  needs,   \* the task whose acceptance the work waits for, or NoTask
  owner,   \* who the work is given to, or NoOne
  judge    \* who accepted it, or NoOne

vars == <<phase, needs, owner, judge>>

Init ==
  /\ phase = [t \in Tasks |-> "absent"]
  /\ needs = [t \in Tasks |-> NoTask]
  /\ owner = [t \in Tasks |-> NoOne]
  /\ judge = [t \in Tasks |-> NoOne]

Order(t, n, o) ==
  /\ phase[t] = "absent"
  /\ n # NoTask => phase[n] # "absent"
  /\ phase' = [phase EXCEPT ![t] = "waiting"]
  /\ needs' = [needs EXCEPT ![t] = n]
  /\ owner' = [owner EXCEPT ![t] = o]
  /\ UNCHANGED judge

\* Only waiting work changes hands.
Give(t, o) ==
  /\ phase[t] = "waiting"
  /\ owner' = [owner EXCEPT ![t] = o]
  /\ UNCHANGED <<phase, needs, judge>>

\* Also the rework that a verdict sends back.
Start(t) ==
  /\ phase[t] \in {"waiting", "submitted"}
  /\ needs[t] # NoTask => phase[needs[t]] = "accepted"
  /\ phase' = [phase EXCEPT ![t] = "working"]
  /\ UNCHANGED <<needs, owner, judge>>

Submit(t) ==
  /\ phase[t] = "working"
  /\ phase' = [phase EXCEPT ![t] = "submitted"]
  /\ UNCHANGED <<needs, owner, judge>>

Accept(t, by) ==
  /\ phase[t] = "submitted"
  /\ by = System \/ by # owner[t] \/ t \in SelfReview
  /\ phase' = [phase EXCEPT ![t] = "accepted"]
  /\ judge' = [judge EXCEPT ![t] = by]
  /\ UNCHANGED <<needs, owner>>

\* Blocked, failed or reassigned work waits again, perhaps for another owner.
PutBack(t, o) ==
  /\ phase[t] \in {"working", "submitted"}
  /\ phase' = [phase EXCEPT ![t] = "waiting"]
  /\ owner' = [owner EXCEPT ![t] = o]
  /\ UNCHANGED <<needs, judge>>

Drop(t) ==
  /\ phase[t] \in {"waiting", "working", "submitted"}
  /\ phase' = [phase EXCEPT ![t] = "dropped"]
  /\ UNCHANGED <<needs, owner, judge>>

Next ==
  \E t \in Tasks :
    \/ \E n \in Tasks \cup {NoTask}, o \in Agents \cup {NoOne} : Order(t, n, o)
    \/ \E o \in Agents \cup {System, NoOne} : Give(t, o) \/ PutBack(t, o)
    \/ Start(t) \/ Submit(t) \/ Drop(t)
    \/ \E by \in Agents \cup {System} : Accept(t, by)

Spec == Init /\ [][Next]_vars
=============================================================================
