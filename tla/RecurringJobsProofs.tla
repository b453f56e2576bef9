------------------------ MODULE RecurringJobsProofs ------------------------
(***************************************************************************)
(* Proofs about RecurringJobs for any number of runs and of waiting        *)
(* events: its types, and the three promises of the scheduler.             *)
(***************************************************************************)
EXTENDS RecurringJobs, TLAPS

-----------------------------------------------------------------------------
(* Rows                                                                    *)

\* What TypeOK says of a single row.
Row(x) ==
  /\ x \in Run
  /\ x.item # "none" => x.state \in {"OPEN"} \cup Dispatchable
  /\ x.item = "busy" => x.state \in Dispatchable
  /\ x.idle => x.state = "BLOCKED"
  /\ x.late => x.state # "none"

IsActive(x) == x.state \notin Ended \cup {"none"}

\* A row that the scheduler alone made active was so before.
Kept(x, y) == IsActive(y) /\ ~y.hand => IsActive(x) /\ ~x.hand

USE DEF TaskState, Dispatchable, Final, Ended, Run

\* Where the table of transitions leads.
LEMMA NextStates ==
  ASSUME NEW s \in TaskState
  PROVE  /\ ValidNext[s] \in SUBSET TaskState
         /\ ValidNext["DONE"] = {} /\ ValidNext["CANCELLED"] = {}
         /\ "FAILED" \notin ValidNext["FAILED"]
         /\ "FAILED" \notin ValidNext["OPEN"]
  BY DEF ValidNext

\* A transition leaves a row in its new state, and one that has not failed
\* before keeps or loses its hand.
LEMMA MovedRow ==
  ASSUME NEW x, Row(x), NEW s \in TaskState
  PROVE  /\ Row(Moved(x, s)) /\ Moved(x, s).state = s
         /\ IsActive(x) \/ x.state = "FAILED" => Kept(x, Moved(x, s))
<1>. DEFINE late == x.late \/ (x.item = "busy" /\ s \notin Dispatchable)
<1>. late \in BOOLEAN
  BY DEF Row
<1>1. CASE s \in Final
  <2>1. Moved(x, s) = [NoTask EXCEPT !.state = s, !.late = late]
    BY <1>1 DEF Moved
  <2>. HIDE DEF late
  <2>. QED
    BY <1>1, <2>1 DEF Row, NoTask, Kept, IsActive
<1>2. CASE s \notin Final
  <2>1. Moved(x, s) = [x EXCEPT !.state = s, !.idle = FALSE, !.late = late,
                                !.item = IF s \in Dispatchable THEN @ ELSE "none",
                                !.hand = s # "FAILED" /\ (@ \/ x.state = "FAILED")]
    BY <1>2 DEF Moved
  <2>. HIDE DEF late
  <2>. QED
    BY <1>2, <2>1 DEF Row, Kept, IsActive
<1>. QED
  BY <1>1, <1>2

\* Enqueueing changes the item only.
LEMMA EnqueuedRow ==
  ASSUME NEW x, Row(x), NEW y \in Enqueued(x)
  PROVE  Row(y) /\ y.state = x.state /\ Kept(x, y)
  BY DEF Row, Enqueued, Queued, Kept, IsActive

\* A new run is a row that is assigned and has no item.
LEMMA NewRow ==
  ASSUME NEW hand \in BOOLEAN,
         NEW y, y = [NoTask EXCEPT !.state = "ASSIGNED", !.hand = hand]
  PROVE  Row(y) /\ y.state = "ASSIGNED" /\ y.hand = hand
  BY DEF Row, NoTask

\* Giving a run up fails it or leaves it alone.
LEMMA GivenUpRow ==
  ASSUME NEW x, Row(x), x.state # "none"
  PROVE  Row(GivenUp(x)) /\ Kept(x, GivenUp(x))
<1>1. x.state \in TaskState
  BY DEF Row
<1>2. CASE "FAILED" \in ValidNext[x.state]
  <2>1. IsActive(x)
    BY <1>1, <1>2, NextStates DEF IsActive
  <2>. QED
    BY <1>2, <2>1, MovedRow DEF GivenUp
<1>3. CASE "FAILED" \notin ValidNext[x.state]
  BY <1>3 DEF GivenUp, Kept
<1>. QED
  BY <1>2, <1>3

\* A sweep keeps a quiet run active.
LEMMA SweptRow ==
  ASSUME NEW x, Row(x), x.state \in Dispatchable \/ x.idle
  PROVE  /\ Row(Swept(x)) /\ Kept(x, Swept(x))
         /\ Swept(x).state \in {x.state, "OPEN", "BLOCKED"}
  BY DEF Row, Swept, Moved, NoTask, Kept, IsActive

-----------------------------------------------------------------------------
(* The invariant                                                           *)

\* Unless its end is marked, the run of a slot is at work or was cancelled,
\* or the event of its end waits.
SlotHeld ==
  job.sched = "recent" /\ job.fin # "recent" =>
    /\ job.task \in Runs
    /\ \/ run[job.task].state \notin {"none", "DONE", "FAILED"}
       \/ EndWaits(job.task)

IInv == TypeOK /\ OneActiveRun /\ EndIsMarked /\ SlotHeld

\* What a step owes to the rows and to the events of ends.
RowsTyped == run' \in [Runs -> Run] /\ \A r \in Runs : Row(run'[r])
RowsKept == \A r \in Runs : Kept(run[r], run'[r])
EndsKept == \A r \in Runs : EndWaits(r) => EndWaits(r)'
EndsTold ==
  \A r \in Runs : \/ run'[r].state = run[r].state
                  \/ run'[r].state \notin {"none", "DONE", "FAILED"}
                  \/ EndWaits(r)'

\* The type invariant, row by row.
LEMMA TypedRows ==
  TypeOK <=> /\ run \in [Runs -> Run] /\ \A r \in Runs : Row(run[r])
             /\ events \subseteq Event
             /\ job \in Job
             /\ job.task = NoRun <=> job.status = "never"
  BY DEF TypeOK, Row

\* If rows keep their hands, no two runs of the scheduler come to be active.
LEMMA KeptRows ==
  ASSUME OneActiveRun, RowsKept
  PROVE  OneActiveRun'
  BY DEF OneActiveRun, RowsKept, Kept, Active, IsActive

\* A step that leaves the marks alone keeps them true if it tells every end.
LEMMA MarksLeft ==
  ASSUME IInv, job' = job, EndsKept, EndsTold
  PROVE  EndIsMarked' /\ SlotHeld'
<1>1. job.task \in Runs \cup {NoRun} /\ (job.status = "scheduled" => job.task \in Runs)
  BY DEF IInv, TypeOK, Job
<1>2. EndIsMarked'
  BY <1>1 DEF IInv, EndIsMarked, EndsKept, EndsTold
<1>3. SlotHeld'
  BY <1>1 DEF IInv, SlotHeld, EndsKept, EndsTold
<1>. QED
  BY <1>2, <1>3

\* Marking a new run as scheduled.
LEMMA MarksScheduled ==
  ASSUME IInv, NEW r \in Runs, MarkScheduled(r), run'[r].state = "ASSIGNED"
  PROVE  /\ job' \in Job /\ (job'.task = NoRun <=> job'.status = "never")
         /\ EndIsMarked' /\ SlotHeld'
  BY NoRunAssumption DEF IInv, TypeOK, Job, Age, MarkScheduled, EndIsMarked, SlotHeld

\* Marking an end.
LEMMA MarksFinished ==
  ASSUME IInv, NEW r \in Runs, NEW s \in {"completed", "failed"}, MarkFinished(r, s)
  PROVE  /\ job' \in Job /\ (job'.task = NoRun <=> job'.status = "never")
         /\ EndIsMarked' /\ SlotHeld'
  BY NoRunAssumption DEF IInv, TypeOK, Job, Age, MarkFinished, EndIsMarked, SlotHeld

\* New events lose none that waits.
LEMMA IngestKeeps ==
  ASSUME TypeOK, NEW new \in SUBSET Event, Ingest(new)
  PROVE  events' \subseteq Event /\ new \subseteq events' /\ EndsKept
  BY DEF TypeOK, Ingest, EndsKept, EndWaits

\* Handling an event that is not of an end loses none of an end.
LEMMA HandledKeeps ==
  ASSUME TypeOK, NEW e, NEW new \in SUBSET Event, Handled(e, new),
         e.type \notin {"completed", "failed"}
  PROVE  events' \subseteq Event /\ new \subseteq events' /\ EndsKept
  BY DEF TypeOK, Ingest, Handled, EndsKept, EndWaits, E

\* The events of a transition are events, and an end has one.
LEMMA EmittedEvents ==
  ASSUME NEW r \in Runs, NEW s \in TaskState
  PROVE  /\ Emitted(r, s) \in SUBSET Event
         /\ s = "DONE" => E("completed", r) \in Emitted(r, s)
         /\ s = "FAILED" => E("failed", r) \in Emitted(r, s)
  BY DEF Emitted, Event, E

-----------------------------------------------------------------------------
(* The steps                                                               *)

\* The parts of the invariant together.
LEMMA Parts ==
  ASSUME IInv, RowsTyped, events' \subseteq Event, OneActiveRun',
         job' \in Job, job'.task = NoRun <=> job'.status = "never",
         EndIsMarked', SlotHeld'
  PROVE  IInv'
  BY DEF IInv, TypeOK, RowsTyped, Row

\* A step that leaves the marks alone.
LEMMA MarksAlone ==
  ASSUME IInv, RowsTyped, RowsKept, EndsKept, EndsTold,
         events' \subseteq Event, job' = job
  PROVE  IInv'
<1>1. job' \in Job /\ (job'.task = NoRun <=> job'.status = "never")
  BY DEF IInv, TypeOK
<1>2. OneActiveRun'
  BY KeptRows DEF IInv
<1>. QED
  BY <1>1, <1>2, MarksLeft, Parts

\* A step of one row.
LEMMA OneRow ==
  ASSUME IInv, NEW r \in Runs, NEW y, Row(y), Kept(run[r], y),
         run' = [run EXCEPT ![r] = y]
  PROVE  /\ RowsTyped /\ RowsKept
         /\ (\/ y.state = run[r].state
             \/ y.state \notin {"none", "DONE", "FAILED"}
             \/ EndWaits(r)') => EndsTold
<1>1. run \in [Runs -> Run] /\ \A q \in Runs : Row(run[q])
  BY TypedRows DEF IInv
<1>2. run'[r] = y /\ \A q \in Runs \ {r} : run'[q] = run[q]
  BY <1>1
<1>3. RowsTyped
  BY <1>1, <1>2 DEF RowsTyped, Row
<1>4. RowsKept
  BY <1>2 DEF RowsKept, Kept
<1>. QED
  BY <1>2, <1>3, <1>4 DEF EndsTold

\* transitionTask.
LEMMA TransitionStep ==
  ASSUME IInv, NEW r \in Runs, NEW s \in TaskState, Transition(r, s)
  PROVE  IInv' /\ RowsKept
<1>1. Row(run[r]) /\ run[r].state \in TaskState /\ s \in ValidNext[run[r].state]
  BY TypedRows DEF IInv, Transition
<1>2. IsActive(run[r]) \/ run[r].state = "FAILED"
  BY <1>1, NextStates DEF IsActive
<1>3. /\ Row(Moved(run[r], s)) /\ Moved(run[r], s).state = s
      /\ Kept(run[r], Moved(run[r], s))
  BY <1>1, <1>2, MovedRow
<1>4. PICK y : /\ run' = [run EXCEPT ![r] = y]
               /\ y \in Enqueued(Moved(run[r], s)) \cup {Moved(run[r], s)}
  BY DEF Transition
<1>5. Row(y) /\ y.state = s /\ Kept(run[r], y)
  BY <1>3, <1>4, EnqueuedRow DEF Kept
<1>6. Ingest(Emitted(r, s)) /\ job' = job
  BY DEF Transition
<1>7. events' \subseteq Event /\ Emitted(r, s) \subseteq events' /\ EndsKept
  BY <1>6, EmittedEvents, IngestKeeps DEF IInv
<1>8. s \in {"DONE", "FAILED"} => EndWaits(r)'
  BY <1>7, EmittedEvents DEF EndWaits
<1>9. s # "none"
  OBVIOUS
<1>10. RowsTyped /\ RowsKept /\ EndsTold
  BY <1>4, <1>5, <1>8, <1>9, OneRow
<1>. QED
  BY <1>6, <1>7, <1>10, MarksAlone

\* A dispatch that lost its item ends.
LEMMA LateResultStep ==
  ASSUME IInv, NEW r \in Runs, LateResult(r)
  PROVE  IInv' /\ RowsKept
<1>1. run \in [Runs -> Run] /\ Row(run[r])
  BY TypedRows DEF IInv
<1>2. run' = [run EXCEPT ![r] = [run[r] EXCEPT !.late = FALSE]]
  BY <1>1 DEF LateResult
<1>3. /\ Row([run[r] EXCEPT !.late = FALSE])
      /\ Kept(run[r], [run[r] EXCEPT !.late = FALSE])
      /\ [run[r] EXCEPT !.late = FALSE].state = run[r].state
  BY <1>1 DEF Row, Kept, IsActive
<1>4. RowsTyped /\ RowsKept /\ EndsTold
  BY <1>2, <1>3, OneRow
<1>5. PICK new \in SUBSET {E("refused", r), E("requeue", r)} : Ingest(new) /\ job' = job
  BY DEF LateResult
<1>6. new \in SUBSET Event
  <2>1. E("refused", r) \in Event /\ E("requeue", r) \in Event
    BY DEF E, Event
  <2>. QED
    BY <2>1
<1>7. events' \subseteq Event /\ EndsKept
  BY <1>5, <1>6, IngestKeeps DEF IInv
<1>. QED
  BY <1>4, <1>5, <1>7, MarksAlone

\* Dispatch, and the item put back.
LEMMA ItemStep ==
  ASSUME IInv, NEW r \in Runs, Dispatch(r) \/ BackToQueue(r)
  PROVE  IInv' /\ RowsKept
<1>1. run \in [Runs -> Run] /\ Row(run[r])
  BY TypedRows DEF IInv
<1>2. PICK i \in {"queued", "busy"} :
        /\ run' = [run EXCEPT ![r].item = i]
        /\ run[r].state \in Dispatchable
  BY <1>1 DEF Dispatch, BackToQueue, Row
<1>3. run' = [run EXCEPT ![r] = [run[r] EXCEPT !.item = i]]
  BY <1>1, <1>2
<1>4. /\ Row([run[r] EXCEPT !.item = i]) /\ Kept(run[r], [run[r] EXCEPT !.item = i])
      /\ [run[r] EXCEPT !.item = i].state = run[r].state
  BY <1>1, <1>2 DEF Row, Kept, IsActive
<1>5. RowsTyped /\ RowsKept /\ EndsTold
  BY <1>3, <1>4, OneRow
<1>6. events' = events /\ job' = job
  BY DEF Dispatch, BackToQueue
<1>7. events' \subseteq Event /\ EndsKept
  BY <1>6 DEF IInv, TypeOK, EndsKept, EndWaits
<1>. QED
  BY <1>5, <1>6, <1>7, MarksAlone

\* A failed item.
LEMMA DispatchFailsStep ==
  ASSUME IInv, NEW r \in Runs, DispatchFails(r)
  PROVE  IInv' /\ RowsKept
<1>1. run \in [Runs -> Run] /\ Row(run[r])
  BY TypedRows DEF IInv
<1>2. run' = [run EXCEPT ![r] = [run[r] EXCEPT !.item = "none"]]
  BY <1>1 DEF DispatchFails
<1>3. /\ Row([run[r] EXCEPT !.item = "none"])
      /\ Kept(run[r], [run[r] EXCEPT !.item = "none"])
      /\ [run[r] EXCEPT !.item = "none"].state = run[r].state
  BY <1>1 DEF Row, Kept, IsActive
<1>4. RowsTyped /\ RowsKept /\ EndsTold
  BY <1>2, <1>3, OneRow
<1>5. PICK new \in SUBSET Event : Ingest(new) /\ job' = job
  <2>1. E("refused", r) \in Event /\ E("requeue", r) \in Event
    BY DEF E, Event
  <2>2. /\ {E("refused", r)} \in SUBSET Event /\ {E("requeue", r)} \in SUBSET Event
        /\ {E("requeue", r), E("refused", r)} \in SUBSET Event
    BY <2>1
  <2>. QED
    BY <2>2 DEF DispatchFails
<1>6. events' \subseteq Event /\ EndsKept
  BY <1>5, IngestKeeps DEF IInv
<1>. QED
  BY <1>4, <1>5, <1>6, MarksAlone

\* maybeFinalizeInlineTask.
LEMMA CompleteInlineStep ==
  ASSUME IInv, NEW r \in Runs, CompleteInline(r)
  PROVE  IInv' /\ RowsKept
<1>. DEFINE y == [Moved(run[r], "DONE") EXCEPT !.late = run[r].late]
<1>1. Row(run[r]) /\ IsActive(run[r])
  BY TypedRows DEF IInv, CompleteInline, IsActive
<1>2. Row(Moved(run[r], "DONE")) /\ Moved(run[r], "DONE").state = "DONE"
  BY <1>1, MovedRow
<1>3. Row(y) /\ y.state = "DONE" /\ Kept(run[r], y)
  BY <1>1, <1>2 DEF Row, Kept, IsActive
<1>4. /\ run' = [run EXCEPT ![r] = y]
      /\ Ingest(Emitted(r, "DONE")) /\ job' = job
  <2>1. run \in [Runs -> Run]
    BY TypedRows DEF IInv
  <2>. QED
    BY <2>1 DEF CompleteInline
<1>5. events' \subseteq Event /\ Emitted(r, "DONE") \subseteq events' /\ EndsKept
  BY <1>4, EmittedEvents, IngestKeeps DEF IInv
<1>6. EndWaits(r)'
  BY <1>5, EmittedEvents DEF EndWaits
<1>7. RowsTyped /\ RowsKept /\ EndsTold
  BY <1>3, <1>4, <1>6, OneRow
<1>. QED
  BY <1>4, <1>5, <1>7, MarksAlone

\* scheduleDueRecurringJobs.
LEMMA ScheduleDueStep ==
  ASSUME IInv, NEW r \in Runs, ScheduleDue(r)
  PROVE  IInv'
<1>. DEFINE y == [NoTask EXCEPT !.state = "ASSIGNED", !.hand = FALSE]
<1>1. /\ run \in [Runs -> Run] /\ run' = [run EXCEPT ![r] = y]
      /\ \A q \in Runs : Row(run[q]) /\ ~Active(q)
  BY TypedRows DEF IInv, ScheduleDue, NewRun, ActiveRun
<1>2. Row(y) /\ y.state = "ASSIGNED"
  BY NewRow
<1>3. /\ run'[r] = y /\ \A q \in Runs \ {r} : run'[q] = run[q]
      /\ RowsTyped
  BY <1>1, <1>2 DEF RowsTyped, Row
<1>4. OneActiveRun'
  BY <1>1, <1>3 DEF OneActiveRun, Active
<1>5. EndsTold
  BY <1>2, <1>3 DEF EndsTold
<1>6. events' \subseteq Event /\ EndsKept
  <2>1. E("assigned", r) \in Event
    BY DEF E, Event
  <2>2. {E("assigned", r)} \in SUBSET Event /\ Ingest({E("assigned", r)})
    BY <2>1 DEF ScheduleDue
  <2>. QED
    BY <2>2, IngestKeeps DEF IInv
<1>7. CASE MarkScheduled(r)
  BY <1>2, <1>3, <1>4, <1>6, <1>7, MarksScheduled, Parts
<1>8. CASE job' = job
  <2>1. job' \in Job /\ (job'.task = NoRun <=> job'.status = "never")
    BY <1>8 DEF IInv, TypeOK
  <2>. QED
    BY <1>3, <1>4, <1>5, <1>6, <1>8, <2>1, MarksLeft, Parts
<1>. QED
  BY <1>7, <1>8 DEF ScheduleDue

\* replayRecurringJobTask.
LEMMA ReplayStep ==
  ASSUME IInv, NEW r \in Runs, NEW new \in Runs, Replay(r, new)
  PROVE  IInv' /\ RowsKept
<1>. DEFINE y == [NoTask EXCEPT !.state = "ASSIGNED", !.hand = TRUE]
            rows == IF Active(r) THEN [run EXCEPT ![r] = Moved(@, "CANCELLED")]
                    ELSE run
            made == NewRun(rows, new, TRUE)
<1>1. new # r /\ run \in [Runs -> Run] /\ \A q \in Runs : Row(run[q])
  BY TypedRows DEF IInv, Replay
<1>2. /\ Row(y) /\ y.state = "ASSIGNED" /\ y.hand = TRUE
  BY NewRow
<1>3. /\ Row(Queued(y)) /\ Queued(y).state = "ASSIGNED" /\ Queued(y).hand = TRUE
  BY <1>2 DEF Row, Queued
<1>4. /\ Row(Moved(run[r], "CANCELLED")) /\ Moved(run[r], "CANCELLED").state = "CANCELLED"
  BY <1>1, MovedRow
<1>5. /\ rows \in [Runs -> Run]
      /\ \A q \in Runs \ {r} : rows[q] = run[q]
      /\ Row(rows[r])
      /\ (rows[r] = run[r] /\ ~Active(r)) \/ rows[r].state = "CANCELLED"
  BY <1>1, <1>4 DEF Row
<1>6. /\ made \in [Runs -> Run] /\ made[new] = y
      /\ \A q \in Runs \ {new} : made[q] = rows[q]
  BY <1>2, <1>5 DEF NewRun, Row
<1>7. run' \in {made, [made EXCEPT ![new] = Queued(made[new])]}
  BY DEF Replay
<1>8. /\ run' \in [Runs -> Run]
      /\ run'[new] \in {y, Queued(y)}
      /\ \A q \in Runs \ {new} : run'[q] = rows[q]
  <2>. HIDE DEF y, rows, made
  <2>1. Queued(made[new]) = Queued(y) /\ y \in Run /\ Queued(y) \in Run
    BY <1>2, <1>3, <1>6 DEF Row
  <2>2. CASE run' = made
    BY <1>6, <2>2
  <2>3. CASE run' = [made EXCEPT ![new] = Queued(made[new])]
    BY <1>6, <2>1, <2>3
  <2>. QED
    BY <1>7, <2>2, <2>3
<1>9. run'[new].state = "ASSIGNED" /\ run'[new].hand = TRUE /\ Row(run'[new])
  BY <1>2, <1>3, <1>8
<1>10. RowsTyped
  BY <1>1, <1>5, <1>8, <1>9 DEF RowsTyped
<1>11. RowsKept
  BY <1>1, <1>5, <1>8, <1>9 DEF RowsKept, Kept, IsActive
<1>12. EndsTold
  BY <1>1, <1>5, <1>8, <1>9 DEF EndsTold
<1>13. OneActiveRun'
  BY <1>11, KeptRows DEF IInv
<1>14. events' \subseteq Event /\ EndsKept
  <2>1. E("assigned", new) \in Event
    BY DEF E, Event
  <2>2. {E("assigned", new)} \in SUBSET Event /\ Ingest({E("assigned", new)})
    BY <2>1 DEF Replay
  <2>. QED
    BY <2>2, IngestKeeps DEF IInv
<1>15. CASE MarkScheduled(new)
  BY <1>11, <1>9, <1>10, <1>13, <1>14, <1>15, MarksScheduled, Parts
<1>16. CASE job' = job
  BY <1>10, <1>11, <1>12, <1>14, <1>16, MarksAlone
<1>. QED
  BY <1>11, <1>15, <1>16 DEF Replay

\* handleTaskAssigned, and the events that only enqueue.
LEMMA RouteEnqueueStep ==
  ASSUME IInv, NEW r \in Runs, RouteAssigned(r) \/ RouteRequeue(r)
  PROVE  IInv' /\ RowsKept
<1>1. Row(run[r])
  BY TypedRows DEF IInv
<1>2. PICK x : run' = [run EXCEPT ![r] = x] /\ x \in Enqueued(run[r]) \cup {run[r]}
  BY DEF RouteAssigned, RouteRequeue
<1>3. Row(x) /\ Kept(run[r], x) /\ x.state = run[r].state
  BY <1>1, <1>2, EnqueuedRow DEF Kept
<1>4. RowsTyped /\ RowsKept /\ EndsTold
  BY <1>2, <1>3, OneRow
<1>5. job' = job /\ \E t \in {"assigned", "requeue"} : Handled(E(t, r), {})
  BY DEF RouteAssigned, RouteRequeue
<1>6. events' \subseteq Event /\ EndsKept
  <2>1. PICK t \in {"assigned", "requeue"} : Handled(E(t, r), {})
    BY <1>5
  <2>2. E(t, r).type \notin {"completed", "failed"}
    BY DEF E
  <2>. QED
    BY <2>1, <2>2, HandledKeeps DEF IInv
<1>. QED
  BY <1>4, <1>5, <1>6, MarksAlone

\* handleTaskCompleted and handleTaskFailed.
LEMMA RouteEndStep ==
  ASSUME IInv, NEW r \in Runs, NEW t \in {"completed", "failed"}, RouteEnd(r, t)
  PROVE  IInv' /\ RowsKept
<1>1. run' = run /\ MarkFinished(r, "completed") /\ Handled(E(t, r), {})
  BY DEF RouteEnd
<1>2. RowsTyped /\ RowsKept
  BY <1>1, TypedRows DEF RowsTyped, RowsKept, Kept, IInv
<1>3. OneActiveRun'
  BY <1>1 DEF IInv, OneActiveRun, Active
<1>4. events' \subseteq Event
  BY <1>1 DEF IInv, TypeOK, Handled, Ingest
<1>. QED
  BY <1>1, <1>2, <1>3, <1>4, MarksFinished, Parts

\* handleDispatchDeadLetter and finalizeRecurringDispatchFailure.
LEMMA RouteGiveUpStep ==
  ASSUME IInv, NEW r \in Runs, RouteGiveUp(r), run[r].state # "none"
  PROVE  IInv' /\ RowsKept
<1>1. Row(run[r])
  BY TypedRows DEF IInv
<1>2. run' = [run EXCEPT ![r] = GivenUp(run[r])] /\ MarkFinished(r, "failed")
  BY DEF RouteGiveUp
<1>3. RowsTyped /\ RowsKept
  BY <1>1, <1>2, GivenUpRow, OneRow
<1>4. PICK new \in {Emitted(r, "FAILED"), {}} : Handled(E("refused", r), new)
  BY DEF RouteGiveUp
<1>5. new \in SUBSET Event
  BY EmittedEvents
<1>6. events' \subseteq Event
  BY <1>4, <1>5 DEF IInv, TypeOK, Handled, Ingest
<1>. QED
  BY <1>2, <1>3, <1>6, KeptRows, MarksFinished, Parts DEF IInv

\* Time passes.
LEMMA IntervalStep ==
  ASSUME IInv, IntervalPasses
  PROVE  IInv' /\ RowsKept
<1>1. /\ run' = run /\ events' = events
      /\ job' \in Job /\ job'.task = job.task /\ job'.status = job.status
      /\ job'.sched # "recent"
  BY DEF IInv, TypeOK, Job, Age, IntervalPasses
<1>2. RowsTyped /\ RowsKept
  BY <1>1, TypedRows DEF RowsTyped, RowsKept, Kept, IInv
<1>3. OneActiveRun' /\ EndIsMarked' /\ SlotHeld'
  BY <1>1 DEF IInv, OneActiveRun, Active, EndIsMarked, EndWaits, SlotHeld
<1>. QED
  BY <1>1, <1>2, <1>3, Parts DEF IInv, TypeOK

\* The sweep's transaction.
LEMMA SweepStep ==
  ASSUME IInv, NEW quiet \in SUBSET Runs, Sweep(quiet)
  PROVE  IInv' /\ RowsKept
<1>1. run \in [Runs -> Run] /\ \A r \in Runs : Row(run[r])
  BY TypedRows DEF IInv
<1>2. \A r \in Runs : run'[r] = IF r \in quiet THEN Swept(run[r]) ELSE run[r]
  BY DEF Sweep
<1>3. ASSUME NEW r \in quiet
      PROVE  /\ Row(Swept(run[r])) /\ Kept(run[r], Swept(run[r]))
             /\ Swept(run[r]).state \in {run[r].state, "OPEN", "BLOCKED"}
  <2>1. run[r].state \in Dispatchable \/ run[r].idle
    BY DEF Sweep, MayBeQuiet
  <2>. QED
    BY <1>1, <2>1, SweptRow
<1>4. RowsTyped
  <2>1. \A r \in Runs : Row(run'[r])
    BY <1>1, <1>2, <1>3
  <2>2. \A r \in Runs : run'[r] \in Run
    BY <2>1 DEF Row
  <2>3. run' \in [Runs -> Run]
    BY <2>2 DEF Sweep
  <2>. QED
    BY <2>1, <2>3 DEF RowsTyped
<1>5. RowsKept
  BY <1>2, <1>3 DEF RowsKept, Kept
<1>6. EndsTold
  BY <1>2, <1>3 DEF EndsTold
<1>7. PICK new \in SUBSET Event : Ingest(new) /\ job' = job
  BY DEF Sweep, E, Event
<1>8. events' \subseteq Event /\ EndsKept
  BY <1>7, IngestKeeps DEF IInv
<1>. QED
  BY <1>4, <1>5, <1>6, <1>7, <1>8, MarksAlone

-----------------------------------------------------------------------------
(* Events are about runs that exist                                        *)

Known == \A e \in events : run[e.run].state # "none"

\* What a step owes to it.
RowsStay == \A r \in Runs : run[r].state # "none" => run'[r].state # "none"
NewKnown == \A e \in events' : e \in events \/ (e.run \in Runs /\ run'[e.run].state # "none")

\* An event stays about a run that exists.
LEMMA KnownStays ==
  ASSUME TypeOK, Known, RowsStay, NewKnown
  PROVE  Known'
<1>1. \A e \in events : e.run \in Runs
  BY DEF TypeOK, Event
<1>. QED
  BY <1>1 DEF Known, RowsStay, NewKnown

\* No step loses a row or tells of a run that does not exist.
LEMMA NextKnownParts ==
  ASSUME TypeOK, Known, [Next]_vars
  PROVE  RowsStay /\ NewKnown
<1>. USE DEF RowsStay, NewKnown, E
<1>1. run \in [Runs -> Run] /\ \A r \in Runs : Row(run[r])
  BY TypedRows
<1>2. ASSUME NEW r \in Runs, NEW s \in TaskState, Transition(r, s)
      PROVE  RowsStay /\ NewKnown
  <2>1. PICK y : /\ run' = [run EXCEPT ![r] = y]
                 /\ y \in Enqueued(Moved(run[r], s)) \cup {Moved(run[r], s)}
    BY <1>2 DEF Transition
  <2>2. y.state = s
    BY <1>1, <2>1, MovedRow, EnqueuedRow
  <2>3. \A e \in Emitted(r, s) : e.run = r
    BY DEF Emitted
  <2>4. run'[r] = y /\ \A q \in Runs \ {r} : run'[q] = run[q]
    BY <1>1, <2>1
  <2>5. events' = events \cup Emitted(r, s)
    BY <1>2 DEF Transition, Ingest
  <2>. QED
    BY <2>2, <2>3, <2>4, <2>5
<1>3. ASSUME NEW r \in Runs, Dispatch(r) \/ BackToQueue(r)
      PROVE  RowsStay /\ NewKnown
  BY <1>1, <1>3 DEF Dispatch, BackToQueue
<1>4. ASSUME NEW r \in Runs, DispatchFails(r)
      PROVE  RowsStay /\ NewKnown
  <2>1. run' = [run EXCEPT ![r] = [run[r] EXCEPT !.item = "none"]]
    BY <1>1, <1>4 DEF DispatchFails
  <2>2. RowsStay
    BY <1>1, <2>1 DEF Row
  <2>3. run[r].state # "none" /\ run'[r].state = run[r].state
    BY <1>1, <1>4, <2>1 DEF DispatchFails, Row
  <2>4. events' \subseteq events \cup {E("refused", r), E("requeue", r)}
    BY <1>4 DEF DispatchFails, Ingest
  <2>. QED
    BY <2>2, <2>3, <2>4
<1>13. ASSUME NEW r \in Runs, LateResult(r)
       PROVE  RowsStay /\ NewKnown
  <2>1. run' = [run EXCEPT ![r] = [run[r] EXCEPT !.late = FALSE]]
    BY <1>1, <1>13 DEF LateResult
  <2>2. RowsStay
    BY <1>1, <2>1 DEF Row
  <2>3. run[r].state # "none" /\ run'[r].state = run[r].state
    BY <1>1, <1>13, <2>1 DEF LateResult, Row
  <2>4. events' \subseteq events \cup {E("refused", r), E("requeue", r)}
    BY <1>13 DEF LateResult, Ingest
  <2>. QED
    BY <2>2, <2>3, <2>4
<1>5. ASSUME NEW r \in Runs, CompleteInline(r)
      PROVE  RowsStay /\ NewKnown
  <2>. DEFINE y == [Moved(run[r], "DONE") EXCEPT !.late = run[r].late]
  <2>1. run' = [run EXCEPT ![r] = y] /\ y.state = "DONE"
    <3>1. Row(Moved(run[r], "DONE")) /\ Moved(run[r], "DONE").state = "DONE"
      BY <1>1, MovedRow
    <3>. QED
      BY <1>1, <1>5, <3>1 DEF CompleteInline, Row
  <2>2. \A e \in Emitted(r, "DONE") : e.run = r
    BY DEF Emitted
  <2>3. run'[r].state = "DONE" /\ \A q \in Runs \ {r} : run'[q] = run[q]
    BY <1>1, <2>1
  <2>4. events' = events \cup Emitted(r, "DONE")
    BY <1>5 DEF CompleteInline, Ingest
  <2>. QED
    BY <2>2, <2>3, <2>4
<1>6. ASSUME NEW r \in Runs, ScheduleDue(r)
      PROVE  RowsStay /\ NewKnown
  <2>1. run' = [run EXCEPT ![r] = [NoTask EXCEPT !.state = "ASSIGNED", !.hand = FALSE]]
    BY <1>6 DEF ScheduleDue, NewRun
  <2>2. run'[r].state = "ASSIGNED" /\ \A q \in Runs \ {r} : run'[q] = run[q]
    BY <1>1, <2>1 DEF NoTask
  <2>3. events' = events \cup {E("assigned", r)}
    BY <1>6 DEF ScheduleDue, Ingest
  <2>. QED
    BY <2>2, <2>3
<1>7. ASSUME NEW r \in Runs, NEW new \in Runs, Replay(r, new)
      PROVE  RowsStay /\ NewKnown
  <2>. DEFINE y == [NoTask EXCEPT !.state = "ASSIGNED", !.hand = TRUE]
              rows == IF Active(r) THEN [run EXCEPT ![r] = Moved(@, "CANCELLED")]
                      ELSE run
              made == NewRun(rows, new, TRUE)
  <2>1. y.state = "ASSIGNED" /\ Queued(y).state = "ASSIGNED"
    BY NewRow DEF Queued, NoTask
  <2>2. /\ rows \in [Runs -> Run] \/ DOMAIN rows = Runs
        /\ \A q \in Runs : run[q].state # "none" => rows[q].state # "none"
    <3>1. Moved(run[r], "CANCELLED").state = "CANCELLED"
      BY <1>1, MovedRow
    <3>. QED
      BY <1>1, <3>1
  <2>3. DOMAIN rows = Runs /\ run' \in {made, [made EXCEPT ![new] = Queued(made[new])]}
    BY <1>7, <2>2 DEF Replay
  <2>4. DOMAIN made = Runs /\ made[new] = y /\ \A q \in Runs \ {new} : made[q] = rows[q]
    BY <2>3 DEF NewRun
  <2>5. run'[new].state = "ASSIGNED" /\ \A q \in Runs \ {new} : run'[q] = rows[q]
    <3>. HIDE DEF y, rows, made
    <3>1. CASE run' = made
      BY <2>1, <2>4, <3>1
    <3>2. CASE run' = [made EXCEPT ![new] = Queued(made[new])]
      BY <2>1, <2>4, <3>2
    <3>. QED
      BY <2>3, <3>1, <3>2
  <2>6. events' = events \cup {E("assigned", new)}
    BY <1>7 DEF Replay, Ingest
  <2>. HIDE DEF rows
  <2>. QED
    BY <2>2, <2>5, <2>6
<1>8. ASSUME NEW r \in Runs, RouteAssigned(r) \/ RouteRequeue(r)
      PROVE  RowsStay /\ NewKnown
  <2>1. PICK x : run' = [run EXCEPT ![r] = x] /\ x \in Enqueued(run[r]) \cup {run[r]}
    BY <1>8 DEF RouteAssigned, RouteRequeue
  <2>2. x.state = run[r].state
    BY <1>1, <2>1, EnqueuedRow
  <2>3. events' \subseteq events
    BY <1>8 DEF RouteAssigned, RouteRequeue, Handled, Ingest
  <2>. QED
    BY <1>1, <2>1, <2>2, <2>3
<1>9. ASSUME NEW r \in Runs, NEW t \in {"completed", "failed"}, RouteEnd(r, t)
      PROVE  RowsStay /\ NewKnown
  BY <1>9 DEF RouteEnd, Handled, Ingest
<1>10. ASSUME NEW r \in Runs, RouteGiveUp(r)
       PROVE  RowsStay /\ NewKnown
  <2>1. run' = [run EXCEPT ![r] = GivenUp(run[r])]
    BY <1>10 DEF RouteGiveUp
  <2>2. run[r].state # "none"
    BY <1>10 DEF RouteGiveUp, Handled, Known
  <2>3. GivenUp(run[r]).state # "none"
    BY <1>1, <2>2, MovedRow DEF GivenUp
  <2>4. run'[r].state # "none" /\ \A q \in Runs \ {r} : run'[q] = run[q]
    BY <1>1, <2>1, <2>3
  <2>5. events' \subseteq events \cup Emitted(r, "FAILED")
    BY <1>10 DEF RouteGiveUp, Handled, Ingest
  <2>6. \A e \in Emitted(r, "FAILED") : e.run = r
    BY DEF Emitted
  <2>. QED
    BY <2>4, <2>5, <2>6
<1>11. ASSUME NEW quiet \in SUBSET Runs, Sweep(quiet)
       PROVE  RowsStay /\ NewKnown
  <2>1. /\ \A r \in Runs : run'[r] = IF r \in quiet THEN Swept(run[r]) ELSE run[r]
        /\ \A r \in quiet : run[r].state \in Dispatchable \/ run[r].idle
    BY <1>11 DEF Sweep, MayBeQuiet
  <2>2. ASSUME NEW r \in quiet
        PROVE  Swept(run[r]).state # "none" /\ run[r].state # "none"
    BY <1>1, <2>1, SweptRow DEF Row
  <2>3. events' \subseteq events \cup {E("requeue", r) : r \in quiet}
    BY <1>11 DEF Sweep, Ingest
  <2>. QED
    BY <2>1, <2>2, <2>3
<1>12. CASE IntervalPasses \/ UNCHANGED vars
  BY <1>12 DEF IntervalPasses, vars
<1>. QED
  BY <1>2, <1>3, <1>4, <1>5, <1>6, <1>7, <1>8, <1>9, <1>10, <1>11, <1>12,
     <1>13
  DEF Next, Route

-----------------------------------------------------------------------------
(* Theorems                                                                *)

\* Initially there is no run, no event and no mark.
LEMMA InitIInv == Init => IInv /\ Known
  BY NoRunAssumption DEF Init, IInv, Known, TypeOK, Job, Age, NoTask, OneActiveRun,
     Active, EndIsMarked, SlotHeld

\* Every step keeps the invariant, and only scheduling makes a run active.
LEMMA NextIInv ==
  ASSUME IInv, Known, [Next]_vars
  PROVE  /\ IInv' /\ Known'
         /\ RowsKept \/ \E r \in Runs : ScheduleDue(r)
<1>. DEFINE Scheduled == \E r \in Runs : ScheduleDue(r)
<1>. SUFFICES IInv' /\ (RowsKept \/ Scheduled)
  BY NextKnownParts, KnownStays DEF IInv
<1>1. CASE UNCHANGED vars
  <2>1. RowsKept
    BY <1>1 DEF vars, RowsKept, Kept
  <2>2. IInv'
    BY <1>1 DEF vars, IInv, TypeOK, OneActiveRun, Active, EndIsMarked, EndWaits, SlotHeld
  <2>. QED
    BY <2>1, <2>2
<1>2. ASSUME NEW r \in Runs, RouteGiveUp(r)
      PROVE  IInv' /\ RowsKept
  <2>1. run[r].state # "none"
    BY <1>2 DEF RouteGiveUp, Handled, Known, E
  <2>. QED
    BY <1>2, <2>1, RouteGiveUpStep
<1>3. ASSUME NEW r \in Runs, Route(r)
      PROVE  IInv' /\ RowsKept
  BY <1>2, <1>3, RouteEnqueueStep, RouteEndStep DEF Route
<1>4. CASE \E r \in Runs, s \in TaskState : Transition(r, s)
  BY <1>4, TransitionStep
<1>5. CASE \E r \in Runs : Dispatch(r) \/ BackToQueue(r)
  BY <1>5, ItemStep
<1>6. CASE \E r \in Runs : DispatchFails(r)
  BY <1>6, DispatchFailsStep
<1>7. CASE \E r \in Runs : CompleteInline(r)
  BY <1>7, CompleteInlineStep
<1>8. CASE Scheduled
  BY <1>8, ScheduleDueStep
<1>9. CASE \E r \in Runs, q \in Runs : Replay(r, q)
  BY <1>9, ReplayStep
<1>10. CASE IntervalPasses
  BY <1>10, IntervalStep
<1>11. CASE \E quiet \in SUBSET Runs : Sweep(quiet)
  BY <1>11, SweepStep
<1>12. CASE \E r \in Runs : LateResult(r)
  BY <1>12, LateResultStep
<1>. QED
  BY <1>1, <1>3, <1>4, <1>5, <1>6, <1>7, <1>8, <1>9, <1>10, <1>11, <1>12 DEF Next

\* The invariant holds in every state.
LEMMA Invariant == Spec => [](IInv /\ Known)
  BY InitIInv, NextIInv, PTL DEF Spec

\* The rows of runs, the events and the marks have their types: an item is
\* open only for a task that can be dispatched.
THEOREM TypeCorrect == Spec => []TypeOK
  BY Invariant, PTL DEF IInv

\* The scheduler never starts a run beside an active one: of two active runs
\* one is a replay or was reopened.
THEOREM SchedulerStartsOne == Spec => []OneActiveRun
  BY Invariant, PTL DEF IInv

\* A run that ends leaves its mark or the event that will make it.
THEOREM EndsAreMarked == Spec => []EndIsMarked
  BY Invariant, PTL DEF IInv

\* Within an interval of the last start the scheduler starts a run only after
\* a cancelled one, or while the event of an end waits.
THEOREM SlotRunsOnce == Spec => SlotRunOnce
<1>1. ASSUME IInv, Known, [Next]_vars,
             NEW r \in Runs, run[r].state \in Ended \cup {"none"},
             run'[r].state = "ASSIGNED", ~run'[r].hand, job.sched = "recent"
      PROVE  run[job.task].state = "CANCELLED" \/ EndWaits(job.task)
  <2>1. ~RowsKept
    BY <1>1 DEF RowsKept, Kept, IsActive
  <2>2. PICK q \in Runs : ScheduleDue(q)
    BY <1>1, <2>1, NextIInv
  <2>3. job.fin # "recent" /\ \A p \in Runs : ~Active(p)
    BY <1>1, <2>2 DEF ScheduleDue, Due, ActiveRun
  <2>. QED
    BY <1>1, <2>3 DEF IInv, SlotHeld, Active, TypeOK
<1>2. IInv /\ Known /\ [Next]_vars =>
        [\A r \in Runs :
           /\ run[r].state \in Ended \cup {"none"}
           /\ run'[r].state = "ASSIGNED" /\ ~run'[r].hand
           /\ job.sched = "recent"
           => \/ run[job.task].state = "CANCELLED"
              \/ EndWaits(job.task)]_vars
  BY <1>1
<1>. QED
  BY <1>2, Invariant, PTL DEF Spec, SlotRunOnce
=============================================================================
