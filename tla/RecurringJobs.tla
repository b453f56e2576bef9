--------------------------- MODULE RecurringJobs ---------------------------
(***************************************************************************)
(* A recurring job of one agent (src/scheduling/recurring-jobs.ts) and     *)
(* its runs, which are tasks: the last part of the sweep creates a run     *)
(* when one is due, events carry it to the dispatch queue and its end back *)
(* to the marks of the job, and the sweep's rules for stale and dead       *)
(* tasks (src/sweep/actions.ts) take it on when that fails.                *)
(*                                                                         *)
(* Of the queue and of dispatching there is only what a job can notice;    *)
(* DispatchQueue has the rest (a settled item brought back to life by its  *)
(* late dispatch, for one); the item is never that of a verifier whom a    *)
(* project names for reviews.  A handler, a sweep and a refused dispatch   *)
(* are single steps, unless the process dies.                              *)
(***************************************************************************)
EXTENDS TaskStates, Naturals, FiniteSets

CONSTANTS
  Runs,      \* task ids of the job's runs
  NoRun,     \* last_task_id of a job that never ran
  MaxEvents  \* bound: how many events wait at a time

ASSUME NoRunAssumption == NoRun \notin Runs
ASSUME BoundAssumption == MaxEvents \in Nat

VARIABLES
  run,     \* the runs' rows in tasks and dispatch_queue, see Run
  events,  \* events waiting to be handled; two of one type and run are one
  job      \* the marks last_scheduled_at, last_finished_at, last_status and
           \* last_task_id of the job in project_metadata

vars == <<run, events, job>>

\* A time mark is recent until the job's interval has passed since.
Age == {"never", "recent", "old"}

Job == [sched: Age, fin: Age, status: {"never", "scheduled", "completed", "failed"},
        task: Runs \cup {NoRun}]

\* state "none" before the row exists; item is the run's queue item, busy
\* when leased or dispatched; stale: stale_since is recorded; idle:
\* BLOCKED for being stale; hand: a replay made it or somebody reopened it
\* after it failed; late: a dispatch whose item was settled behind its back
\* is still under way.
Run == [state: TaskState \cup {"none"}, item: {"none", "queued", "busy"},
        stale: BOOLEAN, idle: BOOLEAN, hand: BOOLEAN, late: BOOLEAN]

\* A created event only makes an assigned one of it, so a new run starts with
\* that.  requeue is a dispatch_failed that may be tried again or the
\* sweep_finding of a stale task: both only enqueue.  refused is any other
\* dispatch_failed, or a dispatch_dead_letter.
Event == [type: {"assigned", "completed", "failed", "requeue",
                 "refused"}, run: Runs]
E(type, r) == [type |-> type, run |-> r]

\* An item is open only for a task that enqueue would take.
TypeOK ==
  /\ run \in [Runs -> Run]
  /\ \A r \in Runs : /\ run[r].item # "none" => run[r].state \in {"OPEN"} \cup Dispatchable
                     /\ run[r].item = "busy" => run[r].state \in Dispatchable
                     /\ run[r].idle => run[r].state = "BLOCKED"
                     /\ run[r].late => run[r].state # "none"
  /\ events \subseteq Event
  /\ job \in Job
  /\ job.task = NoRun <=> job.status = "never"

NoTask == [state |-> "none", item |-> "none", stale |-> FALSE, idle |-> FALSE,
           hand |-> FALSE, late |-> FALSE]

Init ==
  /\ run = [r \in Runs |-> NoTask]
  /\ events = {}
  /\ job = [sched |-> "never", fin |-> "never", status |-> "never", task |-> NoRun]

-----------------------------------------------------------------------------
(* Tasks and queue items                                                   *)

Final == {"DONE", "CANCELLED"}
Ended == Final \cup {"FAILED"}
Active(r) == run[r].state \notin Ended \cup {"none"}

\* The event table takes new, which only a full one (MaxEvents) prevents.
Ingest(new) ==
  /\ events' = events \cup new
  /\ Cardinality(events') <= MaxEvents

\* enqueue: a state that cannot be dispatched and a second open item refuse.
Queued(x) ==
  IF x.state \in {"OPEN"} \cup Dispatchable /\ x.item = "none"
  THEN [x EXCEPT !.item = "queued"] ELSE x

\* So may the back-off after a failed item and the depth of the queue.
Enqueued(x) == {x, Queued(x)}

\* Fault: an item outlives what it was for.
MovedAlone(x, s) ==
  IF s \in Final THEN [NoTask EXCEPT !.state = s, !.late = x.late]
  ELSE [x EXCEPT !.state = s, !.idle = FALSE,
                 !.hand = s # "FAILED" /\ (@ \/ x.state = "FAILED")]

\* A transition with its effects on the queue: the item is cancelled, failed
\* or completed, whatever its dispatcher is doing.  What is recorded of a task
\* that has ended for good is not read again.
Moved(x, s) ==
  LET late == x.late \/ (x.item = "busy" /\ s \notin Dispatchable)
  IN IF s \in Final THEN [NoTask EXCEPT !.state = s, !.late = late]
     ELSE [x EXCEPT !.state = s, !.idle = FALSE, !.late = late,
                    !.item = IF s \in Dispatchable THEN @ ELSE "none",
                    !.hand = s # "FAILED" /\ (@ \/ x.state = "FAILED")]

\* Fault: no event of a failure.
EmittedButFailure(r, s) ==
  CASE s = "ASSIGNED" -> {E("assigned", r)}
    [] s = "DONE"     -> {E("completed", r)}
    [] OTHER          -> {}

\* The events of a transition.  task_transitioned and task_review_ready
\* concern no job.
Emitted(r, s) ==
  CASE s = "ASSIGNED" -> {E("assigned", r)}
    [] s = "DONE"     -> {E("completed", r)}
    [] s = "FAILED"   -> {E("failed", r)}
    [] OTHER          -> {}

\* transitionTask by anybody: the session at work, a verifier, an operator.
\* Rework is enqueued.
Transition(r, s) ==
  /\ run[r].state \in TaskState /\ s \in ValidNext[run[r].state]
  /\ \E x \in IF run[r].state = "REVIEW" /\ s = "IN_PROGRESS"
             THEN Enqueued(Moved(run[r], s)) ELSE {Moved(run[r], s)} :
       run' = [run EXCEPT ![r] = x]
  /\ Ingest(Emitted(r, s))
  /\ UNCHANGED job

-----------------------------------------------------------------------------
(* Dispatching                                                             *)

Dispatch(r) ==
  /\ run[r].item = "queued" /\ run[r].state \in Dispatchable
  /\ run' = [run EXCEPT ![r].item = "busy"]
  /\ UNCHANGED <<events, job>>

\* The item fails with a dispatch_failed event.  Only a lease conflict, budget
\* pacing (queued) or an executor's error (busy) may be tried again, and a
\* task in another state never.  The last attempt is a dead letter too.
DispatchFails(r) ==
  /\ run[r].item # "none"
  /\ run' = [run EXCEPT ![r].item = "none"]
  /\ \/ Ingest({E("refused", r)})
     \/ run[r].state \in Dispatchable /\ Ingest({E("requeue", r)})
     \/ run[r].item = "busy" /\ Ingest({E("requeue", r), E("refused", r)})
  /\ UNCHANGED job

\* A dispatch ends that lost its item: its failure is told all the same.
LateResult(r) ==
  /\ run[r].late
  /\ run' = [run EXCEPT ![r].late = FALSE]
  /\ \E new \in SUBSET {E("refused", r), E("requeue", r)} : Ingest(new)
  /\ UNCHANGED job

\* An executor that is not ready, an empty inline session, an expired lease or
\* a lost cron job puts the item back.
BackToQueue(r) ==
  /\ run[r].item = "busy"
  /\ run' = [run EXCEPT ![r].item = "queued"]
  /\ UNCHANGED <<events, job>>

\* maybeFinalizeInlineTask: a run goes through REVIEW to DONE by itself.
CompleteInline(r) ==
  /\ run[r].item = "busy" /\ run[r].state \in Dispatchable
  /\ run' = [run EXCEPT ![r] = [Moved(@, "DONE") EXCEPT !.late = run[r].late]]
  /\ Ingest(Emitted(r, "DONE"))
  /\ UNCHANGED job

-----------------------------------------------------------------------------
(* Scheduling                                                              *)

\* Fault: a blocked run is overlooked.
UnblockedRun == \E r \in Runs : Active(r) /\ run[r].state # "BLOCKED"

\* findActiveRecurringJobTaskId.
ActiveRun == \E r \in Runs : Active(r)

\* The run is due an interval after the end of the last one, or after it was
\* scheduled if no run has ended yet.
Due == (IF job.fin # "never" THEN job.fin ELSE job.sched) # "recent"

\* A row for a new run: no run's yet, or that of a run which has ended and of
\* which neither the marks, an event nor a dispatch speak any more.
Free(r) ==
  \/ run[r].state = "none"
  \/ /\ run[r].state \in Ended /\ ~run[r].late
     /\ job.task # r /\ \A e \in events : e.run # r

\* createTask for an assigned agent.
NewRun(rows, r, hand) ==
  [rows EXCEPT ![r] = [NoTask EXCEPT !.state = "ASSIGNED", !.hand = hand]]

\* markRecurringJobScheduled.
MarkScheduled(r) ==
  job' = [job EXCEPT !.sched = "recent", !.status = "scheduled", !.task = r]

\* markRecurringJobFinished.
MarkFinished(r, status) ==
  job' = [job EXCEPT !.fin = "recent", !.status = status, !.task = r]

\* scheduleDueRecurringJobs, in a sweep after its transaction.  The process may
\* die between the run and its mark.
ScheduleDue(r) ==
  /\ Free(r) /\ ~ActiveRun /\ Due
  /\ run' = NewRun(run, r, FALSE)
  /\ Ingest({E("assigned", r)})
  /\ MarkScheduled(r) \/ UNCHANGED job

\* replayRecurringJobTask by an operator (runRecoverRecurringRunCommand,
\* retryFailedItem): an active run is superseded, a new one created, marked
\* and enqueued, unless the process dies before.  A run that has ended is
\* replayed even if another is active.
Replay(r, new) ==
  /\ run[r].state \notin {"none", "DONE"} /\ run[r].item # "busy"
  /\ Free(new) /\ new # r
  /\ LET rows == IF Active(r) THEN [run EXCEPT ![r] = Moved(@, "CANCELLED")] ELSE run
         made == NewRun(rows, new, TRUE)
     IN \/ run' = [made EXCEPT ![new] = Queued(@)] /\ MarkScheduled(new)
        \/ run' = made /\ (MarkScheduled(new) \/ UNCHANGED job)
  /\ Ingest({E("assigned", new)})

-----------------------------------------------------------------------------
(* Events                                                                  *)

\* The handler is done with e, or its process dies before it could say so and
\* e is handled again.
Handled(e, new) ==
  /\ e \in events
  /\ events' = (events \ {e}) \cup new \/ Ingest(new)

\* handleTaskCreated and handleTaskAssigned.
RouteAssigned(r) ==
  /\ Handled(E("assigned", r), {})
  /\ \E x \in IF run[r].state = "ASSIGNED" THEN Enqueued(run[r]) ELSE {run[r]} :
       run' = [run EXCEPT ![r] = x]
  /\ UNCHANGED job

\* handleDispatchFailed and handleSweepFinding, where they enqueue.
RouteRequeue(r) ==
  /\ Handled(E("requeue", r), {})
  /\ \E x \in Enqueued(run[r]) : run' = [run EXCEPT ![r] = x]
  /\ UNCHANGED job

\* Fault: a failed run leaves no mark.
RouteFailedUnmarked(r, type) ==
  /\ Handled(E(type, r), {})
  /\ IF type = "completed" THEN MarkFinished(r, "completed") ELSE UNCHANGED job
  /\ UNCHANGED run

\* handleTaskCompleted; handleTaskFailed marks "failed" and then calls it.
RouteEnd(r, type) ==
  /\ Handled(E(type, r), {})
  /\ MarkFinished(r, "completed")
  /\ UNCHANGED run

\* A run that the router gives up fails, unless it has ended or is OPEN, which
\* no transition leads from to FAILED.
GivenUp(x) == IF "FAILED" \in ValidNext[x.state] THEN Moved(x, "FAILED") ELSE x

\* finalizeRecurringDispatchFailure and handleDispatchDeadLetter: the run is
\* marked failed and its task fails, whatever it is doing now.
RouteGiveUp(r) ==
  /\ Handled(E("refused", r),
             IF GivenUp(run[r]) # run[r] THEN Emitted(r, "FAILED") ELSE {})
  /\ run' = [run EXCEPT ![r] = GivenUp(@)]
  /\ MarkFinished(r, "failed")

\* One event of the run is routed.
Route(r) ==
  \/ RouteAssigned(r) \/ RouteRequeue(r)
  \/ \E t \in {"completed", "failed"} : RouteEnd(r, t)
  \/ RouteGiveUp(r)

-----------------------------------------------------------------------------
(* Time and the sweep                                                      *)

\* The job's interval passes.
IntervalPasses ==
  /\ "recent" \in {job.sched, job.fin}
  /\ job' = [job EXCEPT !.sched = IF @ = "recent" THEN "old" ELSE @,
                        !.fin = IF @ = "recent" THEN "old" ELSE @]
  /\ UNCHANGED <<run, events>>

\* Nothing may have touched the run for as long as the stale rules ask: four
\* hours, eight when they have blocked it.  No item is active for so long.
MayBeQuiet(r) ==
  run[r].item # "busy" /\ (run[r].state \in Dispatchable \/ run[r].idle)

\* What a sweep makes of a quiet run.  Step 1 records it as stale and, if that
\* has been recorded before, blocks it; step 1.5 opens it again.  The record is
\* never removed.  (Step 7.1.2 may block it too, as anybody may.)
Swept(x) ==
  CASE x.idle               -> Moved(x, "OPEN")
    [] ~x.idle /\ x.stale  -> [Moved(x, "BLOCKED") EXCEPT !.idle = TRUE]
    [] ~x.idle /\ ~x.stale -> [x EXCEPT !.stale = TRUE]

\* The sweep's transaction, when the runs in quiet have been so long enough.
\* The event of a stale task has one key for ever.
Sweep(quiet) ==
  /\ quiet # {} /\ \A r \in quiet : MayBeQuiet(r)
  /\ run' = [r \in Runs |-> IF r \in quiet THEN Swept(run[r]) ELSE run[r]]
  /\ Ingest({E("requeue", r) : r \in
               {q \in quiet : run[q].state \in Dispatchable /\ ~run[q].stale}})
  /\ UNCHANGED job

-----------------------------------------------------------------------------
Next ==
  \/ \E r \in Runs, s \in TaskState : Transition(r, s)
  \/ \E r \in Runs :
       \/ Dispatch(r) \/ DispatchFails(r) \/ LateResult(r) \/ BackToQueue(r)
       \/ CompleteInline(r)
       \/ ScheduleDue(r)
       \/ \E q \in Runs : Replay(r, q)
       \/ Route(r)
  \/ IntervalPasses
  \/ \E quiet \in SUBSET Runs : Sweep(quiet)

Spec == Init /\ [][Next]_vars

-----------------------------------------------------------------------------
(* Properties                                                              *)

\* A job has two active runs only if one of them is a replay or was reopened
\* after it failed: the scheduler never starts a second one, not even beside
\* a run that is blocked or waits in review.
OneActiveRun ==
  \A r, q \in Runs : r # q /\ Active(r) /\ Active(q) => run[r].hand \/ run[q].hand

\* Run q has ended and the event of its end is still to be handled.
EndWaits(q) == E("completed", q) \in events \/ E("failed", q) \in events

\* The scheduler starts a run within an interval of the last start only if
\* that one was cancelled, or if the event of its end is still to be handled.
SlotRunOnce ==
  [][\A r \in Runs :
       /\ run[r].state \in Ended \cup {"none"}
       /\ run'[r].state = "ASSIGNED" /\ ~run'[r].hand
       /\ job.sched = "recent"
       => \/ run[job.task].state = "CANCELLED"
          \/ EndWaits(job.task)]_vars

\* A job is not shown as scheduled once its run has ended, except for as long
\* as the event of that end waits, whatever dies in between.
EndIsMarked ==
  job.status = "scheduled" /\ run[job.task].state \in {"DONE", "FAILED"}
  => EndWaits(job.task)
=============================================================================
