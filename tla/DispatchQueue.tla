--------------------------- MODULE DispatchQueue ---------------------------
(***************************************************************************)
(* The dispatch queue of one project: src/dispatch/queue.ts, the dispatch  *)
(* loop that claims its items (dispatcher.ts), the sessions the executors  *)
(* run for them, the hooks at the two ends of a session, the sweep's       *)
(* repairs and the recovery after a restart.                               *)
(*                                                                         *)
(* A session runs in one of two ways.  The codex and claude-code executors *)
(* run it inside the awaited dispatch call (inline); the openclaw executor *)
(* only creates a one-shot cron job, which becomes a session later.  What  *)
(* is synchronous between two awaits, or in one transaction, is one step.  *)
(*                                                                         *)
(* Time is three clocks.  Their order is the code's defaults: a session    *)
(* ends within 10 minutes, before the 15 minute lease of its item, the 20  *)
(* minute limit of a dispatched item and the 2 hour lease of its task, so  *)
(* none of those runs out under a working session; and an executor answers *)
(* before a sweep gets to see its item settled by somebody else.           *)
(***************************************************************************)
EXTENDS TaskStates, Naturals, FiniteSets

CONSTANTS
  Tasks,        \* task ids
  Items,        \* ids of queue items; a settled, forgotten one is reused
  Runs,         \* dispatchItem calls and the sessions they start
  NoItem,       \* the NULL of tasks.lease_holder
  Idle,         \* a run that is over
  MaxAttempts   \* max_dispatch_attempts

ASSUME ItemsAssumption == NoItem \notin Items
\* An id that is not in use yet stands for some task.
ASSUME TasksAssumption == Tasks # {}
\* The one automatic retry of an empty inline session ignores the maximum,
\* so a maximum of 1 would not hold.
ASSUME MaxAttemptsAssumption == MaxAttempts \in Nat /\ MaxAttempts >= 2

VARIABLES
  state,   \* tasks.state
  lease,   \* tasks.lease_holder, and whether lease_expires_at is ahead
  queue,   \* the dispatch_queue rows
  run,     \* the dispatch calls and sessions under way
  byHand   \* has an operator requeued an item of the task, or done so while
           \* its job or session was there ("forced")

rows == <<state, lease, queue, run>>
vars == <<rows, byHand>>

Settled == {"completed", "failed", "cancelled"}
Active == {"queued", "leased", "dispatched"}

\* clock: "stale" once a lease has expired; "late" and "stale" 10 and 20
\* minutes after dispatched_at.
Item == [status : {"none"} \cup Active \cup Settled,
         task : Tasks,
         review : BOOLEAN,              \* payload.agentId names a verifier
         attempts : Nat,
         leasedAt : BOOLEAN,            \* leased_at IS NOT NULL
         clock : {"fresh", "late", "stale"}]

\* call: has dispatchItem been answered; agent: what the executor made of it.
Call == [item : Items,
         call : {"waiting", "returned"},
         agent : {"none", "inline", "killed", "job", "session", "settling",
                  "over"}]

Free == [by |-> NoItem, live |-> FALSE]

TypeOK ==
  /\ state \in [Tasks -> TaskState]
  /\ lease \in [Tasks -> [by : Items \cup {NoItem}, live : BOOLEAN]]
  /\ queue \in [Items -> Item]
  /\ run \in [Runs -> Call \cup {Idle}]
  /\ byHand \in [Tasks -> {"never", "requeued", "forced"}]

Init ==
  /\ state = [t \in Tasks |-> "OPEN"]
  /\ lease = [t \in Tasks |-> Free]
  /\ queue = [i \in Items |->
       [status |-> "none", task |-> CHOOSE t \in Tasks : TRUE, review |-> FALSE,
        attempts |-> 0, leasedAt |-> FALSE, clock |-> "fresh"]]
  /\ run = [r \in Runs |-> Idle]
  /\ byHand = [t \in Tasks |-> "never"]

TaskOf(i) == queue[i].task
IsOn(r, i) == run[r] # Idle /\ run[r].item = i
Busy(i) == \E r \in Runs : IsOn(r, i)

\* The runs whose session the enforcement tracker knows.
Tracked(i) ==
  \E r \in Runs : IsOn(r, i) /\ run[r].agent \in {"inline", "session", "settling"}

-----------------------------------------------------------------------------
(* The statements of queue.ts, each on a queue value                       *)

\* Fault: a failed item gets the status of a dead letter.
SettleAsDeadLetter(q, i, s) ==
  [q EXCEPT ![i].status = IF s = "failed" THEN "dead_letter" ELSE s]

\* completeItem, failItem, cancelItem: unguarded.  They leave leased_at alone,
\* but it means nothing in a settled row and whatever revives one resets it.
Settle(q, i, s) ==
  [q EXCEPT ![i].status = s, ![i].leasedAt = FALSE, ![i].clock = "fresh"]

\* markDispatched: unguarded as well, it revives a settled item.
Dispatched(q, i) ==
  [q EXCEPT ![i].status = "dispatched", ![i].leasedAt = FALSE,
            ![i].clock = "fresh"]

\* releaseToQueued: undo gives the attempt of claimNext back.
Requeued(q, i, undo) ==
  [q EXCEPT ![i].status = "queued", ![i].leasedAt = FALSE,
            ![i].clock = "fresh",
            ![i].attempts = IF undo /\ @ > 0 THEN @ - 1 ELSE @]

\* The claim of claimNext.
Claimed(q, i) ==
  [q EXCEPT ![i].status = "leased", ![i].leasedAt = TRUE,
            ![i].clock = "fresh", ![i].attempts = @ + 1]

Fresh(q) ==
  {i \in Items : /\ q[i].status \in {"none"} \cup Settled
                 /\ ~Busy(i)
                 /\ \A t \in Tasks : lease[t].by # i}

\* enqueue, on the queue and the task's state at that moment: a review item
\* skips the state check; at most one active item per task; the queue depth
\* limit and the back-off after a failure may refuse.
Enqueued(q, t, s, review) ==
  {q} \cup
  IF /\ review \/ s \in {"OPEN"} \cup Dispatchable
     /\ \A i \in Items : q[i].task = t => q[i].status \notin Active
  THEN {[q EXCEPT ![new] =
           [status |-> "queued", task |-> t, review |-> review, attempts |-> 0,
            leasedAt |-> FALSE, clock |-> "fresh"]] : new \in Fresh(q)}
  ELSE {}

Running(q, t) ==
  {i \in Items : q[i].task = t /\ q[i].status \in {"leased", "dispatched"}}

\* What transitionTask does to the queue after its commit: pending items are
\* cancelled, one running item (LIMIT 1) is settled with the task.
AfterTransition(q, t, to) ==
  IF to \in Dispatchable THEN {[queue |-> q, item |-> NoItem]}
  ELSE LET c == [i \in Items |->
                   IF q[i].task = t /\ q[i].status = "queued"
                   THEN [q[i] EXCEPT !.status = "cancelled"] ELSE q[i]]
           s == IF to \in {"FAILED", "CANCELLED"} THEN "failed" ELSE "completed"
       IN IF Running(c, t) = {} THEN {[queue |-> c, item |-> NoItem]}
          ELSE {[queue |-> Settle(c, i, s), item |-> i] : i \in Running(c, t)}

\* killPersistedSessionProcess reaches the child process of an inline session.
AfterKill(runs, to, i) ==
  [r \in Runs |->
     IF /\ to \in {"FAILED", "CANCELLED"}
        /\ runs[r] # Idle /\ runs[r].item = i /\ runs[r].agent = "inline"
     THEN [runs[r] EXCEPT !.agent = "killed"] ELSE runs[r]]

\* Fault: the lease of the item's task goes, whoever holds it.
ReleasedOfTask(i) == [t \in Tasks |-> IF t = TaskOf(i) THEN Free ELSE lease[t]]

\* releaseTaskLease: only the holder's.
Released(i) ==
  [t \in Tasks |-> IF lease[t].by = i THEN Free ELSE lease[t]]

Leased(t) == lease[t].by # NoItem /\ lease[t].live

\* Fault: a live lease of another holder is overwritten.
MayAlwaysAcquire(t, i) == TRUE

\* acquireTaskLease: free, expired or already the holder's.
MayAcquire(t, i) == ~Leased(t) \/ lease[t].by = i

-----------------------------------------------------------------------------
(* Work arrives                                                            *)

\* task_assigned, dispatch_failed, workers done, operator retry, ...
Enqueue(t) ==
  /\ queue' \in Enqueued(queue, t, state[t], FALSE) \ {queue}
  /\ UNCHANGED <<state, lease, run>>

\* handleTaskReviewReady: the verifier is dispatched for a task in REVIEW.
EnqueueReview(t) ==
  /\ state[t] = "REVIEW"
  /\ queue' \in Enqueued(queue, t, state[t], TRUE) \ {queue}
  /\ UNCHANGED <<state, lease, run>>

\* Agents, managers and event handlers move the task: transitionTask, with
\* its lease check (no actor is named like a lease holder) and its effects on
\* the queue.  A rejected review is queued again unless an item is active.
TaskTransition(t, to) ==
  /\ to \in ValidNext[state[t]]
  /\ <<state[t], to>> \in {<<"OPEN", "ASSIGNED">>, <<"ASSIGNED", "IN_PROGRESS">>}
       => ~Leased(t)
  /\ state' = [state EXCEPT ![t] = to]
  /\ \E e \in AfterTransition(queue, t, to) :
       /\ run' = AfterKill(run, to, e.item)
       /\ queue' \in IF state[t] = "REVIEW" /\ to = "IN_PROGRESS"
                     THEN Enqueued(e.queue, t, to, FALSE) ELSE {e.queue}
  /\ UNCHANGED lease

-----------------------------------------------------------------------------
(* The dispatch loop: claimNext and dispatchItem up to its await           *)

\* A limit, a budget, a safety check or a gate refuses, or the task is in no
\* state to be dispatched, or another item holds its lease.
ClaimRefused(i) ==
  /\ queue[i].status = "queued" /\ queue[i].attempts <= MaxAttempts
  /\ queue' = Settle(Claimed(queue, i), i, "failed")
  /\ UNCHANGED <<state, lease, run>>

\* The deadline has passed: the task fails with its item, if it can.
ClaimAfterDeadline(i) ==
  LET t == TaskOf(i) IN
  /\ queue[i].status = "queued" /\ queue[i].attempts <= MaxAttempts
  /\ "FAILED" \in ValidNext[state[t]]
  /\ state' = [state EXCEPT ![t] = "FAILED"]
  /\ \E e \in AfterTransition(Settle(Claimed(queue, i), i, "failed"), t, "FAILED") :
       queue' = e.queue /\ run' = AfterKill(run, "FAILED", e.item)
  /\ UNCHANGED lease

MayDispatch(i) ==
  \/ state[TaskOf(i)] \in Dispatchable
  \/ queue[i].review /\ state[TaskOf(i)] = "REVIEW"

Claim(r, i) ==
  LET t == TaskOf(i) IN
  /\ run[r] = Idle
  /\ queue[i].status = "queued" /\ queue[i].attempts <= MaxAttempts
  /\ MayDispatch(i) /\ MayAcquire(t, i)
  /\ queue' = Claimed(queue, i)
  /\ lease' = [lease EXCEPT ![t] = [by |-> i, live |-> TRUE]]
  /\ run' = [run EXCEPT ![r] = [item |-> i, call |-> "waiting", agent |-> "none"]]
  /\ UNCHANGED state

-----------------------------------------------------------------------------
(* The executors, and dispatchItem after its await                         *)

Waiting(r, agents) ==
  run[r] # Idle /\ run[r].call = "waiting" /\ run[r].agent \in agents

\* The child process of the codex or claude-code executor, or the cron job.
Launch(r) ==
  /\ Waiting(r, {"none"})
  /\ \E a \in {"inline", "job"} : run' = [run EXCEPT ![r].agent = a]
  /\ UNCHANGED <<state, lease, queue>>

\* The job exists: the item is dispatched whatever has become of it.
DispatchReturns(r) ==
  /\ Waiting(r, {"job"})
  /\ queue' = Dispatched(queue, run[r].item)
  /\ run' = [run EXCEPT ![r].call = "returned"]
  /\ UNCHANGED <<state, lease>>

\* The executor is not ready: back to the queue, the attempt undone.
DispatchDefers(r) ==
  /\ Waiting(r, {"none"})
  /\ queue' = Requeued(queue, run[r].item, TRUE)
  /\ lease' = Released(run[r].item)
  /\ run' = [run EXCEPT ![r] = Idle]
  /\ UNCHANGED state

\* The executor fails, or an inline session dies or leaves nothing to show.
DispatchFails(r) ==
  /\ Waiting(r, {"none", "inline", "killed"})
  /\ queue' = Settle(queue, run[r].item, "failed")
  /\ lease' = Released(run[r].item)
  /\ run' = [run EXCEPT ![r] = Idle]
  /\ UNCHANGED state

\* An inline session that did nothing gets one more try after its first.
InlineNoop(r) ==
  /\ Waiting(r, {"inline"})
  /\ state[TaskOf(run[r].item)] \in Dispatchable
  /\ queue[run[r].item].attempts = 1
  /\ queue' = Requeued(queue, run[r].item, FALSE)
  /\ lease' = Released(run[r].item)
  /\ run' = [run EXCEPT ![r] = Idle]
  /\ UNCHANGED state

\* maybeFinalizeInlineTask moves an unfinished task to REVIEW, a recurring
\* one on to DONE; every lease on the task is released on the way.
InlineSubmits(r) ==
  LET i == run[r].item
      t == TaskOf(i)
  IN
  /\ Waiting(r, {"inline"})
  /\ state[t] \in Dispatchable
  /\ \E to \in {"REVIEW", "DONE"} :
     \E e \in AfterTransition(queue, t, "REVIEW") :
       /\ state' = [state EXCEPT ![t] = to]
       /\ \E f \in AfterTransition(e.queue, t, to) :
            queue' = Settle(Dispatched(f.queue, i), i, "completed")
  /\ lease' = [lease EXCEPT ![t] = Free]
  /\ run' = [run EXCEPT ![r] = Idle]

\* A gate refuses the finalization: the item fails, the task may have started.
InlineRefused(r) ==
  LET i == run[r].item
      t == TaskOf(i)
  IN
  /\ Waiting(r, {"inline"})
  /\ state[t] \in Dispatchable
  /\ state' \in {state, [state EXCEPT ![t] = "IN_PROGRESS"]}
  /\ queue' = Settle(queue, i, "failed")
  /\ lease' = [lease EXCEPT ![t] = Free]
  /\ run' = [run EXCEPT ![r] = Idle]

\* The session has moved its task itself.
InlineDone(r) ==
  /\ Waiting(r, {"inline"})
  /\ state[TaskOf(run[r].item)] \notin Dispatchable
  /\ queue' = Settle(Dispatched(queue, run[r].item), run[r].item, "completed")
  /\ lease' = Released(run[r].item)
  /\ run' = [run EXCEPT ![r] = Idle]
  /\ UNCHANGED state

-----------------------------------------------------------------------------
(* The hooks of an openclaw session                                        *)

Agent(r, a) == run[r] # Idle /\ run[r].agent = a

\* A run whose call is answered ends with its session.
Over(r) ==
  IF run[r].call = "returned" THEN [run EXCEPT ![r] = Idle]
  ELSE [run EXCEPT ![r].agent = "over"]

\* before_prompt_build: the job has become a session, which is tracked, and
\* which starts its task unless a lease is in the way: the worker's name is
\* never that of a lease holder.
JobStarts(r) ==
  LET t == TaskOf(run[r].item) IN
  /\ Agent(r, "job") /\ run[r].call = "returned"
  /\ run' = [run EXCEPT ![r].agent = "session"]
  /\ state' = [state EXCEPT ![t] =
       IF @ = "ASSIGNED" /\ ~Leased(t) THEN "IN_PROGRESS" ELSE @]
  /\ UNCHANGED <<lease, queue>>

\* The states agent_end leaves its task in: an unfinished task is submitted
\* or failed, stepping through IN_PROGRESS, and a gate may refuse each step.
Reported(s, blocked) ==
  IF s \notin Dispatchable THEN {s}
  ELSE {s, "FAILED"} \cup
       (IF s = "ASSIGNED" /\ blocked THEN {} ELSE {"IN_PROGRESS", "REVIEW"})

\* agent_end up to its await: its lease goes first.
SessionReports(r) ==
  LET i == run[r].item
      t == TaskOf(i)
  IN
  /\ Agent(r, "session")
  /\ lease' = Released(i)
  /\ \E to \in Reported(state[t], Leased(t) /\ lease[t].by # i) :
       /\ state' = [state EXCEPT ![t] = to]
       /\ \E e \in (IF to = state[t] THEN {[queue |-> queue, item |-> NoItem]}
                    ELSE AfterTransition(queue, t, to)) :
            /\ queue' = e.queue
            /\ run' = AfterKill([run EXCEPT ![r].agent = "settling"], to, e.item)

\* agent_end after its await: the item is settled by what the task is now.
SessionSettles(r) ==
  LET i == run[r].item IN
  /\ Agent(r, "settling")
  /\ queue' = Settle(queue, i, IF state[TaskOf(i)] \in Dispatchable
                               THEN "failed" ELSE "completed")
  /\ lease' = Released(i)
  /\ run' = Over(r)
  /\ UNCHANGED state

-----------------------------------------------------------------------------
(* Time                                                                    *)

ItemLeaseExpires(i) ==
  /\ queue[i].status = "leased" /\ queue[i].clock = "fresh" /\ ~Busy(i)
  /\ queue' = [queue EXCEPT ![i].clock = "stale"]
  /\ UNCHANGED <<state, lease, run>>

DispatchedAges(i) ==
  /\ queue[i].status = "dispatched" /\ queue[i].clock # "stale" /\ ~Tracked(i)
  /\ queue' = [queue EXCEPT ![i].clock = IF @ = "fresh" THEN "late" ELSE "stale"]
  /\ UNCHANGED <<state, lease, run>>

TaskLeaseExpires(t) ==
  /\ Leased(t) /\ ~Busy(lease[t].by)
  /\ lease' = [lease EXCEPT ![t].live = FALSE]
  /\ UNCHANGED <<state, queue, run>>

-----------------------------------------------------------------------------
(* Repairs                                                                 *)

\* Fault: the limit on attempts is off by one.
ReclaimOnceMore(i) ==
  /\ queue[i].clock = "stale"
  /\ queue' =
       IF queue[i].status = "leased" /\ queue[i].attempts <= MaxAttempts
       THEN Requeued(queue, i, FALSE) ELSE Settle(queue, i, "failed")
  /\ UNCHANGED <<state, lease, run>>

\* Fault: only leased items are reclaimed, an item that was dispatched stays.
ReclaimLeasedOnly(i) ==
  /\ queue[i].status = "leased" /\ queue[i].clock = "stale"
  /\ queue' = IF queue[i].attempts < MaxAttempts
              THEN Requeued(queue, i, FALSE) ELSE Settle(queue, i, "failed")
  /\ UNCHANGED <<state, lease, run>>

\* reclaimExpiredLeases, at the start of every dispatch loop and in the sweep.
ReclaimItem(i) ==
  /\ queue[i].clock = "stale"
  /\ queue' =
       IF queue[i].status = "leased" /\ queue[i].attempts < MaxAttempts
       THEN Requeued(queue, i, FALSE) ELSE Settle(queue, i, "failed")
  /\ UNCHANGED <<state, lease, run>>

\* Sweep 7.0.2: a cron job that misses its start, or whose item is settled,
\* is removed; an item that waits for it goes back to the queue.
SweepCronJob(r) ==
  LET i == run[r].item IN
  /\ Agent(r, "job") /\ run[r].call = "returned"
  /\ IF queue[i].status \in {"leased", "dispatched"}
       THEN /\ queue' = IF queue[i].attempts >= MaxAttempts
                        THEN Settle(queue, i, "failed")
                        ELSE Requeued(queue, i, FALSE)
            /\ lease' = Released(i)
       ELSE UNCHANGED <<queue, lease>>
  /\ run' = [run EXCEPT ![r] = Idle]
  /\ UNCHANGED state

\* Sweep 7.1: a dispatched item without a session after ten minutes fails and
\* its task is queued again.  7.0.2 has removed its job before.
SweepStaleDispatch(i) ==
  LET t == TaskOf(i) IN
  /\ queue[i].status = "dispatched" /\ queue[i].clock # "fresh" /\ ~Busy(i)
  /\ queue' \in Enqueued(Settle(queue, i, "failed"), t, state[t], FALSE)
  /\ lease' = Released(i)
  /\ UNCHANGED <<state, run>>

\* Fault: only the lease of a completed item counts as orphaned.
SweepCompletedLease(t) ==
  LET i == lease[t].by IN
  /\ state[t] = "ASSIGNED" /\ i # NoItem
  /\ queue[i].status = "completed" /\ ~Busy(i)
  /\ lease' = Released(i)
  /\ queue' \in Enqueued(queue, t, state[t], FALSE)
  /\ UNCHANGED <<state, run>>

\* Sweep 7.1.1: an ASSIGNED task leased to an item that is settled.
SweepOrphanLease(t) ==
  LET i == lease[t].by IN
  /\ state[t] = "ASSIGNED" /\ i # NoItem
  /\ queue[i].status \in Settled /\ ~Busy(i)
  /\ lease' = Released(i)
  /\ queue' \in Enqueued(queue, t, state[t], FALSE)
  /\ UNCHANGED <<state, run>>

\* releaseActiveItem: the operator requeues an item; nobody asks whether its
\* job or session is still there.
ReleaseActive(i) ==
  /\ queue[i].status \in {"leased", "dispatched"}
  /\ state[TaskOf(i)] \in Dispatchable
  /\ queue' = Requeued(queue, i, FALSE)
  /\ byHand' = [byHand EXCEPT ![TaskOf(i)] =
       IF Busy(i) \/ @ = "forced" THEN "forced" ELSE "requeued"]
  /\ UNCHANGED <<state, lease, run>>

\* The gateway dies with its sessions and recoverProject runs before anything
\* else: work in progress is handed back, and the items that are to fail are
\* those queued or dispatched that still carry a leased_at.
Restart ==
  /\ run' = [r \in Runs |-> Idle]
  /\ state' = [t \in Tasks |->
       IF state[t] = "IN_PROGRESS" THEN "ASSIGNED" ELSE state[t]]
  /\ lease' = [t \in Tasks |->
       IF state[t] = "IN_PROGRESS" \/ (state[t] = "ASSIGNED" /\ ~lease[t].live)
       THEN Free ELSE lease[t]]
  /\ queue' = [i \in Items |->
       IF queue[i].status \in {"queued", "dispatched"} /\ queue[i].leasedAt
       THEN [queue[i] EXCEPT !.status = "failed", !.clock = "fresh"]
       ELSE queue[i]]

-----------------------------------------------------------------------------

Dispatching ==
  \/ \E t \in Tasks : Enqueue(t) \/ EnqueueReview(t)
  \/ \E t \in Tasks, to \in TaskState : TaskTransition(t, to)
  \/ \E i \in Items : ClaimRefused(i) \/ ClaimAfterDeadline(i)
  \/ \E r \in Runs, i \in Items : Claim(r, i)
  \/ \E r \in Runs : \/ Launch(r) \/ DispatchReturns(r)
                     \/ DispatchDefers(r) \/ DispatchFails(r)
                     \/ InlineNoop(r) \/ InlineSubmits(r)
                     \/ InlineRefused(r) \/ InlineDone(r)
                     \/ JobStarts(r) \/ SessionReports(r) \/ SessionSettles(r)
                     \/ SweepCronJob(r)
  \/ \E i \in Items : \/ ItemLeaseExpires(i) \/ DispatchedAges(i)
                      \/ ReclaimItem(i) \/ SweepStaleDispatch(i)
  \/ \E t \in Tasks : TaskLeaseExpires(t) \/ SweepOrphanLease(t)
  \/ Restart

Next ==
  \/ Dispatching /\ UNCHANGED byHand
  \/ \E i \in Items : ReleaseActive(i)

Spec == Init /\ [][Next]_vars

\* Clocks run, the dispatch loop and the sweep run on timers, an executor
\* answers in the end and a session ends.
Fairness ==
  /\ \A i \in Items : /\ WF_rows(ItemLeaseExpires(i))
                      /\ WF_rows(DispatchedAges(i))
                      /\ WF_rows(ReclaimItem(i))
  /\ \A t \in Tasks : WF_rows(SweepOrphanLease(t))
  /\ \A r \in Runs : /\ WF_rows(Launch(r) \/ DispatchReturns(r)
                                \/ DispatchDefers(r) \/ DispatchFails(r)
                                \/ InlineSubmits(r) \/ InlineDone(r))
                     /\ WF_rows(JobStarts(r) \/ SweepCronJob(r))
                     /\ WF_rows(SessionReports(r) \/ SessionSettles(r))

FairSpec == Spec /\ Fairness

-----------------------------------------------------------------------------
(* Properties                                                              *)

Working == {"inline", "job", "session"}

\* The lease acquired by dispatchItem outlasts everything between it and the
\* end of the session: a task that moves on and comes back, settled and
\* revived items, sweeps and retries never take it from work under way,
\* unless an operator has requeued an item under its session.
LeaseGuardsWork ==
  \A r \in Runs :
    /\ run[r] # Idle /\ run[r].agent \in Working
    /\ byHand[TaskOf(run[r].item)] # "forced"
    => lease[TaskOf(run[r].item)] = [by |-> run[r].item, live |-> TRUE]

OnOneTask(r, s) ==
  /\ run[r] # Idle /\ run[r].agent \in Working
  /\ run[s] # Idle /\ run[s].agent \in Working
  /\ TaskOf(run[r].item) = TaskOf(run[s].item)

\* Claims race, items are requeued, revived and settled by others, jobs turn
\* into sessions late: no two sessions, or jobs that will become one, are
\* ever on one task, unless an operator has requeued an item under its
\* session.
OneSessionPerTask ==
  \A r, s \in Runs :
    r # s /\ OnOneTask(r, s) => byHand[TaskOf(run[r].item)] = "forced"

\* Whatever requeues an item (a missed cron job, an expired lease, an empty
\* session, a deferred executor), it is claimed at most MaxAttempts times,
\* except on the operator's word.
AttemptsWithinMax ==
  \A i \in Items : byHand[TaskOf(i)] = "never" => queue[i].attempts <= MaxAttempts

\* An item that is leased or dispatched does not stay so: not after a crash
\* at any point, nor when its job never starts.
ActiveItemSettles ==
  \A i \in Items :
    (queue[i].status \in {"leased", "dispatched"}) ~>
      (queue[i].status \notin {"leased", "dispatched"})

\* The lease of an item settled behind its session's back does not keep an
\* ASSIGNED task from being dispatched until the lease expires.
OrphanedLeaseFreed ==
  \A t \in Tasks, i \in Items :
    (/\ state[t] = "ASSIGNED" /\ lease[t].by = i
     /\ queue[i].status \in Settled) ~>
      (state[t] # "ASSIGNED" \/ lease[t].by # i \/ queue[i].status \in Active)

\* restart-recovery.ts: "Fails dispatch queue items stuck in dispatched state".
RestartClearsDispatched ==
  [][Restart => \A i \in Items : queue'[i].status # "dispatched"]_vars
=============================================================================
