------------------------ MODULE DispatchQueueProofs ------------------------
(***************************************************************************)
(* Proofs about DispatchQueue for any number of tasks, items and runs: its *)
(* types, the lease over work under way, the single session of a task and  *)
(* the limit on attempts.                                                  *)
(***************************************************************************)
EXTENDS DispatchQueue, TLAPS

-----------------------------------------------------------------------------
(* The invariant                                                           *)

Forced(i) == byHand[TaskOf(i)] = "forced"

\* From its claim to the end of its session a run works under the lease.
Holding == Working \cup {"none"}

\* LeaseGuardsWork, from the claim on: a job is only created after it.
LeaseHeld ==
  \A r \in Runs :
    run[r] # Idle /\ run[r].agent \in Holding /\ ~Forced(run[r].item)
    => /\ lease[TaskOf(run[r].item)].by = run[r].item
       /\ lease[TaskOf(run[r].item)].live

\* Two claims of an item overlap, and an item waits beside its own session,
\* only by an operator's hand.
OneRunPerItem ==
  \A r, s \in Runs :
    (run[r] # Idle /\ run[s] # Idle /\ run[r].item = run[s].item /\ r # s)
      => Forced(run[r].item)

WaitsAlone ==
  \A r \in Runs :
    run[r] # Idle /\ queue[run[r].item].status = "queued" => Forced(run[r].item)

\* The queue lease of a claimed item does not expire under its run.
StaleAlone ==
  \A r \in Runs :
    run[r] # Idle /\ queue[run[r].item].status = "leased"
      => queue[run[r].item].clock # "stale"

\* An item that waits has an attempt left.
AttemptLeft ==
  \A i \in Items :
    byHand[TaskOf(i)] = "never" =>
      /\ queue[i].attempts <= MaxAttempts
      /\ queue[i].status = "queued" => queue[i].attempts < MaxAttempts

IInv == /\ TypeOK
        /\ LeaseHeld /\ OneRunPerItem /\ WaitsAlone /\ StaleAlone
        /\ AttemptLeft

USE DEF TaskState, Dispatchable, Active, Settled, TaskOf, Forced

-----------------------------------------------------------------------------
(* Rows of the queue                                                       *)

\* The item is settled, revived or left alone, and keeps what a claim counts.
Same(x, y) ==
  /\ y \in Item /\ y.task = x.task /\ y.attempts = x.attempts
  /\ y.status \in {"queued", "leased"} => y = x

\* A forgotten item is used again.
New(i, y) ==
  y \in Item /\ y.status = "queued" /\ y.attempts = 0 /\ ~Busy(i)

Tame(q, p) == p \in [Items -> Item] /\ \A i \in Items : Same(q[i], p[i])
Wakes(q, p) ==
  p \in [Items -> Item] /\ \A i \in Items : Same(q[i], p[i]) \/ New(i, p[i])

Queues == [Items -> Item]

\* Tame changes follow each other, and an enqueue may follow them.
LEMMA TameTwice ==
  ASSUME NEW q, NEW p, NEW o, Tame(q, p)
  PROVE  (Tame(p, o) => Tame(q, o)) /\ (Wakes(p, o) => Wakes(q, o))
  BY DEF Tame, Wakes, Same, New

\* completeItem, failItem and cancelItem settle one row.
LEMMA SettleTame ==
  ASSUME NEW q \in Queues, NEW i \in Items, NEW s \in Settled
  PROVE  Tame(q, Settle(q, i, s))
<1>1. Settle(q, i, s) =
        [q EXCEPT ![i] = [q[i] EXCEPT !.status = s, !.leasedAt = FALSE,
                                      !.clock = "fresh"]]
  BY DEF Settle, Queues
<1>2. Same(q[i], [q[i] EXCEPT !.status = s, !.leasedAt = FALSE, !.clock = "fresh"])
  BY DEF Same, Item, Queues
<1>3. \A j \in Items : Same(q[j], q[j])
  BY DEF Same, Queues
<1>. QED
  BY <1>1, <1>2, <1>3 DEF Tame, Queues, Same

\* markDispatched revives what it finds, but makes nothing wait.
LEMMA DispatchedTame ==
  ASSUME NEW q \in Queues, NEW i \in Items
  PROVE  Tame(q, Dispatched(q, i))
<1>1. Dispatched(q, i) =
        [q EXCEPT ![i] = [q[i] EXCEPT !.status = "dispatched", !.leasedAt = FALSE,
                                      !.clock = "fresh"]]
  BY DEF Dispatched, Queues
<1>2. Same(q[i], [q[i] EXCEPT !.status = "dispatched", !.leasedAt = FALSE,
                              !.clock = "fresh"])
  BY DEF Same, Item, Queues
<1>3. \A j \in Items : Same(q[j], q[j])
  BY DEF Same, Queues
<1>. QED
  BY <1>1, <1>2, <1>3 DEF Tame, Queues, Same

\* A queue that does not change is tame.
LEMMA QueueTame ==
  ASSUME NEW q \in Queues
  PROVE  Tame(q, q)
  BY DEF Tame, Same, Queues

\* A transition cancels what waits and settles at most one item.
LEMMA TransitionTame ==
  ASSUME NEW q \in Queues, NEW t, NEW to, NEW e \in AfterTransition(q, t, to)
  PROVE  Tame(q, e.queue)
<1>1. CASE to \in Dispatchable
  BY <1>1, QueueTame DEF AfterTransition
<1>2. CASE to \notin Dispatchable
  <2>. DEFINE c == [i \in Items |->
                      IF q[i].task = t /\ q[i].status = "queued"
                      THEN [q[i] EXCEPT !.status = "cancelled"] ELSE q[i]]
              s == IF to \in {"FAILED", "CANCELLED"} THEN "failed" ELSE "completed"
  <2>1. Tame(q, c)
    <3>1. ASSUME NEW i \in Items
          PROVE  Same(q[i], c[i])
      <4>1. Same(q[i], [q[i] EXCEPT !.status = "cancelled"]) /\ Same(q[i], q[i])
        BY DEF Same, Item, Queues
      <4>. QED
        BY <4>1
    <3>2. c \in [Items -> Item]
      BY <3>1 DEF Same
    <3>. QED
      BY <3>1, <3>2 DEF Tame
  <2>2. c \in Queues
    BY <2>1 DEF Tame, Queues
  <2>3. AfterTransition(q, t, to) =
          IF Running(c, t) = {} THEN {[queue |-> c, item |-> NoItem]}
          ELSE {[queue |-> Settle(c, i, s), item |-> i] : i \in Running(c, t)}
    BY <1>2 DEF AfterTransition
  <2>4. s \in Settled
    OBVIOUS
  <2>. HIDE DEF c, s
  <2>5. \/ e.queue = c
        \/ \E i \in Items : e.queue = Settle(c, i, s)
    BY <2>3 DEF Running
  <2>. QED
    BY <2>1, <2>2, <2>4, <2>5, SettleTame, TameTwice
<1>. QED
  BY <1>1, <1>2

\* enqueue takes a forgotten item, if it takes one.
LEMMA EnqueuedWakes ==
  ASSUME NEW q \in Queues, NEW t \in Tasks, NEW s, NEW review \in BOOLEAN,
         NEW p \in Enqueued(q, t, s, review)
  PROVE  Wakes(q, p)
<1>1. Wakes(q, q)
  BY QueueTame DEF Tame, Wakes
<1>2. ASSUME NEW i \in Items, ~Busy(i),
             p = [q EXCEPT ![i] = [status |-> "queued", task |-> t, review |-> review,
                                   attempts |-> 0, leasedAt |-> FALSE,
                                   clock |-> "fresh"]]
      PROVE  Wakes(q, p)
  <2>1. /\ p[i] \in Item /\ p[i].status = "queued" /\ p[i].attempts = 0
        /\ p \in [Items -> Item]
    BY <1>2 DEF Queues, Item
  <2>2. New(i, p[i])
    BY <1>2, <2>1 DEF New
  <2>3. \A j \in Items \ {i} : p[j] = q[j] /\ Same(q[j], p[j])
    BY <1>2 DEF Queues, Same
  <2>. QED
    BY <2>1, <2>2, <2>3 DEF Wakes
<1>3. p = q \/ \E i \in Fresh(q) :
             p = [q EXCEPT ![i] = [status |-> "queued", task |-> t, review |-> review,
                                   attempts |-> 0, leasedAt |-> FALSE,
                                   clock |-> "fresh"]]
  BY DEF Enqueued
<1>. QED
  BY <1>1, <1>2, <1>3 DEF Fresh

-----------------------------------------------------------------------------
(* What a step owes to the invariant                                       *)

\* No run starts; one that goes on has its item, and had held its lease.
RunsStay ==
  /\ run' \in [Runs -> Call \cup {Idle}]
  /\ \A r \in Runs : run'[r] # Idle =>
       /\ run[r] # Idle /\ run'[r].item = run[r].item
       /\ run'[r].agent \in Holding => run[r].agent \in Holding

LeasesStay ==
  /\ lease' \in [Tasks -> [by : Items \cup {NoItem}, live : BOOLEAN]]
  /\ \A r \in Runs :
       run'[r] # Idle /\ run'[r].agent \in Holding /\ ~Forced(run[r].item)
       => lease'[TaskOf(run[r].item)] = lease[TaskOf(run[r].item)]

\* A row goes back to the queue, or its lease expires, when no run has it.
RowStays(i) ==
  /\ \A r \in Runs : run'[r] # Idle /\ run[r].item = i =>
       /\ queue'[i].task = queue[i].task
       /\ queue'[i].status = "queued" => queue[i].status = "queued" \/ Forced(i)
       /\ (queue'[i].status = "leased" /\ queue'[i].clock = "stale")
            => (queue[i].status = "leased" /\ queue[i].clock = "stale")
  /\ byHand[queue'[i].task] = "never" =>
       /\ queue'[i].attempts <= MaxAttempts
       /\ queue'[i].status = "queued" => queue'[i].attempts < MaxAttempts

RowsStay == queue' \in Queues /\ \A i \in Items : RowStays(i)

StatesStay == state' \in [Tasks -> TaskState] /\ byHand' = byHand

\* A step that starts no run, frees no lease at work and puts no row back under
\* its run keeps the invariant.
LEMMA StepKeeps ==
  ASSUME IInv, StatesStay, RunsStay, LeasesStay, RowsStay
  PROVE  IInv'
<1>. USE DEF IInv
<1>1. \A r \in Runs : run'[r] # Idle =>
        /\ run'[r].item \in Items /\ run'[r].item = run[r].item /\ run[r] # Idle
        /\ queue'[run'[r].item].task = queue[run[r].item].task
        /\ byHand' = byHand
  BY DEF RunsStay, RowsStay, RowStays, Call, StatesStay
<1>2. TypeOK'
  BY DEF TypeOK, StatesStay, RunsStay, LeasesStay, RowsStay, Queues
<1>3. LeaseHeld'
  BY <1>1 DEF LeaseHeld, LeasesStay, RunsStay
<1>4. OneRunPerItem'
  BY <1>1 DEF OneRunPerItem
<1>5. WaitsAlone'
  BY <1>1 DEF WaitsAlone, RowsStay, RowStays
<1>6. StaleAlone'
  BY <1>1 DEF StaleAlone, RowsStay, RowStays
<1>7. AttemptLeft'
  BY DEF AttemptLeft, RowsStay, RowStays, StatesStay
<1>. QED
  BY <1>2, <1>3, <1>4, <1>5, <1>6, <1>7

\* Settled, revived and new rows owe nothing more.
LEMMA WakesRows ==
  ASSUME IInv, RunsStay, Wakes(queue, queue')
  PROVE  RowsStay
<1>1. queue \in Queues /\ queue' \in Queues
  BY DEF IInv, TypeOK, Wakes, Queues
<1>2. SUFFICES ASSUME NEW i \in Items
               PROVE  RowStays(i)
  BY <1>1 DEF RowsStay
<1>3. CASE Same(queue[i], queue'[i])
  BY <1>3 DEF Same, RowStays, IInv, AttemptLeft
<1>4. CASE New(i, queue'[i])
  BY <1>4, MaxAttemptsAssumption DEF New, RowStays, Busy, IsOn, RunsStay
<1>. QED
  BY <1>3, <1>4 DEF Wakes

\* The same of rows that only settle or come back to life.
LEMMA TameRows ==
  ASSUME IInv, RunsStay, Tame(queue, queue')
  PROVE  RowsStay
  BY WakesRows DEF Tame, Wakes

\* A run that ends, or moves on without a new lease.
LEMMA OneRunStays ==
  ASSUME IInv, NEW r \in Runs,
         \/ run' = [run EXCEPT ![r] = Idle]
         \/ \E y \in Call : /\ run' = [run EXCEPT ![r] = y]
                            /\ run[r] # Idle /\ y.item = run[r].item
                            /\ y.agent \in Holding => run[r].agent \in Holding
  PROVE  RunsStay
  BY DEF IInv, TypeOK, RunsStay

\* The kill of a child process.
LEMMA KillStays ==
  ASSUME NEW runs \in [Runs -> Call \cup {Idle}], NEW to, NEW i
  PROVE  /\ AfterKill(runs, to, i) \in [Runs -> Call \cup {Idle}]
         /\ \A r \in Runs :
              /\ AfterKill(runs, to, i)[r] # Idle =>
                   /\ runs[r] # Idle /\ AfterKill(runs, to, i)[r].item = runs[r].item
                   /\ AfterKill(runs, to, i)[r].agent \in {runs[r].agent, "killed"}
<1>1. ASSUME NEW r \in Runs, runs[r] \in Call
      PROVE  LET y == [runs[r] EXCEPT !.agent = "killed"]
             IN y \in Call /\ y.item = runs[r].item /\ y.agent = "killed"
  BY <1>1 DEF Call
<1>2. ASSUME NEW r \in Runs
      PROVE  AfterKill(runs, to, i)[r] \in {runs[r], [runs[r] EXCEPT !.agent = "killed"]}
             /\ (AfterKill(runs, to, i)[r] # runs[r] => runs[r] # Idle)
  BY DEF AfterKill
<1>3. AfterKill(runs, to, i) = [r \in Runs |-> AfterKill(runs, to, i)[r]]
  BY DEF AfterKill
<1>. DEFINE k == AfterKill(runs, to, i)
<1>. HIDE DEF k
<1>4. ASSUME NEW r \in Runs
      PROVE  /\ k[r] \in Call \cup {Idle}
             /\ k[r] # Idle =>
                  /\ runs[r] # Idle /\ k[r].item = runs[r].item
                  /\ k[r].agent \in {runs[r].agent, "killed"}
  <2>1. k[r] = runs[r] \/ (runs[r] # Idle /\ k[r] = [runs[r] EXCEPT !.agent = "killed"])
    BY <1>2 DEF k
  <2>. QED
    BY <1>1, <2>1
<1>. QED
  BY <1>3, <1>4 DEF k

\* Leases that stay as they are.
LEMMA SameLeases ==
  ASSUME IInv, lease' = lease
  PROVE  LeasesStay
  BY DEF IInv, TypeOK, LeasesStay

\* Of the leases at work only the run's own is released with its item.
LEMMA ReleasedStays ==
  ASSUME IInv, NEW i \in Items, lease' = Released(i), RunsStay,
         \A s \in Runs : run[s] # Idle /\ run[s].item = i /\ ~Forced(i)
                           => run'[s] = Idle \/ run'[s].agent \notin Holding
  PROVE  LeasesStay
<1>1. lease' \in [Tasks -> [by : Items \cup {NoItem}, live : BOOLEAN]]
  BY DEF Released, IInv, TypeOK, Free
<1>2. ASSUME NEW r \in Runs, run'[r] # Idle, run'[r].agent \in Holding,
             ~Forced(run[r].item)
      PROVE  lease'[TaskOf(run[r].item)] = lease[TaskOf(run[r].item)]
  <2>1. /\ run[r] # Idle /\ run[r].agent \in Holding /\ run[r].item \in Items
        /\ run'[r].item = run[r].item
    BY <1>2 DEF RunsStay, IInv, TypeOK, Call
  <2>2. lease[TaskOf(run[r].item)].by = run[r].item
    BY <1>2, <2>1 DEF IInv, LeaseHeld
  <2>3. TaskOf(run[r].item) \in Tasks
    BY <2>1 DEF IInv, TypeOK, Item
  <2>4. run[r].item # i
    BY <1>2, <2>1
  <2>. QED
    BY <2>2, <2>3, <2>4 DEF Released
<1>. QED
  BY <1>1, <1>2 DEF LeasesStay

\* Runs that stay as they are.
LEMMA SameRuns ==
  ASSUME IInv, run' = run
  PROVE  RunsStay
  BY DEF IInv, TypeOK, RunsStay

\* A row of the queue that changes for a claim or goes back to the queue.
LEMMA OneRowStays ==
  ASSUME IInv, RunsStay, NEW i \in Items, NEW y \in Item,
         queue' = [queue EXCEPT ![i] = y], y.task = queue[i].task,
         byHand[y.task] = "never" =>
           /\ y.attempts <= MaxAttempts
           /\ y.status = "queued" => y.attempts < MaxAttempts,
         \A r \in Runs : (run'[r] # Idle /\ run[r].item = i /\ ~Forced(i)) =>
           y.status # "queued",
         \A r \in Runs : (run'[r] # Idle /\ run[r].item = i) =>
           ((y.status = "leased" /\ y.clock = "stale")
              => (queue[i].status = "leased" /\ queue[i].clock = "stale"))
  PROVE  RowsStay
<1>1. queue \in [Items -> Item] /\ queue'[i] = y /\ queue' \in [Items -> Item]
  BY DEF IInv, TypeOK
<1>2. ASSUME NEW j \in Items, j # i
      PROVE  RowStays(j)
  <2>1. queue'[j] = queue[j]
    BY <1>2
  <2>. QED
    BY <2>1 DEF RowStays, IInv, AttemptLeft
<1>3. RowStays(i)
  BY <1>1 DEF RowStays
<1>. QED
  BY <1>1, <1>2, <1>3 DEF RowsStay, Queues

\* releaseToQueued by the only run of the item, or when it has none.
LEMMA RequeueStays ==
  ASSUME IInv, RunsStay, NEW i \in Items, NEW undo \in BOOLEAN,
         queue' = Requeued(queue, i, undo),
         \A r \in Runs : run'[r] # Idle /\ run[r].item = i => Forced(i),
         undo \/ queue[i].attempts < MaxAttempts
  PROVE  RowsStay
<1>. DEFINE n == IF undo /\ queue[i].attempts > 0 THEN queue[i].attempts - 1
                 ELSE queue[i].attempts
            y == [queue[i] EXCEPT !.status = "queued", !.leasedAt = FALSE,
                                  !.clock = "fresh", !.attempts = n]
<1>1. queue[i] \in Item /\ queue \in [Items -> Item]
  BY DEF IInv, TypeOK
<1>2. queue[i].attempts \in Nat /\ n \in Nat
  BY <1>1 DEF Item
<1>3. byHand[queue[i].task] = "never" => n < MaxAttempts
  BY <1>2, MaxAttemptsAssumption DEF IInv, AttemptLeft
<1>4. queue' = [queue EXCEPT ![i] = y]
  BY <1>1 DEF Requeued
<1>. HIDE DEF n
<1>5. /\ y \in Item /\ y.task = queue[i].task /\ y.attempts = n
      /\ y.status = "queued" /\ y.clock = "fresh"
  BY <1>1, <1>2 DEF Item
<1>6. n <= MaxAttempts \/ byHand[queue[i].task] # "never"
  BY <1>2, <1>3, MaxAttemptsAssumption
<1>. HIDE DEF y
<1>7. byHand[y.task] = "never" =>
        /\ y.attempts <= MaxAttempts
        /\ y.status = "queued" => y.attempts < MaxAttempts
  BY <1>3, <1>5, <1>6
<1>8. \A r \in Runs : (run'[r] # Idle /\ run[r].item = i /\ ~Forced(i))
                       => y.status # "queued"
  OBVIOUS
<1>9. \A r \in Runs : (run'[r] # Idle /\ run[r].item = i) =>
        ((y.status = "leased" /\ y.clock = "stale")
           => (queue[i].status = "leased" /\ queue[i].clock = "stale"))
  BY <1>5
<1>. QED
  BY <1>4, <1>5, <1>7, <1>8, <1>9, OneRowStays

\* A claim that is refused counts as an attempt.
LEMMA RefusedRow ==
  ASSUME IInv, NEW i \in Items, queue[i].status = "queued"
  PROVE  LET q == Settle(Claimed(queue, i), i, "failed")
         IN /\ q \in Queues
            /\ \A j \in Items : j # i => q[j] = queue[j]
            /\ q[i].task = queue[i].task /\ q[i].status = "failed"
            /\ byHand[q[i].task] = "never" => q[i].attempts <= MaxAttempts
<1>1. queue[i] \in Item /\ queue \in [Items -> Item]
  BY DEF IInv, TypeOK
<1>. DEFINE n == queue[i].attempts + 1
            y == [queue[i] EXCEPT !.status = "failed", !.leasedAt = FALSE,
                                  !.clock = "fresh", !.attempts = n]
            q == Settle(Claimed(queue, i), i, "failed")
<1>2. q = [queue EXCEPT ![i] = y]
  BY <1>1 DEF Settle, Claimed
<1>3. n \in Nat /\ (byHand[queue[i].task] = "never" => n <= MaxAttempts)
  BY <1>1, MaxAttemptsAssumption DEF IInv, AttemptLeft, Item
<1>. HIDE DEF n
<1>4. y \in Item /\ y.task = queue[i].task /\ y.status = "failed" /\ y.attempts = n
  BY <1>1, <1>3 DEF Item
<1>. HIDE DEF y
<1>. HIDE DEF q
<1>5. q \in [Items -> Item] /\ q[i] = y /\ \A j \in Items : j # i => q[j] = queue[j]
  BY <1>1, <1>2, <1>4
<1>6. /\ q \in Queues
      /\ \A j \in Items : j # i => q[j] = queue[j]
      /\ q[i].task = queue[i].task /\ q[i].status = "failed"
      /\ byHand[q[i].task] = "never" => q[i].attempts <= MaxAttempts
  BY <1>3, <1>4, <1>5, <1>1 DEF Queues
<1>. QED
  BY <1>6 DEF q

\* A refused claim, and what its transition settles after it.
LEMMA RefusedStays ==
  ASSUME IInv, RunsStay, NEW i \in Items, queue[i].status = "queued",
         Tame(Settle(Claimed(queue, i), i, "failed"), queue')
  PROVE  RowsStay
<1>. DEFINE q == Settle(Claimed(queue, i), i, "failed")
<1>1. /\ q \in Queues
      /\ \A j \in Items : j # i => q[j] = queue[j]
      /\ q[i].task = queue[i].task /\ q[i].status = "failed"
      /\ byHand[q[i].task] = "never" => q[i].attempts <= MaxAttempts
  BY RefusedRow
<1>2. queue' \in Queues /\ \A j \in Items : Same(q[j], queue'[j])
  BY DEF Tame, Queues
<1>. HIDE DEF q
<1>3. RowStays(i)
  BY <1>1, <1>2 DEF Same, RowStays
<1>4. ASSUME NEW j \in Items, j # i
      PROVE  RowStays(j)
  <2>1. Same(queue[j], queue'[j])
    BY <1>1, <1>2, <1>4
  <2>. QED
    BY <2>1 DEF Same, RowStays, IInv, AttemptLeft
<1>. QED
  BY <1>2, <1>3, <1>4 DEF RowsStay

-----------------------------------------------------------------------------
(* The steps: work arrives                                                 *)

\* enqueue adds a row for no run.
LEMMA EnqueueKeeps ==
  ASSUME IInv, UNCHANGED <<state, lease, run, byHand>>,
         NEW t \in Tasks, NEW s, NEW review \in BOOLEAN,
         queue' \in Enqueued(queue, t, s, review)
  PROVE  IInv'
<1>1. Wakes(queue, queue')
  BY EnqueuedWakes DEF IInv, TypeOK, Queues
<1>2. RunsStay
  BY SameRuns
<1>3. LeasesStay
  BY SameLeases
<1>4. RowsStay
  BY <1>1, <1>2, WakesRows
<1>5. StatesStay
  BY DEF StatesStay, IInv, TypeOK
<1>. QED
  BY <1>2, <1>3, <1>4, <1>5, StepKeeps

\* A transition that kills the child process of an inline session.
LEMMA KilledRunsStay ==
  ASSUME IInv, NEW to, NEW i, run' = AfterKill(run, to, i)
  PROVE  RunsStay
<1>1. run \in [Runs -> Call \cup {Idle}]
  BY DEF IInv, TypeOK
<1>2. run' \in [Runs -> Call \cup {Idle}]
  BY <1>1, KillStays
<1>3. \A r \in Runs : run'[r] # Idle =>
        /\ run[r] # Idle /\ run'[r].item = run[r].item
        /\ run'[r].agent \in {run[r].agent, "killed"}
  BY <1>1, KillStays
<1>. QED
  BY <1>2, <1>3 DEF RunsStay, Holding, Working

\* transitionTask takes no lease and settles what it finds.
LEMMA TaskTransitionKeeps ==
  ASSUME IInv, UNCHANGED byHand, NEW t \in Tasks, NEW to \in TaskState,
         TaskTransition(t, to)
  PROVE  IInv'
<1>1. queue \in Queues /\ state \in [Tasks -> TaskState]
  BY DEF IInv, TypeOK, Queues
<1>2. PICK e \in AfterTransition(queue, t, to) :
        /\ run' = AfterKill(run, to, e.item)
        /\ queue' \in IF state[t] = "REVIEW" /\ to = "IN_PROGRESS"
                      THEN Enqueued(e.queue, t, to, FALSE) ELSE {e.queue}
  BY DEF TaskTransition
<1>3. Tame(queue, e.queue) /\ e.queue \in Queues
  BY <1>1, TransitionTame DEF Tame, Queues
<1>4. Wakes(e.queue, queue')
  <2>1. CASE queue' = e.queue
    BY <1>3, <2>1, QueueTame DEF Tame, Wakes
  <2>2. CASE queue' \in Enqueued(e.queue, t, to, FALSE)
    BY <1>3, <2>2, EnqueuedWakes
  <2>. QED
    BY <1>2, <2>1, <2>2
<1>5. Wakes(queue, queue')
  BY <1>3, <1>4, TameTwice
<1>6. RunsStay
  BY <1>2, KilledRunsStay
<1>7. RowsStay
  BY <1>5, <1>6, WakesRows
<1>8. LeasesStay
  BY SameLeases DEF TaskTransition
<1>9. StatesStay
  BY <1>1 DEF StatesStay, TaskTransition
<1>. QED
  BY <1>6, <1>7, <1>8, <1>9, StepKeeps

-----------------------------------------------------------------------------
(* The steps: the dispatch loop                                            *)

\* A refused claim fails its item.
LEMMA ClaimRefusedKeeps ==
  ASSUME IInv, UNCHANGED byHand, NEW i \in Items, ClaimRefused(i)
  PROVE  IInv'
<1>. DEFINE q == Settle(Claimed(queue, i), i, "failed")
<1>1. queue[i].status = "queued" /\ queue' = q
  BY DEF ClaimRefused
<1>2. q \in Queues
  BY <1>1, RefusedRow
<1>3. Tame(q, queue')
  <2>. HIDE DEF q
  <2>. QED
    BY <1>1, <1>2, QueueTame
<1>4. RunsStay
  BY SameRuns DEF ClaimRefused
<1>5. RowsStay
  BY <1>1, <1>3, <1>4, RefusedStays
<1>6. LeasesStay
  BY SameLeases DEF ClaimRefused
<1>7. StatesStay
  BY DEF StatesStay, ClaimRefused, IInv, TypeOK
<1>. QED
  BY <1>4, <1>5, <1>6, <1>7, StepKeeps

\* A claim after the deadline fails its item and its task.
LEMMA ClaimAfterDeadlineKeeps ==
  ASSUME IInv, UNCHANGED byHand, NEW i \in Items, ClaimAfterDeadline(i)
  PROVE  IInv'
<1>. DEFINE q == Settle(Claimed(queue, i), i, "failed")
            t == TaskOf(i)
<1>1. queue[i].status = "queued"
  BY DEF ClaimAfterDeadline
<1>2. PICK e \in AfterTransition(q, t, "FAILED") :
        queue' = e.queue /\ run' = AfterKill(run, "FAILED", e.item)
  BY DEF ClaimAfterDeadline
<1>3. q \in Queues
  BY <1>1, RefusedRow
<1>4. Tame(q, queue')
  <2>. HIDE DEF q, t
  <2>. QED
    BY <1>2, <1>3, TransitionTame
<1>5. RunsStay
  BY <1>2, KilledRunsStay
<1>6. RowsStay
  BY <1>1, <1>4, <1>5, RefusedStays
<1>7. LeasesStay
  BY SameLeases DEF ClaimAfterDeadline
<1>8. StatesStay
  BY DEF StatesStay, ClaimAfterDeadline, IInv, TypeOK
<1>. QED
  BY <1>5, <1>6, <1>7, <1>8, StepKeeps

\* dispatchItem takes the lease of its task, for no other run can hold it: an
\* item that waits is under no run, and a run works under its own item's lease.
LEMMA ClaimKeeps ==
  ASSUME IInv, UNCHANGED byHand, NEW r \in Runs, NEW i \in Items, Claim(r, i)
  PROVE  IInv'
<1>. DEFINE t == queue[i].task
            n == queue[i].attempts + 1
            y == [queue[i] EXCEPT !.status = "leased", !.leasedAt = TRUE,
                                  !.clock = "fresh", !.attempts = n]
            c == [item |-> i, call |-> "waiting", agent |-> "none"]
            l == [by |-> i, live |-> TRUE]
<1>1. /\ queue \in [Items -> Item] /\ run \in [Runs -> Call \cup {Idle}]
      /\ lease \in [Tasks -> [by : Items \cup {NoItem}, live : BOOLEAN]]
      /\ state \in [Tasks -> TaskState] /\ state' = state
      /\ byHand' = byHand /\ byHand \in [Tasks -> {"never", "requeued", "forced"}]
  BY DEF IInv, TypeOK, Claim
<1>2. /\ queue[i].status = "queued" /\ queue[i] \in Item /\ t \in Tasks
      /\ MayAcquire(t, i)
  BY <1>1 DEF Claim, Item
<1>3. n \in Nat /\ (byHand[t] = "never" => n <= MaxAttempts)
  BY <1>2, MaxAttemptsAssumption DEF IInv, AttemptLeft, Item
<1>4. queue' = [queue EXCEPT ![i] = y]
  BY <1>1 DEF Claim, Claimed
<1>. HIDE DEF n
<1>5. /\ y \in Item /\ y.task = t /\ y.status = "leased" /\ y.clock = "fresh"
      /\ y.attempts = n
  BY <1>2, <1>3 DEF Item
<1>. HIDE DEF y
<1>6. /\ queue' \in [Items -> Item] /\ queue'[i] = y
      /\ \A j \in Items : j # i => queue'[j] = queue[j]
      /\ \A j \in Items : queue'[j].task = queue[j].task
  BY <1>1, <1>4, <1>5
<1>7. c \in Call /\ c.item = i /\ l.by = i /\ l.live
      /\ l \in [by : Items \cup {NoItem}, live : BOOLEAN]
  BY DEF Call
<1>8. run' = [run EXCEPT ![r] = c] /\ lease' = [lease EXCEPT ![t] = l]
  BY DEF Claim
<1>. HIDE DEF c, l
<1>9. /\ run' \in [Runs -> Call \cup {Idle}] /\ run'[r] = c
      /\ \A s \in Runs \ {r} : run'[s] = run[s]
      /\ lease' \in [Tasks -> [by : Items \cup {NoItem}, live : BOOLEAN]]
      /\ lease'[t] = l /\ \A u \in Tasks \ {t} : lease'[u] = lease[u]
  BY <1>1, <1>2, <1>7, <1>8
<1>10. \A s \in Runs : run[s] # Idle => run[s].item \in Items
  BY <1>1 DEF Call
<1>11. \A s \in Runs : run[s] # Idle /\ run[s].item = i => byHand[t] = "forced"
  BY <1>2 DEF IInv, WaitsAlone
<1>12. TypeOK'
  BY <1>1, <1>6, <1>9 DEF TypeOK
<1>13. ASSUME NEW s \in Runs, run'[s] # Idle, run'[s].agent \in Holding,
              byHand[queue[run'[s].item].task] # "forced"
       PROVE  /\ lease'[queue[run'[s].item].task].by = run'[s].item
              /\ lease'[queue[run'[s].item].task].live
  <2>1. CASE s = r
    BY <1>7, <1>9, <2>1
  <2>2. CASE s # r
    <3>1. run'[s] = run[s] /\ run[s].item \in Items
      BY <1>9, <1>10, <1>13, <2>2
    <3>2. /\ lease[queue[run[s].item].task].by = run[s].item
          /\ lease[queue[run[s].item].task].live
      BY <1>13, <3>1 DEF IInv, LeaseHeld
    <3>3. queue[run[s].item].task \in Tasks
      BY <1>1, <3>1 DEF Item
    <3>4. CASE queue[run[s].item].task = t
      <4>1. run[s].item # NoItem
        BY <3>1, ItemsAssumption
      <4>2. run[s].item = i
        BY <1>2, <3>2, <3>4, <4>1 DEF MayAcquire, Leased
      <4>. QED
        BY <1>11, <1>13, <3>1, <4>2
    <3>5. CASE queue[run[s].item].task # t
      BY <1>9, <3>1, <3>2, <3>3, <3>5
    <3>. QED
      BY <3>4, <3>5
  <2>. QED
    BY <2>1, <2>2
<1>14. \A s \in Runs : run'[s] # Idle => run'[s].item \in Items
  BY <1>7, <1>9, <1>10
<1>15. LeaseHeld'
  BY <1>1, <1>6, <1>13, <1>14 DEF LeaseHeld
<1>16. OneRunPerItem'
  BY <1>1, <1>6, <1>7, <1>9, <1>11, <1>14 DEF OneRunPerItem, IInv
<1>17. ASSUME NEW s \in Runs, run'[s] # Idle
       PROVE  \/ queue'[run'[s].item] = y
              \/ run[s] = run'[s] /\ queue'[run'[s].item] = queue[run[s].item]
  <2>1. run'[s].item \in Items
    BY <1>14, <1>17
  <2>2. CASE s = r
    BY <1>6, <1>7, <1>9, <2>2
  <2>3. CASE s # r
    BY <1>6, <1>9, <2>1, <2>3
  <2>. QED
    BY <2>2, <2>3
<1>18. WaitsAlone'
  <2>. SUFFICES ASSUME NEW s \in Runs, run'[s] # Idle,
                       queue'[run'[s].item].status = "queued"
                PROVE  byHand'[queue'[run'[s].item].task] = "forced"
    BY DEF WaitsAlone
  <2>1. run[s] = run'[s] /\ queue'[run'[s].item] = queue[run[s].item]
    BY <1>5, <1>17
  <2>. QED
    BY <1>1, <2>1 DEF WaitsAlone, IInv
<1>19. StaleAlone'
  <2>. SUFFICES ASSUME NEW s \in Runs, run'[s] # Idle,
                       queue'[run'[s].item].status = "leased"
                PROVE  queue'[run'[s].item].clock # "stale"
    BY DEF StaleAlone
  <2>. QED
    BY <1>5, <1>17 DEF StaleAlone, IInv
<1>20. AttemptLeft'
  BY <1>1, <1>3, <1>5, <1>6 DEF AttemptLeft, IInv
<1>. QED
  BY <1>12, <1>15, <1>16, <1>18, <1>19, <1>20 DEF IInv

-----------------------------------------------------------------------------
(* The steps: executors                                                    *)

\* A child process or a cron job works under the lease of the claim.
LEMMA LaunchKeeps ==
  ASSUME IInv, UNCHANGED byHand, NEW r \in Runs, Launch(r)
  PROVE  IInv'
<1>1. PICK a \in {"inline", "job"} : run' = [run EXCEPT ![r].agent = a]
  BY DEF Launch
<1>2. run[r] \in Call /\ run[r] # Idle /\ run[r].agent = "none"
  BY DEF IInv, TypeOK, Launch, Waiting
<1>3. run' = [run EXCEPT ![r] = [run[r] EXCEPT !.agent = a]]
  BY <1>1
<1>4. /\ [run[r] EXCEPT !.agent = a] \in Call
      /\ [run[r] EXCEPT !.agent = a].item = run[r].item
  BY <1>2 DEF Call
<1>5. RunsStay
  BY <1>2, <1>3, <1>4, OneRunStays DEF Holding
<1>6. RowsStay
  BY <1>5, QueueTame, TameRows DEF Launch, IInv, TypeOK, Queues
<1>7. LeasesStay
  BY SameLeases DEF Launch
<1>8. StatesStay
  BY DEF StatesStay, Launch, IInv, TypeOK
<1>. QED
  BY <1>5, <1>6, <1>7, <1>8, StepKeeps

\* markDispatched revives the item under its job.
LEMMA DispatchReturnsKeeps ==
  ASSUME IInv, UNCHANGED byHand, NEW r \in Runs, DispatchReturns(r)
  PROVE  IInv'
<1>1. run[r] \in Call /\ run[r] # Idle /\ run[r].item \in Items
  BY DEF IInv, TypeOK, DispatchReturns, Waiting, Call
<1>2. run' = [run EXCEPT ![r] = [run[r] EXCEPT !.call = "returned"]]
  BY DEF DispatchReturns
<1>3. /\ [run[r] EXCEPT !.call = "returned"] \in Call
      /\ [run[r] EXCEPT !.call = "returned"].item = run[r].item
      /\ [run[r] EXCEPT !.call = "returned"].agent = run[r].agent
  BY <1>1 DEF Call
<1>4. RunsStay
  BY <1>1, <1>2, <1>3, OneRunStays
<1>5. Tame(queue, queue')
  BY <1>1, DispatchedTame DEF DispatchReturns, IInv, TypeOK, Queues
<1>6. RowsStay
  BY <1>4, <1>5, TameRows
<1>7. LeasesStay
  BY SameLeases DEF DispatchReturns
<1>8. StatesStay
  BY DEF StatesStay, DispatchReturns, IInv, TypeOK
<1>. QED
  BY <1>4, <1>6, <1>7, <1>8, StepKeeps

\* A run that ends leaves its item to no other, except by the operator's hand.
LEMMA LastRun ==
  ASSUME IInv, NEW r \in Runs, run[r] # Idle,
         run' = [run EXCEPT ![r] = Idle]
  PROVE  /\ run[r].item \in Items
         /\ RunsStay
         /\ \A s \in Runs : run'[s] # Idle /\ run[s].item = run[r].item
                              => Forced(run[r].item)
<1>1. run \in [Runs -> Call \cup {Idle}]
  BY DEF IInv, TypeOK
<1>2. run[r].item \in Items
  BY <1>1 DEF Call
<1>3. RunsStay
  BY OneRunStays
<1>4. ASSUME NEW s \in Runs, run'[s] # Idle, run[s].item = run[r].item
      PROVE  Forced(run[r].item)
  BY <1>1, <1>4 DEF IInv, OneRunPerItem
<1>. QED
  BY <1>2, <1>3, <1>4

\* A run that ends and releases the lease of its item.
LEMMA EndKeeps ==
  ASSUME IInv, UNCHANGED <<state, byHand>>, NEW r \in Runs, run[r] # Idle,
         run' = [run EXCEPT ![r] = Idle], lease' = Released(run[r].item),
         RowsStay
  PROVE  IInv'
<1>1. /\ run[r].item \in Items /\ RunsStay
      /\ \A s \in Runs : run'[s] # Idle /\ run[s].item = run[r].item
                           => Forced(run[r].item)
  BY LastRun
<1>2. \A s \in Runs : run[s] # Idle /\ run[s].item = run[r].item
                        /\ ~Forced(run[r].item)
                        => run'[s] = Idle \/ run'[s].agent \notin Holding
  BY <1>1
<1>3. LeasesStay
  BY <1>1, <1>2, ReleasedStays
<1>4. StatesStay
  BY DEF StatesStay, IInv, TypeOK
<1>. QED
  BY <1>1, <1>3, <1>4, StepKeeps

\* An executor that is not ready gives its attempt back.
LEMMA DispatchDefersKeeps ==
  ASSUME IInv, UNCHANGED byHand, NEW r \in Runs, DispatchDefers(r)
  PROVE  IInv'
<1>1. /\ run[r] # Idle /\ run' = [run EXCEPT ![r] = Idle] /\ state' = state
      /\ lease' = Released(run[r].item)
      /\ queue' = Requeued(queue, run[r].item, TRUE)
  BY DEF DispatchDefers, Waiting
<1>2. /\ run[r].item \in Items /\ RunsStay
      /\ \A s \in Runs : run'[s] # Idle /\ run[s].item = run[r].item
                           => Forced(run[r].item)
  BY <1>1, LastRun
<1>3. RowsStay
  BY <1>1, <1>2, RequeueStays
<1>. QED
  BY <1>1, <1>3, EndKeeps

\* The second try of an empty inline session is within the maximum.
LEMMA InlineNoopKeeps ==
  ASSUME IInv, UNCHANGED byHand, NEW r \in Runs, InlineNoop(r)
  PROVE  IInv'
<1>1. /\ run[r] # Idle /\ run' = [run EXCEPT ![r] = Idle] /\ state' = state
      /\ lease' = Released(run[r].item)
      /\ queue' = Requeued(queue, run[r].item, FALSE)
      /\ queue[run[r].item].attempts = 1
  BY DEF InlineNoop, Waiting
<1>2. /\ run[r].item \in Items /\ RunsStay
      /\ \A s \in Runs : run'[s] # Idle /\ run[s].item = run[r].item
                           => Forced(run[r].item)
  BY <1>1, LastRun
<1>3. queue[run[r].item].attempts < MaxAttempts
  BY <1>1, MaxAttemptsAssumption
<1>4. RowsStay
  BY <1>1, <1>2, <1>3, RequeueStays
<1>. QED
  BY <1>1, <1>4, EndKeeps

\* A dispatch that fails settles its item.
LEMMA DispatchFailsKeeps ==
  ASSUME IInv, UNCHANGED byHand, NEW r \in Runs, DispatchFails(r)
  PROVE  IInv'
<1>1. /\ run[r] # Idle /\ run' = [run EXCEPT ![r] = Idle] /\ state' = state
      /\ lease' = Released(run[r].item)
      /\ queue' = Settle(queue, run[r].item, "failed")
  BY DEF DispatchFails, Waiting
<1>2. run[r].item \in Items /\ RunsStay
  BY <1>1, LastRun
<1>3. RowsStay
  BY <1>1, <1>2, SettleTame, TameRows DEF IInv, TypeOK, Queues
<1>. QED
  BY <1>1, <1>3, EndKeeps

\* So does one whose session has moved the task.
LEMMA InlineDoneKeeps ==
  ASSUME IInv, UNCHANGED byHand, NEW r \in Runs, InlineDone(r)
  PROVE  IInv'
<1>1. /\ run[r] # Idle /\ run' = [run EXCEPT ![r] = Idle] /\ state' = state
      /\ lease' = Released(run[r].item)
      /\ queue' = Settle(Dispatched(queue, run[r].item), run[r].item, "completed")
  BY DEF InlineDone, Waiting
<1>2. run[r].item \in Items /\ RunsStay /\ queue \in Queues
  BY <1>1, LastRun DEF IInv, TypeOK, Queues
<1>. DEFINE d == Dispatched(queue, run[r].item)
<1>3. Tame(queue, d) /\ d \in Queues
  BY <1>2, DispatchedTame DEF Tame, Queues
<1>4. queue' = Settle(d, run[r].item, "completed")
  BY <1>1
<1>. HIDE DEF d
<1>5. Tame(queue, queue')
  BY <1>2, <1>3, <1>4, SettleTame, TameTwice
<1>6. RowsStay
  BY <1>2, <1>5, TameRows
<1>. QED
  BY <1>1, <1>6, EndKeeps

\* No other session works under a lease that the end of an inline session
\* frees, so that it may free the lease of its task whoever holds it.
LEMMA FreedKeeps ==
  ASSUME IInv, UNCHANGED byHand, NEW r \in Runs, Waiting(r, {"inline"}),
         state' \in [Tasks -> TaskState], Tame(queue, queue'),
         run' = [run EXCEPT ![r] = Idle],
         lease' = [lease EXCEPT ![queue[run[r].item].task] = Free]
  PROVE  IInv'
<1>. DEFINE t == queue[run[r].item].task
<1>1. /\ run[r] # Idle /\ run[r].agent \in Holding
      /\ lease \in [Tasks -> [by : Items \cup {NoItem}, live : BOOLEAN]]
      /\ run \in [Runs -> Call \cup {Idle}] /\ queue \in [Items -> Item]
  BY DEF Waiting, Holding, Working, IInv, TypeOK
<1>2. run[r].item \in Items /\ RunsStay
  BY <1>1, LastRun
<1>3. lease' \in [Tasks -> [by : Items \cup {NoItem}, live : BOOLEAN]]
  BY <1>1 DEF Free
<1>4. ASSUME NEW s \in Runs, run'[s] # Idle, run'[s].agent \in Holding,
             ~Forced(run[s].item)
      PROVE  lease'[TaskOf(run[s].item)] = lease[TaskOf(run[s].item)]
  <2>1. s # r /\ run[s] = run'[s] /\ run[s].item \in Items
    BY <1>1, <1>4 DEF Call
  <2>2. CASE TaskOf(run[s].item) = t
    <3>1. lease[t].by = run[s].item
      BY <1>4, <2>1, <2>2 DEF IInv, LeaseHeld
    <3>2. lease[t].by = run[r].item
      BY <1>1, <1>4, <2>2 DEF IInv, LeaseHeld
    <3>. QED
      BY <1>1, <1>4, <2>1, <3>1, <3>2 DEF IInv, OneRunPerItem
  <2>3. CASE TaskOf(run[s].item) # t
    BY <1>1, <2>1, <2>3 DEF Item
  <2>. QED
    BY <2>2, <2>3
<1>5. LeasesStay
  BY <1>3, <1>4 DEF LeasesStay
<1>6. RowsStay
  BY <1>2, TameRows
<1>7. StatesStay
  BY DEF StatesStay
<1>. QED
  BY <1>2, <1>5, <1>6, <1>7, StepKeeps

\* An inline session's task is submitted and its item completed.
LEMMA InlineSubmitsKeeps ==
  ASSUME IInv, UNCHANGED byHand, NEW r \in Runs, InlineSubmits(r)
  PROVE  IInv'
<1>. DEFINE i == run[r].item
            t == queue[i].task
<1>1. /\ Waiting(r, {"inline"}) /\ run' = [run EXCEPT ![r] = Idle]
      /\ lease' = [lease EXCEPT ![t] = Free]
  BY DEF InlineSubmits
<1>2. i \in Items /\ queue \in Queues /\ state \in [Tasks -> TaskState]
  BY <1>1 DEF Waiting, IInv, TypeOK, Call, Queues
<1>3. PICK to \in {"REVIEW", "DONE"} :
        \E e \in AfterTransition(queue, t, "REVIEW") :
          /\ state' = [state EXCEPT ![t] = to]
          /\ \E f \in AfterTransition(e.queue, t, to) :
               queue' = Settle(Dispatched(f.queue, i), i, "completed")
  BY DEF InlineSubmits
<1>4. PICK e \in AfterTransition(queue, t, "REVIEW") :
          /\ state' = [state EXCEPT ![t] = to]
          /\ \E f \in AfterTransition(e.queue, t, to) :
               queue' = Settle(Dispatched(f.queue, i), i, "completed")
  BY <1>3
<1>5. PICK f \in AfterTransition(e.queue, t, to) :
          queue' = Settle(Dispatched(f.queue, i), i, "completed")
  BY <1>4
<1>6. state' \in [Tasks -> TaskState]
  BY <1>2, <1>4
<1>7. Tame(queue, e.queue) /\ e.queue \in Queues
  BY <1>2, TransitionTame DEF Tame, Queues
<1>8. Tame(queue, f.queue) /\ f.queue \in Queues
  BY <1>7, TransitionTame, TameTwice DEF Tame, Queues
<1>. DEFINE d == Dispatched(f.queue, i)
<1>9. Tame(f.queue, d) /\ d \in Queues
  BY <1>2, <1>8, DispatchedTame DEF Tame, Queues
<1>10. queue' = Settle(d, i, "completed")
  BY <1>5
<1>. HIDE DEF d, i, t
<1>11. Tame(d, queue')
  BY <1>2, <1>9, <1>10, SettleTame
<1>12. Tame(queue, queue')
  BY <1>8, <1>9, <1>11, TameTwice
<1>. USE DEF i, t
<1>. QED
  BY <1>1, <1>6, <1>12, FreedKeeps

\* A gate refuses: the item fails.
LEMMA InlineRefusedKeeps ==
  ASSUME IInv, UNCHANGED byHand, NEW r \in Runs, InlineRefused(r)
  PROVE  IInv'
<1>1. /\ Waiting(r, {"inline"}) /\ run' = [run EXCEPT ![r] = Idle]
      /\ lease' = [lease EXCEPT ![queue[run[r].item].task] = Free]
      /\ queue' = Settle(queue, run[r].item, "failed")
      /\ state' \in {state, [state EXCEPT ![queue[run[r].item].task] = "IN_PROGRESS"]}
  BY DEF InlineRefused
<1>2. /\ run[r].item \in Items /\ queue \in Queues
      /\ state \in [Tasks -> TaskState]
  BY <1>1 DEF Waiting, IInv, TypeOK, Call, Queues
<1>3. state' \in [Tasks -> TaskState]
  BY <1>1, <1>2
<1>4. Tame(queue, queue')
  BY <1>1, <1>2, SettleTame
<1>. QED
  BY <1>1, <1>3, <1>4, FreedKeeps

-----------------------------------------------------------------------------
(* The steps: sessions                                                     *)

\* The lease over a job is the one over its session.
LEMMA JobStartsKeeps ==
  ASSUME IInv, UNCHANGED byHand, NEW r \in Runs, JobStarts(r)
  PROVE  IInv'
<1>1. run[r] \in Call /\ run[r] # Idle /\ run[r].agent = "job"
  BY DEF IInv, TypeOK, JobStarts, Agent
<1>2. run' = [run EXCEPT ![r] = [run[r] EXCEPT !.agent = "session"]]
  BY DEF JobStarts
<1>3. /\ [run[r] EXCEPT !.agent = "session"] \in Call
      /\ [run[r] EXCEPT !.agent = "session"].item = run[r].item
  BY <1>1 DEF Call
<1>4. RunsStay
  BY <1>1, <1>2, <1>3, OneRunStays DEF Holding, Working
<1>5. RowsStay
  BY <1>4, QueueTame, TameRows DEF JobStarts, IInv, TypeOK, Queues
<1>6. LeasesStay
  BY SameLeases DEF JobStarts
<1>. DEFINE t == TaskOf(run[r].item)
            s == IF state[t] = "ASSIGNED" /\ ~Leased(t) THEN "IN_PROGRESS"
                 ELSE state[t]
<1>7. t \in Tasks /\ state \in [Tasks -> TaskState]
  BY <1>1 DEF IInv, TypeOK, Call, Item
<1>8. state' = [state EXCEPT ![t] = s] /\ s \in TaskState /\ byHand' = byHand
  BY <1>7 DEF JobStarts
<1>9. StatesStay
  BY <1>7, <1>8 DEF StatesStay
<1>. QED
  BY <1>4, <1>5, <1>6, <1>9, StepKeeps

\* A run that reports has nothing left to hold.
LEMMA SessionReportsKeeps ==
  ASSUME IInv, UNCHANGED byHand, NEW r \in Runs, SessionReports(r)
  PROVE  IInv'
<1>. DEFINE i == run[r].item
            t == queue[i].task
            k == [run EXCEPT ![r] = [run[r] EXCEPT !.agent = "settling"]]
<1>1. /\ run[r] \in Call /\ run[r] # Idle /\ lease' = Released(i)
      /\ run \in [Runs -> Call \cup {Idle}]
  BY DEF IInv, TypeOK, SessionReports, Agent
<1>2. i \in Items /\ t \in Tasks /\ state \in [Tasks -> TaskState] /\ queue \in Queues
  BY <1>1 DEF IInv, TypeOK, Call, Item, Queues
<1>3. PICK to \in Reported(state[t], Leased(t) /\ lease[t].by # i) :
        /\ state' = [state EXCEPT ![t] = to]
        /\ \E e \in (IF to = state[t] THEN {[queue |-> queue, item |-> NoItem]}
                     ELSE AfterTransition(queue, t, to)) :
             queue' = e.queue /\ run' = AfterKill(k, to, e.item)
  BY DEF SessionReports
<1>4. PICK e \in (IF to = state[t] THEN {[queue |-> queue, item |-> NoItem]}
                  ELSE AfterTransition(queue, t, to)) :
        queue' = e.queue /\ run' = AfterKill(k, to, e.item)
  BY <1>3
<1>5. /\ [run[r] EXCEPT !.agent = "settling"] \in Call
      /\ [run[r] EXCEPT !.agent = "settling"].item = i
      /\ [run[r] EXCEPT !.agent = "settling"].agent = "settling"
  BY <1>1 DEF Call
<1>6. /\ k \in [Runs -> Call \cup {Idle}] /\ k[r].agent = "settling" /\ k[r].item = i
      /\ k[r] # Idle => run[r] # Idle
      /\ \A s \in Runs \ {r} : k[s] = run[s]
  BY <1>1, <1>5
<1>. HIDE DEF k
<1>7. run' \in [Runs -> Call \cup {Idle}]
  BY <1>4, <1>6, KillStays
<1>8. \A s \in Runs : run'[s] # Idle =>
        /\ k[s] # Idle /\ run'[s].item = k[s].item
        /\ run'[s].agent \in {k[s].agent, "killed"}
  BY <1>4, <1>6, KillStays
<1>9. RunsStay
  BY <1>1, <1>6, <1>7, <1>8 DEF RunsStay, Holding, Working
<1>10. Tame(queue, queue')
  BY <1>2, <1>4, QueueTame, TransitionTame
<1>11. RowsStay
  BY <1>9, <1>10, TameRows
<1>12. \A s \in Runs : run[s] # Idle /\ run[s].item = i /\ ~Forced(i)
                         => run'[s] = Idle \/ run'[s].agent \notin Holding
  BY <1>1, <1>6, <1>8 DEF IInv, OneRunPerItem, Holding, Working
<1>13. LeasesStay
  BY <1>1, <1>2, <1>9, <1>12, ReleasedStays
<1>14. to \in TaskState
  BY <1>2, <1>3 DEF Reported
<1>15. StatesStay
  BY <1>2, <1>3, <1>14 DEF StatesStay
<1>. QED
  BY <1>9, <1>11, <1>13, <1>15, StepKeeps

\* The end of agent_end settles the item.
LEMMA SessionSettlesKeeps ==
  ASSUME IInv, UNCHANGED byHand, NEW r \in Runs, SessionSettles(r)
  PROVE  IInv'
<1>. DEFINE i == run[r].item
            s == IF state[TaskOf(i)] \in Dispatchable THEN "failed" ELSE "completed"
<1>1. /\ run[r] \in Call /\ run[r] # Idle /\ run[r].agent = "settling"
      /\ run \in [Runs -> Call \cup {Idle}] /\ i \in Items /\ queue \in Queues
  BY DEF IInv, TypeOK, SessionSettles, Agent, Call, Queues
<1>2. /\ [run[r] EXCEPT !.agent = "over"] \in Call
      /\ [run[r] EXCEPT !.agent = "over"].item = i
      /\ [run[r] EXCEPT !.agent = "over"].agent = "over"
  BY <1>1 DEF Call
<1>3. \/ run' = [run EXCEPT ![r] = Idle]
      \/ run' = [run EXCEPT ![r] = [run[r] EXCEPT !.agent = "over"]]
  BY DEF SessionSettles, Over
<1>4. "over" \notin Holding
  BY DEF Holding, Working
<1>5. RunsStay
  <2>1. CASE run' = [run EXCEPT ![r] = Idle]
    BY <2>1, OneRunStays
  <2>2. CASE run' = [run EXCEPT ![r] = [run[r] EXCEPT !.agent = "over"]]
    BY <1>1, <1>2, <1>4, <2>2, OneRunStays
  <2>. QED
    BY <1>3, <2>1, <2>2
<1>6. queue' = Settle(queue, i, s) /\ s \in Settled
  BY DEF SessionSettles
<1>. HIDE DEF s
<1>7. RowsStay
  BY <1>1, <1>5, <1>6, SettleTame, TameRows
<1>8. run'[r] = Idle \/ run'[r].agent \notin Holding
  BY <1>1, <1>2, <1>3, <1>4
<1>9. \A u \in Runs : run[u] # Idle /\ run[u].item = i /\ ~Forced(i)
                        => run'[u] = Idle \/ run'[u].agent \notin Holding
  BY <1>1, <1>8 DEF IInv, OneRunPerItem
<1>10. LeasesStay
  BY <1>1, <1>5, <1>9, ReleasedStays DEF SessionSettles
<1>11. StatesStay
  BY DEF StatesStay, SessionSettles, IInv, TypeOK
<1>. QED
  BY <1>5, <1>7, <1>10, <1>11, StepKeeps

-----------------------------------------------------------------------------
(* The steps: time                                                         *)

\* A row in which only the clock goes on.
LEMMA ClockStays ==
  ASSUME IInv, UNCHANGED <<state, lease, run, byHand>>, NEW i \in Items,
         NEW c \in {"fresh", "late", "stale"},
         queue' = [queue EXCEPT ![i].clock = c],
         queue[i].status = "dispatched" \/ (queue[i].status = "leased" /\ ~Busy(i))
  PROVE  IInv'
<1>. DEFINE y == [queue[i] EXCEPT !.clock = c]
<1>1. queue[i] \in Item /\ queue' = [queue EXCEPT ![i] = y]
  BY DEF IInv, TypeOK
<1>2. /\ y \in Item /\ y.task = queue[i].task /\ y.attempts = queue[i].attempts
      /\ y.status = queue[i].status
  BY <1>1 DEF Item
<1>. HIDE DEF y
<1>3. RunsStay
  BY SameRuns
<1>4. byHand[y.task] = "never" =>
        /\ y.attempts <= MaxAttempts
        /\ y.status = "queued" => y.attempts < MaxAttempts
  BY <1>2 DEF IInv, AttemptLeft
<1>5. \A r \in Runs : (run'[r] # Idle /\ run[r].item = i /\ ~Forced(i))
                        => y.status # "queued"
  BY <1>2
<1>6. \A r \in Runs : (run'[r] # Idle /\ run[r].item = i) =>
        ((y.status = "leased" /\ y.clock = "stale")
           => (queue[i].status = "leased" /\ queue[i].clock = "stale"))
  BY <1>2 DEF Busy, IsOn
<1>7. RowsStay
  BY <1>1, <1>2, <1>3, <1>4, <1>5, <1>6, OneRowStays
<1>8. LeasesStay
  BY SameLeases
<1>9. StatesStay
  BY DEF StatesStay, IInv, TypeOK
<1>. QED
  BY <1>3, <1>7, <1>8, <1>9, StepKeeps

\* The lease of an item runs out, or a dispatched one ages.
LEMMA ItemAgesKeeps ==
  ASSUME IInv, UNCHANGED byHand, NEW i \in Items,
         ItemLeaseExpires(i) \/ DispatchedAges(i)
  PROVE  IInv'
<1>1. CASE ItemLeaseExpires(i)
  BY <1>1, ClockStays DEF ItemLeaseExpires
<1>2. CASE DispatchedAges(i)
  <2>. DEFINE c == IF queue[i].clock = "fresh" THEN "late" ELSE "stale"
  <2>1. queue' = [queue EXCEPT ![i].clock = c] /\ c \in {"fresh", "late", "stale"}
    BY <1>2 DEF DispatchedAges
  <2>. HIDE DEF c
  <2>. QED
    BY <1>2, <2>1, ClockStays DEF DispatchedAges
<1>. QED
  BY <1>1, <1>2

\* No task lease runs out under a run of its item.
LEMMA TaskLeaseExpiresKeeps ==
  ASSUME IInv, UNCHANGED byHand, NEW t \in Tasks, TaskLeaseExpires(t)
  PROVE  IInv'
<1>1. /\ lease \in [Tasks -> [by : Items \cup {NoItem}, live : BOOLEAN]]
      /\ run \in [Runs -> Call \cup {Idle}] /\ queue \in [Items -> Item]
      /\ lease' = [lease EXCEPT ![t] = [lease[t] EXCEPT !.live = FALSE]]
      /\ run' = run /\ queue' = queue /\ state' = state /\ ~Busy(lease[t].by)
  BY DEF TaskLeaseExpires, IInv, TypeOK
<1>2. [lease[t] EXCEPT !.live = FALSE] \in [by : Items \cup {NoItem}, live : BOOLEAN]
  BY <1>1
<1>3. lease' \in [Tasks -> [by : Items \cup {NoItem}, live : BOOLEAN]]
  BY <1>1, <1>2
<1>4. ASSUME NEW r \in Runs, run'[r] # Idle, run'[r].agent \in Holding,
             ~Forced(run[r].item)
      PROVE  lease'[TaskOf(run[r].item)] = lease[TaskOf(run[r].item)]
  <2>1. lease[TaskOf(run[r].item)].by = run[r].item
    BY <1>1, <1>4 DEF IInv, LeaseHeld
  <2>2. TaskOf(run[r].item) # t
    BY <1>1, <1>4, <2>1 DEF Busy, IsOn
  <2>. QED
    BY <1>1, <1>4, <2>2 DEF Call, Item
<1>5. LeasesStay
  BY <1>3, <1>4 DEF LeasesStay
<1>6. RunsStay
  BY <1>1, SameRuns
<1>7. RowsStay
  BY <1>1, <1>6, QueueTame, TameRows DEF Queues
<1>8. StatesStay
  BY <1>1 DEF StatesStay, IInv, TypeOK
<1>. QED
  BY <1>5, <1>6, <1>7, <1>8, StepKeeps

-----------------------------------------------------------------------------
(* The steps: repairs                                                      *)

\* Only an item that no run works on is reclaimed into the queue.
LEMMA ReclaimItemKeeps ==
  ASSUME IInv, UNCHANGED byHand, NEW i \in Items, ReclaimItem(i)
  PROVE  IInv'
<1>1. RunsStay /\ LeasesStay /\ StatesStay /\ queue \in Queues /\ run' = run
  BY SameRuns, SameLeases DEF ReclaimItem, StatesStay, IInv, TypeOK, Queues
<1>2. RowsStay
  <2>1. CASE queue' = Settle(queue, i, "failed")
    BY <1>1, <2>1, SettleTame, TameRows
  <2>2. CASE /\ queue[i].status = "leased" /\ queue[i].attempts < MaxAttempts
             /\ queue' = Requeued(queue, i, FALSE)
    <3>1. \A r \in Runs : run'[r] # Idle /\ run[r].item = i => Forced(i)
      BY <1>1, <2>2 DEF ReclaimItem, IInv, StaleAlone
    <3>. QED
      BY <1>1, <2>2, <3>1, RequeueStays
  <2>. QED
    BY <2>1, <2>2 DEF ReclaimItem
<1>. QED
  BY <1>1, <1>2, StepKeeps

\* The sweep removes the cron job of the item that it puts back.
LEMMA SweepCronJobKeeps ==
  ASSUME IInv, UNCHANGED byHand, NEW r \in Runs, SweepCronJob(r)
  PROVE  IInv'
<1>. DEFINE i == run[r].item
<1>1. run[r] # Idle /\ run' = [run EXCEPT ![r] = Idle] /\ state' = state
  BY DEF SweepCronJob, Agent
<1>2. /\ i \in Items /\ RunsStay /\ queue \in Queues
      /\ \A s \in Runs : run'[s] # Idle /\ run[s].item = i => Forced(i)
  BY <1>1, LastRun DEF IInv, TypeOK, Queues
<1>3. CASE queue' = queue /\ lease' = lease
  <2>1. RowsStay
    BY <1>2, <1>3, QueueTame, TameRows
  <2>2. LeasesStay
    BY <1>3, SameLeases
  <2>3. StatesStay
    BY <1>1 DEF StatesStay, IInv, TypeOK
  <2>. QED
    BY <1>2, <2>1, <2>2, <2>3, StepKeeps
<1>4. CASE /\ queue' = IF queue[i].attempts >= MaxAttempts
                       THEN Settle(queue, i, "failed") ELSE Requeued(queue, i, FALSE)
           /\ lease' = Released(i)
  <2>1. RowsStay
    <3>1. CASE queue' = Settle(queue, i, "failed")
      BY <1>2, <3>1, SettleTame, TameRows
    <3>2. CASE ~(queue[i].attempts >= MaxAttempts) /\ queue' = Requeued(queue, i, FALSE)
      <4>1. queue[i].attempts \in Nat
        BY <1>2 DEF Queues, Item
      <4>2. queue[i].attempts < MaxAttempts
        BY <3>2, <4>1, MaxAttemptsAssumption
      <4>. QED
        BY <1>2, <3>2, <4>2, RequeueStays
    <3>. QED
      BY <1>4, <3>1, <3>2
  <2>. QED
    BY <1>1, <1>4, <2>1, EndKeeps
<1>. QED
  BY <1>3, <1>4 DEF SweepCronJob

\* A sweep that releases the lease of an item without a run.
LEMMA SweepKeeps ==
  ASSUME IInv, UNCHANGED <<state, run, byHand>>, NEW i \in Items, ~Busy(i),
         lease' = Released(i), Wakes(queue, queue')
  PROVE  IInv'
<1>1. RunsStay
  BY SameRuns
<1>2. \A s \in Runs : run[s] # Idle /\ run[s].item = i /\ ~Forced(i)
                        => run'[s] = Idle \/ run'[s].agent \notin Holding
  BY DEF Busy, IsOn
<1>3. LeasesStay
  BY <1>1, <1>2, ReleasedStays
<1>4. RowsStay
  BY <1>1, WakesRows
<1>5. StatesStay
  BY DEF StatesStay, IInv, TypeOK
<1>. QED
  BY <1>1, <1>3, <1>4, <1>5, StepKeeps

\* A stale dispatch fails and its task is queued again.
LEMMA SweepStaleDispatchKeeps ==
  ASSUME IInv, UNCHANGED byHand, NEW i \in Items, SweepStaleDispatch(i)
  PROVE  IInv'
<1>. DEFINE q == Settle(queue, i, "failed")
            t == queue[i].task
<1>1. queue \in Queues /\ queue[i] \in Item /\ t \in Tasks
  BY DEF IInv, TypeOK, Queues, Item
<1>2. Tame(queue, q) /\ q \in Queues
  BY <1>1, SettleTame DEF Tame, Queues
<1>3. queue' \in Enqueued(q, t, state[t], FALSE)
  BY DEF SweepStaleDispatch
<1>. HIDE DEF q, t
<1>4. Wakes(queue, queue')
  BY <1>1, <1>2, <1>3, EnqueuedWakes, TameTwice
<1>. QED
  BY <1>4, SweepKeeps DEF SweepStaleDispatch

\* An orphaned lease is released and its task queued again.
LEMMA SweepOrphanLeaseKeeps ==
  ASSUME IInv, UNCHANGED byHand, NEW t \in Tasks, SweepOrphanLease(t)
  PROVE  IInv'
<1>. DEFINE i == lease[t].by
<1>1. i \in Items /\ queue \in Queues
  BY DEF SweepOrphanLease, IInv, TypeOK, Queues
<1>2. queue' \in Enqueued(queue, t, state[t], FALSE)
  BY DEF SweepOrphanLease
<1>3. Wakes(queue, queue')
  BY <1>1, <1>2, EnqueuedWakes
<1>. QED
  BY <1>1, <1>3, SweepKeeps DEF SweepOrphanLease

\* A restart ends every run.
LEMMA RestartKeeps ==
  ASSUME IInv, UNCHANGED byHand, Restart
  PROVE  IInv'
<1>1. run' = [r \in Runs |-> Idle]
  BY DEF Restart
<1>2. RunsStay
  BY <1>1 DEF RunsStay
<1>3. lease' \in [Tasks -> [by : Items \cup {NoItem}, live : BOOLEAN]]
  BY DEF Restart, IInv, TypeOK, Free
<1>4. LeasesStay
  BY <1>1, <1>3 DEF LeasesStay
<1>5. StatesStay
  BY DEF StatesStay, Restart, IInv, TypeOK
<1>6. Tame(queue, queue')
  <2>1. ASSUME NEW i \in Items
        PROVE  Same(queue[i], queue'[i])
    <3>1. queue[i] \in Item
      BY DEF IInv, TypeOK
    <3>2. Same(queue[i], [queue[i] EXCEPT !.status = "failed", !.clock = "fresh"])
          /\ Same(queue[i], queue[i])
      BY <3>1 DEF Same, Item
    <3>. QED
      BY <3>2 DEF Restart
  <2>2. queue' \in [Items -> Item]
    BY <2>1 DEF Restart, Same
  <2>. QED
    BY <2>1, <2>2 DEF Tame
<1>7. RowsStay
  BY <1>2, <1>6, TameRows
<1>. QED
  BY <1>2, <1>4, <1>5, <1>7, StepKeeps

\* The operator's requeue owns up to the run that it leaves beside the item.
LEMMA ReleaseActiveKeeps ==
  ASSUME IInv, NEW i \in Items, ReleaseActive(i)
  PROVE  IInv'
<1>. DEFINE t == queue[i].task
            b == IF Busy(i) \/ byHand[t] = "forced" THEN "forced" ELSE "requeued"
            y == [queue[i] EXCEPT !.status = "queued", !.leasedAt = FALSE,
                                  !.clock = "fresh"]
<1>1. /\ queue \in [Items -> Item] /\ run \in [Runs -> Call \cup {Idle}]
      /\ byHand \in [Tasks -> {"never", "requeued", "forced"}]
      /\ state' = state /\ lease' = lease /\ run' = run
  BY DEF IInv, TypeOK, ReleaseActive
<1>2. queue[i] \in Item /\ t \in Tasks
  BY <1>1 DEF Item
<1>3. queue' = [queue EXCEPT ![i] = y]
  BY <1>1, <1>2 DEF ReleaseActive, Requeued, Item
<1>4. /\ y \in Item /\ y.task = t /\ y.status = "queued" /\ y.clock = "fresh"
  BY <1>2 DEF Item
<1>5. byHand' = [byHand EXCEPT ![t] = b]
  BY <1>1 DEF ReleaseActive
<1>6. b \in {"requeued", "forced"}
  OBVIOUS
<1>. HIDE DEF y
<1>7. /\ queue' \in [Items -> Item] /\ queue'[i] = y
      /\ \A j \in Items : j # i => queue'[j] = queue[j]
      /\ \A j \in Items : queue'[j].task = queue[j].task
  BY <1>1, <1>3, <1>4
<1>8. /\ byHand' \in [Tasks -> {"never", "requeued", "forced"}] /\ byHand'[t] = b
      /\ \A u \in Tasks \ {t} : byHand'[u] = byHand[u]
  BY <1>1, <1>2, <1>5, <1>6
<1>9. \A u \in Tasks : byHand[u] = "forced" => byHand'[u] = "forced"
  BY <1>8
<1>10. Busy(i) => byHand'[t] = "forced"
  BY <1>8
<1>. HIDE DEF b
<1>11. /\ \A r \in Runs : run[r] # Idle => run[r].item \in Items
       /\ \A j \in Items : queue[j].task \in Tasks
  BY <1>1 DEF Call, Item
<1>12. TypeOK'
  BY <1>1, <1>7, <1>8 DEF TypeOK, IInv
<1>13. LeaseHeld'
  BY <1>1, <1>7, <1>9, <1>11 DEF LeaseHeld, IInv
<1>14. OneRunPerItem'
  BY <1>1, <1>7, <1>9, <1>11 DEF OneRunPerItem, IInv
<1>15. ASSUME NEW r \in Runs, run[r] # Idle, queue'[run[r].item].status = "queued"
       PROVE  byHand'[queue'[run[r].item].task] = "forced"
  <2>1. CASE run[r].item = i
    BY <1>7, <1>10, <1>15, <2>1 DEF Busy, IsOn
  <2>2. CASE run[r].item # i
    BY <1>7, <1>9, <1>11, <1>15, <2>2 DEF IInv, WaitsAlone
  <2>. QED
    BY <2>1, <2>2
<1>16. WaitsAlone'
  BY <1>1, <1>15 DEF WaitsAlone
<1>17. StaleAlone'
  BY <1>1, <1>4, <1>7, <1>11 DEF StaleAlone, IInv
<1>18. ASSUME NEW j \in Items, byHand'[queue'[j].task] = "never"
       PROVE  /\ queue'[j].attempts <= MaxAttempts
              /\ queue'[j].status = "queued" => queue'[j].attempts < MaxAttempts
  <2>1. queue[j].task # t
    BY <1>6, <1>7, <1>8, <1>18
  <2>2. j # i
    BY <2>1
  <2>. QED
    BY <1>7, <1>8, <1>11, <1>18, <2>1, <2>2 DEF IInv, AttemptLeft
<1>19. AttemptLeft'
  BY <1>18 DEF AttemptLeft
<1>. QED
  BY <1>12, <1>13, <1>14, <1>16, <1>17, <1>19 DEF IInv

-----------------------------------------------------------------------------
(* The theorems                                                            *)

\* No run, no lease, no row in use.
LEMMA InitIInv ==
  ASSUME Init
  PROVE  IInv
<1>1. (CHOOSE t \in Tasks : TRUE) \in Tasks
  BY TasksAssumption
<1>. DEFINE x == [status |-> "none", task |-> CHOOSE t \in Tasks : TRUE,
                  review |-> FALSE, attempts |-> 0, leasedAt |-> FALSE,
                  clock |-> "fresh"]
<1>2. x \in Item /\ x.attempts = 0 /\ x.status = "none"
  BY <1>1 DEF Item
<1>3. queue = [i \in Items |-> x]
  BY DEF Init
<1>. HIDE DEF x
<1>4. TypeOK
  BY <1>2, <1>3 DEF Init, TypeOK, Free
<1>5. \A r \in Runs : run[r] = Idle
  BY DEF Init
<1>6. LeaseHeld /\ OneRunPerItem /\ WaitsAlone /\ StaleAlone
  BY <1>5 DEF LeaseHeld, OneRunPerItem, WaitsAlone, StaleAlone
<1>7. AttemptLeft
  BY <1>2, <1>3, MaxAttemptsAssumption DEF AttemptLeft
<1>. QED
  BY <1>4, <1>6, <1>7 DEF IInv

\* Every step of the queue, its executors and its repairs keeps the invariant.
LEMMA NextIInv ==
  ASSUME IInv, [Next]_vars
  PROVE  IInv'
<1>. USE DEF IInv
<1>1. CASE UNCHANGED vars
  <2>1. /\ UNCHANGED <<state, lease, run, byHand, queue>>
    BY <1>1 DEF vars, rows
  <2>2. RunsStay /\ LeasesStay /\ StatesStay
    BY <2>1, SameRuns, SameLeases DEF StatesStay, TypeOK
  <2>3. RowsStay
    BY <2>1, <2>2, QueueTame, TameRows DEF TypeOK, Queues
  <2>. QED
    BY <2>2, <2>3, StepKeeps
<1>. HIDE DEF IInv
<1>2. ASSUME NEW t \in Tasks, Enqueue(t) \/ EnqueueReview(t), UNCHANGED byHand
      PROVE  IInv'
  BY <1>2, EnqueueKeeps DEF Enqueue, EnqueueReview
<1>3. ASSUME NEW i \in Items, ReleaseActive(i)
      PROVE  IInv'
  BY <1>3, ReleaseActiveKeeps
<1>4. ASSUME NEW t \in Tasks, NEW to \in TaskState, TaskTransition(t, to),
             UNCHANGED byHand
      PROVE  IInv'
  BY <1>4, TaskTransitionKeeps
<1>5. ASSUME NEW i \in Items, UNCHANGED byHand,
             ClaimRefused(i) \/ ClaimAfterDeadline(i)
      PROVE  IInv'
  BY <1>5, ClaimRefusedKeeps, ClaimAfterDeadlineKeeps
<1>6. ASSUME NEW r \in Runs, NEW i \in Items, Claim(r, i), UNCHANGED byHand
      PROVE  IInv'
  BY <1>6, ClaimKeeps
<1>7. ASSUME NEW r \in Runs, UNCHANGED byHand,
             \/ Launch(r) \/ DispatchReturns(r)
             \/ DispatchDefers(r) \/ DispatchFails(r)
             \/ InlineNoop(r) \/ InlineSubmits(r)
             \/ InlineRefused(r) \/ InlineDone(r)
      PROVE  IInv'
  BY <1>7, LaunchKeeps, DispatchReturnsKeeps, DispatchDefersKeeps,
     DispatchFailsKeeps, InlineNoopKeeps, InlineSubmitsKeeps, InlineRefusedKeeps,
     InlineDoneKeeps
<1>8. ASSUME NEW r \in Runs, UNCHANGED byHand,
             \/ JobStarts(r) \/ SessionReports(r) \/ SessionSettles(r)
             \/ SweepCronJob(r)
      PROVE  IInv'
  BY <1>8, JobStartsKeeps, SessionReportsKeeps, SessionSettlesKeeps, SweepCronJobKeeps
<1>9. ASSUME NEW i \in Items, UNCHANGED byHand,
             \/ ItemLeaseExpires(i) \/ DispatchedAges(i)
             \/ ReclaimItem(i) \/ SweepStaleDispatch(i)
      PROVE  IInv'
  BY <1>9, ItemAgesKeeps, ReclaimItemKeeps, SweepStaleDispatchKeeps
<1>10. ASSUME NEW t \in Tasks, UNCHANGED byHand,
              TaskLeaseExpires(t) \/ SweepOrphanLease(t)
       PROVE  IInv'
  BY <1>10, TaskLeaseExpiresKeeps, SweepOrphanLeaseKeeps
<1>11. CASE Restart /\ UNCHANGED byHand
  BY <1>11, RestartKeeps
<1>. QED
  BY <1>1, <1>2, <1>3, <1>4, <1>5, <1>6, <1>7, <1>8, <1>9, <1>10, <1>11
     DEF Next, Dispatching

\* The invariant holds in every state the queue reaches.
THEOREM Invariant == Spec => []IInv
<1>1. Init => IInv
  BY InitIInv
<1>2. IInv /\ [Next]_vars => IInv'
  BY NextIInv
<1>. QED
  BY <1>1, <1>2, PTL DEF Spec

\* Rows, runs and leases stay within their types.
THEOREM TypeCorrect == Spec => []TypeOK
<1>1. IInv => TypeOK
  BY DEF IInv
<1>. QED
  BY <1>1, Invariant, PTL

\* LeaseHeld names the lease by its fields.
LEMMA HeldIsGuarded ==
  ASSUME IInv
  PROVE  LeaseGuardsWork
<1>1. /\ lease \in [Tasks -> [by : Items \cup {NoItem}, live : BOOLEAN]]
      /\ run \in [Runs -> Call \cup {Idle}] /\ queue \in [Items -> Item]
  BY DEF IInv, TypeOK
<1>2. ASSUME NEW r \in Runs, run[r] # Idle, run[r].agent \in Working,
             ~Forced(run[r].item)
      PROVE  lease[TaskOf(run[r].item)] = [by |-> run[r].item, live |-> TRUE]
  <2>. DEFINE l == lease[TaskOf(run[r].item)]
  <2>1. l \in [by : Items \cup {NoItem}, live : BOOLEAN]
    BY <1>1, <1>2 DEF Call, Item
  <2>2. l.by = run[r].item /\ l.live
    BY <1>2 DEF IInv, LeaseHeld, Holding
  <2>. HIDE DEF l
  <2>3. l = [by |-> run[r].item, live |-> TRUE]
    BY <2>1, <2>2
  <2>. QED
    BY <2>3 DEF l
<1>. QED
  BY <1>2 DEF LeaseGuardsWork

\* Nothing takes the lease of a task from the session that works on it, short
\* of an operator who requeues the item under it.
THEOREM LeaseGuardsWorkHolds == Spec => []LeaseGuardsWork
  BY Invariant, HeldIsGuarded, PTL

\* Two sessions on one task would hold one lease for one item.
LEMMA GuardedIsSingle ==
  ASSUME IInv
  PROVE  OneSessionPerTask
<1>1. SUFFICES ASSUME NEW r \in Runs, NEW s \in Runs, r # s, OnOneTask(r, s),
                      ~Forced(run[r].item)
               PROVE  FALSE
  BY DEF OneSessionPerTask
<1>2. /\ lease[TaskOf(run[r].item)].by = run[r].item
      /\ lease[TaskOf(run[s].item)].by = run[s].item
  BY <1>1 DEF OnOneTask, IInv, LeaseHeld, Holding
<1>3. run[r].item = run[s].item
  BY <1>1, <1>2 DEF OnOneTask
<1>. QED
  BY <1>1, <1>3 DEF OnOneTask, IInv, OneRunPerItem

\* No two sessions, or jobs that become one, work on one task, whatever claims,
\* retries, reclaims, revivals and sweeps come in between.
THEOREM OneSessionPerTaskHolds == Spec => []OneSessionPerTask
  BY Invariant, GuardedIsSingle, PTL

\* An item is claimed at most MaxAttempts times, except on the operator's word.
THEOREM AttemptsWithinMaxHolds == Spec => []AttemptsWithinMax
<1>1. IInv => AttemptsWithinMax
  BY DEF IInv, AttemptLeft, AttemptsWithinMax
<1>. QED
  BY <1>1, Invariant, PTL
=============================================================================
