------------------------------- MODULE Budget -------------------------------
(***************************************************************************)
(* The project's budget row: its windows and their lazy reset              *)
(* (src/budget/reset.ts), the check before a session is started            *)
(* (src/budget/check-v2.ts), the costs a session records (src/cost.ts),    *)
(* the reservations of dispatch plans (src/budget/reservation.ts,          *)
(* src/scheduling/plans.ts), the operator's changes (src/budget.ts) and    *)
(* the daily reset of the sweep.                                           *)
(*                                                                         *)
(* Two windows: the monthly one is handled like the hourly one.  One       *)
(* dimension: tokens and requests are counted and compared like cents.     *)
(* Agent rows have the same shape and only add checks.  Processes          *)
(* interleave between the read and the conditional UPDATE of the reset,    *)
(* and die between the two statements that start or finish a plan.         *)
(***************************************************************************)
EXTENDS Naturals, FiniteSets, FiniteSetsExt

CONSTANTS
  Sessions,      \* sessions that may be dispatched at once (the slots)
  SessionCost,   \* the most one session spends
  Plans,         \* dispatch plans
  Estimate,      \* estimated_cost_cents of each plan
  DailyLimits,   \* the daily limits an operator may set
  HourlyLimit,   \* the hourly limit
  MaxHours,      \* bound: hours the clock may show
  MaxCrashes     \* bound: how often a process dies with a plan in hand

ASSUME LimitsAssumption ==
  /\ DailyLimits \subseteq Nat \ {0} /\ DailyLimits # {} /\ IsFiniteSet(DailyLimits)
  /\ HourlyLimit \in Nat \ {0}
ASSUME CostAssumption == SessionCost \in Nat /\ Estimate \in [Plans -> Nat]
ASSUME FiniteAssumption == IsFiniteSet(Sessions) /\ IsFiniteSet(Plans)
ASSUME BoundAssumption == MaxHours \in Nat /\ MaxCrashes \in Nat

VARIABLES
  clock,     \* the hour and the day it is
  until,     \* hourly_reset_at and daily_reset_at: the last hour and the
             \* last day that the counters stand for
  spent,     \* hourly_spent_cents and daily_spent_cents
  limit,     \* daily_limit_cents
  reserved,  \* reserved_cents
  session,   \* idle, checking (windows read) or running
  seen,      \* what ensureWindowsCurrent of a checking session has read
  left,      \* what a running session may still spend
  plan,      \* dispatch_plans.status, and the statement a process is at
  leaked,    \* history: estimates reserved for a plan whose process died
  crashes    \* how often a process has died

rowVars == <<until, spent, limit, reserved>>
sessionVars == <<session, seen, left>>
planVars == <<plan, leaked, crashes>>
vars == <<clock, rowVars, sessionVars, planVars>>

Windows == {"hourly", "daily"}
Elapsed == {w \in Windows : until[w] < clock[w]}
NothingSeen == [elapsed |-> {}, at |-> [w \in Windows |-> 0], daily |-> 0]

PlanStatus == {"planned", "reserving", "executing", "releasing", "finished"}
Reserving == {"reserving", "executing", "releasing"}

TypeOK ==
  /\ clock \in [Windows -> 0..MaxHours]
  /\ until \in [Windows -> 0..MaxHours]
  /\ spent \in [Windows -> Nat]
  /\ limit \in DailyLimits
  /\ reserved \in Nat
  /\ session \in [Sessions -> {"idle", "checking", "running"}]
  /\ \A s \in Sessions : session[s] = "checking" =>
       seen[s] \in [elapsed : SUBSET Windows, at : [Windows -> 0..MaxHours],
                    daily : 0..MaxHours]
  /\ left \in [Sessions -> 0..SessionCost]
  /\ plan \in [Plans -> PlanStatus]
  /\ leaked \in Nat
  /\ crashes \in 0..MaxCrashes

Init ==
  /\ clock = [w \in Windows |-> 0]
  /\ until = [w \in Windows |-> 0]
  /\ spent = [w \in Windows |-> 0]
  /\ limit \in DailyLimits
  /\ reserved = 0
  /\ session = [s \in Sessions |-> "idle"]
  /\ seen = [s \in Sessions |-> NothingSeen]
  /\ left = [s \in Sessions |-> 0]
  /\ plan = [p \in Plans |-> "planned"]
  /\ leaked = 0
  /\ crashes = 0

-----------------------------------------------------------------------------
(* Time                                                                    *)

\* The next hour begins, and with it perhaps the next day.
Tick ==
  /\ clock["hourly"] < MaxHours
  /\ \E d \in {0, 1} :
       clock' = [hourly |-> clock["hourly"] + 1, daily |-> clock["daily"] + d]
  /\ UNCHANGED <<rowVars, sessionVars, planVars>>

-----------------------------------------------------------------------------
(* Sessions                                                                *)

\* ensureWindowsCurrent reads the row and the clock ...
ReadWindows(s) ==
  /\ session[s] = "idle"
  /\ session' = [session EXCEPT ![s] = "checking"]
  /\ seen' = [seen EXCEPT ![s] =
       [elapsed |-> Elapsed, at |-> clock, daily |-> until["daily"]]]
  /\ UNCHANGED <<clock, rowVars, left, planVars>>

\* Fault: the UPDATE is not conditional.
ResetAnyway(s) == seen[s].elapsed

\* ... and zeroes the windows it found elapsed, if daily_reset_at is still
\* what it read.
WindowsToReset(s) ==
  IF until["daily"] = seen[s].daily THEN seen[s].elapsed ELSE {}

\* The counters after a reset of the windows ws.
Zeroed(ws) == [w \in Windows |-> IF w \in ws THEN 0 ELSE spent[w]]

\* Fault: only the hourly window is compared.
WithinHourlyBudget(sp) == sp["hourly"] + reserved < HourlyLimit

\* checkBudgetRow on the counters sp: spent and reserved leave something of
\* every limit.
WithinBudget(sp) ==
  /\ sp["hourly"] + reserved < HourlyLimit
  /\ sp["daily"] + reserved < limit

\* The conditional UPDATE and the check that reads the row again; the
\* dispatcher then starts the session, or fails the queue item.
CheckBudget(s) ==
  /\ session[s] = "checking"
  /\ spent' = Zeroed(WindowsToReset(s))
  /\ until' = [w \in Windows |->
                 IF w \in WindowsToReset(s) THEN seen[s].at[w] ELSE until[w]]
  /\ session' = [session EXCEPT
                   ![s] = IF WithinBudget(spent') THEN "running" ELSE "idle"]
  /\ left' = [left EXCEPT ![s] = IF WithinBudget(spent') THEN SessionCost ELSE 0]
  /\ seen' = [seen EXCEPT ![s] = NothingSeen]
  /\ UNCHANGED <<clock, limit, reserved, planVars>>

\* recordCost, once for each answer of the model: into every window of the
\* row, whether or not the window has elapsed.
RecordCost(s, c) ==
  /\ session[s] = "running"
  /\ c <= left[s]
  /\ spent' = [w \in Windows |-> spent[w] + c]
  /\ left' = [left EXCEPT ![s] = @ - c]
  /\ UNCHANGED <<clock, until, limit, reserved, session, seen, planVars>>

EndSession(s) ==
  /\ session[s] = "running"
  /\ session' = [session EXCEPT ![s] = "idle"]
  /\ left' = [left EXCEPT ![s] = 0]
  /\ UNCHANGED <<clock, rowVars, seen, planVars>>

-----------------------------------------------------------------------------
(* Plans                                                                   *)

\* startPlan by the one process that has the plan: the lazy reset, the
\* preflight check against the daily window and the reservation ...
Reserve(p) ==
  /\ plan[p] = "planned"
  /\ spent' = Zeroed(Elapsed)
  /\ until' = clock
  /\ IF Estimate[p] + spent'["daily"] + reserved <= limit
       THEN /\ reserved' = reserved + Estimate[p]
            /\ plan' = [plan EXCEPT ![p] = "reserving"]
       ELSE /\ <<spent', until'>> # <<spent, until>>
            /\ UNCHANGED <<reserved, plan>>
  /\ UNCHANGED <<clock, limit, sessionVars, leaked, crashes>>

\* ... and the status.
StartPlan(p) ==
  /\ plan[p] = "reserving"
  /\ plan' = [plan EXCEPT ![p] = "executing"]
  /\ UNCHANGED <<clock, rowVars, sessionVars, leaked, crashes>>

\* The process dies before it: the row still says planned.
LoseStart(p) ==
  /\ plan[p] = "reserving" /\ crashes < MaxCrashes
  /\ crashes' = crashes + 1
  /\ plan' = [plan EXCEPT ![p] = "planned"]
  /\ leaked' = leaked + Estimate[p]
  /\ UNCHANGED <<clock, rowVars, sessionVars>>

\* Fault: the status the plan had is not asked for.
FinishReleasing(p) ==
  /\ plan[p] \in {"planned", "executing"}
  /\ plan' = [plan EXCEPT ![p] = "releasing"]
  /\ UNCHANGED <<clock, rowVars, sessionVars, leaked, crashes>>

\* completePlan and abandonPlan: the status, and if it was executing ...
Finish(p) ==
  /\ plan[p] \in {"planned", "executing"}
  /\ plan' = [plan EXCEPT
                ![p] = IF plan[p] = "executing" THEN "releasing" ELSE "finished"]
  /\ UNCHANGED <<clock, rowVars, sessionVars, leaked, crashes>>

\* ... releasePlanReservation.
ReleaseReservation(p) ==
  /\ plan[p] = "releasing"
  /\ plan' = [plan EXCEPT ![p] = "finished"]
  /\ reserved' = IF reserved >= Estimate[p] THEN reserved - Estimate[p] ELSE 0
  /\ UNCHANGED <<clock, until, spent, limit, sessionVars, leaked, crashes>>

\* The process dies before it.
LoseRelease(p) ==
  /\ plan[p] = "releasing" /\ crashes < MaxCrashes
  /\ crashes' = crashes + 1
  /\ plan' = [plan EXCEPT ![p] = "finished"]
  /\ leaked' = leaked + Estimate[p]
  /\ UNCHANGED <<clock, rowVars, sessionVars>>

-----------------------------------------------------------------------------
(* The operator and the sweep                                              *)

\* Fault: the limit is stored one too low.
SetBudgetTooLow(l) ==
  /\ limit' = l - 1
  /\ until' = [until EXCEPT !["hourly"] = clock["hourly"]]
  /\ UNCHANGED <<clock, spent, reserved, sessionVars, planVars>>

\* setBudget: the hourly boundary moves, its counter stays.
SetBudget(l) ==
  /\ limit' = l
  /\ until' = [until EXCEPT !["hourly"] = clock["hourly"]]
  /\ <<limit', until'>> # <<limit, until>>
  /\ UNCHANGED <<clock, spent, reserved, sessionVars, planVars>>

\* resetDailyBudgets, at the end of every sweep, in one statement.
ResetDailyBudgets ==
  /\ "daily" \in Elapsed
  /\ spent' = Zeroed({"daily"})
  /\ until' = [until EXCEPT !["daily"] = clock["daily"]]
  /\ UNCHANGED <<clock, limit, reserved, sessionVars, planVars>>

-----------------------------------------------------------------------------
Next ==
  \/ Tick \/ ResetDailyBudgets
  \/ \E s \in Sessions :
       \/ ReadWindows(s) \/ CheckBudget(s) \/ EndSession(s)
       \/ \E c \in 1..SessionCost : RecordCost(s, c)
  \/ \E p \in Plans :
       \/ Reserve(p) \/ StartPlan(p) \/ LoseStart(p)
       \/ Finish(p) \/ ReleaseReservation(p) \/ LoseRelease(p)
  \/ \E l \in DailyLimits : SetBudget(l)

\* Processes go on with what they have begun, the sweep runs; nobody has to
\* finish a plan.
Fairness ==
  /\ WF_vars(ResetDailyBudgets)
  /\ \A s \in Sessions : WF_vars(CheckBudget(s))
  /\ \A p \in Plans : WF_vars(StartPlan(p)) /\ WF_vars(ReleaseReservation(p))

Spec == Init /\ [][Next]_vars /\ Fairness

-----------------------------------------------------------------------------
(* Properties                                                              *)

\* The cents that f counts for the members of S, each named by its member, so
\* that their number is the sum of f over S.
Cents(f, S) == UNION {{x} \X (1..f[x]) : x \in S}

\* However many sessions are between their check and their last cost when the
\* limit is reached, the daily counter ends within one session cost for each
\* of them of the largest limit.
OverspendBounded ==
  spent["daily"] < Max(DailyLimits) + Cardinality(Sessions) * SessionCost

\* reserved_cents is what the plans under way have estimated, and beyond that
\* only what was reserved for a plan whose process died at it: no order of
\* starting, finishing, failing and resetting releases too much or twice.
ReservationsAccounted ==
  reserved = leaked + Cardinality(Cents(Estimate, {p \in Plans : plan[p] \in Reserving}))

\* The daily counter is zeroed once for a day that has passed, though every
\* check of every process and the sweep may see the same elapsed window: what
\* one of them has let the day's sessions spend is not erased by another.
DailyResetOnce ==
  [][spent["daily"] > 0 /\ spent'["daily"] = 0 => until["daily"] < clock["daily"]]_vars

\* "only one process performs the reset if multiple readers hit the same stale
\* window" (src/budget/reset.ts:16): the same of the hourly counter.
HourlyResetOnce ==
  [][spent["hourly"] > 0 /\ spent'["hourly"] = 0
       => until["hourly"] < clock["hourly"]]_vars
=============================================================================
