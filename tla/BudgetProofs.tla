---------------------------- MODULE BudgetProofs ----------------------------
(***************************************************************************)
(* Proofs about Budget for any sessions, plans, costs and limits: its      *)
(* types, the single daily reset, the reservations and the bound on what   *)
(* sessions overspend.                                                     *)
(***************************************************************************)
EXTENDS Budget, FiniteSetTheorems, WellFoundedInduction, TLAPS

-----------------------------------------------------------------------------
(* Sums                                                                    *)

\* A finite, nonempty set of numbers has a maximum.
LEMMA MaxExists ==
  ASSUME NEW S \in SUBSET Nat, IsFiniteSet(S), S # {}
  PROVE  Max(S) \in S /\ \A y \in S : Max(S) >= y
<1>. DEFINE HasMax(U) == \E x \in U : \A y \in U : x >= y
            Lacking == {U \in SUBSET S : U # {} /\ ~HasMax(U)}
<1>1. IsWellFoundedOn(StrictSubsetOrdering(S), SUBSET S)
  BY FS_StrictSubsetOrderingWellFounded, FS_FiniteSubsetsOfFinite
<1>2. ASSUME Lacking # {} PROVE FALSE
  <2>1. PICK U \in Lacking : \A V \in Lacking : <<V, U>> \notin StrictSubsetOrdering(S)
    <3>1. Lacking \subseteq SUBSET S
      OBVIOUS
    <3>. HIDE DEF Lacking
    <3>. QED
      BY <1>1, <1>2, <3>1, WFMin
  <2>2. PICK x \in U : TRUE
    OBVIOUS
  <2>3. CASE U \ {x} = {}
    BY <2>2, <2>3
  <2>4. CASE U \ {x} # {}
    <3>1. <<U \ {x}, U>> \in StrictSubsetOrdering(S)
      BY <2>2 DEF StrictSubsetOrdering
    <3>2. HasMax(U \ {x})
      BY <2>1, <2>4, <3>1
    <3>3. PICK m \in U \ {x} : \A y \in U \ {x} : m >= y
      BY <3>2
    <3>4. m \in Nat /\ x \in Nat /\ U \subseteq Nat
      BY <2>2
    <3>. QED
      BY <2>2, <3>3, <3>4
  <2>. QED
    BY <2>3, <2>4
<1>3. HasMax(S)
  BY <1>2
<1>. QED
  BY <1>3 DEF Max

\* The cents of one member.
LEMMA CentsOfOne ==
  ASSUME NEW x, NEW n \in Nat
  PROVE  IsFiniteSet({x} \X (1..n)) /\ Cardinality({x} \X (1..n)) = n
<1>1. IsFiniteSet({x}) /\ Cardinality({x}) = 1
  BY FS_Singleton
<1>2. IsFiniteSet(1..n) /\ Cardinality(1..n) = n
  BY FS_Interval
<1>3. /\ IsFiniteSet({x} \X (1..n))
      /\ Cardinality({x} \X (1..n)) = Cardinality({x}) * Cardinality(1..n)
  BY <1>1, <1>2, FS_Product
<1>. QED
  BY <1>1, <1>2, <1>3

\* No more cents than members times the largest count.
LEMMA CentsBounded ==
  ASSUME NEW S, IsFiniteSet(S), NEW f \in [S -> Nat], NEW T \in SUBSET S,
         NEW c \in Nat, \A x \in T : f[x] <= c
  PROVE  /\ IsFiniteSet(Cents(f, T)) /\ Cardinality(Cents(f, T)) \in Nat
         /\ Cardinality(Cents(f, T)) <= Cardinality(S) * c
<1>1. IsFiniteSet(1..c) /\ Cardinality(1..c) = c
  BY FS_Interval
<1>2. IsFiniteSet(S \X (1..c)) /\ Cardinality(S \X (1..c)) = Cardinality(S) * c
  BY <1>1, FS_Product
<1>3. Cents(f, T) \in SUBSET (S \X (1..c))
  <2>1. \A x \in T : f[x] \in Nat /\ x \in S
    OBVIOUS
  <2>. QED
    BY <2>1 DEF Cents
<1>. QED
  BY <1>2, <1>3, FS_Subset, FS_CardinalityType

\* The sum of a finite set is finite.
LEMMA CentsFinite ==
  ASSUME NEW S, IsFiniteSet(S), NEW f \in [S -> Nat], NEW T \in SUBSET S
  PROVE  IsFiniteSet(Cents(f, T)) /\ Cardinality(Cents(f, T)) \in Nat
<1>1. CASE T = {}
  BY <1>1, FS_EmptySet DEF Cents
<1>2. CASE T # {}
  <2>. DEFINE R == {f[x] : x \in T}
              g == [x \in T |-> f[x]]
  <2>1. IsFiniteSet(T)
    BY FS_Subset
  <2>2. g \in Surjection(T, R)
    BY DEF Surjection
  <2>3. R \in SUBSET Nat /\ R # {} /\ \A x \in T : f[x] \in R
    BY <1>2
  <2>. HIDE DEF R, g
  <2>4. IsFiniteSet(R)
    BY <2>1, <2>2, FS_Surjection
  <2>5. Max(R) \in R /\ \A y \in R : Max(R) >= y
    BY <2>3, <2>4, MaxExists
  <2>6. Max(R) \in Nat /\ \A x \in T : f[x] <= Max(R)
    BY <2>3, <2>5
  <2>. QED
    BY <2>6, CentsBounded
<1>. QED
  BY <1>1, <1>2

\* A member adds its count to the sum of the others.
LEMMA CentsOfMember ==
  ASSUME NEW S, IsFiniteSet(S), NEW f \in [S -> Nat], NEW T \in SUBSET S, NEW x \in T
  PROVE  Cardinality(Cents(f, T)) = Cardinality(Cents(f, T \ {x})) + f[x]
<1>. DEFINE A == Cents(f, T \ {x})
            B == {x} \X (1..f[x])
<1>1. IsFiniteSet(A) /\ Cardinality(A) \in Nat
  BY CentsFinite
<1>2. IsFiniteSet(B) /\ Cardinality(B) = f[x] /\ f[x] \in Nat
  BY CentsOfOne
<1>3. Cents(f, T) = A \cup B
  BY DEF Cents
<1>4. A \cap B = {}
  BY DEF Cents
<1>. HIDE DEF A, B
<1>5. Cardinality(A \cup B) = Cardinality(A) + Cardinality(B) - Cardinality(A \cap B)
  BY <1>1, <1>2, FS_Union
<1>6. Cardinality(A \cap B) = 0
  BY <1>4, FS_EmptySet
<1>7. Cardinality(A \cup B) = Cardinality(A) + f[x]
  BY <1>1, <1>2, <1>5, <1>6
<1>. QED
  BY <1>3, <1>7 DEF A

\* Where two counts agree, so do their sums.
LEMMA CentsAgree ==
  ASSUME NEW f, NEW g, NEW T, \A x \in T : f[x] = g[x]
  PROVE  Cents(f, T) = Cents(g, T)
  BY DEF Cents
-----------------------------------------------------------------------------
(* The invariant                                                           *)

\* TypeOK in the parts that steps touch together.  The days are not ahead of
\* the hours.
Seen == [elapsed : SUBSET Windows, at : [Windows -> 0..MaxHours], daily : 0..MaxHours]
ClockOK == clock \in [Windows -> 0..MaxHours] /\ clock["daily"] <= clock["hourly"]
RowOK == /\ until \in [Windows -> 0..MaxHours] /\ spent \in [Windows -> Nat]
         /\ limit \in DailyLimits /\ reserved \in Nat
SessionsOK ==
  /\ session \in [Sessions -> {"idle", "checking", "running"}]
  /\ DOMAIN seen = Sessions
  /\ \A s \in Sessions : session[s] = "checking" => seen[s] \in Seen
  /\ left \in [Sessions -> 0..SessionCost]
PlansOK == plan \in [Plans -> PlanStatus] /\ leaked \in Nat /\ crashes \in 0..MaxCrashes

\* A check that found the day elapsed read a boundary that is past.
DaySeen ==
  \A s \in Sessions :
    session[s] = "checking" /\ "daily" \in seen[s].elapsed
      => seen[s].daily < clock["daily"]

\* What the running sessions may still spend is counted as if it were spent.
MayBeSpent ==
  spent["daily"] + Cardinality(Cents(left, Sessions))
    < Max(DailyLimits) + Cardinality(Sessions) * SessionCost

IInv == /\ ClockOK /\ RowOK /\ SessionsOK /\ PlansOK
        /\ DaySeen /\ ReservationsAccounted /\ MayBeSpent

LEMMA Constants ==
  /\ SessionCost \in Nat /\ MaxHours \in Nat /\ MaxCrashes \in Nat
  /\ Estimate \in [Plans -> Nat]
  /\ DailyLimits \subseteq Nat
  /\ \A l \in DailyLimits : l \in Nat /\ l <= Max(DailyLimits) /\ l > 0
  /\ Max(DailyLimits) \in Nat /\ Max(DailyLimits) > 0
  /\ Cardinality(Sessions) \in Nat
<1>1. Cardinality(Sessions) \in Nat
  BY FiniteAssumption, FS_CardinalityType
<1>2. DailyLimits \in SUBSET Nat /\ DailyLimits # {} /\ IsFiniteSet(DailyLimits)
      /\ \A l \in DailyLimits : l > 0
  BY LimitsAssumption
<1>3. Max(DailyLimits) \in DailyLimits /\ \A y \in DailyLimits : Max(DailyLimits) >= y
  BY <1>2, MaxExists
<1>. QED
  BY <1>1, <1>2, <1>3, CostAssumption, BoundAssumption

\* A reset zeroes what is elapsed and leaves the rest.
LEMMA ZeroedCounters ==
  ASSUME RowOK, NEW ws
  PROVE  /\ Zeroed(ws) \in [Windows -> Nat]
         /\ Zeroed(ws)["daily"] <= spent["daily"]
         /\ "daily" \notin ws => Zeroed(ws)["daily"] = spent["daily"]
  BY DEF RowOK, Zeroed, Windows

-----------------------------------------------------------------------------
(* Types                                                                   *)

LEMMA TickTypes ==
  ASSUME IInv, Tick
  PROVE  /\ ClockOK' /\ RowOK' /\ SessionsOK' /\ PlansOK'
         /\ clock["daily"] \in Nat /\ clock'["daily"] \in Nat
         /\ clock["daily"] <= clock'["daily"]
<1>1. /\ clock["hourly"] < MaxHours
      /\ \E d \in {0, 1} :
           clock' = [hourly |-> clock["hourly"] + 1, daily |-> clock["daily"] + d]
      /\ UNCHANGED <<until, spent, limit, reserved, session, seen, left,
                     plan, leaked, crashes>>
  BY DEF Tick, rowVars, sessionVars, planVars
<1>2. /\ clock["hourly"] \in Nat /\ clock["daily"] \in Nat
      /\ clock["daily"] <= clock["hourly"] /\ MaxHours \in Nat
  BY Constants DEF IInv, ClockOK, Windows
<1>3. PICK d \in {0, 1} :
        clock' = [hourly |-> clock["hourly"] + 1, daily |-> clock["daily"] + d]
  BY <1>1
<1>4. /\ DOMAIN clock' = Windows
      /\ clock'["hourly"] = clock["hourly"] + 1 /\ clock'["daily"] = clock["daily"] + d
  BY <1>3 DEF Windows
<1>5. clock'["hourly"] \in 0..MaxHours /\ clock'["daily"] \in 0..MaxHours
      /\ clock'["daily"] <= clock'["hourly"] /\ clock["daily"] <= clock'["daily"]
  BY <1>1, <1>2, <1>4
<1>6. clock' = [w \in Windows |-> clock'[w]]
  BY <1>3 DEF Windows
<1>7. ClockOK'
  BY <1>5, <1>6 DEF ClockOK, Windows
<1>. QED
  BY <1>1, <1>2, <1>5, <1>7 DEF IInv, RowOK, SessionsOK, PlansOK, Seen

LEMMA ReadWindowsTypes ==
  ASSUME IInv, NEW s \in Sessions, ReadWindows(s)
  PROVE  ClockOK' /\ RowOK' /\ SessionsOK' /\ PlansOK'
<1>1. /\ session' = [session EXCEPT ![s] = "checking"]
      /\ seen' = [seen EXCEPT ![s] =
                    [elapsed |-> Elapsed, at |-> clock, daily |-> until["daily"]]]
      /\ UNCHANGED <<clock, until, spent, limit, reserved, left, plan, leaked, crashes>>
  BY DEF ReadWindows, rowVars, planVars
<1>2. ClockOK' /\ RowOK' /\ PlansOK'
  BY <1>1 DEF IInv, ClockOK, RowOK, PlansOK
<1>3. [elapsed |-> Elapsed, at |-> clock, daily |-> until["daily"]] \in Seen
  BY DEF IInv, ClockOK, RowOK, Seen, Elapsed, Windows
<1>. DEFINE x == [elapsed |-> Elapsed, at |-> clock, daily |-> until["daily"]]
<1>. HIDE DEF x
<1>4. SessionsOK'
  BY <1>1, <1>3 DEF IInv, SessionsOK, x
<1>. QED
  BY <1>2, <1>4

LEMMA CheckBudgetTypes ==
  ASSUME IInv, NEW s \in Sessions, CheckBudget(s)
  PROVE  ClockOK' /\ RowOK' /\ SessionsOK' /\ PlansOK'
<1>1. /\ session[s] = "checking"
      /\ spent' = Zeroed(WindowsToReset(s))
      /\ until' = [w \in Windows |->
                     IF w \in WindowsToReset(s) THEN seen[s].at[w] ELSE until[w]]
      /\ seen' = [seen EXCEPT ![s] = NothingSeen]
      /\ UNCHANGED <<clock, limit, reserved, plan, leaked, crashes>>
  BY DEF CheckBudget, planVars
<1>2. /\ session' \in {[session EXCEPT ![s] = "running"], [session EXCEPT ![s] = "idle"]}
      /\ left' \in {[left EXCEPT ![s] = SessionCost], [left EXCEPT ![s] = 0]}
  BY DEF CheckBudget
<1>3. ClockOK' /\ PlansOK'
  BY <1>1 DEF IInv, ClockOK, PlansOK
<1>4. spent' \in [Windows -> Nat]
  BY <1>1, ZeroedCounters DEF IInv
<1>5. seen[s].at \in [Windows -> 0..MaxHours] /\ until \in [Windows -> 0..MaxHours]
  BY <1>1 DEF IInv, SessionsOK, RowOK, Seen
<1>6. until' \in [Windows -> 0..MaxHours]
  BY <1>1, <1>5
<1>7. RowOK'
  BY <1>1, <1>4, <1>6 DEF IInv, RowOK
<1>8. SessionsOK'
  BY <1>1, <1>2, Constants DEF IInv, SessionsOK
<1>. QED
  BY <1>3, <1>7, <1>8

LEMMA RecordCostTypes ==
  ASSUME IInv, NEW s \in Sessions, NEW c \in 1..SessionCost, RecordCost(s, c)
  PROVE  ClockOK' /\ RowOK' /\ SessionsOK' /\ PlansOK'
<1>1. /\ c <= left[s]
      /\ spent' = [w \in Windows |-> spent[w] + c]
      /\ left' = [left EXCEPT ![s] = left[s] - c]
      /\ UNCHANGED <<clock, until, limit, reserved, session, seen, plan, leaked, crashes>>
  BY DEF RecordCost, planVars
<1>2. left[s] \in 0..SessionCost /\ SessionCost \in Nat /\ c \in Nat
  BY Constants DEF IInv, SessionsOK
<1>3. left[s] - c \in 0..SessionCost
  BY <1>1, <1>2
<1>4. RowOK'
  BY <1>1, <1>2 DEF IInv, RowOK
<1>5. SessionsOK'
  BY <1>1, <1>3 DEF IInv, SessionsOK, Seen
<1>6. ClockOK' /\ PlansOK'
  BY <1>1 DEF IInv, ClockOK, PlansOK
<1>. QED
  BY <1>4, <1>5, <1>6

LEMMA EndSessionTypes ==
  ASSUME IInv, NEW s \in Sessions, EndSession(s)
  PROVE  ClockOK' /\ RowOK' /\ SessionsOK' /\ PlansOK'
<1>1. /\ session' = [session EXCEPT ![s] = "idle"]
      /\ left' = [left EXCEPT ![s] = 0]
      /\ UNCHANGED <<clock, until, spent, limit, reserved, seen, plan, leaked, crashes>>
  BY DEF EndSession, rowVars, planVars
<1>2. SessionsOK'
  BY <1>1, Constants DEF IInv, SessionsOK, Seen
<1>. QED
  BY <1>1, <1>2 DEF IInv, ClockOK, RowOK, PlansOK

\* startPlan, completePlan and abandonPlan, with the processes that die in them.
PlanStep(p) == Reserve(p) \/ StartPlan(p) \/ LoseStart(p)
               \/ Finish(p) \/ ReleaseReservation(p) \/ LoseRelease(p)

LEMMA PlanTypes ==
  ASSUME IInv, NEW p \in Plans, PlanStep(p)
  PROVE  ClockOK' /\ RowOK' /\ SessionsOK' /\ PlansOK'
<1>1. UNCHANGED <<clock, limit, session, seen, left>>
  BY DEF PlanStep, Reserve, StartPlan, LoseStart, Finish, ReleaseReservation, LoseRelease,
         rowVars, sessionVars
<1>2. ClockOK' /\ SessionsOK'
  BY <1>1 DEF IInv, ClockOK, SessionsOK, Seen
<1>3. Estimate[p] \in Nat /\ MaxCrashes \in Nat
  BY Constants
<1>4. PlansOK'
  <2>1. plan \in [Plans -> PlanStatus] /\ leaked \in Nat /\ crashes \in 0..MaxCrashes
    BY DEF IInv, PlansOK
  <2>2. plan' = plan \/ \E st \in PlanStatus : plan' = [plan EXCEPT ![p] = st]
    BY DEF PlanStep, Reserve, StartPlan, LoseStart, Finish, ReleaseReservation,
           LoseRelease, PlanStatus
  <2>3. leaked' \in {leaked, leaked + Estimate[p]}
    BY DEF PlanStep, Reserve, StartPlan, LoseStart, Finish, ReleaseReservation, LoseRelease
  <2>4. crashes' = crashes \/ (crashes < MaxCrashes /\ crashes' = crashes + 1)
    BY DEF PlanStep, Reserve, StartPlan, LoseStart, Finish, ReleaseReservation, LoseRelease
  <2>5. plan' \in [Plans -> PlanStatus]
    BY <2>1, <2>2
  <2>6. leaked' \in Nat /\ crashes' \in 0..MaxCrashes
    BY <1>3, <2>1, <2>3, <2>4
  <2>. QED
    BY <2>5, <2>6 DEF PlansOK
<1>5. RowOK'
  <2>1. /\ until \in [Windows -> 0..MaxHours] /\ spent \in [Windows -> Nat]
        /\ limit \in DailyLimits /\ reserved \in Nat
        /\ clock \in [Windows -> 0..MaxHours] /\ RowOK
    BY DEF IInv, RowOK, ClockOK
  <2>2. CASE Reserve(p)
    <3>1. spent' = Zeroed(Elapsed) /\ until' = clock
          /\ reserved' \in {reserved, reserved + Estimate[p]}
      BY <2>2 DEF Reserve
    <3>2. spent' \in [Windows -> Nat]
      BY <2>1, <3>1, ZeroedCounters
    <3>3. reserved' \in Nat
      BY <1>3, <2>1, <3>1
    <3>. QED
      BY <1>1, <2>1, <3>1, <3>2, <3>3 DEF RowOK
  <2>3. CASE ReleaseReservation(p)
    <3>1. /\ reserved' = IF reserved >= Estimate[p] THEN reserved - Estimate[p] ELSE 0
          /\ UNCHANGED <<until, spent>>
      BY <2>3 DEF ReleaseReservation
    <3>2. reserved' \in Nat
      BY <1>3, <2>1, <3>1
    <3>. QED
      BY <1>1, <2>1, <3>1, <3>2 DEF RowOK
  <2>4. CASE StartPlan(p) \/ LoseStart(p) \/ Finish(p) \/ LoseRelease(p)
    BY <2>1, <2>4 DEF StartPlan, LoseStart, Finish, LoseRelease, rowVars, RowOK
  <2>. QED
    BY <2>2, <2>3, <2>4 DEF PlanStep
<1>. QED
  BY <1>2, <1>4, <1>5

\* setBudget and the sweep's reset.
OperatorStep == ResetDailyBudgets \/ \E l \in DailyLimits : SetBudget(l)

LEMMA OperatorTypes ==
  ASSUME IInv, OperatorStep
  PROVE  ClockOK' /\ RowOK' /\ SessionsOK' /\ PlansOK'
<1>1. UNCHANGED <<clock, reserved, session, seen, left, plan, leaked, crashes>>
  BY DEF OperatorStep, ResetDailyBudgets, SetBudget, sessionVars, planVars
<1>2. ClockOK' /\ SessionsOK' /\ PlansOK'
  BY <1>1 DEF IInv, ClockOK, SessionsOK, PlansOK, Seen
<1>3. spent' = spent \/ spent' = Zeroed({"daily"})
  BY DEF OperatorStep, ResetDailyBudgets, SetBudget
<1>4. spent' \in [Windows -> Nat]
  BY <1>3, ZeroedCounters DEF IInv, RowOK
<1>5. \E w \in Windows : until' = [until EXCEPT ![w] = clock[w]]
  BY DEF OperatorStep, ResetDailyBudgets, SetBudget, Windows
<1>6. limit' \in DailyLimits
  BY DEF OperatorStep, ResetDailyBudgets, SetBudget, IInv, RowOK
<1>7. until' \in [Windows -> 0..MaxHours]
  BY <1>5 DEF IInv, ClockOK, RowOK
<1>8. RowOK'
  BY <1>1, <1>4, <1>6, <1>7 DEF IInv, RowOK
<1>. QED
  BY <1>2, <1>8

LEMMA TypesKeep ==
  ASSUME IInv, Next
  PROVE  ClockOK' /\ RowOK' /\ SessionsOK' /\ PlansOK'
<1>1. CASE Tick
  BY <1>1, TickTypes
<1>2. ASSUME NEW s \in Sessions, ReadWindows(s)
      PROVE  ClockOK' /\ RowOK' /\ SessionsOK' /\ PlansOK'
  BY <1>2, ReadWindowsTypes
<1>3. ASSUME NEW s \in Sessions, CheckBudget(s)
      PROVE  ClockOK' /\ RowOK' /\ SessionsOK' /\ PlansOK'
  BY <1>3, CheckBudgetTypes
<1>4. ASSUME NEW s \in Sessions, EndSession(s)
      PROVE  ClockOK' /\ RowOK' /\ SessionsOK' /\ PlansOK'
  BY <1>4, EndSessionTypes
<1>5. ASSUME NEW s \in Sessions, NEW c \in 1..SessionCost, RecordCost(s, c)
      PROVE  ClockOK' /\ RowOK' /\ SessionsOK' /\ PlansOK'
  BY <1>5, RecordCostTypes
<1>6. ASSUME NEW p \in Plans, PlanStep(p)
      PROVE  ClockOK' /\ RowOK' /\ SessionsOK' /\ PlansOK'
  BY <1>6, PlanTypes
<1>7. CASE OperatorStep
  BY <1>7, OperatorTypes
<1>. QED
  BY <1>1, <1>2, <1>3, <1>4, <1>5, <1>6, <1>7 DEF Next, PlanStep, OperatorStep

-----------------------------------------------------------------------------
(* The daily reset                                                         *)

\* Days do not go back, and what a check has read stays read.
LEMMA DaySeenKeeps ==
  ASSUME IInv, Next
  PROVE  DaySeen'
<1>1. /\ DOMAIN seen = Sessions /\ session \in [Sessions -> {"idle", "checking", "running"}]
      /\ DaySeen
  BY DEF IInv, SessionsOK
<1>2. CASE Tick
  <2>1. /\ clock["daily"] \in Nat /\ clock'["daily"] \in Nat
        /\ clock["daily"] <= clock'["daily"] /\ session' = session /\ seen' = seen
    BY <1>2, TickTypes DEF Tick, sessionVars
  <2>2. ASSUME NEW s \in Sessions, session[s] = "checking", "daily" \in seen[s].elapsed
        PROVE  seen[s].daily < clock'["daily"]
    <3>1. seen[s].daily < clock["daily"] /\ seen[s].daily \in 0..MaxHours
      BY <1>1, <2>2 DEF DaySeen, IInv, SessionsOK, Seen
    <3>2. seen[s].daily \in Nat
      BY <3>1, Constants
    <3>. QED
      BY <2>1, <3>1, <3>2
  <2>. QED
    BY <2>1, <2>2 DEF DaySeen
<1>3. ASSUME NEW s \in Sessions, ReadWindows(s) PROVE DaySeen'
  <2>1. /\ session' = [session EXCEPT ![s] = "checking"] /\ clock' = clock
        /\ seen' = [seen EXCEPT ![s] =
                      [elapsed |-> Elapsed, at |-> clock, daily |-> until["daily"]]]
    BY <1>3 DEF ReadWindows
  <2>2. /\ seen'[s].elapsed = Elapsed /\ seen'[s].daily = until["daily"]
        /\ \A q \in Sessions \ {s} : seen'[q] = seen[q] /\ session'[q] = session[q]
    BY <1>1, <2>1
  <2>3. "daily" \in Elapsed => until["daily"] < clock["daily"]
    BY DEF Elapsed
  <2>. QED
    BY <1>1, <2>1, <2>2, <2>3 DEF DaySeen
<1>4. ASSUME NEW s \in Sessions, CheckBudget(s) \/ EndSession(s) PROVE DaySeen'
  <2>1. /\ clock' = clock /\ session'[s] # "checking"
        /\ \A q \in Sessions \ {s} : seen'[q] = seen[q] /\ session'[q] = session[q]
    BY <1>1, <1>4 DEF CheckBudget, EndSession
  <2>. QED
    BY <1>1, <2>1 DEF DaySeen
<1>5. CASE UNCHANGED <<clock, session, seen>>
  BY <1>1, <1>5 DEF DaySeen
<1>6. ASSUME NEW s \in Sessions, NEW c \in 1..SessionCost, RecordCost(s, c)
      PROVE  UNCHANGED <<clock, session, seen>>
  BY <1>6 DEF RecordCost
<1>7. ASSUME NEW p \in Plans, PlanStep(p)
      PROVE  UNCHANGED <<clock, session, seen>>
  BY <1>7 DEF PlanStep, Reserve, StartPlan, LoseStart, Finish, ReleaseReservation,
              LoseRelease, sessionVars
<1>8. CASE OperatorStep
  BY <1>5, <1>8 DEF OperatorStep, ResetDailyBudgets, SetBudget, sessionVars
<1>. QED
  BY <1>2, <1>3, <1>4, <1>5, <1>6, <1>7, <1>8 DEF Next, PlanStep, OperatorStep

\* The daily counter of a day that is not over is not zeroed.
DayPast ==
  spent["daily"] > 0 /\ spent'["daily"] = 0 => until["daily"] < clock["daily"]

\* A step that zeroes the counters of ws.
LEMMA ZeroedDayPast ==
  ASSUME IInv, NEW ws, spent' = Zeroed(ws),
         "daily" \in ws => until["daily"] < clock["daily"]
  PROVE  DayPast
<1>1. "daily" \notin ws => spent'["daily"] = spent["daily"]
  BY ZeroedCounters DEF IInv
<1>2. spent["daily"] \in Nat
  BY DEF IInv, RowOK, Windows
<1>. QED
  BY <1>1, <1>2 DEF DayPast

LEMMA ResetsOnce ==
  ASSUME IInv, Next
  PROVE  DayPast
<1>1. spent["daily"] \in Nat /\ spent \in [Windows -> Nat]
  BY DEF IInv, RowOK, Windows
<1>2. CASE spent' = spent
  BY <1>1, <1>2 DEF DayPast
<1>3. "daily" \in Elapsed => until["daily"] < clock["daily"]
  BY DEF Elapsed
<1>4. ASSUME NEW s \in Sessions, CheckBudget(s) PROVE DayPast
  <2>1. session[s] = "checking" /\ spent' = Zeroed(WindowsToReset(s))
    BY <1>4 DEF CheckBudget
  <2>2. "daily" \in WindowsToReset(s)
          => until["daily"] = seen[s].daily /\ "daily" \in seen[s].elapsed
    BY DEF WindowsToReset
  <2>3. "daily" \in WindowsToReset(s) => until["daily"] < clock["daily"]
    BY <2>1, <2>2 DEF IInv, DaySeen
  <2>. QED
    BY <2>1, <2>3, ZeroedDayPast
<1>5. ASSUME NEW s \in Sessions, NEW c \in 1..SessionCost, RecordCost(s, c) PROVE DayPast
  <2>1. spent'["daily"] = spent["daily"] + c /\ c \in Nat
    BY <1>5, Constants DEF RecordCost, Windows
  <2>. QED
    BY <1>1, <2>1 DEF DayPast
<1>6. ASSUME NEW p \in Plans, Reserve(p) PROVE DayPast
  BY <1>3, <1>6, ZeroedDayPast DEF Reserve
<1>7. CASE ResetDailyBudgets
  <2>1. spent' = Zeroed({"daily"}) /\ until["daily"] < clock["daily"]
    BY <1>3, <1>7 DEF ResetDailyBudgets
  <2>. QED
    BY <2>1, ZeroedDayPast
<1>8. ASSUME NEW p \in Plans, PlanStep(p), ~Reserve(p) PROVE spent' = spent
  BY <1>8 DEF PlanStep, StartPlan, LoseStart, Finish, ReleaseReservation, LoseRelease,
              rowVars
<1>9. ASSUME NEW s \in Sessions, ReadWindows(s) \/ EndSession(s) PROVE spent' = spent
  BY <1>9 DEF ReadWindows, EndSession, rowVars
<1>10. CASE Tick \/ \E l \in DailyLimits : SetBudget(l)
  BY <1>2, <1>10 DEF Tick, SetBudget, rowVars
<1>. QED
  BY <1>2, <1>4, <1>5, <1>6, <1>7, <1>8, <1>9, <1>10 DEF Next, PlanStep

-----------------------------------------------------------------------------
(* The reservations                                                        *)

UnderWay == {p \in Plans : plan[p] \in Reserving}
Estimated == Cardinality(Cents(Estimate, UnderWay))

LEMMA EstimatedType ==
  Estimated \in Nat
<1>1. UnderWay \in SUBSET Plans
  BY DEF UnderWay
<1>. QED
  BY <1>1, CentsFinite, Constants, FiniteAssumption DEF Estimated

\* A plan under way has its estimate among those of all.
LEMMA PlanLeaves ==
  ASSUME PlansOK, NEW p \in Plans, plan[p] \in Reserving, NEW st \in PlanStatus \ Reserving,
         plan' = [plan EXCEPT ![p] = st]
  PROVE  Estimated = Estimated' + Estimate[p] /\ Estimated' \in Nat
<1>1. UnderWay \in SUBSET Plans /\ p \in UnderWay
  BY DEF UnderWay
<1>2. UnderWay' = UnderWay \ {p}
  BY DEF UnderWay, PlansOK
<1>3. UnderWay \ {p} \in SUBSET Plans
  BY <1>1
<1>4. Cardinality(Cents(Estimate, UnderWay))
        = Cardinality(Cents(Estimate, UnderWay \ {p})) + Estimate[p]
  BY <1>1, CentsOfMember, Constants, FiniteAssumption
<1>5. Cardinality(Cents(Estimate, UnderWay \ {p})) \in Nat
  BY <1>3, CentsFinite, Constants, FiniteAssumption
<1>. QED
  BY <1>2, <1>4, <1>5 DEF Estimated

\* A plan that gets under way adds its estimate.
LEMMA PlanEnters ==
  ASSUME PlansOK, NEW p \in Plans, plan[p] \notin Reserving, NEW st \in Reserving,
         plan' = [plan EXCEPT ![p] = st]
  PROVE  Estimated' = Estimated + Estimate[p]
<1>1. UnderWay' \in SUBSET Plans /\ p \in UnderWay'
  BY DEF UnderWay, PlansOK
<1>2. UnderWay' \ {p} = UnderWay
  BY DEF UnderWay, PlansOK
<1>3. Cardinality(Cents(Estimate, UnderWay'))
        = Cardinality(Cents(Estimate, UnderWay' \ {p})) + Estimate[p]
  BY <1>1, CentsOfMember, Constants, FiniteAssumption
<1>. QED
  BY <1>2, <1>3 DEF Estimated

\* A plan that stays under way, or out of it, changes nothing.
LEMMA PlanStays ==
  ASSUME PlansOK, NEW p \in Plans, NEW st \in PlanStatus,
         (plan[p] \in Reserving) = (st \in Reserving),
         plan' = [plan EXCEPT ![p] = st]
  PROVE  Estimated' = Estimated
<1>1. UnderWay' = UnderWay
  BY DEF UnderWay, PlansOK
<1>. QED
  BY <1>1 DEF Estimated

LEMMA ReservationsKeep ==
  ASSUME IInv, Next
  PROVE  ReservationsAccounted'
<1>1. /\ reserved = leaked + Estimated /\ reserved \in Nat /\ leaked \in Nat
      /\ Estimated \in Nat /\ PlansOK
  BY EstimatedType DEF IInv, ReservationsAccounted, Estimated, UnderWay, RowOK, PlansOK
<1>2. reserved' = leaked' + Estimated' => ReservationsAccounted'
  BY DEF ReservationsAccounted, Estimated, UnderWay
<1>3. CASE UNCHANGED <<reserved, leaked, plan>>
  <2>1. Estimated' = Estimated
    BY <1>3 DEF Estimated, UnderWay
  <2>. QED
    BY <1>1, <1>2, <1>3, <2>1
<1>4. ASSUME NEW p \in Plans, Reserve(p) PROVE ReservationsAccounted'
  <2>1. CASE reserved' = reserved /\ plan' = plan
    BY <1>3, <1>4, <2>1 DEF Reserve
  <2>2. CASE reserved' = reserved + Estimate[p] /\ plan' = [plan EXCEPT ![p] = "reserving"]
    <3>1. plan[p] = "planned" /\ leaked' = leaked
      BY <1>4 DEF Reserve
    <3>2. Estimated' = Estimated + Estimate[p]
      BY <1>1, <2>2, <3>1, PlanEnters DEF Reserving
    <3>3. Estimate[p] \in Nat
      BY Constants
    <3>. QED
      BY <1>1, <1>2, <2>2, <3>1, <3>2, <3>3
  <2>. QED
    BY <1>4, <2>1, <2>2 DEF Reserve
<1>5. ASSUME NEW p \in Plans, StartPlan(p) \/ Finish(p) PROVE ReservationsAccounted'
  <2>1. /\ UNCHANGED <<reserved, leaked>>
        /\ \E st \in PlanStatus : /\ (plan[p] \in Reserving) = (st \in Reserving)
                                  /\ plan' = [plan EXCEPT ![p] = st]
    BY <1>5 DEF StartPlan, Finish, rowVars, PlanStatus, Reserving
  <2>2. Estimated' = Estimated
    BY <1>1, <2>1, PlanStays
  <2>. QED
    BY <1>1, <1>2, <2>1, <2>2
<1>6. ASSUME NEW p \in Plans, LoseStart(p) \/ LoseRelease(p) PROVE ReservationsAccounted'
  <2>1. /\ reserved' = reserved /\ leaked' = leaked + Estimate[p]
        /\ plan[p] \in Reserving
        /\ \E st \in PlanStatus \ Reserving : plan' = [plan EXCEPT ![p] = st]
    BY <1>6 DEF LoseStart, LoseRelease, rowVars, PlanStatus, Reserving
  <2>2. Estimated = Estimated' + Estimate[p] /\ Estimated' \in Nat
    BY <1>1, <2>1, PlanLeaves
  <2>3. Estimate[p] \in Nat
    BY Constants
  <2>. QED
    BY <1>1, <1>2, <2>1, <2>2, <2>3
<1>7. ASSUME NEW p \in Plans, ReleaseReservation(p) PROVE ReservationsAccounted'
  <2>1. /\ plan[p] = "releasing" /\ leaked' = leaked
        /\ plan' = [plan EXCEPT ![p] = "finished"]
        /\ reserved' = IF reserved >= Estimate[p] THEN reserved - Estimate[p] ELSE 0
    BY <1>7 DEF ReleaseReservation
  <2>2. Estimated = Estimated' + Estimate[p] /\ Estimated' \in Nat
    BY <1>1, <2>1, PlanLeaves DEF PlanStatus, Reserving
  <2>3. Estimate[p] \in Nat
    BY Constants
  <2>. QED
    BY <1>1, <1>2, <2>1, <2>2, <2>3
<1>8. ASSUME NEW s \in Sessions,
             ReadWindows(s) \/ CheckBudget(s) \/ EndSession(s)
               \/ \E c \in 1..SessionCost : RecordCost(s, c)
      PROVE  UNCHANGED <<reserved, leaked, plan>>
  BY <1>8 DEF ReadWindows, CheckBudget, EndSession, RecordCost, rowVars, planVars
<1>9. CASE Tick \/ OperatorStep
  BY <1>3, <1>9 DEF Tick, OperatorStep, ResetDailyBudgets, SetBudget, rowVars, planVars
<1>. QED
  BY <1>3, <1>4, <1>5, <1>6, <1>7, <1>8, <1>9 DEF Next, OperatorStep

-----------------------------------------------------------------------------
(* What sessions overspend                                                 *)

Rest(s) == Cardinality(Cents(left, Sessions \ {s}))

\* One session's share of what may still be spent.
LEMMA ShareOfSession ==
  ASSUME SessionsOK, NEW s \in Sessions
  PROVE  /\ Rest(s) \in Nat /\ left[s] \in Nat
         /\ Cardinality(Cents(left, Sessions)) = Rest(s) + left[s]
<1>1. left \in [Sessions -> Nat]
  BY Constants DEF SessionsOK
<1>2. Cardinality(Cents(left, Sessions))
        = Cardinality(Cents(left, Sessions \ {s})) + left[s]
  BY <1>1, CentsOfMember, FiniteAssumption
<1>3. Cardinality(Cents(left, Sessions \ {s})) \in Nat
  BY <1>1, CentsFinite, FiniteAssumption
<1>. QED
  BY <1>1, <1>2, <1>3 DEF Rest

\* The same after a step that only changes what s may spend.
LEMMA ShareMoves ==
  ASSUME SessionsOK, SessionsOK', NEW s \in Sessions,
         \A q \in Sessions \ {s} : left'[q] = left[q]
  PROVE  Cardinality(Cents(left', Sessions)) = Rest(s) + left'[s] /\ left'[s] \in Nat
<1>1. left' \in [Sessions -> Nat]
  BY Constants DEF SessionsOK
<1>2. Cardinality(Cents(left', Sessions))
        = Cardinality(Cents(left', Sessions \ {s})) + left'[s]
  BY <1>1, CentsOfMember, FiniteAssumption
<1>3. Cents(left', Sessions \ {s}) = Cents(left, Sessions \ {s})
  BY CentsAgree
<1>. QED
  BY <1>1, <1>2, <1>3 DEF Rest

LEMMA CostsKeep ==
  ASSUME IInv, Next
  PROVE  MayBeSpent'
<1>. DEFINE Bound == Max(DailyLimits) + Cardinality(Sessions) * SessionCost
            Sum == Cardinality(Cents(left, Sessions))
            SumNext == Cardinality(Cents(left', Sessions))
<1>1. SessionsOK /\ SessionsOK' /\ RowOK /\ RowOK'
  BY TypesKeep DEF IInv
<1>2. /\ spent["daily"] \in Nat /\ spent'["daily"] \in Nat /\ reserved \in Nat
      /\ limit \in DailyLimits
  BY <1>1 DEF RowOK, Windows
<1>3. /\ Sum \in Nat /\ SumNext \in Nat
      /\ SumNext <= Cardinality(Sessions) * SessionCost
  <2>1. /\ left \in [Sessions -> Nat] /\ left' \in [Sessions -> Nat]
        /\ \A q \in Sessions : left'[q] <= SessionCost
    BY <1>1, Constants DEF SessionsOK
  <2>2. Sum \in Nat
    BY <2>1, CentsFinite, FiniteAssumption
  <2>. QED
    BY <2>1, <2>2, CentsBounded, FiniteAssumption, Constants
<1>4. /\ Max(DailyLimits) \in Nat /\ Cardinality(Sessions) * SessionCost \in Nat
      /\ limit \in Nat /\ limit <= Max(DailyLimits)
  <2>1. \A a, b \in Nat : a * b \in Nat
    OBVIOUS
  <2>. QED
    BY <1>2, <2>1, Constants
<1>5. spent["daily"] + Sum < Bound /\ (MayBeSpent' <=> spent'["daily"] + SumNext < Bound)
  BY DEF IInv, MayBeSpent
<1>6. CASE spent'["daily"] <= spent["daily"] /\ SumNext <= Sum
  <2>. HIDE DEF Sum, SumNext
  <2>1. Bound \in Nat
    BY <1>4
  <2>. HIDE DEF Bound
  <2>. QED
    BY <1>2, <1>3, <1>5, <1>6, <2>1
<1>7. ASSUME NEW s \in Sessions, CheckBudget(s), WithinBudget(spent') PROVE MayBeSpent'
  <2>1. spent'["daily"] + reserved < limit
    BY <1>7 DEF WithinBudget
  <2>. DEFINE n == Cardinality(Sessions) * SessionCost
              top == Max(DailyLimits)
  <2>. HIDE DEF Sum, SumNext, n, top
  <2>2. top \in Nat /\ n \in Nat /\ limit <= top /\ SumNext <= n
    BY <1>3, <1>4 DEF n, top
  <2>3. spent'["daily"] + SumNext < top + n
    BY <1>2, <1>3, <1>4, <2>1, <2>2
  <2>. QED
    BY <1>5, <2>3 DEF n, top
<1>8. ASSUME NEW s \in Sessions, left' = [left EXCEPT ![s] = 0],
             spent'["daily"] <= spent["daily"]
      PROVE  MayBeSpent'
  <2>1. \A q \in Sessions \ {s} : left'[q] = left[q]
    BY <1>1, <1>8 DEF SessionsOK
  <2>2. left'[s] = 0
    BY <1>1, <1>8 DEF SessionsOK
  <2>3. Sum = Rest(s) + left[s] /\ Rest(s) \in Nat /\ left[s] \in Nat
    BY <1>1, ShareOfSession
  <2>4. SumNext = Rest(s) + left'[s]
    BY <1>1, <2>1, ShareMoves
  <2>5. SumNext <= Sum
    <3>. HIDE DEF Sum, SumNext
    <3>. QED
      BY <2>2, <2>3, <2>4
  <2>. QED
    BY <1>6, <1>8, <2>5
<1>9. ASSUME NEW s \in Sessions, NEW c \in 1..SessionCost, RecordCost(s, c)
      PROVE  MayBeSpent'
  <2>1. /\ c <= left[s] /\ left' = [left EXCEPT ![s] = left[s] - c]
        /\ spent'["daily"] = spent["daily"] + c /\ c \in Nat
    BY <1>9, Constants DEF RecordCost, Windows
  <2>2. left'[s] = left[s] - c /\ \A q \in Sessions \ {s} : left'[q] = left[q]
    BY <1>1, <2>1 DEF SessionsOK
  <2>3. Sum = Rest(s) + left[s] /\ Rest(s) \in Nat /\ left[s] \in Nat
    BY <1>1, ShareOfSession
  <2>4. SumNext = Rest(s) + left'[s]
    BY <1>1, <2>2, ShareMoves
  <2>. HIDE DEF Sum, SumNext, Bound
  <2>5. spent'["daily"] + SumNext = spent["daily"] + Sum
    BY <1>2, <1>3, <2>1, <2>2, <2>3, <2>4
  <2>. QED
    BY <1>5, <2>5
<1>10. ASSUME NEW s \in Sessions, CheckBudget(s), ~WithinBudget(spent') PROVE MayBeSpent'
  <2>1. left' = [left EXCEPT ![s] = 0] /\ spent' = Zeroed(WindowsToReset(s))
    BY <1>10 DEF CheckBudget
  <2>2. spent'["daily"] <= spent["daily"]
    BY <1>1, <2>1, ZeroedCounters
  <2>. QED
    BY <1>8, <2>1, <2>2
<1>11. ASSUME NEW s \in Sessions, EndSession(s) PROVE MayBeSpent'
  <2>1. left' = [left EXCEPT ![s] = 0] /\ spent'["daily"] <= spent["daily"]
    BY <1>2, <1>11 DEF EndSession, rowVars
  <2>. QED
    BY <1>8, <2>1
<1>12. CASE left' = left /\ (spent' = spent \/ \E ws : spent' = Zeroed(ws))
  <2>1. spent'["daily"] <= spent["daily"]
    BY <1>1, <1>2, <1>12, ZeroedCounters
  <2>2. SumNext <= Sum
    <3>1. SumNext = Sum
      BY <1>12
    <3>. QED
      BY <1>3, <3>1
  <2>. QED
    BY <1>6, <2>1, <2>2
<1>13. ASSUME NEW s \in Sessions, ReadWindows(s) PROVE left' = left /\ spent' = spent
  BY <1>13 DEF ReadWindows, rowVars
<1>14. ASSUME NEW p \in Plans, PlanStep(p)
       PROVE  left' = left /\ (spent' = spent \/ \E ws : spent' = Zeroed(ws))
  BY <1>14 DEF PlanStep, Reserve, StartPlan, LoseStart, Finish, ReleaseReservation,
               LoseRelease, sessionVars, rowVars
<1>15. CASE Tick \/ OperatorStep
  BY <1>12, <1>15 DEF Tick, OperatorStep, ResetDailyBudgets, SetBudget, sessionVars, rowVars
<1>. HIDE DEF Sum, SumNext, Bound
<1>. QED
  BY <1>7, <1>9, <1>10, <1>11, <1>12, <1>13, <1>14, <1>15 DEF Next, PlanStep, OperatorStep

-----------------------------------------------------------------------------
(* The theorems                                                            *)

LEMMA InitIInv == Init => IInv
<1>. SUFFICES ASSUME Init PROVE IInv
  OBVIOUS
<1>. USE Constants
<1>1. ClockOK
  BY DEF Init, ClockOK, Windows
<1>2. RowOK
  BY DEF Init, RowOK, Windows
<1>3. SessionsOK
  BY DEF Init, SessionsOK
<1>4. PlansOK
  BY DEF Init, PlansOK, PlanStatus
<1>5. DaySeen
  BY DEF Init, DaySeen
<1>6. ReservationsAccounted
  <2>1. UnderWay = {}
    BY DEF Init, UnderWay, Reserving
  <2>2. Cents(Estimate, {}) = {}
    BY DEF Cents
  <2>3. Estimated = 0
    BY <2>1, <2>2, FS_EmptySet DEF Estimated
  <2>4. reserved = leaked + Estimated
    BY <2>3 DEF Init
  <2>. QED
    BY <2>4 DEF ReservationsAccounted, Estimated, UnderWay
<1>7. MayBeSpent
  <2>1. \A s \in Sessions : left[s] = 0
    BY DEF Init
  <2>2. Cents(left, Sessions) = {}
    BY <2>1 DEF Cents
  <2>3. Cardinality(Cents(left, Sessions)) = 0
    BY <2>2, FS_EmptySet
  <2>4. spent["daily"] = 0
    BY DEF Init, Windows
  <2>5. \A a, b \in Nat : a * b \in Nat
    OBVIOUS
  <2>6. Cardinality(Sessions) * SessionCost \in Nat
    BY <2>5
  <2>. QED
    BY <2>3, <2>4, <2>6 DEF MayBeSpent
<1>. QED
  BY <1>1, <1>2, <1>3, <1>4, <1>5, <1>6, <1>7 DEF IInv

LEMMA StepKeeps ==
  ASSUME IInv, [Next]_vars
  PROVE  IInv'
<1>1. CASE Next
  BY <1>1, TypesKeep, DaySeenKeeps, ReservationsKeep, CostsKeep DEF IInv
<1>2. CASE UNCHANGED vars
  <2>1. UNCHANGED <<clock, until, spent, limit, reserved, session, seen, left,
                    plan, leaked, crashes>>
    BY <1>2 DEF vars, rowVars, sessionVars, planVars
  <2>2. ClockOK' /\ RowOK' /\ SessionsOK' /\ PlansOK' /\ DaySeen'
    BY <2>1 DEF IInv, ClockOK, RowOK, SessionsOK, PlansOK, DaySeen, Seen
  <2>3. ReservationsAccounted' /\ MayBeSpent'
    BY <2>1 DEF IInv, ReservationsAccounted, MayBeSpent
  <2>. QED
    BY <2>2, <2>3 DEF IInv
<1>. QED
  BY <1>1, <1>2

\* The types, the boundary each check has read, the reservations and what the
\* sessions may still spend hold together in every reachable state.
THEOREM Invariant == Spec => []IInv
<1>1. IInv /\ [Next]_vars => IInv'
  BY StepKeeps
<1>. QED
  BY InitIInv, <1>1, PTL DEF Spec

\* The counters of the budget row stay natural numbers, its boundaries within
\* the hours that have passed, and its limit one that was set.
THEOREM TypeCorrect == Spec => []TypeOK
<1>1. IInv => TypeOK
  BY DEF IInv, ClockOK, RowOK, SessionsOK, PlansOK, Seen, TypeOK
<1>. QED
  BY <1>1, Invariant, PTL

\* However many plans start, finish and lose their process between two
\* statements, reserved_cents is the estimates of those under way and what the
\* lost processes have leaked (startPlan, completePlan, abandonPlan).
THEOREM ReservationsAccountedHolds == Spec => []ReservationsAccounted
<1>1. IInv => ReservationsAccounted
  BY DEF IInv
<1>. QED
  BY <1>1, Invariant, PTL

\* However many sessions have passed the check on the same remainder, the daily
\* counter stays within one session cost for each of them of the largest limit
\* (checkBudgetV2, recordCost).
THEOREM OverspendBoundedHolds == Spec => []OverspendBounded
<1>1. IInv => OverspendBounded
  <2>. SUFFICES ASSUME IInv PROVE OverspendBounded
    OBVIOUS
  <2>1. left \in [Sessions -> Nat] /\ spent["daily"] \in Nat
    BY Constants DEF IInv, SessionsOK, RowOK, Windows
  <2>. DEFINE sum == Cardinality(Cents(left, Sessions))
              top == Max(DailyLimits) + Cardinality(Sessions) * SessionCost
  <2>2. sum \in Nat
    BY <2>1, CentsFinite, FiniteAssumption
  <2>3. spent["daily"] + sum < top
    BY DEF IInv, MayBeSpent
  <2>4. top \in Nat
    <3>1. \A a, b \in Nat : a * b \in Nat
      OBVIOUS
    <3>2. Cardinality(Sessions) * SessionCost \in Nat
      BY <3>1, Constants
    <3>. QED
      BY <3>2, Constants
  <2>. HIDE DEF sum, top
  <2>5. spent["daily"] < top
    BY <2>1, <2>2, <2>3, <2>4
  <2>. QED
    BY <2>5 DEF OverspendBounded, top
<1>. QED
  BY <1>1, Invariant, PTL

\* The daily counter is zeroed only when its day is over, whatever checks and
\* sweeps saw the same boundary (ensureWindowsCurrent, resetDailyBudgets).
THEOREM DailyResetOnceHolds == Spec => DailyResetOnce
<1>1. IInv /\ [Next]_vars
        => [spent["daily"] > 0 /\ spent'["daily"] = 0
              => until["daily"] < clock["daily"]]_vars
  BY ResetsOnce DEF DayPast
<1>. QED
  BY <1>1, Invariant, PTL DEF Spec, DailyResetOnce
=============================================================================
