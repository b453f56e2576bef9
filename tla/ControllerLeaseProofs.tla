----------------------- MODULE ControllerLeaseProofs -----------------------
(***************************************************************************)
(* Proofs about ControllerLease, for any processes, generations of the     *)
(* code and proposals.                                                     *)
(***************************************************************************)
EXTENDS ControllerLease, TLAPS

\* What the properties need besides their own statement: the owner id of a
\* process that ended is never in the row, so a starting process owns nothing
\* and a CLI command never finds itself the owner when a section begins.
OwnerRuns == \A p \in Processes : Owns(p) => proc[p] # Off
StartsFresh ==
  \A p \in Processes : Does(p, "start") => Is(p, {"controller"}) /\ ~Owns(p)
CliIsNoGuest == \A p \in Processes : Is(p, {"cli"}) => proc[p].work # "guest"
PendingNames ==
  \A x \in Proposals : prop[x].status = "pending" => prop[x].gen \in Generations

Ownership == OwnerRuns /\ StartsFresh /\ CliIsNoGuest /\ CliKeepsNoLease

IInv == TypeOK /\ Ownership /\ PendingNames

\* What acquireControllerLease writes.
LEMMA AcquiredFacts ==
  ASSUME TypeOK, NEW p \in Processes, proc[p] # Off
  PROVE  /\ Acquired(p) \in Lease
         /\ Acquired(p).owner = p
         /\ Acquired(p).generation = proc[p].gen
         /\ Acquired(p).live
<1>1. proc[p].gen \in Generations
  BY DEF TypeOK, Process
<1>2. Seen(proc[p].gen) \in Lease
  BY <1>1 DEF Seen, TypeOK, Lease
<1> QED BY <1>1, <1>2 DEF Acquired, Lease

\* requestControllerGeneration leaves the owner alone, or names nobody.
LEMMA RequestedFacts ==
  ASSUME NEW l \in Lease \cup {Null}, NEW g \in Generations
  PROVE  /\ Requested(l, g) \in Lease
         /\ l # Null => /\ Requested(l, g).owner = l.owner
                        /\ Requested(l, g).live = l.live
                        /\ Requested(l, g).generation = l.generation
         /\ l = Null => Requested(l, g).owner = Handoff
BY DEF Requested, Lease

\* Every step changes at most one process, and the row for it alone: the
\* owner stays, or becomes that process, or a placeholder.
LEMMA OwnershipPreserved ==
  ASSUME IInv, NEW p \in Processes,
         \A q \in Processes \ {p} : proc'[q] = proc[q],
         \A q \in Processes \ {p} : Owns(q)' => Owns(q),
         Owns(p)' => proc'[p] # Off,
         Does(p, "start")' => Is(p, {"controller"})' /\ ~Owns(p)',
         Is(p, {"cli"})' =>
           /\ proc'[p].work # "guest"
           /\ Owns(p)' => \/ proc'[p].work # "none"
                          \/ proc'[p].doing \in {"drop", "handoff"}
  PROVE  Ownership'
BY DEF IInv, Ownership, OwnerRuns, StartsFresh, CliIsNoGuest, CliKeepsNoLease,
       Is, Does

LEMMA InitInvariant == Init => IInv
BY NamesAssumption
   DEF Init, IInv, TypeOK, Ownership, OwnerRuns, StartsFresh, CliIsNoGuest,
       CliKeepsNoLease, PendingNames, Owns, Is, Does, Proposal

\* The type invariant is preserved by every step.
LEMMA NextType == TypeOK /\ [Next]_vars => TypeOK'
<1> SUFFICES ASSUME TypeOK, [Next]_vars PROVE TypeOK'
  OBVIOUS
<1> USE NamesAssumption
<1>1. CASE Upgrade
  BY <1>1 DEF Upgrade, TypeOK
<1>2. CASE LeaseExpires
  BY <1>2 DEF LeaseExpires, TypeOK, Lease
<1>3. CASE UNCHANGED vars
  BY <1>3 DEF vars, TypeOK
<1>4. ASSUME NEW p \in Processes, Start(p) PROVE TypeOK'
  BY <1>4 DEF Start, TypeOK, Process
<1>5. ASSUME NEW p \in Processes, Exit(p) PROVE TypeOK'
  BY <1>5 DEF Exit, TypeOK, Owns, Lease
<1>6. ASSUME NEW p \in Processes, ControllerStarts(p) PROVE TypeOK'
  BY <1>6, AcquiredFacts DEF ControllerStarts, Does, TypeOK, Process
<1>7. ASSUME NEW p \in Processes, ControllerRefused(p) \/ ControllerStops(p)
      PROVE  TypeOK'
  BY <1>7 DEF ControllerRefused, ControllerStops, TypeOK
<1>8. ASSUME NEW p \in Processes, Heartbeat(p) PROVE TypeOK'
  BY <1>8, AcquiredFacts DEF Heartbeat, Does, TypeOK
<1>9. ASSUME NEW p \in Processes, Unregister(p) PROVE TypeOK'
  BY <1>9 DEF Unregister, Does, Releasing, TypeOK, Process
<1>10. ASSUME NEW p \in Processes, FinishRelease(p) PROVE TypeOK'
  BY <1>10 DEF FinishRelease, Does, Owns, TypeOK, Process, Lease
<1>11. ASSUME NEW p \in Processes, ProcessAndDispatch(p) PROVE TypeOK'
  BY <1>11, AcquiredFacts DEF ProcessAndDispatch, MaySection, Does, Working, TypeOK, Process
<1>12. ASSUME NEW p \in Processes, Sweep(p) PROVE TypeOK'
  <2>1. proc[p] \in Process
    BY <1>12 DEF Sweep, MaySection, Does, TypeOK
  <2>2. lease' \in Lease
    BY <1>12, <2>1, AcquiredFacts, RequestedFacts
       DEF Sweep, MaySection, Does, Process
  <2>3. proc' \in [Processes -> Process \cup {Off}]
    BY <1>12, <2>1 DEF Sweep, Working, TypeOK, Process
  <2>4. prop' \in [Proposals -> Proposal]
    BY <1>12, <2>1 DEF Sweep, TypeOK, Process, Proposal
  <2> QED BY <1>12, <2>2, <2>3, <2>4 DEF Sweep, TypeOK
<1>13. ASSUME NEW p \in Processes, EndSection(p) PROVE TypeOK'
  <2>1. Releasing(p) \in {"nothing", "drop", "handoff"}
    BY DEF Releasing
  <2>2. proc[p] \in Process
    BY <1>13 DEF EndSection, Does, TypeOK
  <2> QED BY <1>13, <2>1, <2>2 DEF EndSection, TypeOK, Process
<1>14. ASSUME NEW p \in Processes, Takeover(p) \/ ApproveRequests(p) \/ RequestHandoff(p)
       PROVE  TypeOK'
  <2>1. proc[p] \in Process
    BY <1>14 DEF Takeover, ApproveRequests, RequestHandoff, Does, TypeOK
  <2>2. lease' \in Lease
    BY <1>14, <2>1, RequestedFacts
       DEF Takeover, ApproveRequests, RequestHandoff, TypeOK, Process
  <2> QED
    BY <1>14, <2>1, <2>2
       DEF Takeover, ApproveRequests, RequestHandoff, TypeOK, Process
<1>15. ASSUME NEW p \in Processes, EndTakeover(p) PROVE TypeOK'
  <2>1. Clearing(proc[p].gen, {}) \in {"nothing", "clear"}
    BY DEF Clearing
  <2>2. proc[p] \in Process
    BY <1>15 DEF EndTakeover, Does, TypeOK
  <2> QED BY <1>15, <2>1, <2>2 DEF EndTakeover, TypeOK, Process
<1>16. ASSUME NEW p \in Processes, FinishClear(p) PROVE TypeOK'
  BY <1>16 DEF FinishClear, Does, TypeOK, Process, Lease
<1>17. ASSUME NEW p \in Processes, NEW x \in Proposals, Approve(p, x)
       PROVE  TypeOK'
  BY <1>17 DEF Approve, Does, TypeOK, Process, Proposal
<1>18. ASSUME NEW p \in Processes, NEW x \in Proposals, Execute(p, x)
       PROVE  TypeOK'
  BY <1>18 DEF Execute, Does, Clearing, TypeOK, Process, Proposal
<1> QED
  BY <1>1, <1>2, <1>3, <1>4, <1>5, <1>6, <1>7, <1>8, <1>9, <1>10, <1>11, <1>12,
     <1>13, <1>14, <1>15, <1>16, <1>17, <1>18 DEF Next

\* No step leaves a process that is gone in the row, or a CLI command that
\* does not work.
LEMMA NextOwnership == IInv /\ [Next]_vars => Ownership'
<1> SUFFICES ASSUME IInv, [Next]_vars PROVE Ownership'
  OBVIOUS
<1> USE NamesAssumption
<1>0. TypeOK /\ Ownership
  BY DEF IInv
<1>1. CASE Upgrade \/ UNCHANGED vars
  BY <1>0, <1>1
     DEF Upgrade, vars, Ownership, OwnerRuns, StartsFresh, CliIsNoGuest,
         CliKeepsNoLease, Owns, Is, Does
<1>2. CASE LeaseExpires
  <2>1. proc' = proc /\ \A q \in Processes : Owns(q)' => Owns(q)
    BY <1>0, <1>2 DEF LeaseExpires, Owns, TypeOK, Lease
  <2> QED
    BY <1>0, <2>1
       DEF Ownership, OwnerRuns, StartsFresh, CliIsNoGuest, CliKeepsNoLease, Is, Does
<1>3. ASSUME NEW p \in Processes, Start(p) PROVE Ownership'
  <2>1. ~Owns(p) /\ ~Owns(p)'
    BY <1>0, <1>3 DEF Start, Ownership, OwnerRuns, Owns
  <2>2. /\ Does(p, "start")' => Is(p, {"controller"})'
        /\ proc'[p].work # "guest"
    BY <1>0, <1>3 DEF Start, TypeOK, Is, Does
  <2>3. \A q \in Processes \ {p} : proc'[q] = proc[q] /\ (Owns(q)' => Owns(q))
    BY <1>0, <1>3 DEF Start, TypeOK, Owns
  <2> QED BY <2>1, <2>2, <2>3, OwnershipPreserved
<1>4. ASSUME NEW p \in Processes,
             Exit(p) \/ ControllerRefused(p) \/ ControllerStops(p)
      PROVE  Ownership'
  <2>1. proc'[p] = Off
    BY <1>0, <1>4 DEF Exit, ControllerRefused, ControllerStops, TypeOK
  <2>2. ~Owns(p)'
    BY <1>0, <1>4
       DEF Exit, ControllerRefused, ControllerStops, Owns, Ownership, StartsFresh,
           TypeOK, Lease
  <2>3. \A q \in Processes \ {p} : proc'[q] = proc[q] /\ (Owns(q)' => Owns(q))
    BY <1>0, <1>4
       DEF Exit, ControllerRefused, ControllerStops, TypeOK, Owns, Lease
  <2> QED BY <2>1, <2>2, <2>3, OwnershipPreserved DEF Is, Does
<1>5. ASSUME NEW p \in Processes, ControllerStarts(p) \/ Heartbeat(p)
      PROVE  Ownership'
  <2>1. proc[p] \in Process /\ proc[p] # Off
    BY <1>0, <1>5 DEF ControllerStarts, Heartbeat, Is, Does, TypeOK
  <2>2. lease' = Acquired(p) /\ Acquired(p).owner = p
    BY <1>0, <1>5, <2>1, AcquiredFacts DEF ControllerStarts, Heartbeat
  <2>3. ~Is(p, {"cli"}) /\ ~Is(p, {"cli"})' /\ ~Does(p, "start")'
    BY <1>0, <1>5, <2>1
       DEF ControllerStarts, Heartbeat, Is, Does, Ownership, StartsFresh,
           TypeOK, Process
  <2>4. \A q \in Processes \ {p} : proc'[q] = proc[q] /\ ~Owns(q)'
    BY <1>0, <1>5, <2>2 DEF ControllerStarts, Heartbeat, Owns, TypeOK
  <2>5. proc'[p] # Off
    BY <1>0, <1>5, <2>1 DEF ControllerStarts, Heartbeat, TypeOK, Process
  <2> QED BY <2>3, <2>4, <2>5, OwnershipPreserved
<1>6. ASSUME NEW p \in Processes, Unregister(p) PROVE Ownership'
  <2>1. proc[p] \in Process /\ proc[p] # Off /\ ~Is(p, {"cli"})
    BY <1>0, <1>6 DEF Unregister, Is, Does, TypeOK, Process
  <2>2. Releasing(p) \in {"nothing", "drop", "handoff"}
    BY DEF Releasing
  <2>3. proc'[p] # Off /\ ~Is(p, {"cli"})' /\ ~Does(p, "start")'
    BY <1>0, <1>6, <2>1, <2>2 DEF Unregister, Is, Does, TypeOK, Process
  <2>4. \A q \in Processes \ {p} : proc'[q] = proc[q] /\ (Owns(q)' => Owns(q))
    BY <1>0, <1>6 DEF Unregister, TypeOK, Owns
  <2> QED BY <2>3, <2>4, OwnershipPreserved
<1>7. ASSUME NEW p \in Processes, FinishRelease(p) PROVE Ownership'
  <2>1. proc[p] \in Process /\ proc[p] # Off
    BY <1>0, <1>7 DEF FinishRelease, Does, TypeOK
  <2>2. ~Owns(p)' /\ \A q \in Processes \ {p} : Owns(q)' => Owns(q)
    BY <1>0, <1>7 DEF FinishRelease, Owns, TypeOK, Lease
  <2>3. /\ \A q \in Processes \ {p} : proc'[q] = proc[q]
        /\ proc'[p] # Off /\ ~Does(p, "start")'
        /\ proc'[p].work = proc[p].work /\ proc'[p].kind = proc[p].kind
    BY <1>0, <1>7, <2>1 DEF FinishRelease, Does, TypeOK, Process
  <2> QED
    BY <1>0, <2>1, <2>2, <2>3, OwnershipPreserved
       DEF Ownership, CliIsNoGuest, Is
<1>8. ASSUME NEW p \in Processes, ProcessAndDispatch(p) \/ Sweep(p)
      PROVE  Ownership'
  <2>1. proc[p] \in Process /\ proc[p] # Off /\ MaySection(p) /\ Does(p, "nothing")
    BY <1>0, <1>8 DEF ProcessAndDispatch, Sweep, MaySection, Does, TypeOK
  <2>2. Acquired(p) \in Lease /\ Acquired(p).owner = p
    BY <1>0, <2>1, AcquiredFacts
  <2>3. lease'.owner = p
    BY <1>8, <2>1, <2>2, RequestedFacts
       DEF ProcessAndDispatch, Sweep, Process
  <2>4. \A q \in Processes \ {p} : proc'[q] = proc[q] /\ ~Owns(q)'
    BY <1>0, <1>8, <2>3 DEF ProcessAndDispatch, Sweep, Working, Owns, TypeOK
  <2>5. /\ proc'[p] # Off /\ ~Does(p, "start")'
        /\ proc'[p].kind = proc[p].kind
        /\ proc'[p].work = IF AcquiredNew(p) THEN "owner" ELSE "guest"
    BY <1>0, <1>8, <2>1
       DEF ProcessAndDispatch, Sweep, Working, Does, TypeOK, Process
  <2>6. Is(p, {"cli"}) => ~Owns(p)
    BY <1>0, <2>1 DEF Ownership, CliKeepsNoLease, MaySection, Does
  <2>7. Is(p, {"cli"})' => proc'[p].work = "owner"
    BY <2>1, <2>5, <2>6 DEF Is, AcquiredNew
  <2> QED BY <2>4, <2>5, <2>7, OwnershipPreserved
<1>9. ASSUME NEW p \in Processes, EndSection(p) PROVE Ownership'
  <2>1. proc[p] \in Process /\ proc[p] # Off
    BY <1>0, <1>9 DEF EndSection, Does, TypeOK
  <2>2. /\ Releasing(p) \in {"nothing", "drop", "handoff"}
        /\ Owns(p) => Releasing(p) \in {"drop", "handoff"}
    BY DEF Releasing
  <2>3. /\ \A q \in Processes \ {p} : proc'[q] = proc[q]
        /\ proc'[p] # Off /\ ~Does(p, "start")'
        /\ proc'[p].kind = proc[p].kind /\ proc'[p].work = "none"
        /\ proc[p].work = "owner" => proc'[p].doing = Releasing(p)
    BY <1>0, <1>9, <2>1, <2>2 DEF EndSection, Does, TypeOK, Process
  <2>4. \A q \in Processes : Owns(q)' <=> Owns(q)
    BY <1>9 DEF EndSection, Owns
  <2>5. Is(p, {"cli"})' => proc[p].work = "owner"
    BY <1>0, <1>9, <2>1, <2>3 DEF Ownership, CliIsNoGuest, Is, EndSection, Process
  <2> QED BY <2>2, <2>3, <2>4, <2>5, OwnershipPreserved
<1>10. ASSUME NEW p \in Processes,
              Takeover(p) \/ ApproveRequests(p) \/ RequestHandoff(p)
       PROVE  Ownership'
  <2>1. proc[p] \in Process /\ proc[p] # Off
    BY <1>0, <1>10 DEF Takeover, ApproveRequests, RequestHandoff, Does, TypeOK
  <2>2. lease' = Requested(lease, proc[p].gen)
    BY <1>10 DEF Takeover, ApproveRequests, RequestHandoff
  <2>3. \A q \in Processes : Owns(q)' => Owns(q)
    BY <1>0, <2>1, <2>2, RequestedFacts DEF Owns, TypeOK, Process
  <2>4. /\ \A q \in Processes \ {p} : proc'[q] = proc[q]
        /\ proc'[p] # Off /\ ~Does(p, "start")'
        /\ proc'[p].kind = proc[p].kind /\ proc'[p].work = proc[p].work
        /\ proc[p].doing \notin {"drop", "handoff"}
    BY <1>0, <1>10, <2>1
       DEF Takeover, ApproveRequests, RequestHandoff, Does, TypeOK, Process
  <2> QED
    BY <1>0, <2>1, <2>3, <2>4, OwnershipPreserved
       DEF Ownership, CliIsNoGuest, CliKeepsNoLease, Is
<1>11. ASSUME NEW p \in Processes,
              \/ EndTakeover(p) \/ FinishClear(p)
              \/ \E x \in Proposals : Approve(p, x) \/ Execute(p, x)
       PROVE  Ownership'
  <2>1. proc[p] \in Process /\ proc[p] # Off
    BY <1>0, <1>11 DEF EndTakeover, FinishClear, Approve, Execute, Does, TypeOK
  <2>2. \A q \in Processes : Owns(q)' => Owns(q)
    BY <1>0, <1>11
       DEF EndTakeover, FinishClear, Approve, Execute, Owns, TypeOK, Lease
  <2>3. PICK what \in {"nothing", "clear", "request"}, d \in BOOLEAN :
          proc' = [proc EXCEPT ![p].doing = what, ![p].drains = d]
    <3>1. ASSUME EndTakeover(p)
          PROVE  /\ Clearing(proc[p].gen, {}) \in {"nothing", "clear"}
                 /\ proc' = [proc EXCEPT ![p].doing = Clearing(proc[p].gen, {}),
                                         ![p].drains = FALSE]
      <4>1. Clearing(proc[p].gen, {}) \in {"nothing", "clear"}
        BY DEF Clearing
      <4> QED BY <3>1, <4>1 DEF EndTakeover
    <3>2. ASSUME FinishClear(p)
          PROVE  proc' = [proc EXCEPT ![p].doing = "nothing",
                                      ![p].drains = proc[p].drains]
      BY <1>0, <2>1, <3>2 DEF FinishClear, TypeOK, Process
    <3>3. ASSUME NEW x \in Proposals, Approve(p, x)
          PROVE  proc' = [proc EXCEPT ![p].doing = "request",
                                      ![p].drains = proc[p].drains]
      BY <1>0, <2>1, <3>3 DEF Approve, TypeOK, Process
    <3>4. ASSUME NEW x \in Proposals, Execute(p, x)
          PROVE  /\ Clearing(prop[x].gen, {x}) \in {"nothing", "clear"}
                 /\ proc' = [proc EXCEPT ![p].doing = Clearing(prop[x].gen, {x}),
                                         ![p].drains = proc[p].drains]
      <4>1. Clearing(prop[x].gen, {x}) \in {"nothing", "clear"}
        BY DEF Clearing
      <4> QED BY <1>0, <2>1, <3>4, <4>1 DEF Execute, TypeOK, Process
    <3>5. proc[p].drains \in BOOLEAN
      BY <2>1 DEF Process
    <3> QED BY <1>11, <3>1, <3>2, <3>3, <3>4, <3>5
  <2>4. /\ \A q \in Processes \ {p} : proc'[q] = proc[q]
        /\ proc'[p] # Off /\ ~Does(p, "start")'
        /\ proc'[p].kind = proc[p].kind /\ proc'[p].work = proc[p].work
    BY <1>0, <2>1, <2>3 DEF Does, TypeOK, Process
  <2>5. proc[p].doing \notin {"drop", "handoff"}
    BY <1>11 DEF EndTakeover, FinishClear, Approve, Execute, Does
  <2> QED
    BY <1>0, <2>1, <2>2, <2>4, <2>5, OwnershipPreserved
       DEF Ownership, CliIsNoGuest, CliKeepsNoLease, Is
<1> QED
  BY <1>1, <1>2, <1>3, <1>4, <1>5, <1>6, <1>7, <1>8, <1>9, <1>10, <1>11 DEF Next

\* An approved proposal names the generation it waits for.
LEMMA NextPending == IInv /\ [Next]_vars => PendingNames'
<1> SUFFICES ASSUME IInv, [Next]_vars PROVE PendingNames'
  OBVIOUS
<1>1. TypeOK /\ PendingNames
  BY DEF IInv
<1>2. CASE prop' = prop
  BY <1>1, <1>2 DEF PendingNames
<1>3. ASSUME NEW p \in Processes, Sweep(p) PROVE PendingNames'
  <2>1. proc[p].gen \in Generations
    BY <1>1, <1>3 DEF Sweep, MaySection, Does, TypeOK, Process
  <2> QED BY <1>1, <1>3, <2>1 DEF Sweep, PendingNames, TypeOK, Proposal
<1>4. ASSUME NEW p \in Processes, NEW x \in Proposals, Approve(p, x)
      PROVE  PendingNames'
  <2>1. proc[p].gen \in Generations
    BY <1>1, <1>4 DEF Approve, Does, TypeOK, Process
  <2> QED BY <1>1, <1>4, <2>1 DEF Approve, PendingNames, TypeOK, Proposal
<1>5. ASSUME NEW p \in Processes, NEW x \in Proposals, Execute(p, x)
      PROVE  PendingNames'
  BY <1>1, <1>5 DEF Execute, PendingNames, TypeOK, Proposal
<1> QED
  BY <1>2, <1>3, <1>4, <1>5
     DEF Next, vars, Upgrade, LeaseExpires, Start, Exit, ControllerStarts,
         ControllerRefused, Heartbeat, ControllerStops, Unregister, FinishRelease,
         ProcessAndDispatch, EndSection, Takeover, EndTakeover, FinishClear,
         RequestHandoff, ApproveRequests

THEOREM Invariant == Spec => []IInv
<1>1. IInv /\ [Next]_vars => IInv'
  BY NextType, NextOwnership, NextPending DEF IInv
<1> QED BY InitInvariant, <1>1, PTL DEF Spec

\* Every process, row and proposal stays what the database can hold.
THEOREM TypeCorrect == Spec => []TypeOK
BY Invariant, PTL DEF IInv

\* However its drain interleaves with requests, takeovers and crashes, a CLI
\* command that does not work does not hold the lease.
THEOREM CliKeepsNoLeaseHolds == Spec => []CliKeepsNoLease
BY Invariant, PTL DEF IInv, Ownership

\* A granted request leaves a pinned floor where it is and is made by code of
\* that generation.
LEMMA GrantRespectsFloor ==
  ASSUME IInv, NEW p \in Processes, proc[p] # Off, MayAcquire(p),
         lease # Null, Pinned(lease.required)
  PROVE  lease.required = proc[p].gen
<1>1. lease.required # Null
  BY NamesAssumption DEF IInv, PendingNames, Pinned
<1>2. Seen(proc[p].gen) = lease
  BY DEF Seen
<1> QED BY <1>1, <1>2 DEF MayAcquire

LEMMA NextFloor ==
  IInv /\ [Next]_vars =>
    (/\ lease # Null /\ lease' # Null
     /\ Pinned(lease.required)
     /\ lease'.owner \in Processes
     /\ lease'.owner # lease.owner \/ (lease'.live /\ ~lease.live)
     => lease'.generation = lease.required)
<1> SUFFICES ASSUME IInv, [Next]_vars, lease # Null, lease' # Null,
                    Pinned(lease.required), lease'.owner \in Processes,
                    lease'.owner # lease.owner \/ (lease'.live /\ ~lease.live)
             PROVE  lease'.generation = lease.required
  OBVIOUS
<1> USE NamesAssumption
<1>0. TypeOK /\ lease \in Lease
  BY DEF IInv, TypeOK
<1>1. ASSUME NEW p \in Processes,
             ControllerStarts(p) \/ Heartbeat(p) \/ ProcessAndDispatch(p) \/ Sweep(p)
      PROVE  lease'.generation = lease.required
  <2>1. proc[p] # Off /\ proc[p] \in Process /\ MayAcquire(p)
    BY <1>0, <1>1
       DEF ControllerStarts, Heartbeat, ProcessAndDispatch, Sweep, MaySection,
           Does, TypeOK
  <2>2. lease.required = proc[p].gen
    BY <2>1, GrantRespectsFloor
  <2>3. Acquired(p) \in Lease /\ Acquired(p).generation = proc[p].gen
    BY <1>0, <2>1, AcquiredFacts
  <2>4. lease' \in {Acquired(p), Requested(Acquired(p), proc[p].gen)}
    BY <1>1 DEF ControllerStarts, Heartbeat, ProcessAndDispatch, Sweep
  <2>5. lease'.generation = proc[p].gen
    BY <2>1, <2>3, <2>4, RequestedFacts DEF Process
  <2> QED BY <2>2, <2>5
<1>2. ASSUME NEW p \in Processes,
             Takeover(p) \/ ApproveRequests(p) \/ RequestHandoff(p)
      PROVE  FALSE
  <2>1. proc[p] # Off /\ proc[p] \in Process
    BY <1>0, <1>2 DEF Takeover, ApproveRequests, RequestHandoff, Does, TypeOK
  <2>2. lease' = Requested(lease, proc[p].gen)
    BY <1>2 DEF Takeover, ApproveRequests, RequestHandoff
  <2> QED BY <1>0, <2>1, <2>2, RequestedFacts DEF Process
<1>3. ASSUME NEW p \in Processes, Exit(p) \/ FinishRelease(p) \/ FinishClear(p)
      PROVE  FALSE
  BY <1>0, <1>3 DEF Exit, FinishRelease, FinishClear, Lease, Owns
<1>4. CASE LeaseExpires
  BY <1>0, <1>4 DEF LeaseExpires, Lease
<1>5. CASE lease' = lease
  BY <1>5
<1> QED
  BY <1>1, <1>2, <1>3, <1>4, <1>5
     DEF Next, vars, Upgrade, Start, ControllerRefused, ControllerStops,
         Unregister, EndSection, EndTakeover, Approve, Execute

\* An approved proposal that waits behind its floor is never overtaken: no
\* controller of another generation takes or renews the lease.
THEOREM FloorBindsHolds == Spec => FloorBinds
BY Invariant, NextFloor, PTL DEF Spec, FloorBinds
=============================================================================
