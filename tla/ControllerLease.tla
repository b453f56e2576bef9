-------------------------- MODULE ControllerLease --------------------------
(***************************************************************************)
(* The controller lease of one project (runtime/controller-leases.ts): the *)
(* row of the shared database that decides which process sweeps and        *)
(* dispatches, and the generation floor on it, by which an approval makes  *)
(* controllers of other code hand over (approval/resolve.ts).              *)
(*                                                                         *)
(* The processes share nothing but the database, so a step is a            *)
(* transaction or a statement: requesting a generation and acquiring the   *)
(* lease are transactions; releasing the lease and clearing the request    *)
(* read the row first and write it in a second step.                       *)
(***************************************************************************)
CONSTANTS
  Processes,    \* gateways, "cf controller" processes and CLI commands
  Generations,  \* hashes of the installed code
  Proposals,
  Mutations,    \* the proposals of origin workflow_mutation
  Null,         \* SQL's NULL, and the absent row
  Handoff,      \* the placeholder owner "controller:handoff-pending"
  Gone,         \* the owner id of a process that no longer runs
  Off           \* a process that does not run

VARIABLES
  code,   \* the generation that is installed
  proc,   \* the processes
  lease,  \* the row of controller_leases, or Null
  prop    \* the execution columns of the proposals

vars == <<code, proc, lease, prop>>

Lease == [owner : Processes \cup {Handoff, Gone},
          generation : Generations \cup {Null},
          required : Generations \cup {Null},
          live : BOOLEAN]

\* work: inside a sweep or processAndDispatch, as one that has to release the
\* lease (acquiredNew) or as a guest.  doing: what the process does next.
Process == [kind : {"gateway", "controller", "cli"},
            gen : Generations,
            drains : BOOLEAN,
            work : {"none", "owner", "guest"},
            doing : {"nothing", "start", "takeover", "request", "handoff",
                     "drop", "clear"}]

Proposal == [status : {"proposed", "pending", "applied", "failed"},
             gen : Generations \cup {Null}]

ASSUME NamesAssumption ==
  /\ Mutations \subseteq Proposals
  /\ Null \notin Generations \cup Lease /\ Off \notin Process
  /\ Handoff # Gone /\ {Handoff, Gone} \cap Processes = {}

TypeOK ==
  /\ code \in Generations
  /\ proc \in [Processes -> Process \cup {Off}]
  /\ lease \in Lease \cup {Null}
  /\ prop \in [Proposals -> Proposal]

Init ==
  /\ code \in Generations
  /\ proc = [p \in Processes |-> Off]
  /\ lease = Null
  /\ prop = [x \in Proposals |-> [status |-> "proposed", gen |-> Null]]

Is(p, kinds) == proc[p] # Off /\ proc[p].kind \in kinds
Does(p, what) == proc[p] # Off /\ proc[p].doing = what

-----------------------------------------------------------------------------
(* The functions of controller-leases.ts                                   *)

\* hasPendingProposalExecutionForGeneration
Pinned(g) == \E x \in Proposals : prop[x].status = "pending" /\ prop[x].gen = g

\* requestControllerGeneration
Requested(l, g) ==
  IF l = Null
  THEN [owner |-> Handoff, generation |-> Null, required |-> g, live |-> FALSE]
  ELSE [l EXCEPT !.required = g]

\* Fault: an expired lease loses its floor though a proposal waits.
SeenUnpinned(g) ==
  IF lease = Null
  THEN [owner |-> Handoff, generation |-> Null, required |-> Null, live |-> FALSE]
  ELSE IF ~lease.live /\ lease.required \notin {Null, g}
  THEN [lease EXCEPT !.required = Null]
  ELSE lease

\* Fault: a floor is cleared by its requester only.
SeenAsWritten(g) ==
  IF lease = Null
  THEN [owner |-> Handoff, generation |-> Null, required |-> Null, live |-> FALSE]
  ELSE lease

\* The row acquireControllerLease decides on.  No row is like a free one; an
\* expired lease loses a floor of another generation that nothing pins.
Seen(g) ==
  IF lease = Null
  THEN [owner |-> Handoff, generation |-> Null, required |-> Null, live |-> FALSE]
  ELSE IF ~lease.live /\ lease.required \notin {Null, g} /\ ~Pinned(lease.required)
  THEN [lease EXCEPT !.required = Null]
  ELSE lease

MayAcquire(p) ==
  LET g == proc[p].gen
      l == Seen(g)
  IN \/ /\ l.required \in {Null, g}
        /\ l.owner \in {p, Handoff} \/ ~l.live
     \/ l.required = g /\ l.generation # g

Acquired(p) ==
  [Seen(proc[p].gen) EXCEPT !.owner = p, !.generation = proc[p].gen,
                            !.live = TRUE]

Owns(p) == lease # Null /\ lease.owner = p

\* Fault: only an inserted row counts as newly acquired.
InsertedNew(p) == lease = Null

AcquiredNew(p) == ~Owns(p) \/ lease.generation # proc[p].gen

\* What releaseControllerLease is going to do with the row it has read.
Releasing(p) ==
  IF ~Owns(p) THEN "nothing" ELSE IF lease.required = Null THEN "drop" ELSE "handoff"

\* clearControllerGenerationRequest, the reading and the decision, when the
\* execution of proposal x (or none) ends in the same step.
Clearing(g, x) ==
  IF /\ lease # Null /\ lease.required = g
     /\ \A y \in Proposals \ x : prop[y].status = "pending" => prop[y].gen # g
  THEN "clear" ELSE "nothing"

-----------------------------------------------------------------------------
(* Processes come and go                                                   *)

\* New code is installed; running processes keep theirs.
Upgrade ==
  /\ code' \in Generations \ {code}
  /\ UNCHANGED <<proc, lease, prop>>

\* A gateway, a controller, or a CLI command that drains at once or first
\* resolves a proposal.
Start(p) ==
  /\ proc[p] = Off
  /\ \E k \in {<<"gateway", "nothing">>, <<"controller", "start">>,
               <<"cli", "takeover">>, <<"cli", "nothing">>} :
       proc' = [proc EXCEPT ![p] = [kind |-> k[1], gen |-> code, drains |-> FALSE,
                                    work |-> "none", doing |-> k[2]]]
  /\ UNCHANGED <<code, lease, prop>>

\* The process ends, or crashes, at any point; its owner id never comes back.
Exit(p) ==
  /\ proc[p] # Off
  /\ proc' = [proc EXCEPT ![p] = Off]
  /\ lease' = IF Owns(p) THEN [lease EXCEPT !.owner = Gone] ELSE lease
  /\ UNCHANGED <<code, prop>>

\* cmdController acquires the lease before anything else, or gives up.
ControllerStarts(p) ==
  /\ Does(p, "start") /\ MayAcquire(p)
  /\ lease' = Acquired(p)
  /\ proc' = [proc EXCEPT ![p].doing = "takeover"]
  /\ UNCHANGED <<code, prop>>

ControllerRefused(p) ==
  /\ Does(p, "start") /\ ~MayAcquire(p)
  /\ proc' = [proc EXCEPT ![p] = Off]
  /\ UNCHANGED <<code, lease, prop>>

\* The lifecycle timer, and the lease heartbeat of a controller.
Heartbeat(p) ==
  /\ Is(p, {"gateway", "controller"}) /\ Does(p, "nothing")
  /\ MayAcquire(p)
  /\ lease' = Acquired(p)
  /\ UNCHANGED <<code, proc, prop>>

\* A controller whose heartbeat finds somebody else's lease stops.
ControllerStops(p) ==
  /\ Is(p, {"controller"}) /\ Does(p, "nothing") /\ proc[p].work = "none"
  /\ ~MayAcquire(p) /\ ~Owns(p)
  /\ proc' = [proc EXCEPT ![p] = Off]
  /\ UNCHANGED <<code, lease, prop>>

\* unregisterProject, shutdownClawforce: the lifecycle's lease is released.
Unregister(p) ==
  /\ Is(p, {"gateway", "controller"}) /\ Does(p, "nothing")
  /\ proc[p].work = "none" /\ Owns(p)
  /\ proc' = [proc EXCEPT ![p].doing = Releasing(p)]
  /\ UNCHANGED <<code, lease, prop>>

FinishRelease(p) ==
  /\ Does(p, "handoff") \/ Does(p, "drop")
  /\ proc' = [proc EXCEPT ![p].doing = "nothing"]
  /\ lease' = IF ~Owns(p) THEN lease
              ELSE IF Does(p, "drop") THEN Null
              ELSE [lease EXCEPT !.owner = Handoff, !.live = FALSE]
  /\ UNCHANGED <<code, prop>>

LeaseExpires ==
  /\ lease # Null /\ lease.live
  /\ lease' = [lease EXCEPT !.live = FALSE]
  /\ UNCHANGED <<code, proc, prop>>

-----------------------------------------------------------------------------
(* Work under the lease                                                    *)

MaySection(p) ==
  /\ Does(p, "nothing") /\ proc[p].work = "none"
  /\ proc[p].kind = "cli" => proc[p].drains
  /\ MayAcquire(p)

Working(p) ==
  [proc EXCEPT ![p].work = IF AcquiredNew(p) THEN "owner" ELSE "guest"]

\* withControllerLease, as processAndDispatch uses it.
ProcessAndDispatch(p) ==
  /\ MaySection(p)
  /\ lease' = Acquired(p)
  /\ proc' = Working(p)
  /\ UNCHANGED <<code, prop>>

\* The sweep moves the approved workflow mutations, and the floor, to its own
\* generation.
Sweep(p) ==
  LET g == proc[p].gen
      waiting == {x \in Mutations : prop[x].status = "pending"}
  IN
  /\ MaySection(p)
  /\ lease' = IF waiting = {} THEN Acquired(p) ELSE Requested(Acquired(p), g)
  /\ prop' = [x \in Proposals |->
                IF x \in waiting THEN [prop[x] EXCEPT !.gen = g] ELSE prop[x]]
  /\ proc' = Working(p)
  /\ UNCHANGED code

\* finally: whoever acquired the lease releases it.
EndSection(p) ==
  /\ Does(p, "nothing") /\ proc[p].work # "none"
  /\ proc' = [proc EXCEPT
       ![p].work = "none",
       ![p].doing = IF proc[p].work = "owner" THEN Releasing(p) ELSE "nothing"]
  /\ UNCHANGED <<code, lease, prop>>

-----------------------------------------------------------------------------
(* The floor                                                               *)

\* drainProjectWorkflow and runLocalSweepWithTakeover: request, work, clear.
Takeover(p) ==
  /\ Does(p, "takeover")
  /\ lease' = Requested(lease, proc[p].gen)
  /\ proc' = [proc EXCEPT ![p].doing = "nothing", ![p].drains = TRUE]
  /\ UNCHANGED <<code, prop>>

EndTakeover(p) ==
  /\ Does(p, "nothing") /\ proc[p].drains /\ proc[p].work = "none"
  /\ proc' = [proc EXCEPT ![p].doing = Clearing(proc[p].gen, {}),
                          ![p].drains = FALSE]
  /\ UNCHANGED <<code, lease, prop>>

\* The update names the project only: whatever is required by now goes.
FinishClear(p) ==
  /\ Does(p, "clear")
  /\ proc' = [proc EXCEPT ![p].doing = "nothing"]
  /\ lease' = IF lease = Null THEN lease ELSE [lease EXCEPT !.required = Null]
  /\ UNCHANGED <<code, prop>>

\* The dashboard's request for a handoff to its own generation.
RequestHandoff(p) ==
  /\ Is(p, {"gateway"}) /\ Does(p, "nothing")
  /\ lease' = Requested(lease, proc[p].gen)
  /\ UNCHANGED <<code, proc, prop>>

\* Fault: the execution starts out as "approved".
ApproveAsStatus(p, x) ==
  /\ Is(p, {"gateway", "cli"}) /\ Does(p, "nothing")
  /\ ~proc[p].drains
  /\ prop[x].status = "proposed"
  /\ prop' = [prop EXCEPT ![x] = [status |-> "approved", gen |-> proc[p].gen]]
  /\ proc' = [proc EXCEPT ![p].doing = "request"]
  /\ UNCHANGED <<code, lease>>

\* approveProposal: the proposal first, then the floor.
Approve(p, x) ==
  /\ Is(p, {"gateway", "cli"}) /\ Does(p, "nothing")
  /\ ~proc[p].drains
  /\ prop[x].status = "proposed"
  /\ prop' = [prop EXCEPT ![x] = [status |-> "pending", gen |-> proc[p].gen]]
  /\ proc' = [proc EXCEPT ![p].doing = "request"]
  /\ UNCHANGED <<code, lease>>

\* A CLI command goes on to drain the project.
ApproveRequests(p) ==
  /\ Does(p, "request")
  /\ lease' = Requested(lease, proc[p].gen)
  /\ proc' = [proc EXCEPT ![p].doing =
       IF proc[p].kind = "cli" THEN "takeover" ELSE "nothing"]
  /\ UNCHANGED <<code, prop>>

\* handleProposalApproved: in a section, in an events-only drain, or at the
\* end of a gateway's session, which asks for no lease.
Execute(p, x) ==
  /\ Does(p, "nothing")
  /\ proc[p].kind = "gateway" \/ proc[p].drains \/ proc[p].work # "none"
  /\ prop[x].status = "pending"
  /\ \E s \in {"applied", "failed"} : prop' = [prop EXCEPT ![x].status = s]
  /\ proc' = [proc EXCEPT ![p].doing = Clearing(prop[x].gen, {x})]
  /\ UNCHANGED <<code, lease>>

-----------------------------------------------------------------------------

Next ==
  \/ Upgrade \/ LeaseExpires
  \/ \E p \in Processes :
       \/ Start(p) \/ Exit(p) \/ ControllerStarts(p) \/ ControllerRefused(p)
       \/ Heartbeat(p) \/ ControllerStops(p) \/ Unregister(p) \/ FinishRelease(p)
       \/ ProcessAndDispatch(p) \/ Sweep(p) \/ EndSection(p)
       \/ Takeover(p) \/ EndTakeover(p) \/ FinishClear(p)
       \/ RequestHandoff(p) \/ ApproveRequests(p)
       \/ \E x \in Proposals : Approve(p, x) \/ Execute(p, x)

Spec == Init /\ [][Next]_vars

\* Timers fire, the statements of one function follow each other, and the
\* lease of a process that is gone runs out.
Fairness ==
  /\ WF_vars(LeaseExpires /\ lease.owner = Gone)
  /\ \A p \in Processes :
       /\ WF_vars(Heartbeat(p))
       /\ WF_vars(FinishRelease(p) \/ FinishClear(p) \/ ApproveRequests(p))

FairSpec == Spec /\ Fairness

-----------------------------------------------------------------------------
(* Properties                                                              *)

\* While an approved proposal waits for the generation that is required,
\* nobody of another generation takes or renews the lease: not after the
\* owner released it, crashed or let it expire.
FloorBinds ==
  [][/\ lease # Null /\ lease' # Null
     /\ Pinned(lease.required)
     /\ lease'.owner \in Processes
     /\ lease'.owner # lease.owner \/ (lease'.live /\ ~lease.live)
     => lease'.generation = lease.required]_vars

\* A CLI command holds the lease only while it works: no interleaving with
\* takeovers and requests leaves it behind as the owner.
CliKeepsNoLease ==
  \A p \in Processes :
    Is(p, {"cli"}) /\ Owns(p) =>
      proc[p].work # "none" \/ proc[p].doing \in {"drop", "handoff"}

\* As long as a gateway runs and no approved proposal waits, the project does
\* not stay without a controller: dead owners and abandoned floors of other
\* generations get out of the way.
Held == lease # Null /\ lease.live /\ lease.owner \in Processes

ControllerFound ==
  \A p \in Processes :
    /\ <>[](Is(p, {"gateway"}))
    /\ <>[](\A x \in Proposals : prop[x].status # "pending")
    => []<>Held
=============================================================================
