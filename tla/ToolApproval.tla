---------------------------- MODULE ToolApproval ----------------------------
(***************************************************************************)
(* Calls that need an approval: the interception of a tool call or of a    *)
(* command (src/execution/intercept.ts), the operator's verdict on the     *)
(* proposal (src/approval/resolve.ts), the events that carry the verdict   *)
(* to the router, the handlers of the two events (src/events/router.ts)    *)
(* and the single-use pre-approval with which the agent calls again        *)
(* (src/approval/pre-approved.ts, src/policy/middleware.ts).               *)
(*                                                                         *)
(* One task and one tool: a pre-approval names just these two, so every    *)
(* approval of the model can be used by every call of the model.  A        *)
(* handler is one step unless its process dies in it, after which the      *)
(* statements before that point stay done; only the replay of a command,   *)
(* which waits for a child process, is two.                                *)
(***************************************************************************)
EXTENDS EventPipeline, FiniteSets

CONSTANTS Proposals

ASSUME KeysAssumption == Keys = {"approved", "rejected"} \X Proposals

VARIABLES
  kind,      \* what was intercepted: a tool call or a command
  proposal,  \* status and execution_status of the proposals
  intent,    \* tool_call_intents.status, "none" if the call named no task
  action,    \* simulated_actions.status
  due,       \* the verdict whose event the resolving process has yet to write
  grants,    \* unconsumed, unexpired pre_approvals, by the proposal behind them
  replaying, \* the command a router is running
  session,   \* the session of the task: none, queued for dispatch, running
  live       \* history: how often the call of a proposal has been made

approvalVars == <<kind, proposal, intent, action, due, grants, replaying,
                  session, live>>
vars == <<eventVars, approvalVars>>

Verdicts == {"approved", "rejected"}
NoCommand == "idle"

ASSUME ProposalsAssumption == NoCommand \notin Proposals

TypeOK ==
  /\ EventsTypeOK
  /\ kind \in [Proposals -> {"tool", "command"}]
  /\ proposal \in [Proposals -> [status : {"none", "pending"} \cup Verdicts,
                                 exec : {"none", "pending", "applied", "failed"}]]
  /\ intent \in [Proposals -> {"none", "pending"} \cup Verdicts]
  /\ action \in [Proposals -> {"none", "blocked", "approved_for_live", "discarded"}]
  /\ due \in [Proposals -> {"none"} \cup Verdicts]
  /\ grants \in [Proposals -> Nat]
  /\ replaying \in [Routers -> Proposals \cup {NoCommand}]
  /\ session \in {"none", "queued", "running"}
  /\ live \in [Proposals -> Nat]

Init ==
  /\ EventsInit
  /\ kind \in [Proposals -> {"tool", "command"}]
  /\ proposal = [p \in Proposals |-> [status |-> "none", exec |-> "none"]]
  /\ intent = [p \in Proposals |-> "none"]
  /\ action = [p \in Proposals |-> "none"]
  /\ due = [p \in Proposals |-> "none"]
  /\ grants = [p \in Proposals |-> 0]
  /\ replaying = [r \in Routers |-> NoCommand]
  /\ session = "none"
  /\ live = [p \in Proposals |-> 0]

-----------------------------------------------------------------------------
(* The session of the task                                                 *)

\* enqueue for the task: refused while an item of it is active.
Enqueued(s) == IF s = "none" THEN "queued" ELSE s

\* Somebody else has the task dispatched: a retry, a manager, an assignment.
EnqueueTask ==
  /\ session = "none"
  /\ session' = "queued"
  /\ UNCHANGED <<eventVars, kind, proposal, intent, action, due, grants,
                 replaying, live>>

StartSession ==
  /\ session = "queued"
  /\ session' = "running"
  /\ UNCHANGED <<eventVars, kind, proposal, intent, action, due, grants,
                 replaying, live>>

EndSession ==
  /\ session = "running"
  /\ session' = "none"
  /\ UNCHANGED <<eventVars, kind, proposal, intent, action, due, grants,
                 replaying, live>>

-----------------------------------------------------------------------------
(* Calls                                                                   *)

\* Fault: the pre-approval is found but not marked as consumed.
CallAgain(p) ==
  /\ session = "running"
  /\ grants[p] > 0
  /\ live' = [live EXCEPT ![p] = @ + 1]
  /\ UNCHANGED <<eventVars, kind, proposal, intent, action, due, grants,
                 replaying, session>>

\* The tool is called with a pre-approval at hand: checkPreApproval and
\* consumePreApproval take any row of the task and the tool (LIMIT 1), and the
\* call is made.
CallApproved(p) ==
  /\ session = "running"
  /\ grants[p] > 0
  /\ grants' = [grants EXCEPT ![p] = @ - 1]
  /\ live' = [live EXCEPT ![p] = @ + 1]
  /\ UNCHANGED <<eventVars, kind, proposal, intent, action, due, replaying,
                 session>>

\* Fault: the action is recorded as simulated, which no verdict closes.
RecordedAsSimulated(p) ==
  /\ proposal[p].status = "none"
  /\ proposal' = [proposal EXCEPT ![p].status = "pending"]
  /\ action' = [action EXCEPT ![p] = "simulated"]

\* The record of an intercepted call and its proposal.
Recorded(p) ==
  /\ proposal[p].status = "none"
  /\ proposal' = [proposal EXCEPT ![p].status = "pending"]
  /\ action' = [action EXCEPT ![p] = "blocked"]

\* evaluateToolExecution with require_approval.  Without a task in the call,
\* or if the process dies on the way, no intent is stored.
InterceptTool(p) ==
  /\ kind[p] = "tool"
  /\ session = "running"
  /\ \A q \in Proposals : grants[q] = 0
  /\ Recorded(p)
  /\ intent' \in {intent, [intent EXCEPT ![p] = "pending"]}
  /\ UNCHANGED <<eventVars, kind, due, grants, replaying, session, live>>

\* evaluateCommandExecution: verification gates and entity checks.
InterceptCommand(p) ==
  /\ kind[p] = "command"
  /\ Recorded(p)
  /\ UNCHANGED <<eventVars, kind, intent, due, grants, replaying, session, live>>

\* An hour after it was added a pre-approval is not found any more.
ExpireGrants ==
  /\ \E p \in Proposals : grants[p] > 0
  /\ grants' = [p \in Proposals |-> 0]
  /\ UNCHANGED <<eventVars, kind, proposal, intent, action, due, replaying,
                 session, live>>

-----------------------------------------------------------------------------
(* The verdict                                                             *)

\* Fault: the verdict is written whatever the status is by now.
ResolveAgain(p, verdict) ==
  /\ proposal[p].status # "none"
  /\ proposal' = [proposal EXCEPT
       ![p] = [status |-> verdict,
               exec |-> IF verdict = "approved" THEN "pending" ELSE @.exec]]
  /\ due' = [due EXCEPT ![p] = verdict]
  /\ UNCHANGED <<eventVars, kind, intent, action, grants, replaying, session, live>>

\* approveProposal and rejectProposal, called by the command line, the
\* dashboard, the SDK and the chat commands: the guarded UPDATE.
Resolve(p, verdict) ==
  /\ proposal[p].status = "pending"
  /\ proposal' = [proposal EXCEPT
       ![p] = [status |-> verdict,
               exec |-> IF verdict = "approved" THEN "pending" ELSE @.exec]]
  /\ due' = [due EXCEPT ![p] = verdict]
  /\ UNCHANGED <<eventVars, kind, intent, action, grants, replaying, session, live>>

\* The rest of them: the floor is requested (see ControllerLease) and the
\* event is written.
EmitVerdict(p) ==
  /\ due[p] # "none"
  /\ events' = Ingested(events, <<due[p], p>>)
  /\ due' = [due EXCEPT ![p] = "none"]
  /\ UNCHANGED <<batch, reruns, crashes, kind, proposal, intent, action, grants,
                 replaying, session, live>>

\* The resolving process dies before it has written the event.
LoseVerdict(p) ==
  /\ due[p] # "none"
  /\ crashes < MaxCrashes
  /\ crashes' = crashes + 1
  /\ due' = [due EXCEPT ![p] = "none"]
  /\ UNCHANGED <<events, batch, reruns, kind, proposal, intent, action, grants,
                 replaying, session, live>>

\* The sweep rejects a proposal past its time, with its event in one
\* transaction.
ExpireProposal(p) ==
  /\ proposal[p].status = "pending"
  /\ proposal' = [proposal EXCEPT ![p].status = "rejected"]
  /\ events' = Ingested(events, <<"rejected", p>>)
  /\ UNCHANGED <<batch, reruns, crashes, kind, intent, action, due, grants,
                 replaying, session, live>>

-----------------------------------------------------------------------------
(* The handlers                                                            *)

Handles(r, verdict, p) == replaying[r] = NoCommand /\ <<verdict, p>> \in batch[r]

\* handleProposalApproved goes on only for an approval still to be executed.
Executable(p) == proposal[p].status = "approved" /\ proposal[p].exec # "applied"

\* The event of an approved tool call, of which the first `done` statements
\* happen: the intent, the simulated action, the pre-approval, the queue, the
\* event.  execution_status stays pending.
ApproveTool(r, p) ==
  /\ Handles(r, "approved", p)
  /\ Executable(p) /\ kind[p] = "tool" /\ intent[p] # "none"
  /\ \E done \in 0..5 :
       /\ intent' = IF done >= 1 THEN [intent EXCEPT ![p] = "approved"] ELSE intent
       /\ action' = IF done >= 2 THEN [action EXCEPT ![p] = "approved_for_live"]
                                 ELSE action
       /\ grants' = IF done >= 3 THEN [grants EXCEPT ![p] = @ + 1] ELSE grants
       /\ session' = IF done >= 4 THEN Enqueued(session) ELSE session
       /\ IF done = 5 THEN Settled(r, <<"approved", p>>, events, "handled")
                      ELSE Abandoned(r, events)
  /\ UNCHANGED <<kind, proposal, due, replaying, live>>

\* Nothing to do: applied before, or a call without an intent, whose snapshot
\* (replayType "tool") no branch of the handler knows.
ApproveNothing(r, p) ==
  /\ Handles(r, "approved", p)
  /\ ~Executable(p) \/ (kind[p] = "tool" /\ intent[p] = "none")
  /\ Settled(r, <<"approved", p>>, events, "handled")
  /\ UNCHANGED approvalVars

\* An approved command: replaySimulatedCommand starts it ...
StartReplay(r, p) ==
  /\ Handles(r, "approved", p)
  /\ Executable(p) /\ kind[p] = "command"
  /\ replaying' = [replaying EXCEPT ![r] = p]
  /\ live' = [live EXCEPT ![p] = @ + 1]
  /\ UNCHANGED <<eventVars, kind, proposal, intent, action, due, grants, session>>

\* ... it succeeds, ...
ReplaySucceeds(r) ==
  /\ replaying[r] # NoCommand
  /\ LET p == replaying[r] IN
       /\ action' = [action EXCEPT ![p] = "approved_for_live"]
       /\ proposal' = [proposal EXCEPT ![p].exec = "applied"]
       /\ Settled(r, <<"approved", p>>, events, "handled")
  /\ replaying' = [replaying EXCEPT ![r] = NoCommand]
  /\ UNCHANGED <<kind, intent, due, grants, session, live>>

\* ... it fails, and the handler throws, ...
ReplayFails(r) ==
  /\ replaying[r] # NoCommand
  /\ proposal' = [proposal EXCEPT ![replaying[r]].exec = "failed"]
  /\ Settled(r, <<"approved", replaying[r]>>, events, "failed")
  /\ replaying' = [replaying EXCEPT ![r] = NoCommand]
  /\ UNCHANGED <<kind, intent, action, due, grants, session, live>>

\* ... or the router dies while it runs, or before the result is written.
ReplayLost(r) ==
  /\ replaying[r] # NoCommand
  /\ Abandoned(r, events)
  /\ replaying' = [replaying EXCEPT ![r] = NoCommand]
  /\ UNCHANGED <<kind, proposal, intent, action, due, grants, session, live>>

\* handleProposalRejected: the intent and the simulated action are closed.  It
\* does not look at the proposal's status.
Reject(r, p) ==
  /\ Handles(r, "rejected", p)
  /\ \E done \in 0..3 :
       /\ intent' = IF done >= 1 /\ intent[p] # "none"
                    THEN [intent EXCEPT ![p] = "rejected"] ELSE intent
       /\ action' = IF done >= 2 THEN [action EXCEPT ![p] = "discarded"] ELSE action
       /\ IF done = 3 THEN Settled(r, <<"rejected", p>>, events, "handled")
                      ELSE Abandoned(r, events)
  /\ UNCHANGED <<kind, proposal, due, grants, replaying, session, live>>

-----------------------------------------------------------------------------
Route(r) ==
  \/ Claim(r) /\ UNCHANGED approvalVars
  \/ \E p \in Proposals :
       ApproveTool(r, p) \/ ApproveNothing(r, p) \/ StartReplay(r, p) \/ Reject(r, p)
  \/ ReplaySucceeds(r) \/ ReplayFails(r) \/ ReplayLost(r)

Sweep == ReclaimStale /\ UNCHANGED approvalVars

Operator ==
  \/ \E p \in Proposals, v \in Verdicts : Resolve(p, v)
  \/ \E k \in Keys : Requeue(k) /\ UNCHANGED approvalVars

Agent ==
  \/ EnqueueTask \/ StartSession \/ EndSession
  \/ \E p \in Proposals :
       CallApproved(p) \/ InterceptTool(p) \/ InterceptCommand(p)

Next ==
  \/ Agent \/ Operator \/ Sweep
  \/ \E r \in Routers : Route(r)
  \/ \E p \in Proposals : EmitVerdict(p) \/ LoseVerdict(p) \/ ExpireProposal(p)
  \/ ExpireGrants
  \/ \E k \in Keys : Age(k) /\ UNCHANGED approvalVars

\* A router goes on with its batch (it is synchronous), claims what is pending
\* (the dispatch loop runs on a timer), and the sweep's timer goes on; what was
\* claimed long ago becomes stale.  Nobody has to call, to decide or to requeue.
Fairness ==
  /\ \A r \in Routers : WF_vars(Route(r))
  /\ WF_vars(Sweep)
  /\ \A k \in Keys : WF_vars(Age(k) /\ UNCHANGED approvalVars)

Spec == Init /\ [][Next]_vars /\ Fairness

-----------------------------------------------------------------------------
(* Properties                                                              *)

Undelivered(p) == events[<<"approved", p>>] \in {"pending", "processing", "stale"}

\* An approval is worth one call, and one more for each time its event is put
\* back: neither two routers with the event in hand, nor an operator and a
\* chat button resolving at once, nor a second session make it worth more.
CallsWithinDeliveries ==
  \A p \in Proposals :
    live[p] + grants[p] <= IF proposal[p].status = "approved"
                           THEN 1 + reruns[<<"approved", p>>] ELSE 0

\* The verdict binds: whatever order verdicts, events and reruns come in, the
\* intent and the simulated action of a proposal follow its status, and a
\* rejected one never starts to execute.
VerdictBinds ==
  \A p \in Proposals :
    /\ intent[p] \in Verdicts => intent[p] = proposal[p].status
    /\ action[p] = "approved_for_live" => proposal[p].status = "approved"
    /\ action[p] = "discarded" => proposal[p].status = "rejected"
    /\ proposal[p].exec # "none" => proposal[p].status = "approved"

\* An approval whose event was written has its effect, though routers die with
\* the event in hand: the agent gets its pre-approval, or the command has run.
ApprovalTakesEffect ==
  \A p \in Proposals :
    Undelivered(p) /\ (kind[p] = "tool" => intent[p] # "none")
      ~> IF kind[p] = "tool" THEN grants[p] + live[p] > 0
                             ELSE proposal[p].exec \in {"applied", "failed"}
=============================================================================
