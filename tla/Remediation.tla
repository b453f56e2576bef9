---------------------------- MODULE Remediation ----------------------------
(***************************************************************************)
(* One project entity and the issues found on it: the recording and        *)
(* closing of issues (src/entities/ops.ts), the checks (checks.ts), the    *)
(* remediation tasks and the loop breaker that replaces them by a          *)
(* workflow mutation (remediation.ts), the readiness of the entity and its *)
(* promotion (lifecycle.ts), and the handlers of the events all of these   *)
(* write (src/events/router.ts).                                           *)
(*                                                                         *)
(* The entity kind has two states, a transition up that needs an approval  *)
(* while blocking issues are open or always, and readiness requires that   *)
(* no issue is open.  The remediation tasks of an issue are counted, since *)
(* nothing tells two of them apart.  A handler is one step; if its process *)
(* dies in it, the event is handled again.                                 *)
(***************************************************************************)
EXTENDS Naturals, FiniteSets

CONSTANTS
  Issues,        \* issue keys of the entity
  Tasked,        \* issues whose type gets a remediation task
  SystemIssue,   \* the issue that says that the check itself failed
  Mutations,     \* workflow-mutation proposals
  Promotions,    \* entity-transition proposals
  None,
  Threshold,     \* workflowSteward.autoProposalThreshold
  MaxEvents,     \* bound: events waiting when somebody acts from outside
  MaxCrashes     \* bound: how often a process dies in a handler

ASSUME IssuesAssumption == SystemIssue \in Issues /\ Tasked \subseteq Issues \ {SystemIssue}
ASSUME ProposalsAssumption ==
  /\ Mutations \cap Promotions = {} /\ None \notin Mutations \cup Promotions
  /\ Promotions # {}
ASSUME BoundsAssumption ==
  /\ Threshold \in Nat \ {0}
  /\ MaxEvents \in Nat /\ MaxCrashes \in Nat

VARIABLES
  gated,     \* configuration: the promotion always needs an approval
  entity,    \* entities.state
  status,    \* entity_issues.status, "none" without a row
  link,      \* entity_issues.proposal_id
  active,    \* reactive tasks of the issue that are not terminal
  failed,    \* those that are FAILED and may be tried again
  done,      \* those that are DONE, counted up to the threshold
  proposal,  \* status, the issue a mutation is about, whether it is younger
             \* than the cooldown, whether it was executed
  steward,   \* the steward's task for a mutation
  inbox,     \* events to be handled
  crashes    \* how often a process has died

entityVars == <<gated, entity>>
issueVars == <<status, link>>
taskVars == <<active, failed, done>>
proposalVars == <<proposal, steward>>
vars == <<entityVars, issueVars, taskVars, proposalVars, inbox, crashes>>

Proposals == Mutations \cup Promotions
Stages == {"none", "review", "implementation", "landed", "dropped"}

\* src of a recording: "own" if it came from the checks that a DONE task of
\* the issue had rerun.
Events ==
  [type : {"changed"}, of : Issues, src : {"own", "other"}]
  \cup [type : {"resolved", "done"}, of : Issues]
  \cup [type : {"approved", "rejected"}, of : Proposals]
  \cup [type : {"steward"}, of : Mutations]
  \cup {[type |-> "touched"]}

TypeOK ==
  /\ entity \in {"shadow", "active"}
  /\ gated \in BOOLEAN
  /\ status \in [Issues -> {"none", "open", "resolved"}]
  /\ link \in [Issues -> Proposals \cup {None}]
  /\ active \in [Issues -> 0..2]
  /\ failed \in [Issues -> 0..1]
  /\ done \in [Issues -> 0..Threshold]
  /\ proposal \in [Proposals -> [status : {"none", "pending", "approved", "rejected"},
                                 about : Issues \cup {None}, recent : BOOLEAN,
                                 applied : BOOLEAN]]
  /\ steward \in [Mutations -> Stages]
  /\ inbox \subseteq Events
  /\ crashes \in 0..MaxCrashes

Init ==
  /\ entity = "shadow"
  /\ gated \in BOOLEAN
  /\ status = [i \in Issues |-> "none"]
  /\ link = [i \in Issues |-> None]
  /\ active = [i \in Issues |-> 0]
  /\ failed = [i \in Issues |-> 0]
  /\ done = [i \in Issues |-> 0]
  /\ proposal = [p \in Proposals |-> [status |-> "none", about |-> None,
                                      recent |-> FALSE, applied |-> FALSE]]
  /\ steward = [m \in Mutations |-> "none"]
  /\ inbox = {}
  /\ crashes = 0

-----------------------------------------------------------------------------
(* Events and proposals                                                    *)

Changed(i, src) == [type |-> "changed", of |-> i, src |-> src]
Event(type, x) == [type |-> type, of |-> x]
Touched == [type |-> "touched"]

\* Somebody outside the handlers acts only while few events wait.
Quiet == Cardinality(inbox) < MaxEvents

Live(p) == proposal[p].status \in {"pending", "approved"}
Unused(S) == {p \in S : proposal[p].status = "none"}
New(S) == CHOOSE p \in Unused(S) : TRUE
Fresh(S) == {p \in Unused(S) : p = New(S)}   \* bound: none if all are used
Created(pr, p, i) ==
  [pr EXCEPT ![p] = [status |-> "pending", about |-> i, recent |-> TRUE,
                     applied |-> FALSE]]

\* The handler of e ends, with the events new written on the way ...
Handled(e, new) == inbox' = (inbox \ {e}) \cup new /\ UNCHANGED crashes

\* ... or its process dies, and e is reclaimed later.
Dies == crashes < MaxCrashes /\ crashes' = crashes + 1 /\ UNCHANGED inbox

-----------------------------------------------------------------------------
(* Readiness and promotion                                                 *)

Open(st) == {i \in Issues : st[i] = "open"}

\* A ready entity asks for its promotion, unless a proposal to the same state
\* is pending or was ever approved.
Asks(st, pr) ==
  /\ entity = "shadow" /\ Open(st) = {}
  /\ \A q \in Promotions : pr[q].status \notin {"pending", "approved"}

\* reconcileEntityReadiness on the issues st and the proposals pr.  (It notes
\* the blockers in the metadata, which is one of the updates of Touch.)
Readiness(st, pr) ==
  /\ entity' = IF Asks(st, pr) /\ ~gated THEN "active" ELSE entity
  /\ proposal' = IF Asks(st, pr) /\ gated THEN Created(pr, New(Promotions), None)
                                         ELSE pr
  /\ UNCHANGED gated

\* requestEntityTransition up, asked for by an agent: blocking issues or the
\* rule turn it into a proposal, and the issues are linked to it.
RequestPromotion ==
  /\ Quiet /\ entity = "shadow"
  /\ \/ /\ gated \/ Open(status) # {}
        /\ Cardinality(Unused(Promotions)) > 1
        /\ proposal' = Created(proposal, New(Promotions), None)
        /\ link' = [i \in Issues |->
                      IF status[i] = "open" THEN New(Promotions) ELSE link[i]]
        /\ UNCHANGED entity
     \/ /\ ~gated /\ Open(status) = {}
        /\ entity' = "active"
        /\ UNCHANGED <<proposal, link>>
  /\ UNCHANGED <<gated, status, taskVars, steward, inbox, crashes>>

\* The transition down needs no approval.
Demote ==
  /\ Quiet /\ entity = "active"
  /\ entity' = "shadow"
  /\ UNCHANGED <<gated, issueVars, taskVars, proposalVars, inbox, crashes>>

\* updateEntity by anybody.
Touch ==
  /\ Quiet /\ Touched \notin inbox
  /\ inbox' = inbox \cup {Touched}
  /\ UNCHANGED <<entityVars, issueVars, taskVars, proposalVars, crashes>>

-----------------------------------------------------------------------------
(* Issues and checks                                                       *)

\* recordEntityIssue through the entity tool: a new row, or the old one open
\* again, with the proposal it was linked to.
Record(i) ==
  /\ Quiet
  /\ status' = [status EXCEPT ![i] = "open"]
  /\ inbox' = inbox \cup {Changed(i, "other")}
  /\ UNCHANGED <<entityVars, link, taskVars, proposalVars, crashes>>

\* resolveEntityIssue through the entity tool.
ResolveIssue(i) ==
  /\ Quiet
  /\ status[i] = "open"
  /\ status' = [status EXCEPT ![i] = "resolved"]
  /\ inbox' = inbox \cup {Event("resolved", i)}
  /\ UNCHANGED <<entityVars, link, taskVars, proposalVars, crashes>>

\* What the entity's check may report: nothing, if the execution policy keeps
\* it from running; only its own failure, which leaves the other issues as they
\* are; or a list of issues, of which those not found are resolved
\* (reconcileCheckIssues).
Report(src) ==
  {[status |-> status, new |-> {}],
   [status |-> [status EXCEPT ![SystemIssue] = "open"],
    new |-> {Changed(SystemIssue, "other")}]}
  \cup {[status |-> [i \in Issues |-> IF i \in found THEN "open"
                                      ELSE IF status[i] = "open" THEN "resolved"
                                      ELSE status[i]],
         new |-> {Changed(i, src) : i \in found}
                 \cup {Event("resolved", i) : i \in Open(status) \ found}
                 \cup {Touched}] :
        found \in SUBSET (Issues \ {SystemIssue})}

\* runEntityChecks by an operator or a recurring job; it ends in the readiness.
RunChecks ==
  /\ Quiet
  /\ \E rep \in Report("other") :
       /\ status' = rep.status
       /\ Readiness(rep.status, proposal)
       /\ inbox' = inbox \cup rep.new
  /\ UNCHANGED <<link, taskVars, steward, crashes>>

-----------------------------------------------------------------------------
(* Remediation                                                             *)

\* Fault: a rejected mutation counts as well.
MutationEver(i) ==
  {m \in Mutations :
     /\ proposal[m].status # "none"
     /\ link[i] = m \/ (link[i] = None /\ proposal[m].about = i)}

\* The mutation under which ensureIssueRemediationTask leaves an issue alone:
\* the one linked or, without any link, one whose snapshot names the issue.
MutationOf(i) ==
  {m \in Mutations :
     Live(m) /\ (link[i] = m \/ (link[i] = None /\ proposal[m].about = i))}

\* Fault: an approved mutation is not looked for.
RecentPending(i) ==
  {m \in Mutations : proposal[m].status = "pending" /\ proposal[m].about = i
                     /\ proposal[m].recent}

\* findRecentWorkflowMutationProposalId
RecentMutation(i) ==
  {m \in Mutations : Live(m) /\ proposal[m].about = i /\ proposal[m].recent}

\* What ensureIssueRemediationTask does: nothing for a closed issue, for one
\* without a policy or with an active task; a link under a mutation; a task;
\* or, after enough DONE tasks, a proposal instead of one more.
Nothing == {[link |-> link, active |-> active, proposal |-> proposal]}
Linked(i, ms, pr) == {[link |-> [link EXCEPT ![i] = m], active |-> active,
                       proposal |-> pr[m]] : m \in ms}

EnsureTask(i) ==
  IF status[i] # "open" THEN Nothing
  ELSE IF MutationOf(i) # {}
    THEN Linked(i, MutationOf(i), [m \in Mutations |-> proposal])
  ELSE IF i \notin Tasked \/ active[i] > 0 THEN Nothing
  ELSE IF done[i] < Threshold
    THEN {[link |-> link, active |-> [active EXCEPT ![i] = 1], proposal |-> proposal]}
  ELSE IF RecentMutation(i) # {}
    THEN Linked(i, RecentMutation(i), [m \in Mutations |-> proposal])
  ELSE Linked(i, Fresh(Mutations), [m \in Mutations |-> Created(proposal, m, i)])

\* A remediation task ends; DONE is announced.
CompleteTask(i) ==
  /\ Quiet /\ active[i] > 0
  /\ active' = [active EXCEPT ![i] = @ - 1]
  /\ done' = [done EXCEPT ![i] = IF @ < Threshold THEN @ + 1 ELSE @]
  /\ inbox' = inbox \cup {Event("done", i)}
  /\ UNCHANGED <<entityVars, issueVars, failed, proposalVars, crashes>>

FailTask(i) ==
  /\ active[i] > 0 /\ failed[i] = 0
  /\ active' = [active EXCEPT ![i] = @ - 1]
  /\ failed' = [failed EXCEPT ![i] = 1]
  /\ UNCHANGED <<entityVars, issueVars, done, proposalVars, inbox, crashes>>

\* Fault: a task may be tried again for ever.
RetryAgain(i) ==
  /\ active[i] < 2 + failed[i]
  /\ active' = [active EXCEPT ![i] = @ + 1]
  /\ UNCHANGED <<entityVars, issueVars, failed, done, proposalVars, inbox, crashes>>

\* It is tried again, though another task of the issue may be active by now.
RetryTask(i) ==
  /\ failed[i] = 1 /\ active[i] < 2
  /\ failed' = [failed EXCEPT ![i] = 0]
  /\ active' = [active EXCEPT ![i] = @ + 1]
  /\ UNCHANGED <<entityVars, issueVars, done, proposalVars, inbox, crashes>>

\* The steward's task for a mutation is done, or is given up.
StewardEnds(m) ==
  /\ Quiet /\ steward[m] \in {"review", "implementation"} /\ Event("steward", m) \notin inbox
  /\ \/ inbox' = inbox \cup {Event("steward", m)} /\ UNCHANGED steward
     \/ steward' = [steward EXCEPT ![m] = "dropped"] /\ UNCHANGED inbox
  /\ UNCHANGED <<entityVars, issueVars, taskVars, proposal, crashes>>

-----------------------------------------------------------------------------
(* Verdicts                                                                *)

Approve(p) ==
  /\ Quiet /\ proposal[p].status = "pending"
  /\ proposal' = [proposal EXCEPT ![p].status = "approved"]
  /\ inbox' = inbox \cup {Event("approved", p)}
  /\ UNCHANGED <<entityVars, issueVars, taskVars, steward, crashes>>

\* Bound: what may be replaced needs an unused proposal.
MayReplace(p) ==
  \E q \in Unused(Proposals) : (p \in Mutations) = (q \in Mutations)

Reject(p) ==
  /\ Quiet /\ proposal[p].status = "pending" /\ MayReplace(p)
  /\ proposal' = [proposal EXCEPT ![p].status = "rejected"]
  /\ inbox' = inbox \cup {Event("rejected", p)}
  /\ UNCHANGED <<entityVars, issueVars, taskVars, steward, crashes>>

\* requeueEvents: an operator has the event of an approval handled again.
RequeueApproval(p) ==
  /\ Quiet /\ proposal[p].status = "approved" /\ Event("approved", p) \notin inbox
  /\ inbox' = inbox \cup {Event("approved", p)}
  /\ UNCHANGED <<entityVars, issueVars, taskVars, proposalVars, crashes>>

\* proposalCooldownHours have passed.
CoolDown(m) ==
  /\ proposal[m].recent /\ MayReplace(m)
  /\ proposal' = [proposal EXCEPT ![m].recent = FALSE]
  /\ UNCHANGED <<entityVars, issueVars, taskVars, steward, inbox, crashes>>

-----------------------------------------------------------------------------
(* Handlers                                                                *)

\* handleEntityIssueChanged: a recording caused by the issue's own DONE task
\* reopens nothing.  If the process dies after the proposal was created, the
\* issue is not linked to it.
HandleChanged(i, src) ==
  /\ Changed(i, src) \in inbox
  /\ \E res \in IF src = "own" THEN Nothing ELSE EnsureTask(i) :
       /\ active' = res.active
       /\ \/ /\ link' = res.link
             /\ Readiness(status, res.proposal)
             /\ Handled(Changed(i, src), {})
          \/ /\ link' \in {link, res.link}
             /\ proposal' = res.proposal
             /\ <<link', active', proposal'>> # <<link, active, proposal>>
             /\ Dies
             /\ UNCHANGED entityVars
  /\ UNCHANGED <<status, failed, done, steward>>

\* Fault: one task is closed.
ResolvedClosesOne(i) ==
  /\ Event("resolved", i) \in inbox
  /\ active' = [active EXCEPT ![i] = IF @ > 0 THEN @ - 1 ELSE 0]
  /\ IF active[i] > 0
       THEN UNCHANGED <<entityVars, proposal>> /\ Handled(Event("resolved", i), {})
       ELSE /\ Readiness(status, proposal)
            /\ Handled(Event("resolved", i), {})
  /\ UNCHANGED <<issueVars, failed, done, steward>>

\* handleEntityIssueResolved: the readiness only if there was no task to close.
HandleResolved(i) ==
  /\ Event("resolved", i) \in inbox
  /\ active' = [active EXCEPT ![i] = 0]
  /\ IF active[i] > 0
       THEN UNCHANGED <<entityVars, proposal>> /\ Handled(Event("resolved", i), {})
       ELSE /\ Readiness(status, proposal)
            /\ Handled(Event("resolved", i), {})
  /\ UNCHANGED <<issueVars, failed, done, steward>>

\* handleEntityChanged
HandleTouched ==
  /\ Touched \in inbox
  /\ Readiness(status, proposal)
  /\ Handled(Touched, {})
  /\ UNCHANGED <<issueVars, taskVars, steward>>

\* maybeRerunIssueChecksForTask: the checks of the issue run again.
Reruns(e) ==
  \E rep \in Report("own") :
    /\ status' = rep.status
    /\ Readiness(rep.status, proposal)
    /\ Handled(e, rep.new)

\* handleTaskCompleted for a remediation task.
HandleDone(i) ==
  /\ Event("done", i) \in inbox
  /\ Reruns(Event("done", i))
  /\ UNCHANGED <<link, taskVars, steward>>

\* handleTaskCompleted for the steward's task
\* (maybeHandleWorkflowMutationTaskCompletion): the review is followed by the
\* implementation, the implementation by a link and a rerun of the checks.
HandleSteward(m) ==
  /\ Event("steward", m) \in inbox
  /\ \/ /\ steward[m] = "review"
        /\ steward' = [steward EXCEPT ![m] = "implementation"]
        /\ Handled(Event("steward", m), {})
        /\ UNCHANGED <<entityVars, issueVars, proposal>>
     \/ /\ steward[m] = "implementation"
        /\ steward' = [steward EXCEPT ![m] = "landed"]
        /\ link' = [link EXCEPT ![proposal[m].about] = m]
        /\ Reruns(Event("steward", m))
  /\ UNCHANGED taskVars

\* handleProposalApproved for a mutation: the issue is linked, the steward's
\* task is created unless one is under way, the execution is marked.
HandleMutation(m) ==
  /\ Event("approved", m) \in inbox
  /\ IF proposal[m].applied
       THEN /\ Handled(Event("approved", m), {})
            /\ UNCHANGED <<link, steward, proposal>>
       ELSE /\ link' = [link EXCEPT ![proposal[m].about] = m]
            /\ steward' = [steward EXCEPT
                 ![m] = IF @ \in {"none", "landed", "dropped"} THEN "review" ELSE @]
            /\ \/ /\ proposal' = [proposal EXCEPT ![m].applied = TRUE]
                  /\ Handled(Event("approved", m), {})
               \/ Dies /\ UNCHANGED proposal
  /\ UNCHANGED <<entityVars, status, taskVars>>

\* Fault: what was executed is executed again.
PromoteAgain(q) ==
  /\ Event("approved", q) \in inbox
  /\ entity' = "active"
  /\ proposal' = [proposal EXCEPT ![q].applied = TRUE]
  /\ Handled(Event("approved", q), {})
  /\ UNCHANGED <<gated, issueVars, taskVars, steward>>

\* handleProposalApproved for a promotion: transitionEntity, which asks neither
\* for issues nor for blockers, then the execution is marked.
HandlePromotion(q) ==
  /\ Event("approved", q) \in inbox
  /\ IF proposal[q].applied
       THEN Handled(Event("approved", q), {}) /\ UNCHANGED <<entity, proposal>>
       ELSE /\ entity' = "active"
            /\ \/ /\ proposal' = [proposal EXCEPT ![q].applied = TRUE]
                  /\ Handled(Event("approved", q), {})
               \/ Dies /\ UNCHANGED proposal
  /\ UNCHANGED <<gated, issueVars, taskVars, steward>>

\* handleProposalRejected: the issue of a mutation is unlinked, whatever it is
\* linked to.
HandleRejected(p) ==
  /\ Event("rejected", p) \in inbox
  /\ link' = [i \in Issues |-> IF i = proposal[p].about THEN None ELSE link[i]]
  /\ Handled(Event("rejected", p), {})
  /\ UNCHANGED <<entityVars, status, taskVars, proposalVars>>

Handlers ==
  \/ \E i \in Issues : HandleResolved(i) \/ HandleDone(i)
  \/ \E i \in Issues, src \in {"own", "other"} : HandleChanged(i, src)
  \/ \E m \in Mutations : HandleSteward(m) \/ HandleMutation(m)
  \/ \E q \in Promotions : HandlePromotion(q)
  \/ \E p \in Proposals : HandleRejected(p)
  \/ HandleTouched

-----------------------------------------------------------------------------
Outside ==
  \/ RequestPromotion \/ Demote \/ Touch \/ RunChecks
  \/ \E i \in Issues :
       \/ Record(i) \/ ResolveIssue(i)
       \/ CompleteTask(i) \/ FailTask(i) \/ RetryTask(i)
  \/ \E m \in Mutations : StewardEnds(m) \/ CoolDown(m)
  \/ \E p \in Proposals : Approve(p) \/ Reject(p) \/ RequeueApproval(p)

Next == Handlers \/ Outside

\* The router goes on with the events, in whatever order.
Fairness ==
  /\ \A i \in Issues :
       /\ WF_vars(HandleResolved(i))
       /\ \A src \in {"own", "other"} : WF_vars(HandleChanged(i, src))

Spec == Init /\ [][Next]_vars /\ Fairness

-----------------------------------------------------------------------------
(* Properties                                                              *)

\* An issue that is found is taken up: whatever becomes of the process that
\* handles the event, the issue gets an active task or a live mutation, unless
\* it is closed before.
FoundIssueTakenUp ==
  \A i \in Tasked :
    Changed(i, "other") \in inbox
      ~> (status[i] # "open" \/ active[i] > 0 \/ \E m \in Mutations : Live(m) /\ link[i] = m)

\* The tasks of a closed issue are cancelled, also those tried again meanwhile,
\* unless it is found again.
ClosedIssueEndsTasks ==
  \A i \in Issues :
    Event("resolved", i) \in inbox ~> (status[i] = "open" \/ active[i] = 0)

\* Within the cooldown an issue has at most one live mutation, though rejected
\* links are cleared, requests for a promotion overwrite links and processes
\* die between the proposal and its link.
OneRecentMutation ==
  \A m, n \in Mutations :
    (Live(m) /\ Live(n) /\ proposal[m].recent /\ proposal[n].recent
       /\ proposal[m].about = proposal[n].about) => m = n

\* A gated entity is promoted by an approval that was not executed yet, though
\* handlers die, events are put back and agents demote the entity meanwhile: an
\* approval that has been used does not promote it again.
PromotedByApproval ==
  [][(gated /\ entity = "shadow" /\ entity' = "active")
       => \E q \in Promotions : proposal[q].status = "approved" /\ ~proposal[q].applied]_vars
=============================================================================
