------------------------- MODULE RemediationProofs -------------------------
(***************************************************************************)
(* Proofs about Remediation for any issues and proposals: its types, the   *)
(* single live mutation of an issue and the approval behind a promotion.   *)
(***************************************************************************)
EXTENDS Remediation, FiniteSetTheorems, TLAPS

-----------------------------------------------------------------------------
(* The invariant                                                           *)

Row == [status : {"none", "pending", "approved", "rejected"},
        about : Issues \cup {None}, recent : BOOLEAN, applied : BOOLEAN]

\* An entity that asks for its promotion finds a proposal to ask with: a
\* proposal is only rejected while another is unused.
SomePromotion(pr) ==
  \E q \in Promotions : pr[q].status \in {"none", "pending", "approved"}

\* OneRecentMutation on a proposal table.
OneRecent(pr) ==
  \A m, n \in Mutations :
    (/\ pr[m].status \in {"pending", "approved"} /\ pr[m].recent
     /\ pr[n].status \in {"pending", "approved"} /\ pr[n].recent
     /\ pr[m].about = pr[n].about) => m = n

Good(pr) == pr \in [Proposals -> Row] /\ SomePromotion(pr) /\ OneRecent(pr)

\* An event of an approval is about an approved proposal.
Honest(box, pr) ==
  \A e \in box : e.type = "approved" => pr[e.of].status = "approved"

\* TypeOK in the parts that steps touch together.
EntityOK == entity \in {"shadow", "active"} /\ gated \in BOOLEAN
LinkOK == link \in [Issues -> Proposals \cup {None}]
StatusOK == status \in [Issues -> {"none", "open", "resolved"}]
TasksOK == /\ active \in [Issues -> 0..2] /\ failed \in [Issues -> 0..1]
           /\ done \in [Issues -> 0..Threshold]
StewardOK == steward \in [Mutations -> Stages]
InboxOK == inbox \subseteq Events /\ Honest(inbox, proposal)
CrashesOK == crashes \in 0..MaxCrashes

IInv == /\ EntityOK /\ LinkOK /\ StatusOK /\ TasksOK /\ StewardOK
        /\ InboxOK /\ CrashesOK
        /\ Good(proposal)

USE DEF Proposals, Row, SomePromotion, Changed, Event, Touched

-----------------------------------------------------------------------------
(* The proposal table                                                      *)

\* What was approved stays so.
Keeps(pr, new) ==
  \A p \in Proposals : pr[p].status = "approved" => new[p].status = "approved"

\* A row of the table that changes.
LEMMA RowChanges ==
  ASSUME NEW pr, Good(pr), NEW p \in Proposals, NEW y \in Row,
         pr[p].status = "approved" => y.status = "approved",
         y.status # "rejected" \/ \E q \in Promotions \ {p} : pr[q].status # "rejected",
         y.status \in {"pending", "approved"} /\ y.recent /\ p \in Mutations =>
           \A n \in Mutations \ {p} :
             (pr[n].status \in {"pending", "approved"} /\ pr[n].recent)
               => pr[n].about # y.about
  PROVE  Good([pr EXCEPT ![p] = y]) /\ Keeps(pr, [pr EXCEPT ![p] = y])
<1>. DEFINE new == [pr EXCEPT ![p] = y]
<1>1. /\ pr \in [Proposals -> Row] /\ new \in [Proposals -> Row] /\ new[p] = y
      /\ \A q \in Proposals \ {p} : new[q] = pr[q]
  BY DEF Good
<1>2. \E q \in Promotions : pr[q].status \in {"none", "pending", "approved"}
  BY DEF Good
<1>3. OneRecent(pr)
  BY DEF Good
<1>. HIDE DEF new
<1>4. SomePromotion(new)
  <2>1. CASE y.status # "rejected"
    BY <1>1, <1>2, <2>1
  <2>2. CASE \E q \in Promotions \ {p} : pr[q].status # "rejected"
    BY <1>1, <2>2
  <2>. QED
    BY <2>1, <2>2
<1>5. OneRecent(new)
  <2>. SUFFICES ASSUME NEW m \in Mutations, NEW n \in Mutations, m # n,
                       new[m].status \in {"pending", "approved"}, new[m].recent,
                       new[n].status \in {"pending", "approved"}, new[n].recent,
                       new[m].about = new[n].about
                PROVE  FALSE
    BY DEF OneRecent
  <2>1. CASE m = p
    <3>1. new[n] = pr[n] /\ new[m] = y
      BY <1>1, <2>1
    <3>. QED
      BY <2>1, <3>1
  <2>2. CASE n = p
    <3>1. new[m] = pr[m] /\ new[n] = y
      BY <1>1, <2>2
    <3>. QED
      BY <2>2, <3>1
  <2>3. CASE m # p /\ n # p
    <3>1. new[m] = pr[m] /\ new[n] = pr[n]
      BY <1>1, <2>3
    <3>. QED
      BY <1>3, <3>1 DEF OneRecent
  <2>. QED
    BY <2>1, <2>2, <2>3
<1>6. Keeps(pr, new)
  BY <1>1 DEF Keeps
<1>. QED
  BY <1>1, <1>4, <1>5, <1>6 DEF Good, new

\* A row that only changes its mark of execution, its verdict or its age.
LEMMA RowMoves ==
  ASSUME NEW pr, Good(pr), NEW p \in Proposals, NEW y \in Row,
         pr[p].status = "approved" => y.status = "approved",
         y.status # "rejected" \/ \E q \in Promotions \ {p} : pr[q].status # "rejected",
         y.about = pr[p].about, y.recent => pr[p].recent,
         y.status \in {"pending", "approved"} => pr[p].status \in {"pending", "approved"}
  PROVE  Good([pr EXCEPT ![p] = y]) /\ Keeps(pr, [pr EXCEPT ![p] = y])
<1>1. y.status \in {"pending", "approved"} /\ y.recent /\ p \in Mutations =>
           \A n \in Mutations \ {p} :
             (pr[n].status \in {"pending", "approved"} /\ pr[n].recent)
               => pr[n].about # y.about
  BY DEF Good, OneRecent
<1>. QED
  BY <1>1, RowChanges

\* A new promotion takes an unused row.
LEMMA PromotionCreated ==
  ASSUME NEW pr, Good(pr), NEW q \in Promotions, pr[q].status = "none"
  PROVE  Good(Created(pr, q, None)) /\ Keeps(pr, Created(pr, q, None))
<1>. DEFINE y == [status |-> "pending", about |-> None, recent |-> TRUE,
                  applied |-> FALSE]
<1>1. y \in Row /\ y.status = "pending" /\ q \notin Mutations /\ q \in Proposals
  BY ProposalsAssumption
<1>. HIDE DEF y
<1>2. Good([pr EXCEPT ![q] = y]) /\ Keeps(pr, [pr EXCEPT ![q] = y])
  BY <1>1, RowChanges
<1>. QED
  BY <1>2 DEF Created, y

\* A new mutation is the only live one of its issue within the cooldown.
LEMMA MutationCreated ==
  ASSUME NEW pr, Good(pr), NEW m \in Mutations, pr[m].status = "none",
         NEW i \in Issues,
         \A n \in Mutations :
           ~(/\ pr[n].status \in {"pending", "approved"} /\ pr[n].about = i
             /\ pr[n].recent)
  PROVE  /\ Good(Created(pr, m, i)) /\ Keeps(pr, Created(pr, m, i))
         /\ \A q \in Promotions : Created(pr, m, i)[q] = pr[q]
<1>. DEFINE y == [status |-> "pending", about |-> i, recent |-> TRUE,
                  applied |-> FALSE]
<1>1. y \in Row /\ y.status = "pending" /\ y.about = i /\ m \in Proposals
  OBVIOUS
<1>. HIDE DEF y
<1>2. Good([pr EXCEPT ![m] = y]) /\ Keeps(pr, [pr EXCEPT ![m] = y])
  BY <1>1, RowChanges
<1>3. \A q \in Promotions : [pr EXCEPT ![m] = y][q] = pr[q]
  BY ProposalsAssumption DEF Good
<1>. QED
  BY <1>2, <1>3 DEF Created, y

\* Whoever asks for a promotion has one to ask with; without a gate nothing is
\* asked, and behind it nothing is promoted.
LEMMA ReadinessKeeps ==
  ASSUME IInv, NEW st, NEW pr, Good(pr), Keeps(proposal, pr),
         \A q \in Promotions : pr[q] = proposal[q],
         Readiness(st, pr)
  PROVE  /\ EntityOK' /\ Good(proposal') /\ Keeps(proposal, proposal')
         /\ gated => entity' = entity
<1>1. EntityOK' /\ (gated => entity' = entity)
  BY DEF Readiness, IInv, EntityOK
<1>2. CASE ~(Asks(st, pr) /\ gated)
  BY <1>1, <1>2 DEF Readiness
<1>3. CASE Asks(st, pr) /\ gated
  <2>1. PICK q \in Promotions : pr[q].status = "none"
    BY <1>3 DEF Asks, Good
  <2>2. q \in Unused(Promotions)
    BY <2>1 DEF Unused
  <2>3. New(Promotions) \in Unused(Promotions)
    BY <2>2 DEF New
  <2>4. New(Promotions) \in Promotions /\ pr[New(Promotions)].status = "none"
    BY <2>3 DEF Unused
  <2>5. Good(Created(pr, New(Promotions), None))
        /\ Keeps(pr, Created(pr, New(Promotions), None))
    BY <2>4, PromotionCreated
  <2>6. proposal' = Created(pr, New(Promotions), None)
    BY <1>3 DEF Readiness
  <2>. HIDE DEF Proposals
  <2>7. Keeps(proposal, proposal')
    BY <2>5, <2>6 DEF Keeps
  <2>. QED
    BY <1>1, <2>5, <2>6, <2>7
<1>. QED
  BY <1>2, <1>3

-----------------------------------------------------------------------------
(* The inbox                                                               *)

\* The events of the model are what they are called.
LEMMA EventKinds ==
  /\ \A i \in Issues, src \in {"own", "other"} :
       Changed(i, src) \in Events /\ Changed(i, src).type = "changed"
  /\ \A i \in Issues :
       /\ Event("resolved", i) \in Events /\ Event("resolved", i).type = "resolved"
       /\ Event("done", i) \in Events /\ Event("done", i).type = "done"
  /\ \A p \in Proposals :
       /\ Event("approved", p) \in Events /\ Event("approved", p).type = "approved"
       /\ Event("approved", p).of = p
       /\ Event("rejected", p) \in Events /\ Event("rejected", p).type = "rejected"
  /\ \A m \in Mutations :
       Event("steward", m) \in Events /\ Event("steward", m).type = "steward"
  /\ Touched \in Events /\ Touched.type = "touched"
  BY DEF Events

\* New events that approve nothing, or approve what is approved.
LEMMA InboxKeeps ==
  ASSUME IInv, Keeps(proposal, proposal'),
         \A e \in inbox' \ inbox :
           /\ e \in Events
           /\ e.type = "approved" =>
                e.of \in Proposals /\ proposal'[e.of].status = "approved"
  PROVE  InboxOK'
<1>1. inbox \subseteq Events /\ Honest(inbox, proposal)
  BY DEF IInv, InboxOK
<1>2. \A e \in Events : e.type = "approved" => e.of \in Proposals
  BY DEF Events
<1>3. Honest(inbox', proposal')
  BY <1>1, <1>2 DEF Honest, Keeps
<1>. QED
  BY <1>1, <1>3 DEF InboxOK

-----------------------------------------------------------------------------
(* The steps from outside                                                  *)

\* A step that touches no proposal.
LEMMA SameProposals ==
  ASSUME IInv, proposal' = proposal
  PROVE  Good(proposal') /\ Keeps(proposal, proposal')
  BY DEF IInv, Keeps

\* requestEntityTransition creates a proposal or promotes an ungated entity.
LEMMA RequestPromotionKeeps ==
  ASSUME IInv, RequestPromotion
  PROVE  IInv'
<1>1. UNCHANGED <<gated, status, active, failed, done, steward, inbox, crashes>>
  BY DEF RequestPromotion, taskVars
<1>2. CASE /\ Cardinality(Unused(Promotions)) > 1
           /\ proposal' = Created(proposal, New(Promotions), None)
           /\ link' = [i \in Issues |->
                         IF status[i] = "open" THEN New(Promotions) ELSE link[i]]
           /\ entity' = entity
  <2>1. Unused(Promotions) # {}
    BY <1>2, FS_EmptySet
  <2>2. New(Promotions) \in Unused(Promotions)
    BY <2>1 DEF New
  <2>3. New(Promotions) \in Promotions /\ proposal[New(Promotions)].status = "none"
    BY <2>2 DEF Unused
  <2>4. Good(proposal') /\ Keeps(proposal, proposal')
    BY <1>2, <2>3, PromotionCreated DEF IInv
  <2>5. LinkOK'
    BY <1>2, <2>3 DEF LinkOK, IInv
  <2>6. InboxOK'
    BY <1>1, <2>4, InboxKeeps
  <2>. QED
    BY <1>1, <1>2, <2>4, <2>5, <2>6
       DEF IInv, EntityOK, StatusOK, TasksOK, StewardOK, CrashesOK
<1>3. CASE entity' = "active" /\ proposal' = proposal /\ link' = link
  <2>1. Good(proposal') /\ Keeps(proposal, proposal')
    BY <1>3, SameProposals
  <2>2. InboxOK'
    BY <1>1, <2>1, InboxKeeps
  <2>. QED
    BY <1>1, <1>3, <2>1, <2>2
       DEF IInv, EntityOK, LinkOK, StatusOK, TasksOK, StewardOK, CrashesOK
<1>. QED
  BY <1>2, <1>3 DEF RequestPromotion

\* Agents, operators and workers record, resolve, touch, demote and finish work.
LEMMA OutsideKeeps ==
  ASSUME IInv, proposal' = proposal, link' = link, crashes' = crashes,
         EntityOK', StatusOK', TasksOK', StewardOK',
         \A e \in inbox' \ inbox :
           /\ e \in Events
           /\ e.type = "approved" =>
                e.of \in Proposals /\ proposal[e.of].status = "approved"
  PROVE  IInv'
<1>1. Good(proposal') /\ Keeps(proposal, proposal')
  BY SameProposals
<1>2. InboxOK'
  BY <1>1, InboxKeeps
<1>. QED
  BY <1>1, <1>2 DEF IInv, LinkOK, CrashesOK

\* The entity is demoted or updated.
LEMMA EntityStepKeeps ==
  ASSUME IInv, Demote \/ Touch
  PROVE  IInv'
<1>1. /\ UNCHANGED <<gated, status, link, active, failed, done, proposal, steward,
                     crashes>>
      /\ entity' \in {entity, "shadow"}
      /\ \A e \in inbox' \ inbox : e = Touched
  BY DEF Demote, Touch, entityVars, issueVars, taskVars, proposalVars
<1>2. \A e \in inbox' \ inbox : e = Touched
  BY <1>1
<1>3. \A e \in inbox' \ inbox :
        /\ e \in Events
        /\ e.type = "approved" =>
             e.of \in Proposals /\ proposal[e.of].status = "approved"
  <2>. HIDE DEF Touched
  <2>. QED
    BY <1>2, EventKinds
<1>4. EntityOK' /\ StatusOK' /\ TasksOK' /\ StewardOK'
  BY <1>1 DEF IInv, EntityOK, StatusOK, TasksOK, StewardOK
<1>. QED
  BY <1>1, <1>2, <1>3, <1>4, OutsideKeeps

\* Issues are recorded and resolved through the entity tool.
LEMMA IssueStepKeeps ==
  ASSUME IInv, NEW i \in Issues, Record(i) \/ ResolveIssue(i)
  PROVE  IInv'
<1>1. /\ UNCHANGED <<gated, entity, link, active, failed, done, proposal, steward,
                     crashes>>
      /\ \E s \in {"open", "resolved"} : status' = [status EXCEPT ![i] = s]
      /\ \E e \in {Changed(i, "other"), Event("resolved", i)} : inbox' = inbox \cup {e}
  BY DEF Record, ResolveIssue, entityVars, issueVars, taskVars, proposalVars
<1>2. PICK e \in {Changed(i, "other"), Event("resolved", i)} : inbox' = inbox \cup {e}
  BY <1>1
<1>3. \A f \in inbox' \ inbox :
        /\ f \in Events
        /\ f.type = "approved" =>
             f.of \in Proposals /\ proposal[f.of].status = "approved"
  <2>. HIDE DEF Changed, Event
  <2>. QED
    BY <1>2, EventKinds
<1>4. EntityOK' /\ StatusOK' /\ TasksOK' /\ StewardOK'
  BY <1>1 DEF IInv, EntityOK, StatusOK, TasksOK, StewardOK
<1>. QED
  BY <1>1, <1>2, <1>3, <1>4, OutsideKeeps

\* Remediation tasks end, fail and are tried again.
LEMMA TaskStepKeeps ==
  ASSUME IInv, NEW i \in Issues, CompleteTask(i) \/ FailTask(i) \/ RetryTask(i)
  PROVE  IInv'
<1>1. /\ UNCHANGED <<gated, entity, status, link, proposal, steward, crashes>>
      /\ \A e \in inbox' \ inbox : e = Event("done", i)
  BY DEF CompleteTask, FailTask, RetryTask, entityVars, issueVars, proposalVars
<1>2. \A e \in inbox' \ inbox : e = Event("done", i)
  BY <1>1
<1>3. \A e \in inbox' \ inbox :
        /\ e \in Events
        /\ e.type = "approved" =>
             e.of \in Proposals /\ proposal[e.of].status = "approved"
  <2>. HIDE DEF Event
  <2>. QED
    BY <1>2, EventKinds
<1>4. TasksOK'
  <2>1. /\ active \in [Issues -> 0..2] /\ failed \in [Issues -> 0..1]
        /\ done \in [Issues -> 0..Threshold]
    BY DEF IInv, TasksOK
  <2>2. CASE CompleteTask(i)
    BY <2>1, <2>2, BoundsAssumption DEF CompleteTask, TasksOK
  <2>3. CASE FailTask(i)
    BY <2>1, <2>3 DEF FailTask, TasksOK
  <2>4. CASE RetryTask(i)
    BY <2>1, <2>4 DEF RetryTask, TasksOK
  <2>. QED
    BY <2>2, <2>3, <2>4
<1>5. EntityOK' /\ StatusOK' /\ StewardOK'
  BY <1>1 DEF IInv, EntityOK, StatusOK, StewardOK
<1>. QED
  BY <1>1, <1>2, <1>3, <1>4, <1>5, OutsideKeeps

\* The steward's task ends.
LEMMA StewardEndsKeeps ==
  ASSUME IInv, NEW m \in Mutations, StewardEnds(m)
  PROVE  IInv'
<1>1. /\ UNCHANGED <<gated, entity, status, link, active, failed, done, proposal,
                     crashes>>
      /\ steward' \in {steward, [steward EXCEPT ![m] = "dropped"]}
      /\ \A e \in inbox' \ inbox : e = Event("steward", m)
  BY DEF StewardEnds, entityVars, issueVars, taskVars
<1>2. \A e \in inbox' \ inbox : e = Event("steward", m)
  BY <1>1
<1>3. \A e \in inbox' \ inbox :
        /\ e \in Events
        /\ e.type = "approved" =>
             e.of \in Proposals /\ proposal[e.of].status = "approved"
  <2>. HIDE DEF Event
  <2>. QED
    BY <1>2, EventKinds
<1>4. EntityOK' /\ StatusOK' /\ TasksOK' /\ StewardOK'
  BY <1>1 DEF IInv, EntityOK, StatusOK, TasksOK, StewardOK, Stages
<1>. QED
  BY <1>1, <1>2, <1>3, <1>4, OutsideKeeps

\* A rejection leaves another promotion to ask with.
LEMMA VerdictKeeps ==
  ASSUME IInv, NEW p \in Proposals, Approve(p) \/ Reject(p)
  PROVE  IInv'
<1>1. /\ UNCHANGED <<gated, entity, status, link, active, failed, done, steward,
                     crashes>>
      /\ proposal[p].status = "pending"
  BY DEF Approve, Reject, entityVars, issueVars, taskVars
<1>2. proposal[p] \in Row /\ Good(proposal)
  BY DEF IInv, Good
<1>3. PICK v \in {"approved", "rejected"} :
        /\ proposal' = [proposal EXCEPT ![p] = [proposal[p] EXCEPT !.status = v]]
        /\ inbox' = inbox \cup {Event(v, p)}
        /\ v = "rejected" => MayReplace(p)
  BY DEF Approve, Reject
<1>. DEFINE y == [proposal[p] EXCEPT !.status = v]
<1>4. /\ y \in Row /\ y.status = v /\ y.about = proposal[p].about
      /\ y.recent = proposal[p].recent
  BY <1>2
<1>5. y.status # "rejected" \/ \E q \in Promotions \ {p} : proposal[q].status # "rejected"
  <2>1. CASE v = "approved"
    BY <1>4, <2>1
  <2>2. CASE MayReplace(p) /\ p \in Promotions
    <3>1. PICK q \in Unused(Proposals) : (p \in Mutations) = (q \in Mutations)
      BY <2>2 DEF MayReplace
    <3>2. q \in Promotions /\ proposal[q].status = "none"
      BY <2>2, <3>1, ProposalsAssumption DEF Unused
    <3>. QED
      BY <1>1, <3>2
  <2>3. CASE p \in Mutations
    <3>1. PICK q \in Promotions : proposal[q].status # "rejected"
      BY <1>2 DEF Good
    <3>. QED
      BY <2>3, <3>1, ProposalsAssumption
  <2>. QED
    BY <1>3, <2>1, <2>2, <2>3
<1>. HIDE DEF y
<1>6. proposal' = [proposal EXCEPT ![p] = y]
  BY <1>3 DEF y
<1>7. Good([proposal EXCEPT ![p] = y]) /\ Keeps(proposal, [proposal EXCEPT ![p] = y])
  BY <1>1, <1>2, <1>4, <1>5, RowMoves
<1>8. Good(proposal') /\ Keeps(proposal, proposal')
  BY <1>6, <1>7
<1>9. /\ Event(v, p) \in Events
      /\ Event(v, p).type = "approved" =>
           Event(v, p).of \in Proposals /\ proposal'[Event(v, p).of].status = "approved"
  <2>1. v = "approved" => proposal'[p].status = "approved"
    BY <1>2, <1>4, <1>6 DEF Good
  <2>. HIDE DEF Event
  <2>. QED
    BY <1>3, <2>1, EventKinds
<1>10. InboxOK'
  <2>. HIDE DEF Event
  <2>1. \A e \in inbox' \ inbox :
           /\ e \in Events
           /\ e.type = "approved" =>
                e.of \in Proposals /\ proposal'[e.of].status = "approved"
    BY <1>3, <1>9
  <2>. QED
    BY <1>8, <2>1, InboxKeeps
<1>. QED
  BY <1>1, <1>8, <1>10
     DEF IInv, EntityOK, LinkOK, StatusOK, TasksOK, StewardOK, CrashesOK

\* The event of an approval is put back.
LEMMA AgainKeeps ==
  ASSUME IInv, NEW p \in Proposals, RequeueApproval(p)
  PROVE  IInv'
<1>1. /\ UNCHANGED <<gated, entity, status, link, active, failed, done, proposal,
                     steward, crashes>>
      /\ proposal[p].status = "approved" /\ inbox' = inbox \cup {Event("approved", p)}
  BY DEF RequeueApproval, entityVars, issueVars, taskVars, proposalVars
<1>2. \A e \in inbox' \ inbox :
        /\ e \in Events
        /\ e.type = "approved" =>
             e.of \in Proposals /\ proposal[e.of].status = "approved"
  <2>. HIDE DEF Event
  <2>. QED
    BY <1>1, EventKinds
<1>3. EntityOK' /\ StatusOK' /\ TasksOK' /\ StewardOK'
  BY <1>1 DEF IInv, EntityOK, StatusOK, TasksOK, StewardOK
<1>. QED
  BY <1>1, <1>2, <1>3, OutsideKeeps

\* The cooldown of a mutation ends.
LEMMA CoolDownKeeps ==
  ASSUME IInv, NEW m \in Mutations, CoolDown(m)
  PROVE  IInv'
<1>1. /\ UNCHANGED <<gated, entity, status, link, active, failed, done, steward,
                     inbox, crashes>>
      /\ proposal' = [proposal EXCEPT ![m] = [proposal[m] EXCEPT !.recent = FALSE]]
  BY DEF CoolDown, entityVars, issueVars, taskVars
<1>2. proposal[m] \in Row /\ Good(proposal) /\ m \in Proposals
  BY DEF IInv, Good
<1>. DEFINE y == [proposal[m] EXCEPT !.recent = FALSE]
<1>3. /\ y \in Row /\ y.status = proposal[m].status /\ y.about = proposal[m].about
      /\ ~y.recent
  BY <1>2
<1>. HIDE DEF y
<1>4. \E q \in Promotions \ {m} : proposal[q].status # "rejected"
  BY <1>2, ProposalsAssumption DEF Good
<1>5. Good([proposal EXCEPT ![m] = y]) /\ Keeps(proposal, [proposal EXCEPT ![m] = y])
  BY <1>2, <1>3, <1>4, RowMoves
<1>6. Good(proposal') /\ Keeps(proposal, proposal')
  BY <1>1, <1>5 DEF y
<1>7. InboxOK'
  BY <1>1, <1>6, InboxKeeps
<1>. QED
  BY <1>1, <1>6, <1>7
     DEF IInv, EntityOK, LinkOK, StatusOK, TasksOK, StewardOK, CrashesOK

-----------------------------------------------------------------------------
(* The checks                                                              *)

\* A report states each issue and approves nothing.
LEMMA ReportsAreHonest ==
  ASSUME StatusOK, NEW src \in {"own", "other"}, NEW rep \in Report(src)
  PROVE  /\ rep.status \in [Issues -> {"none", "open", "resolved"}]
         /\ \A e \in rep.new : e \in Events /\ e.type # "approved"
<1>. USE IssuesAssumption
<1>1. CASE rep = [status |-> status, new |-> {}]
  BY <1>1 DEF StatusOK
<1>2. CASE rep = [status |-> [status EXCEPT ![SystemIssue] = "open"],
                  new |-> {Changed(SystemIssue, "other")}]
  <2>1. rep.status \in [Issues -> {"none", "open", "resolved"}]
    BY <1>2 DEF StatusOK
  <2>2. \A e \in rep.new : e = Changed(SystemIssue, "other")
    BY <1>2
  <2>. HIDE DEF Changed
  <2>. QED
    BY <2>1, <2>2, EventKinds
<1>3. ASSUME NEW found \in SUBSET (Issues \ {SystemIssue}),
             rep = [status |-> [i \in Issues |-> IF i \in found THEN "open"
                                                 ELSE IF status[i] = "open" THEN "resolved"
                                                 ELSE status[i]],
                    new |-> {Changed(i, src) : i \in found}
                            \cup {Event("resolved", i) : i \in Open(status) \ found}
                            \cup {Touched}]
      PROVE  /\ rep.status \in [Issues -> {"none", "open", "resolved"}]
             /\ \A e \in rep.new : e \in Events /\ e.type # "approved"
  <2>1. rep.status \in [Issues -> {"none", "open", "resolved"}]
    BY <1>3 DEF StatusOK
  <2>2. rep.new = {Changed(i, src) : i \in found}
                  \cup {Event("resolved", i) : i \in Open(status) \ found}
                  \cup {Touched}
    BY <1>3
  <2>3. ASSUME NEW e \in rep.new PROVE e \in Events /\ e.type # "approved"
    <3>. HIDE DEF Changed, Event, Touched
    <3>1. CASE e \in {Changed(i, src) : i \in found}
      BY <3>1, EventKinds
    <3>2. CASE e \in {Event("resolved", i) : i \in Open(status) \ found}
      BY <3>2, EventKinds DEF Open
    <3>3. CASE e = Touched
      BY <3>3, EventKinds
    <3>. QED
      BY <2>2, <3>1, <3>2, <3>3
  <2>. QED
    BY <2>1, <2>3
<1>. QED
  BY <1>1, <1>2, <1>3 DEF Report

\* The checks end in the readiness, whoever runs them.
LEMMA ChecksKeep ==
  ASSUME IInv, NEW src \in {"own", "other"}, NEW rep \in Report(src),
         status' = rep.status, Readiness(rep.status, proposal),
         \A e \in inbox' \ inbox : e \in rep.new
  PROVE  /\ EntityOK' /\ StatusOK' /\ InboxOK' /\ Good(proposal')
         /\ Keeps(proposal, proposal')
         /\ gated => entity' = entity
<1>1. StatusOK /\ Good(proposal)
  BY DEF IInv
<1>2. /\ rep.status \in [Issues -> {"none", "open", "resolved"}]
      /\ \A e \in rep.new : e \in Events /\ e.type # "approved"
  BY <1>1, ReportsAreHonest
<1>3. Keeps(proposal, proposal) /\ \A q \in Promotions : proposal[q] = proposal[q]
  BY DEF Keeps
<1>4. /\ EntityOK' /\ Good(proposal') /\ Keeps(proposal, proposal')
      /\ gated => entity' = entity
  BY <1>1, <1>3, ReadinessKeeps
<1>5. \A e \in inbox' \ inbox :
        /\ e \in Events
        /\ e.type = "approved" =>
             e.of \in Proposals /\ proposal'[e.of].status = "approved"
  BY <1>2
<1>6. InboxOK'
  BY <1>4, <1>5, InboxKeeps
<1>. QED
  BY <1>2, <1>4, <1>6 DEF StatusOK

\* The checks of an operator or a recurring job.
LEMMA RunChecksKeeps ==
  ASSUME IInv, RunChecks
  PROVE  IInv' /\ (gated => entity' = entity)
<1>1. UNCHANGED <<link, active, failed, done, steward, crashes>>
  BY DEF RunChecks, taskVars
<1>2. PICK rep \in Report("other") :
        /\ status' = rep.status
        /\ Readiness(rep.status, proposal)
        /\ inbox' = inbox \cup rep.new
  BY DEF RunChecks
<1>3. \A e \in inbox' \ inbox : e \in rep.new
  BY <1>2
<1>4. /\ EntityOK' /\ StatusOK' /\ InboxOK' /\ Good(proposal')
      /\ gated => entity' = entity
  BY <1>2, <1>3, ChecksKeep
<1>. QED
  BY <1>1, <1>4 DEF IInv, LinkOK, TasksOK, StewardOK, CrashesOK

-----------------------------------------------------------------------------
(* The handlers                                                            *)

\* A handler that ends or dies writes nothing but new, and dies seldom.
LEMMA HandlerEnds ==
  ASSUME IInv, NEW e, NEW new, Handled(e, new) \/ Dies
  PROVE  CrashesOK' /\ \A f \in inbox' \ inbox : f \in new
<1>1. crashes \in 0..MaxCrashes
  BY DEF IInv, CrashesOK
<1>2. CASE Handled(e, new)
  BY <1>1, <1>2 DEF Handled, CrashesOK
<1>3. CASE Dies
  BY <1>1, <1>3, BoundsAssumption DEF Dies, CrashesOK
<1>. QED
  BY <1>2, <1>3

\* The checks that a finished task asks for.
LEMMA RerunsKeep ==
  ASSUME IInv, NEW e, Reruns(e)
  PROVE  /\ EntityOK' /\ StatusOK' /\ InboxOK' /\ CrashesOK' /\ Good(proposal')
         /\ gated => entity' = entity
<1>1. PICK rep \in Report("own") :
        /\ status' = rep.status
        /\ Readiness(rep.status, proposal)
        /\ Handled(e, rep.new)
  BY DEF Reruns
<1>2. CrashesOK' /\ \A f \in inbox' \ inbox : f \in rep.new
  BY <1>1, HandlerEnds
<1>3. /\ EntityOK' /\ StatusOK' /\ InboxOK' /\ Good(proposal')
      /\ gated => entity' = entity
  BY <1>1, <1>2, ChecksKeep
<1>. QED
  BY <1>2, <1>3

\* A remediation task was done.
LEMMA HandleDoneKeeps ==
  ASSUME IInv, NEW i \in Issues, HandleDone(i)
  PROVE  IInv' /\ (gated => entity' = entity)
<1>1. UNCHANGED <<link, active, failed, done, steward>> /\ Reruns(Event("done", i))
  BY DEF HandleDone, taskVars
<1>2. /\ EntityOK' /\ StatusOK' /\ InboxOK' /\ CrashesOK' /\ Good(proposal')
      /\ gated => entity' = entity
  BY <1>1, RerunsKeep
<1>. QED
  BY <1>1, <1>2 DEF IInv, LinkOK, TasksOK, StewardOK

\* An event that only leads to the readiness.
LEMMA OnlyReadinessKeeps ==
  ASSUME IInv, NEW e, NEW st, Readiness(st, proposal), Handled(e, {})
  PROVE  /\ EntityOK' /\ InboxOK' /\ CrashesOK' /\ Good(proposal')
         /\ gated => entity' = entity
<1>1. Good(proposal) /\ Keeps(proposal, proposal)
      /\ \A q \in Promotions : proposal[q] = proposal[q]
  BY DEF IInv, Keeps
<1>2. /\ EntityOK' /\ Good(proposal') /\ Keeps(proposal, proposal')
      /\ gated => entity' = entity
  BY <1>1, ReadinessKeeps
<1>3. CrashesOK' /\ \A f \in inbox' \ inbox : f \in {}
  BY HandlerEnds
<1>4. InboxOK'
  BY <1>2, <1>3, InboxKeeps
<1>. QED
  BY <1>2, <1>3, <1>4

\* A step that handles an event and leaves the entity and its proposals alone.
LEMMA QuietHandlerKeeps ==
  ASSUME IInv, NEW e, Handled(e, {}) \/ Dies, proposal' = proposal
  PROVE  InboxOK' /\ CrashesOK' /\ Good(proposal')
<1>1. CrashesOK' /\ \A f \in inbox' \ inbox : f \in {}
  BY HandlerEnds
<1>2. Good(proposal') /\ Keeps(proposal, proposal')
  BY SameProposals
<1>3. InboxOK'
  BY <1>1, <1>2, InboxKeeps
<1>. QED
  BY <1>1, <1>2, <1>3

\* The tasks of a closed issue are cancelled.
LEMMA HandleResolvedKeeps ==
  ASSUME IInv, NEW i \in Issues, HandleResolved(i)
  PROVE  IInv' /\ (gated => entity' = entity)
<1>1. /\ UNCHANGED <<status, link, failed, done, steward>>
      /\ active' = [active EXCEPT ![i] = 0]
  BY DEF HandleResolved, issueVars
<1>2. LinkOK' /\ StatusOK' /\ TasksOK' /\ StewardOK'
  BY <1>1 DEF IInv, LinkOK, StatusOK, TasksOK, StewardOK
<1>3. CASE active[i] > 0
  <2>1. /\ gated' = gated /\ entity' = entity /\ proposal' = proposal
        /\ Handled(Event("resolved", i), {})
    BY <1>3 DEF HandleResolved, entityVars
  <2>2. InboxOK' /\ CrashesOK' /\ Good(proposal')
    BY <2>1, QuietHandlerKeeps
  <2>. QED
    BY <1>2, <2>1, <2>2 DEF IInv, EntityOK
<1>4. CASE ~(active[i] > 0)
  <2>1. Readiness(status, proposal) /\ Handled(Event("resolved", i), {})
    BY <1>4 DEF HandleResolved
  <2>2. /\ EntityOK' /\ InboxOK' /\ CrashesOK' /\ Good(proposal')
        /\ gated => entity' = entity
    BY <2>1, OnlyReadinessKeeps
  <2>. QED
    BY <1>2, <2>2 DEF IInv
<1>. QED
  BY <1>3, <1>4

\* An update of the entity leads to the readiness.
LEMMA HandleTouchedKeeps ==
  ASSUME IInv, HandleTouched
  PROVE  IInv' /\ (gated => entity' = entity)
<1>1. /\ UNCHANGED <<status, link, active, failed, done, steward>>
      /\ Readiness(status, proposal) /\ Handled(Touched, {})
  BY DEF HandleTouched, issueVars, taskVars
<1>2. /\ EntityOK' /\ InboxOK' /\ CrashesOK' /\ Good(proposal')
      /\ gated => entity' = entity
  BY <1>1, OnlyReadinessKeeps
<1>. QED
  BY <1>1, <1>2 DEF IInv, LinkOK, StatusOK, TasksOK, StewardOK

\* What ensureIssueRemediationTask does to a table of proposals.
LEMMA EnsureTaskKeeps ==
  ASSUME IInv, NEW i \in Issues, NEW res \in EnsureTask(i) \cup Nothing
  PROVE  /\ res.link \in [Issues -> Proposals \cup {None}]
         /\ res.active \in [Issues -> 0..2]
         /\ Good(res.proposal) /\ Keeps(proposal, res.proposal)
         /\ \A q \in Promotions : res.proposal[q] = proposal[q]
<1>1. /\ link \in [Issues -> Proposals \cup {None}] /\ active \in [Issues -> 0..2]
      /\ Good(proposal) /\ Keeps(proposal, proposal)
  BY DEF IInv, LinkOK, TasksOK, Keeps
<1>2. CASE res \in Nothing
  BY <1>1, <1>2 DEF Nothing
<1>3. ASSUME NEW ms \in SUBSET Mutations, res \in Linked(i, ms, [m \in Mutations |-> proposal])
      PROVE  /\ res.link \in [Issues -> Proposals \cup {None}]
             /\ res.active = active /\ res.proposal = proposal
  <2>1. PICK m \in ms : res = [link |-> [link EXCEPT ![i] = m], active |-> active,
                               proposal |-> [n \in Mutations |-> proposal][m]]
    BY <1>3 DEF Linked
  <2>. QED
    BY <1>1, <2>1
<1>4. MutationOf(i) \subseteq Mutations /\ RecentMutation(i) \subseteq Mutations
  BY DEF MutationOf, RecentMutation
<1>5. CASE res \in Linked(i, MutationOf(i), [m \in Mutations |-> proposal])
  BY <1>1, <1>3, <1>4, <1>5
<1>6. CASE res \in Linked(i, RecentMutation(i), [m \in Mutations |-> proposal])
  BY <1>1, <1>3, <1>4, <1>6
<1>7. CASE res = [link |-> link, active |-> [active EXCEPT ![i] = 1], proposal |-> proposal]
  BY <1>1, <1>7
<1>8. CASE /\ RecentMutation(i) = {}
           /\ res \in Linked(i, Fresh(Mutations), [m \in Mutations |-> Created(proposal, m, i)])
  <2>1. PICK m \in Fresh(Mutations) :
          res = [link |-> [link EXCEPT ![i] = m], active |-> active,
                 proposal |-> [n \in Mutations |-> Created(proposal, n, i)][m]]
    BY <1>8 DEF Linked
  <2>2. m \in Mutations /\ proposal[m].status = "none"
    BY DEF Fresh, Unused
  <2>3. /\ res.link = [link EXCEPT ![i] = m] /\ res.active = active
        /\ res.proposal = Created(proposal, m, i)
    BY <2>1, <2>2
  <2>4. \A n \in Mutations :
          ~(/\ proposal[n].status \in {"pending", "approved"} /\ proposal[n].about = i
            /\ proposal[n].recent)
    BY <1>8 DEF RecentMutation, Live
  <2>5. /\ Good(Created(proposal, m, i)) /\ Keeps(proposal, Created(proposal, m, i))
        /\ \A q \in Promotions : Created(proposal, m, i)[q] = proposal[q]
    BY <1>1, <2>2, <2>4, MutationCreated
  <2>6. res.link \in [Issues -> Proposals \cup {None}]
    BY <1>1, <2>2, <2>3
  <2>. QED
    BY <1>1, <2>3, <2>5, <2>6
<1>. QED
  BY <1>2, <1>5, <1>6, <1>7, <1>8 DEF EnsureTask

\* An issue was found: a task, a link or a new mutation.
LEMMA HandleChangedKeeps ==
  ASSUME IInv, NEW i \in Issues, NEW src \in {"own", "other"}, HandleChanged(i, src)
  PROVE  IInv' /\ (gated => entity' = entity)
<1>1. UNCHANGED <<status, failed, done, steward>>
  BY DEF HandleChanged
<1>. DEFINE e == Changed(i, src)
<1>2. PICK res \in EnsureTask(i) \cup Nothing :
        /\ active' = res.active
        /\ \/ link' = res.link /\ Readiness(status, res.proposal) /\ Handled(e, {})
           \/ /\ link' \in {link, res.link} /\ proposal' = res.proposal
              /\ Dies /\ UNCHANGED entityVars
  BY DEF HandleChanged
<1>. HIDE DEF e
<1>3. /\ res.link \in [Issues -> Proposals \cup {None}] /\ res.active \in [Issues -> 0..2]
      /\ Good(res.proposal) /\ Keeps(proposal, res.proposal)
      /\ \A q \in Promotions : res.proposal[q] = proposal[q]
  BY EnsureTaskKeeps
<1>4. LinkOK' /\ StatusOK' /\ TasksOK' /\ StewardOK'
  BY <1>1, <1>2, <1>3 DEF IInv, LinkOK, StatusOK, TasksOK, StewardOK
<1>5. CrashesOK' /\ \A f \in inbox' \ inbox : f \in {}
  BY <1>2, HandlerEnds
<1>6. /\ EntityOK' /\ Good(proposal') /\ Keeps(proposal, proposal')
      /\ gated => entity' = entity
  <2>1. CASE Readiness(status, res.proposal)
    BY <1>3, <2>1, ReadinessKeeps
  <2>2. CASE proposal' = res.proposal /\ UNCHANGED entityVars
    BY <1>3, <2>2 DEF entityVars, IInv, EntityOK
  <2>. QED
    BY <1>2, <2>1, <2>2
<1>7. InboxOK'
  BY <1>5, <1>6, InboxKeeps
<1>. QED
  BY <1>4, <1>5, <1>6, <1>7 DEF IInv

\* The steward's task is done: review, then implementation, then the checks.
LEMMA HandleStewardKeeps ==
  ASSUME IInv, NEW m \in Mutations, HandleSteward(m)
  PROVE  IInv' /\ (gated => entity' = entity)
<1>1. UNCHANGED <<active, failed, done>>
  BY DEF HandleSteward, taskVars
<1>2. TasksOK'
  BY <1>1 DEF IInv, TasksOK
<1>3. CASE /\ steward' = [steward EXCEPT ![m] = "implementation"]
           /\ Handled(Event("steward", m), {})
           /\ UNCHANGED <<entityVars, issueVars, proposal>>
  <2>1. InboxOK' /\ CrashesOK' /\ Good(proposal')
    BY <1>3, QuietHandlerKeeps
  <2>2. EntityOK' /\ LinkOK' /\ StatusOK' /\ StewardOK' /\ entity' = entity
    BY <1>3 DEF IInv, EntityOK, LinkOK, StatusOK, StewardOK, Stages, entityVars, issueVars
  <2>. QED
    BY <1>2, <2>1, <2>2 DEF IInv
<1>4. CASE /\ steward' = [steward EXCEPT ![m] = "landed"]
           /\ link' = [link EXCEPT ![proposal[m].about] = m]
           /\ Reruns(Event("steward", m))
  <2>1. /\ EntityOK' /\ StatusOK' /\ InboxOK' /\ CrashesOK' /\ Good(proposal')
        /\ gated => entity' = entity
    BY <1>4, RerunsKeep
  <2>2. LinkOK' /\ StewardOK'
    BY <1>4 DEF IInv, LinkOK, StewardOK, Stages
  <2>. QED
    BY <1>2, <2>1, <2>2 DEF IInv
<1>. QED
  BY <1>3, <1>4 DEF HandleSteward

\* A row is marked as executed.
LEMMA AppliedKeeps ==
  ASSUME IInv, NEW p \in Proposals,
         proposal' = [proposal EXCEPT ![p].applied = TRUE],
         \A f \in inbox' \ inbox : f \in {}
  PROVE  InboxOK' /\ Good(proposal')
<1>1. proposal[p] \in Row /\ Good(proposal)
  BY DEF IInv, Good
<1>. DEFINE y == [proposal[p] EXCEPT !.applied = TRUE]
<1>2. /\ y \in Row /\ y.status = proposal[p].status /\ y.about = proposal[p].about
      /\ y.recent = proposal[p].recent
  BY <1>1
<1>3. proposal' = [proposal EXCEPT ![p] = y]
  OBVIOUS
<1>. HIDE DEF y
<1>4. y.status # "rejected" \/ \E q \in Promotions \ {p} : proposal[q].status # "rejected"
  BY <1>1, <1>2 DEF Good
<1>5. Good([proposal EXCEPT ![p] = y]) /\ Keeps(proposal, [proposal EXCEPT ![p] = y])
  BY <1>1, <1>2, <1>4, RowMoves
<1>6. Good(proposal') /\ Keeps(proposal, proposal')
  BY <1>3, <1>5
<1>7. InboxOK'
  BY <1>6, InboxKeeps
<1>. QED
  BY <1>6, <1>7

\* An approved mutation is executed, or its handler dies before the mark.
LEMMA HandleMutationKeeps ==
  ASSUME IInv, NEW m \in Mutations, HandleMutation(m)
  PROVE  IInv' /\ (gated => entity' = entity)
<1>1. /\ UNCHANGED <<gated, entity, status, active, failed, done>>
      /\ link' \in {link, [link EXCEPT ![proposal[m].about] = m]}
      /\ steward' \in {steward, [steward EXCEPT ![m] = "review"]}
  <2>1. UNCHANGED <<gated, entity, status, active, failed, done>>
    BY DEF HandleMutation, entityVars, taskVars
  <2>2. steward \in [Mutations -> Stages]
    BY DEF IInv, StewardOK
  <2>3. CASE proposal[m].applied
    BY <2>1, <2>3 DEF HandleMutation
  <2>4. CASE ~proposal[m].applied
    BY <2>1, <2>2, <2>4 DEF HandleMutation
  <2>. QED
    BY <2>3, <2>4
<1>2. EntityOK' /\ LinkOK' /\ StatusOK' /\ TasksOK' /\ StewardOK'
  BY <1>1 DEF IInv, EntityOK, LinkOK, StatusOK, TasksOK, StewardOK, Stages
<1>3. Handled(Event("approved", m), {}) \/ Dies
  BY DEF HandleMutation
<1>4. CrashesOK' /\ \A f \in inbox' \ inbox : f \in {}
  BY <1>3, HandlerEnds
<1>5. \/ proposal' = proposal
      \/ proposal' = [proposal EXCEPT ![m].applied = TRUE]
  BY DEF HandleMutation
<1>6. InboxOK' /\ Good(proposal')
  BY <1>3, <1>4, <1>5, QuietHandlerKeeps, AppliedKeeps
<1>. QED
  BY <1>1, <1>2, <1>4, <1>6 DEF IInv

\* An approved promotion is executed, or its handler dies before the mark.
LEMMA HandlePromotionKeeps ==
  ASSUME IInv, NEW q \in Promotions, HandlePromotion(q)
  PROVE  /\ IInv'
         /\ entity' = entity \/ (proposal[q].status = "approved" /\ ~proposal[q].applied)
<1>1. /\ UNCHANGED <<gated, status, link, active, failed, done, steward>>
      /\ entity' \in {entity, "active"}
  BY DEF HandlePromotion, issueVars, taskVars
<1>2. EntityOK' /\ LinkOK' /\ StatusOK' /\ TasksOK' /\ StewardOK'
  BY <1>1 DEF IInv, EntityOK, LinkOK, StatusOK, TasksOK, StewardOK
<1>3. Handled(Event("approved", q), {}) \/ Dies
  BY DEF HandlePromotion
<1>4. CrashesOK' /\ \A f \in inbox' \ inbox : f \in {}
  BY <1>3, HandlerEnds
<1>5. \/ proposal' = proposal
      \/ proposal' = [proposal EXCEPT ![q].applied = TRUE]
  BY DEF HandlePromotion
<1>6. InboxOK' /\ Good(proposal')
  BY <1>3, <1>4, <1>5, QuietHandlerKeeps, AppliedKeeps
<1>7. proposal[q].status = "approved"
  <2>1. Event("approved", q) \in inbox /\ Honest(inbox, proposal)
    BY DEF HandlePromotion, IInv, InboxOK
  <2>. QED
    BY <2>1 DEF Honest
<1>8. entity' = entity \/ ~proposal[q].applied
  BY DEF HandlePromotion
<1>. QED
  BY <1>2, <1>4, <1>6, <1>7, <1>8 DEF IInv

\* A rejected mutation is unlinked.
LEMMA HandleRejectedKeeps ==
  ASSUME IInv, NEW p \in Proposals, HandleRejected(p)
  PROVE  IInv' /\ entity' = entity
<1>1. /\ UNCHANGED <<gated, entity, status, active, failed, done, proposal, steward>>
      /\ link' = [i \in Issues |-> IF i = proposal[p].about THEN None ELSE link[i]]
      /\ Handled(Event("rejected", p), {})
  BY DEF HandleRejected, entityVars, taskVars, proposalVars
<1>2. InboxOK' /\ CrashesOK' /\ Good(proposal')
  BY <1>1, QuietHandlerKeeps
<1>3. EntityOK' /\ LinkOK' /\ StatusOK' /\ TasksOK' /\ StewardOK'
  BY <1>1 DEF IInv, EntityOK, LinkOK, StatusOK, TasksOK, StewardOK
<1>. QED
  BY <1>1, <1>2, <1>3 DEF IInv

-----------------------------------------------------------------------------
(* The theorems                                                            *)

LEMMA InitIInv == Init => IInv
<1>. SUFFICES ASSUME Init PROVE IInv
  OBVIOUS
<1>1. proposal \in [Proposals -> Row] /\ \A p \in Proposals : proposal[p].status = "none"
  BY DEF Init
<1>2. Good(proposal)
  BY <1>1, ProposalsAssumption DEF Good, OneRecent
<1>3. EntityOK /\ LinkOK /\ StatusOK /\ StewardOK
  BY DEF Init, EntityOK, LinkOK, StatusOK, StewardOK, Stages
<1>4. TasksOK /\ CrashesOK
  BY BoundsAssumption DEF Init, TasksOK, CrashesOK
<1>5. InboxOK
  BY DEF Init, InboxOK, Honest
<1>. QED
  BY <1>2, <1>3, <1>4, <1>5 DEF IInv

\* What a step promotes behind the gate was approved and not executed yet.
Approved ==
  gated /\ entity = "shadow" /\ entity' = "active"
    => \E q \in Promotions : proposal[q].status = "approved" /\ ~proposal[q].applied

LEMMA HandlersKeep ==
  ASSUME IInv, Handlers
  PROVE  IInv' /\ Approved
<1>1. ASSUME NEW i \in Issues, HandleResolved(i) \/ HandleDone(i)
      PROVE  IInv' /\ (gated => entity' = entity)
  BY <1>1, HandleResolvedKeeps, HandleDoneKeeps
<1>2. ASSUME NEW i \in Issues, NEW src \in {"own", "other"}, HandleChanged(i, src)
      PROVE  IInv' /\ (gated => entity' = entity)
  BY <1>2, HandleChangedKeeps
<1>3. ASSUME NEW m \in Mutations, HandleSteward(m) \/ HandleMutation(m)
      PROVE  IInv' /\ (gated => entity' = entity)
  BY <1>3, HandleStewardKeeps, HandleMutationKeeps
<1>4. ASSUME NEW q \in Promotions, HandlePromotion(q)
      PROVE  IInv' /\ Approved
  <2>1. /\ IInv'
        /\ entity' = entity \/ (proposal[q].status = "approved" /\ ~proposal[q].applied)
    BY <1>4, HandlePromotionKeeps
  <2>. QED
    BY <2>1 DEF Approved
<1>5. ASSUME NEW p \in Proposals, HandleRejected(p)
      PROVE  IInv' /\ entity' = entity
  BY <1>5, HandleRejectedKeeps
<1>6. CASE HandleTouched
  BY <1>6, HandleTouchedKeeps DEF Approved
<1>. QED
  BY <1>1, <1>2, <1>3, <1>4, <1>5, <1>6 DEF Handlers, Approved

\* Nobody outside the handlers promotes a gated entity.
LEMMA OutsideKeepsAll ==
  ASSUME IInv, Outside
  PROVE  IInv' /\ Approved
<1>1. CASE RequestPromotion
  BY <1>1, RequestPromotionKeeps DEF RequestPromotion, Approved
<1>2. CASE Demote \/ Touch
  BY <1>2, EntityStepKeeps DEF Demote, Touch, entityVars, Approved
<1>3. CASE RunChecks
  BY <1>3, RunChecksKeeps DEF Approved
<1>4. ASSUME NEW i \in Issues, Record(i) \/ ResolveIssue(i)
      PROVE  IInv' /\ entity' = entity
  BY <1>4, IssueStepKeeps DEF Record, ResolveIssue, entityVars
<1>5. ASSUME NEW i \in Issues, CompleteTask(i) \/ FailTask(i) \/ RetryTask(i)
      PROVE  IInv' /\ entity' = entity
  BY <1>5, TaskStepKeeps DEF CompleteTask, FailTask, RetryTask, entityVars
<1>6. ASSUME NEW m \in Mutations, StewardEnds(m)
      PROVE  IInv' /\ entity' = entity
  BY <1>6, StewardEndsKeeps DEF StewardEnds, entityVars
<1>7. ASSUME NEW m \in Mutations, CoolDown(m)
      PROVE  IInv' /\ entity' = entity
  BY <1>7, CoolDownKeeps DEF CoolDown, entityVars
<1>8. ASSUME NEW p \in Proposals, Approve(p) \/ Reject(p)
      PROVE  IInv' /\ entity' = entity
  BY <1>8, VerdictKeeps DEF Approve, Reject, entityVars
<1>9. ASSUME NEW p \in Proposals, RequeueApproval(p)
      PROVE  IInv' /\ entity' = entity
  BY <1>9, AgainKeeps DEF RequeueApproval, entityVars
<1>. QED
  BY <1>1, <1>2, <1>3, <1>4, <1>5, <1>6, <1>7, <1>8, <1>9 DEF Outside, Approved

LEMMA StepKeeps ==
  ASSUME IInv, [Next]_vars
  PROVE  IInv' /\ (Approved \/ UNCHANGED vars)
<1>1. CASE Handlers
  BY <1>1, HandlersKeep
<1>2. CASE Outside
  BY <1>2, OutsideKeepsAll
<1>3. CASE UNCHANGED vars
  BY <1>3 DEF vars, entityVars, issueVars, taskVars, proposalVars,
              IInv, EntityOK, LinkOK, StatusOK, TasksOK, StewardOK, InboxOK, CrashesOK
<1>. QED
  BY <1>1, <1>2, <1>3 DEF Next

\* The types, a promotion to ask with, at most one recent live mutation of an
\* issue, and no approval's event without the approval hold in every reachable
\* state.
THEOREM Invariant == Spec => []IInv
<1>1. IInv /\ [Next]_vars => IInv'
  BY StepKeeps
<1>. QED
  BY InitIInv, <1>1, PTL DEF Spec

\* Every variable keeps its type: the tables of issues, proposals and tasks and
\* the events that are written about them.
THEOREM TypeCorrect == Spec => []TypeOK
<1>1. IInv => TypeOK
  BY DEF IInv, EntityOK, LinkOK, StatusOK, TasksOK, StewardOK, InboxOK, CrashesOK,
         Good, TypeOK
<1>. QED
  BY <1>1, Invariant, PTL

\* However rejections unlink, promotions overwrite links and processes die
\* between the proposal and its link, an issue has at most one live mutation
\* within the cooldown (findRecentWorkflowMutationProposalId).
THEOREM OneRecentMutationHolds == Spec => []OneRecentMutation
<1>1. IInv => OneRecentMutation
  BY DEF IInv, Good, OneRecent, OneRecentMutation, Live
<1>. QED
  BY <1>1, Invariant, PTL

\* A gated entity is only promoted by an approval that was not executed yet
\* (handleProposalApproved), for the readiness and the agents' requests only
\* create proposals behind the gate.
THEOREM PromotedByApprovalHolds == Spec => PromotedByApproval
<1>1. IInv /\ [Next]_vars
        => [(gated /\ entity = "shadow" /\ entity' = "active")
              => \E q \in Promotions :
                   proposal[q].status = "approved" /\ ~proposal[q].applied]_vars
  BY StepKeeps DEF Approved
<1>. QED
  BY <1>1, Invariant, PTL DEF Spec, PromotedByApproval
=============================================================================
