------------------------- MODULE ToolApprovalProofs -------------------------
(***************************************************************************)
(* Proofs about ToolApproval for any number of proposals and routers: its  *)
(* types, what a verdict binds, and how many calls an approval is worth.   *)
(***************************************************************************)
EXTENDS ToolApproval, FiniteSetTheorems, TLAPS

-----------------------------------------------------------------------------
(* The invariant                                                           *)

\* What has become old has a rerun left: Age sees to it.
StaleMayRerun == \A k \in Keys : events[k] = "stale" => reruns[k] < MaxReruns

\* Wherever a verdict is on its way (written, claimed, about to be written, or
\* in the child process of a command), it is the verdict of the proposal.
VerdictOnItsWay ==
  /\ \A p \in Proposals, v \in Verdicts :
       events[<<v, p>>] # "none" => proposal[p].status = v
  /\ \A r \in Routers : \A k \in batch[r] : events[k] # "none"
  /\ \A p \in Proposals : due[p] # "none" => proposal[p].status = due[p]
  /\ \A r \in Routers :
       replaying[r] # NoCommand => proposal[replaying[r]].status = "approved"

\* A router runs a command with its event in hand.
InHand ==
  \A r \in Routers :
    replaying[r] # NoCommand => <<"approved", replaying[r]>> \in batch[r]

\* The routers that may still act on the approval of p ...
Holders(p) == {r \in Routers : <<"approved", p>> \in batch[r] /\ replaying[r] # p}

\* ... beside the one that claims its event next, if it waits or will be written.
Ahead(p) == IF events[<<"approved", p>>] \in {"none", "pending"} THEN 1 ELSE 0

\* A call, a pre-approval and every router that may still make one have had a
\* delivery of their own.
Deliveries ==
  \A p \in Proposals :
    /\ IsFiniteSet(Holders(p))
    /\ live[p] + grants[p] + Cardinality(Holders(p)) + Ahead(p)
         <= 1 + reruns[<<"approved", p>>]
    /\ proposal[p].status # "approved" => live[p] = 0 /\ grants[p] = 0

IInv == /\ TypeOK
        /\ StaleMayRerun /\ VerdictOnItsWay /\ InHand
        /\ VerdictBinds /\ Deliveries

USE DEF Holders, Ahead, Verdicts, EventStatus

-----------------------------------------------------------------------------
(* Counting deliveries                                                     *)

\* The key of an approval is one of the keys of events.
LEMMA ApprovalKey ==
  ASSUME NEW p \in Proposals, NEW v \in Verdicts
  PROVE  <<v, p>> \in Keys
  BY KeysAssumption

\* A subset has no more elements, without one of them fewer, and one more
\* element counts as one.
LEMMA Counting ==
  ASSUME NEW H, IsFiniteSet(H), NEW G
  PROVE  /\ Cardinality(H) \in Nat
         /\ G \subseteq H => /\ IsFiniteSet(G) /\ Cardinality(G) \in Nat
                             /\ Cardinality(G) <= Cardinality(H)
         /\ \A r \in H : G \subseteq H \ {r} =>
              /\ IsFiniteSet(G) /\ Cardinality(G) \in Nat
              /\ Cardinality(G) + 1 <= Cardinality(H)
         /\ \A r : G \subseteq H \cup {r} =>
              /\ IsFiniteSet(G) /\ Cardinality(G) \in Nat
              /\ Cardinality(G) <= Cardinality(H) + 1
<1>1. Cardinality(H) \in Nat
  BY FS_CardinalityType
<1>2. ASSUME NEW F, IsFiniteSet(F), G \subseteq F
      PROVE  IsFiniteSet(G) /\ Cardinality(G) \in Nat /\ Cardinality(G) <= Cardinality(F)
  BY <1>2, FS_Subset, FS_CardinalityType
<1>3. ASSUME NEW r \in H, G \subseteq H \ {r}
      PROVE  /\ IsFiniteSet(G) /\ Cardinality(G) \in Nat
             /\ Cardinality(G) + 1 <= Cardinality(H)
  <2>1. IsFiniteSet(H \ {r}) /\ Cardinality(H \ {r}) = Cardinality(H) - 1
    BY FS_RemoveElement
  <2>2. /\ IsFiniteSet(G) /\ Cardinality(G) \in Nat
        /\ Cardinality(G) <= Cardinality(H \ {r})
    BY <1>2, <1>3, <2>1
  <2>. QED
    BY <1>1, <2>1, <2>2
<1>4. ASSUME NEW r, G \subseteq H \cup {r}
      PROVE  /\ IsFiniteSet(G) /\ Cardinality(G) \in Nat
             /\ Cardinality(G) <= Cardinality(H) + 1
  <2>1. /\ IsFiniteSet(H \cup {r}) /\ Cardinality(H \cup {r}) \in Nat
        /\ Cardinality(H \cup {r}) <= Cardinality(H) + 1
    BY <1>1, FS_AddElement, FS_CardinalityType
  <2>2. /\ IsFiniteSet(G) /\ Cardinality(G) \in Nat
        /\ Cardinality(G) <= Cardinality(H \cup {r})
    BY <1>2, <1>4, <2>1
  <2>. QED
    BY <1>1, <2>1, <2>2
<1>. QED
  BY <1>1, <1>2, <1>3, <1>4

\* What a step does to the deliveries of p.  It makes nothing of them, ...
Calm(p) ==
  /\ Holders(p)' \subseteq Holders(p)
  /\ live'[p] + grants'[p] <= live[p] + grants[p]
  /\ Ahead(p)' + reruns[<<"approved", p>>] <= Ahead(p) + reruns'[<<"approved", p>>]

\* ... a router makes a call or a pre-approval of its own, ...
Spends(p) ==
  \E r \in Holders(p) :
    /\ Holders(p)' \subseteq Holders(p) \ {r}
    /\ live'[p] + grants'[p] <= live[p] + grants[p] + 1
    /\ Ahead(p)' <= Ahead(p) /\ reruns' = reruns

\* ... or a router takes what waits.
Takes(p) ==
  /\ \E r \in Routers : Holders(p)' \subseteq Holders(p) \cup {r}
  /\ live'[p] + grants'[p] <= live[p] + grants[p]
  /\ Ahead(p) = 1 /\ Ahead(p)' = 0 /\ reruns' = reruns

\* A step that does one of the three to every approval, and makes no call for a
\* proposal that is not approved, is worth no more than the deliveries.
LEMMA DeliveriesKeep ==
  ASSUME IInv, TypeOK',
         \A p \in Proposals : Calm(p) \/ Spends(p) \/ Takes(p),
         \A p \in Proposals : proposal'[p].status # "approved" =>
                                live'[p] = 0 /\ grants'[p] = 0
  PROVE  Deliveries'
<1>1. SUFFICES ASSUME NEW p \in Proposals
               PROVE  /\ IsFiniteSet(Holders(p)')
                      /\ live'[p] + grants'[p] + Cardinality(Holders(p)') + Ahead(p)'
                           <= 1 + reruns'[<<"approved", p>>]
  BY DEF Deliveries
<1>. DEFINE w == live[p] + grants[p]
            v == live'[p] + grants'[p]
            n == reruns[<<"approved", p>>]
            m == reruns'[<<"approved", p>>]
            H == Holders(p)
            G == Holders(p)'
            a == Ahead(p)
            b == Ahead(p)'
<1>2. w \in Nat /\ v \in Nat /\ n \in Nat /\ m \in Nat
  <2>1. <<"approved", p>> \in Keys
    BY ApprovalKey
  <2>2. /\ reruns \in [Keys -> 0..MaxReruns] /\ reruns' \in [Keys -> 0..MaxReruns]
        /\ live \in [Proposals -> Nat] /\ grants \in [Proposals -> Nat]
        /\ live' \in [Proposals -> Nat] /\ grants' \in [Proposals -> Nat]
    BY DEF IInv, TypeOK, EventsTypeOK
  <2>3. \A x \in 0..MaxReruns : x \in Nat
    BY EventBoundsAssumption
  <2>4. n \in Nat /\ m \in Nat
    BY <2>1, <2>2, <2>3
  <2>5. w \in Nat /\ v \in Nat
    BY <2>2
  <2>. QED
    BY <2>4, <2>5
<1>3. a \in Nat /\ b \in Nat
  OBVIOUS
<1>4. IsFiniteSet(H) /\ w + Cardinality(H) + a <= 1 + n
  BY DEF IInv, Deliveries
<1>5. \/ G \subseteq H /\ v <= w /\ b + n <= a + m
      \/ (\E r \in H : G \subseteq H \ {r}) /\ v <= w + 1 /\ b <= a /\ m = n
      \/ (\E r \in Routers : G \subseteq H \cup {r}) /\ v <= w /\ a = 1 /\ b = 0 /\ m = n
  BY DEF Calm, Spends, Takes
<1>. HIDE DEF H, G, a, b, n, m, w, v
<1>6. Cardinality(H) \in Nat
  BY <1>4, Counting
<1>7. /\ IsFiniteSet(G) /\ Cardinality(G) \in Nat
      /\ \/ Cardinality(G) <= Cardinality(H) /\ v <= w /\ b + n <= a + m
         \/ Cardinality(G) + 1 <= Cardinality(H) /\ v <= w + 1 /\ b <= a /\ m = n
         \/ Cardinality(G) <= Cardinality(H) + 1 /\ v <= w /\ a = 1 /\ b = 0 /\ m = n
  <2>1. CASE G \subseteq H /\ v <= w /\ b + n <= a + m
    <3>1. IsFiniteSet(G) /\ Cardinality(G) \in Nat /\ Cardinality(G) <= Cardinality(H)
      BY <1>4, <2>1, Counting
    <3>. QED
      BY <2>1, <3>1
  <2>2. CASE (\E r \in H : G \subseteq H \ {r}) /\ v <= w + 1 /\ b <= a /\ m = n
    <3>1. /\ IsFiniteSet(G) /\ Cardinality(G) \in Nat
          /\ Cardinality(G) + 1 <= Cardinality(H)
      BY <1>4, <2>2, Counting
    <3>. QED
      BY <2>2, <3>1
  <2>3. CASE /\ \E r \in Routers : G \subseteq H \cup {r}
             /\ v <= w /\ a = 1 /\ b = 0 /\ m = n
    <3>1. /\ IsFiniteSet(G) /\ Cardinality(G) \in Nat
          /\ Cardinality(G) <= Cardinality(H) + 1
      BY <1>4, <2>3, Counting
    <3>. QED
      BY <2>3, <3>1
  <2>. QED
    BY <1>5, <2>1, <2>2, <2>3
<1>. DEFINE c == Cardinality(H)
            d == Cardinality(G)
<1>8. c \in Nat /\ d \in Nat /\ w + c + a <= 1 + n
  BY <1>4, <1>6, <1>7
<1>9. \/ d <= c /\ v <= w /\ b + n <= a + m
      \/ d + 1 <= c /\ v <= w + 1 /\ b <= a /\ m = n
      \/ d <= c + 1 /\ v <= w /\ a = 1 /\ b = 0 /\ m = n
  BY <1>7
<1>. HIDE DEF c, d
<1>10. v + d + b <= 1 + m
  BY <1>2, <1>3, <1>8, <1>9
<1>11. IsFiniteSet(G) /\ v + Cardinality(G) + b <= 1 + m
  BY <1>7, <1>10 DEF d
<1>. QED
  BY <1>11 DEF G, v, b, m

\* Nothing happens to the deliveries of an approval in a step that touches
\* none of them.
LEMMA AllCalm ==
  ASSUME IInv, UNCHANGED <<events, batch, reruns, replaying>>, NEW p \in Proposals,
         live'[p] + grants'[p] <= live[p] + grants[p]
  PROVE  Calm(p)
<1>1. reruns[<<"approved", p>>] \in Nat
  <2>1. \A n \in 0..MaxReruns : n \in Nat
    BY EventBoundsAssumption
  <2>. QED
    BY <2>1, ApprovalKey DEF IInv, TypeOK, EventsTypeOK
<1>2. Ahead(p)' = Ahead(p) /\ Ahead(p) \in Nat /\ Holders(p)' = Holders(p)
  OBVIOUS
<1>. QED
  BY <1>1, <1>2 DEF Calm
-----------------------------------------------------------------------------
(* The steps: sessions, calls and verdicts                                 *)

\* Queueing, starting and ending a session changes nothing else.
LEMMA SessionKeeps ==
  ASSUME IInv, EnqueueTask \/ StartSession \/ EndSession
  PROVE  IInv'
<1>1. /\ UNCHANGED <<eventVars, kind, proposal, intent, action, due, grants,
                     replaying, live>>
      /\ session' \in {"none", "queued", "running"}
  BY DEF EnqueueTask, StartSession, EndSession
<1>2. UNCHANGED <<events, batch, reruns, crashes, kind, proposal, intent, action,
                  due, grants, replaying, live>>
  BY <1>1 DEF eventVars
<1>3. TypeOK'
  BY <1>1, <1>2 DEF IInv, TypeOK, EventsTypeOK
<1>4. Deliveries'
  <2>. SUFFICES ASSUME NEW p \in Proposals
                PROVE  /\ IsFiniteSet(Holders(p)')
                       /\ live'[p] + grants'[p] + Cardinality(Holders(p)') + Ahead(p)'
                            <= 1 + reruns'[<<"approved", p>>]
                       /\ proposal'[p].status # "approved" => live'[p] = 0 /\ grants'[p] = 0
    BY DEF Deliveries
  <2>. QED
    BY <1>2 DEF IInv, Deliveries
<1>. QED
  BY <1>2, <1>3, <1>4 DEF IInv, InHand, StaleMayRerun, VerdictOnItsWay, VerdictBinds

\* A call turns a pre-approval into a call.
LEMMA CallApprovedKeeps ==
  ASSUME IInv, NEW p \in Proposals, CallApproved(p)
  PROVE  IInv'
<1>1. /\ UNCHANGED <<events, batch, reruns, crashes, kind, proposal, intent, action,
                     due, replaying, session>>
      /\ grants[p] > 0
      /\ grants' = [grants EXCEPT ![p] = grants[p] - 1]
      /\ live' = [live EXCEPT ![p] = live[p] + 1]
  BY DEF CallApproved, eventVars
<1>2. grants \in [Proposals -> Nat] /\ live \in [Proposals -> Nat]
  BY DEF IInv, TypeOK
<1>3. /\ grants' \in [Proposals -> Nat] /\ live' \in [Proposals -> Nat]
      /\ \A q \in Proposals : live'[q] + grants'[q] = live[q] + grants[q]
      /\ \A q \in Proposals \ {p} : live'[q] = live[q] /\ grants'[q] = grants[q]
  BY <1>1, <1>2
<1>4. TypeOK'
  BY <1>1, <1>3 DEF IInv, TypeOK, EventsTypeOK
<1>5. \A q \in Proposals : Calm(q)
  BY <1>1, <1>2, <1>3, AllCalm
<1>6. proposal[p].status = "approved"
  <2>1. proposal[p].status # "approved" => grants[p] = 0
    BY DEF IInv, Deliveries
  <2>. QED
    BY <1>1, <1>2, <2>1
<1>7. \A q \in Proposals : proposal'[q].status # "approved" =>
                             live'[q] = 0 /\ grants'[q] = 0
  BY <1>1, <1>3, <1>6 DEF IInv, Deliveries
<1>8. Deliveries'
  BY <1>4, <1>5, <1>7, DeliveriesKeep
<1>. QED
  BY <1>1, <1>4, <1>8 DEF IInv, InHand, StaleMayRerun, VerdictOnItsWay, VerdictBinds

\* Pre-approvals expire.
LEMMA ExpireGrantsKeeps ==
  ASSUME IInv, ExpireGrants
  PROVE  IInv'
<1>1. /\ UNCHANGED <<events, batch, reruns, crashes, kind, proposal, intent, action,
                     due, replaying, session, live>>
      /\ grants' = [p \in Proposals |-> 0]
  BY DEF ExpireGrants, eventVars
<1>2. grants \in [Proposals -> Nat] /\ live \in [Proposals -> Nat]
  BY DEF IInv, TypeOK
<1>3. grants' \in [Proposals -> Nat]
  BY <1>1
<1>4. TypeOK'
  BY <1>1, <1>3 DEF IInv, TypeOK, EventsTypeOK
<1>5. \A q \in Proposals : Calm(q)
  BY <1>1, <1>2, AllCalm
<1>6. \A q \in Proposals : proposal'[q].status # "approved" =>
                             live'[q] = 0 /\ grants'[q] = 0
  BY <1>1 DEF IInv, Deliveries
<1>7. Deliveries'
  BY <1>4, <1>5, <1>6, DeliveriesKeep
<1>. QED
  BY <1>1, <1>4, <1>7 DEF IInv, InHand, StaleMayRerun, VerdictOnItsWay, VerdictBinds

\* A new proposal has no verdict, nor does what was recorded for it.
LEMMA InterceptKeeps ==
  ASSUME IInv, NEW p \in Proposals, Recorded(p),
         intent' \in {intent, [intent EXCEPT ![p] = "pending"]},
         UNCHANGED <<eventVars, kind, due, grants, replaying, session, live>>
  PROVE  IInv'
<1>1. /\ UNCHANGED <<events, batch, reruns, crashes, kind, due, grants, replaying,
                     session, live>>
      /\ proposal[p].status = "none"
      /\ proposal' = [proposal EXCEPT ![p] = [proposal[p] EXCEPT !.status = "pending"]]
      /\ action' = [action EXCEPT ![p] = "blocked"]
  BY DEF Recorded, eventVars
<1>2. TypeOK
  BY DEF IInv
<1>3. [proposal[p] EXCEPT !.status = "pending"] \in
        [status : {"none", "pending"} \cup Verdicts,
         exec : {"none", "pending", "applied", "failed"}]
  BY <1>2 DEF TypeOK
<1>4. TypeOK'
  BY <1>1, <1>2, <1>3 DEF TypeOK, EventsTypeOK
<1>5. /\ proposal'[p].status = "pending" /\ proposal'[p].exec = proposal[p].exec
      /\ \A q \in Proposals \ {p} : proposal'[q] = proposal[q]
      /\ \A q \in Proposals \ {p} : action'[q] = action[q]
      /\ \A q \in Proposals \ {p} : intent'[q] = intent[q]
      /\ action'[p] = "blocked" /\ intent'[p] \in {intent[p], "pending"}
  BY <1>1, <1>2 DEF TypeOK
<1>6. \A q \in Proposals : Calm(q)
  BY <1>1, <1>2, AllCalm DEF TypeOK
<1>7. \A q \in Proposals : proposal'[q].status # "approved" =>
                             live'[q] = 0 /\ grants'[q] = 0
  BY <1>1, <1>5 DEF IInv, Deliveries
<1>8. Deliveries'
  BY <1>4, <1>6, <1>7, DeliveriesKeep
<1>9. VerdictOnItsWay'
  BY <1>1, <1>2, <1>5 DEF IInv, VerdictOnItsWay, TypeOK
<1>10. VerdictBinds'
  BY <1>1, <1>2, <1>5 DEF IInv, VerdictBinds, TypeOK
<1>. QED
  BY <1>1, <1>4, <1>8, <1>9, <1>10 DEF IInv, InHand, StaleMayRerun

\* A verdict finds a proposal that has none, so nothing contradicts it.
LEMMA ResolveKeeps ==
  ASSUME IInv, NEW p \in Proposals, NEW verdict \in Verdicts, Resolve(p, verdict)
  PROVE  IInv'
<1>. DEFINE x == IF verdict = "approved" THEN "pending" ELSE proposal[p].exec
<1>1. /\ UNCHANGED <<events, batch, reruns, crashes, kind, intent, action, grants,
                     replaying, session, live>>
      /\ proposal[p].status = "pending"
      /\ proposal' = [proposal EXCEPT ![p] = [status |-> verdict, exec |-> x]]
      /\ due' = [due EXCEPT ![p] = verdict]
  BY DEF Resolve, eventVars
<1>2. TypeOK
  BY DEF IInv
<1>3. /\ x \in {"none", "pending", "applied", "failed"}
      /\ x # "none" => verdict = "approved"
  BY <1>1, <1>2 DEF TypeOK, IInv, VerdictBinds
<1>. HIDE DEF x
<1>4. TypeOK'
  BY <1>1, <1>2, <1>3 DEF TypeOK, EventsTypeOK
<1>5. /\ proposal'[p].status = verdict /\ proposal'[p].exec = x
      /\ \A q \in Proposals \ {p} : proposal'[q] = proposal[q] /\ due'[q] = due[q]
      /\ due'[p] = verdict
  BY <1>1, <1>2 DEF TypeOK
<1>6. \A q \in Proposals : Calm(q)
  BY <1>1, <1>2, AllCalm DEF TypeOK
<1>7. \A q \in Proposals : proposal'[q].status # "approved" =>
                             live'[q] = 0 /\ grants'[q] = 0
  BY <1>1, <1>5 DEF IInv, Deliveries
<1>8. Deliveries'
  BY <1>4, <1>6, <1>7, DeliveriesKeep
<1>9. VerdictOnItsWay'
  BY <1>1, <1>2, <1>5 DEF IInv, VerdictOnItsWay, TypeOK
<1>10. VerdictBinds'
  BY <1>1, <1>2, <1>3, <1>5 DEF IInv, VerdictBinds, TypeOK
<1>. QED
  BY <1>1, <1>4, <1>8, <1>9, <1>10 DEF IInv, InHand, StaleMayRerun

\* A new event waits where none was, which is no delivery yet.
LEMMA IngestCalm ==
  ASSUME IInv, NEW k \in Keys, events' = Ingested(events, k),
         UNCHANGED <<batch, reruns, replaying, live, grants>>
  PROVE  /\ events' \in [Keys -> EventStatus]
         /\ \A l \in Keys : events'[l] = events[l] \/ (l = k /\ events'[l] = "pending")
         /\ StaleMayRerun'
         /\ \A p \in Proposals : Calm(p)
<1>1. /\ events \in [Keys -> EventStatus] /\ reruns \in [Keys -> 0..MaxReruns]
      /\ live \in [Proposals -> Nat] /\ grants \in [Proposals -> Nat]
  BY DEF IInv, TypeOK, EventsTypeOK
<1>2. /\ events' \in [Keys -> EventStatus]
      /\ \A l \in Keys : \/ events'[l] = events[l]
                         \/ (l = k /\ events[l] = "none" /\ events'[l] = "pending")
  BY <1>1 DEF Ingested
<1>3. StaleMayRerun'
  BY <1>2 DEF IInv, StaleMayRerun
<1>4. ASSUME NEW p \in Proposals
      PROVE  Calm(p)
  <2>1. <<"approved", p>> \in Keys
    BY ApprovalKey
  <2>2. reruns[<<"approved", p>>] \in Nat
    <3>1. \A n \in 0..MaxReruns : n \in Nat
      BY EventBoundsAssumption
    <3>. QED
      BY <1>1, <2>1, <3>1
  <2>3. Ahead(p)' = Ahead(p) /\ Ahead(p) \in Nat /\ Holders(p)' = Holders(p)
    BY <1>2, <2>1
  <2>. QED
    BY <1>1, <2>2, <2>3 DEF Calm
<1>. QED
  BY <1>2, <1>3, <1>4

\* The event carries the verdict of the proposal.
LEMMA EmitVerdictKeeps ==
  ASSUME IInv, NEW p \in Proposals, EmitVerdict(p)
  PROVE  IInv'
<1>1. /\ UNCHANGED <<batch, reruns, crashes, kind, proposal, intent, action, grants,
                     replaying, session, live>>
      /\ due[p] # "none"
      /\ events' = Ingested(events, <<due[p], p>>)
      /\ due' = [due EXCEPT ![p] = "none"]
  BY DEF EmitVerdict
<1>2. TypeOK /\ due[p] \in Verdicts
  BY <1>1 DEF IInv, TypeOK
<1>3. <<due[p], p>> \in Keys
  BY <1>2, ApprovalKey
<1>4. /\ events' \in [Keys -> EventStatus]
      /\ \A l \in Keys : events'[l] = events[l]
                         \/ (l = <<due[p], p>> /\ events'[l] = "pending")
      /\ StaleMayRerun'
      /\ \A q \in Proposals : Calm(q)
  BY <1>1, <1>3, IngestCalm
<1>5. TypeOK'
  BY <1>1, <1>2, <1>4 DEF TypeOK, EventsTypeOK
<1>6. \A q \in Proposals : proposal'[q].status # "approved" =>
                             live'[q] = 0 /\ grants'[q] = 0
  BY <1>1 DEF IInv, Deliveries
<1>7. Deliveries'
  BY <1>4, <1>5, <1>6, DeliveriesKeep
<1>8. VerdictOnItsWay'
  <2>1. ASSUME NEW q \in Proposals, NEW v \in Verdicts, events'[<<v, q>>] # "none"
        PROVE  proposal[q].status = v
    <3>1. <<v, q>> \in Keys
      BY ApprovalKey
    <3>2. CASE q = p /\ v = due[p]
      BY <1>2, <3>2 DEF IInv, VerdictOnItsWay
    <3>3. CASE ~(q = p /\ v = due[p])
      <4>1. events[<<v, q>>] # "none"
        BY <1>4, <2>1, <3>1, <3>3
      <4>. QED
        BY <4>1 DEF IInv, VerdictOnItsWay
    <3>. QED
      BY <3>2, <3>3
  <2>2. ASSUME NEW r \in Routers, NEW k \in batch[r]
        PROVE  events'[k] # "none"
    <3>1. k \in Keys
      BY <1>2 DEF TypeOK, EventsTypeOK
    <3>. QED
      BY <1>4, <3>1 DEF IInv, VerdictOnItsWay
  <2>3. \A q \in Proposals : due'[q] # "none" => proposal'[q].status = due'[q]
    BY <1>1, <1>2 DEF IInv, VerdictOnItsWay, TypeOK
  <2>4. \A r \in Routers : replaying[r] # NoCommand =>
                             proposal[replaying[r]].status = "approved"
    BY DEF IInv, VerdictOnItsWay
  <2>. QED
    BY <1>1, <2>1, <2>2, <2>3, <2>4 DEF VerdictOnItsWay
<1>. QED
  BY <1>1, <1>4, <1>5, <1>7, <1>8 DEF IInv, InHand, VerdictBinds

\* A verdict whose event is lost is on its way no more.
LEMMA LoseVerdictKeeps ==
  ASSUME IInv, NEW p \in Proposals, LoseVerdict(p)
  PROVE  IInv'
<1>1. /\ UNCHANGED <<events, batch, reruns, kind, proposal, intent, action, grants,
                     replaying, session, live>>
      /\ due' = [due EXCEPT ![p] = "none"]
      /\ crashes < MaxCrashes /\ crashes' = crashes + 1
  BY DEF LoseVerdict
<1>2. TypeOK
  BY DEF IInv
<1>3. TypeOK'
  BY <1>1, <1>2, EventBoundsAssumption DEF TypeOK, EventsTypeOK
<1>4. \A q \in Proposals : Calm(q)
  BY <1>1, <1>2, AllCalm DEF TypeOK
<1>5. \A q \in Proposals : proposal'[q].status # "approved" =>
                             live'[q] = 0 /\ grants'[q] = 0
  BY <1>1 DEF IInv, Deliveries
<1>6. Deliveries'
  BY <1>3, <1>4, <1>5, DeliveriesKeep
<1>7. VerdictOnItsWay'
  BY <1>1, <1>2 DEF IInv, VerdictOnItsWay, TypeOK
<1>. QED
  BY <1>1, <1>3, <1>6, <1>7 DEF IInv, InHand, StaleMayRerun, VerdictBinds

\* The sweep rejects what is pending, with its event.
LEMMA ExpireProposalKeeps ==
  ASSUME IInv, NEW p \in Proposals, ExpireProposal(p)
  PROVE  IInv'
<1>1. /\ UNCHANGED <<batch, reruns, crashes, kind, intent, action, due, grants,
                     replaying, session, live>>
      /\ proposal[p].status = "pending"
      /\ proposal' = [proposal EXCEPT ![p] = [proposal[p] EXCEPT !.status = "rejected"]]
      /\ events' = Ingested(events, <<"rejected", p>>)
  BY DEF ExpireProposal
<1>2. TypeOK
  BY DEF IInv
<1>3. <<"rejected", p>> \in Keys
  BY ApprovalKey
<1>4. /\ events' \in [Keys -> EventStatus]
      /\ \A l \in Keys : events'[l] = events[l]
                         \/ (l = <<"rejected", p>> /\ events'[l] = "pending")
      /\ StaleMayRerun'
      /\ \A q \in Proposals : Calm(q)
  BY <1>1, <1>3, IngestCalm
<1>5. [proposal[p] EXCEPT !.status = "rejected"] \in
        [status : {"none", "pending"} \cup Verdicts,
         exec : {"none", "pending", "applied", "failed"}]
  BY <1>2 DEF TypeOK
<1>6. TypeOK'
  BY <1>1, <1>2, <1>4, <1>5 DEF TypeOK, EventsTypeOK
<1>7. /\ proposal'[p].status = "rejected" /\ proposal'[p].exec = proposal[p].exec
      /\ \A q \in Proposals \ {p} : proposal'[q] = proposal[q]
  BY <1>1, <1>2 DEF TypeOK
<1>8. \A q \in Proposals : proposal'[q].status # "approved" =>
                             live'[q] = 0 /\ grants'[q] = 0
  BY <1>1, <1>7 DEF IInv, Deliveries
<1>9. Deliveries'
  BY <1>4, <1>6, <1>8, DeliveriesKeep
<1>10. VerdictOnItsWay'
  <2>1. ASSUME NEW q \in Proposals, NEW v \in Verdicts, events'[<<v, q>>] # "none"
        PROVE  proposal'[q].status = v
    <3>1. <<v, q>> \in Keys
      BY ApprovalKey
    <3>2. CASE q = p /\ v = "rejected"
      BY <1>7, <3>2
    <3>3. CASE ~(q = p /\ v = "rejected")
      <4>1. events[<<v, q>>] # "none"
        BY <1>4, <2>1, <3>1, <3>3
      <4>2. proposal[q].status = v
        BY <4>1 DEF IInv, VerdictOnItsWay
      <4>. QED
        BY <1>1, <1>7, <4>2
    <3>. QED
      BY <3>2, <3>3
  <2>2. ASSUME NEW r \in Routers, NEW k \in batch[r]
        PROVE  events'[k] # "none"
    <3>1. k \in Keys
      BY <1>2 DEF TypeOK, EventsTypeOK
    <3>. QED
      BY <1>4, <3>1 DEF IInv, VerdictOnItsWay
  <2>3. \A q \in Proposals : due'[q] # "none" => proposal'[q].status = due'[q]
    BY <1>1, <1>2, <1>7 DEF IInv, VerdictOnItsWay, TypeOK
  <2>4. ASSUME NEW r \in Routers, replaying[r] # NoCommand
        PROVE  proposal'[replaying[r]].status = "approved"
    <3>1. replaying[r] \in Proposals /\ proposal[replaying[r]].status = "approved"
      BY <1>2, <2>4 DEF IInv, VerdictOnItsWay, TypeOK
    <3>. QED
      BY <1>1, <1>7, <3>1
  <2>. QED
    BY <1>1, <2>1, <2>2, <2>3, <2>4 DEF VerdictOnItsWay
<1>11. VerdictBinds'
  BY <1>1, <1>2, <1>7 DEF IInv, VerdictBinds, TypeOK
<1>. QED
  BY <1>1, <1>4, <1>6, <1>9, <1>10, <1>11 DEF IInv, InHand

-----------------------------------------------------------------------------
(* The steps: routers                                                      *)

\* A handler settles its event or dies with the batch: either way the router
\* has the event no more, and no event comes to wait.
LEMMA HandlerLeaves ==
  ASSUME IInv, NEW r \in Routers, NEW k \in batch[r],
         NEW s \in {"handled", "failed"},
         Settled(r, k, events, s) \/ Abandoned(r, events)
  PROVE  /\ EventsTypeOK' /\ StaleMayRerun' /\ reruns' = reruns
         /\ \A l \in Keys : events'[l] # "none" <=> events[l] # "none"
         /\ \A x \in Routers : batch'[x] \subseteq batch[x]
         /\ k \notin batch'[r] /\ \A x \in Routers \ {r} : batch'[x] = batch[x]
         /\ \A p \in Proposals : Ahead(p)' <= Ahead(p)
<1>1. /\ events \in [Keys -> EventStatus] /\ batch \in [Routers -> SUBSET Keys]
      /\ reruns \in [Keys -> 0..MaxReruns] /\ crashes \in 0..MaxCrashes
  BY DEF IInv, TypeOK, EventsTypeOK
<1>2. k \in Keys /\ events[k] # "none"
  BY <1>1 DEF IInv, VerdictOnItsWay
<1>3. /\ events' \in [Keys -> EventStatus] /\ reruns' = reruns
      /\ \A l \in Keys : events'[l] = events[l] \/ (l = k /\ events'[l] = s)
  BY <1>1 DEF Settled, Abandoned
<1>4. /\ batch' \in [Routers -> SUBSET Keys]
      /\ \A x \in Routers : batch'[x] \subseteq batch[x]
      /\ k \notin batch'[r] /\ \A x \in Routers \ {r} : batch'[x] = batch[x]
  BY <1>1 DEF Settled, Abandoned
<1>5. crashes' \in 0..MaxCrashes
  BY <1>1, EventBoundsAssumption DEF Settled, Abandoned
<1>6. \A l \in Keys : events'[l] # "none" <=> events[l] # "none"
  BY <1>2, <1>3
<1>7. StaleMayRerun'
  BY <1>3 DEF IInv, StaleMayRerun
<1>8. ASSUME NEW p \in Proposals
      PROVE  Ahead(p)' <= Ahead(p)
  <2>1. <<"approved", p>> \in Keys
    BY ApprovalKey
  <2>2. events'[<<"approved", p>>] \in {"none", "pending"}
          => events[<<"approved", p>>] \in {"none", "pending"}
    BY <1>3, <2>1
  <2>. QED
    BY <2>2
<1>. QED
  BY <1>1, <1>3, <1>4, <1>5, <1>6, <1>7, <1>8 DEF EventsTypeOK

\* Nothing new is on its way when a router lets go of events.
LEMMA WayKeeps ==
  ASSUME IInv, UNCHANGED due,
         \A p \in Proposals : proposal'[p].status = proposal[p].status,
         \A l \in Keys : events'[l] # "none" <=> events[l] # "none",
         \A x \in Routers : batch'[x] \subseteq batch[x],
         \A x \in Routers : replaying'[x] # NoCommand =>
            /\ replaying'[x] \in Proposals
            /\ replaying[x] # replaying'[x] => proposal[replaying'[x]].status = "approved"
  PROVE  VerdictOnItsWay'
<1>1. batch \in [Routers -> SUBSET Keys]
  BY DEF IInv, TypeOK, EventsTypeOK
<1>2. ASSUME NEW q \in Proposals, NEW v \in Verdicts, events'[<<v, q>>] # "none"
      PROVE  proposal'[q].status = v
  <2>1. <<v, q>> \in Keys
    BY ApprovalKey
  <2>2. proposal[q].status = v
    BY <1>2, <2>1 DEF IInv, VerdictOnItsWay
  <2>. QED
    BY <2>2
<1>3. ASSUME NEW r \in Routers, NEW k \in batch'[r]
      PROVE  events'[k] # "none"
  <2>1. k \in batch[r] /\ k \in Keys
    BY <1>1, <1>3
  <2>2. events[k] # "none"
    BY <2>1 DEF IInv, VerdictOnItsWay
  <2>. QED
    BY <2>1, <2>2
<1>4. \A q \in Proposals : due'[q] # "none" => proposal'[q].status = due'[q]
  BY DEF IInv, VerdictOnItsWay
<1>5. ASSUME NEW r \in Routers, replaying'[r] # NoCommand
      PROVE  proposal'[replaying'[r]].status = "approved"
  <2>1. proposal[replaying'[r]].status = "approved"
    BY <1>5 DEF IInv, VerdictOnItsWay
  <2>. QED
    BY <1>5, <2>1
<1>. QED
  BY <1>2, <1>3, <1>4, <1>5 DEF VerdictOnItsWay

\* The other approvals do not notice what a router does with one event.
LEMMA OthersCalm ==
  ASSUME IInv, NEW p \in Proposals, reruns' = reruns,
         \A x \in Routers : batch'[x] \subseteq batch[x],
         \A x \in Routers : replaying'[x] = p => replaying[x] = p,
         \A x \in Routers : replaying[x] = p =>
           replaying'[x] = p \/ <<"approved", p>> \notin batch'[x],
         Ahead(p)' <= Ahead(p),
         live'[p] + grants'[p] <= live[p] + grants[p]
  PROVE  Calm(p)
<1>1. reruns[<<"approved", p>>] \in Nat /\ Ahead(p) \in Nat /\ Ahead(p)' \in Nat
  <2>1. \A n \in 0..MaxReruns : n \in Nat
    BY EventBoundsAssumption
  <2>. QED
    BY <2>1, ApprovalKey DEF IInv, TypeOK, EventsTypeOK
<1>2. Holders(p)' \subseteq Holders(p)
  OBVIOUS
<1>3. Ahead(p)' + reruns[<<"approved", p>>] <= Ahead(p) + reruns'[<<"approved", p>>]
  <2>. DEFINE a == Ahead(p)
              b == Ahead(p)'
              n == reruns[<<"approved", p>>]
  <2>1. a \in Nat /\ b \in Nat /\ n \in Nat /\ b <= a
    BY <1>1
  <2>. HIDE DEF a, b, n
  <2>2. b + n <= a + n
    BY <2>1
  <2>. QED
    BY <2>2 DEF a, b, n
<1>. QED
  BY <1>2, <1>3 DEF Calm

\* An approved tool call gets its pre-approval at most once for each time a
\* router holds the event.
LEMMA ApproveToolKeeps ==
  ASSUME IInv, NEW r \in Routers, NEW p \in Proposals, ApproveTool(r, p)
  PROVE  IInv'
<1>. DEFINE k == <<"approved", p>>
<1>1. /\ replaying[r] = NoCommand /\ k \in batch[r]
      /\ proposal[p].status = "approved" /\ intent[p] # "none"
      /\ UNCHANGED <<kind, proposal, due, replaying, live>>
  BY DEF ApproveTool, Handles, Executable
<1>2. PICK done \in 0..5 :
        /\ intent' = IF done >= 1 THEN [intent EXCEPT ![p] = "approved"] ELSE intent
        /\ action' = IF done >= 2 THEN [action EXCEPT ![p] = "approved_for_live"]
                                  ELSE action
        /\ grants' = IF done >= 3 THEN [grants EXCEPT ![p] = grants[p] + 1] ELSE grants
        /\ session' = IF done >= 4 THEN Enqueued(session) ELSE session
        /\ IF done = 5 THEN Settled(r, <<"approved", p>>, events, "handled")
                       ELSE Abandoned(r, events)
  BY DEF ApproveTool
<1>3. TypeOK
  BY DEF IInv
<1>4. /\ EventsTypeOK' /\ StaleMayRerun' /\ reruns' = reruns
      /\ \A l \in Keys : events'[l] # "none" <=> events[l] # "none"
      /\ \A x \in Routers : batch'[x] \subseteq batch[x]
      /\ k \notin batch'[r] /\ \A x \in Routers \ {r} : batch'[x] = batch[x]
      /\ \A q \in Proposals : Ahead(q)' <= Ahead(q)
  BY <1>1, <1>2, HandlerLeaves
<1>5. /\ intent' \in {intent, [intent EXCEPT ![p] = "approved"]}
      /\ action' \in {action, [action EXCEPT ![p] = "approved_for_live"]}
      /\ grants' \in {grants, [grants EXCEPT ![p] = grants[p] + 1]}
      /\ session' \in {session, Enqueued(session)}
  BY <1>2
<1>6. /\ grants' \in [Proposals -> Nat] /\ live \in [Proposals -> Nat]
      /\ grants \in [Proposals -> Nat]
      /\ \A q \in Proposals \ {p} : grants'[q] = grants[q]
      /\ grants'[p] <= grants[p] + 1
  <2>1. live \in [Proposals -> Nat] /\ grants \in [Proposals -> Nat]
    BY <1>3 DEF TypeOK
  <2>2. CASE grants' = grants
    BY <2>1, <2>2
  <2>3. CASE grants' = [grants EXCEPT ![p] = grants[p] + 1]
    BY <2>1, <2>3
  <2>. QED
    BY <1>5, <2>1, <2>2, <2>3
<1>7. TypeOK'
  <2>1. session' \in {"none", "queued", "running"}
    BY <1>3, <1>5 DEF TypeOK, Enqueued
  <2>2. intent' \in [Proposals -> {"none", "pending"} \cup Verdicts]
    BY <1>3, <1>5 DEF TypeOK
  <2>3. action' \in [Proposals -> {"none", "blocked", "approved_for_live", "discarded"}]
    BY <1>3, <1>5 DEF TypeOK
  <2>. QED
    BY <1>1, <1>3, <1>4, <1>6, <2>1, <2>2, <2>3 DEF TypeOK
<1>8. VerdictOnItsWay'
  BY <1>1, <1>3, <1>4, WayKeeps DEF TypeOK
<1>9. ASSUME NEW q \in Proposals \ {p}
      PROVE  Calm(q)
  <2>1. live'[q] + grants'[q] <= live[q] + grants[q]
    BY <1>1, <1>6
  <2>2. /\ \A x \in Routers : replaying'[x] = q => replaying[x] = q
        /\ \A x \in Routers : replaying[x] = q =>
             replaying'[x] = q \/ <<"approved", q>> \notin batch'[x]
    BY <1>1
  <2>3. Ahead(q)' <= Ahead(q) /\ reruns' = reruns
        /\ \A x \in Routers : batch'[x] \subseteq batch[x]
    BY <1>4
  <2>. QED
    BY <2>1, <2>2, <2>3, OthersCalm
<1>10. Spends(p)
  <2>1. r \in Holders(p)
    BY <1>1, ProposalsAssumption
  <2>2. Holders(p)' \subseteq Holders(p) \ {r}
    BY <1>1, <1>4
  <2>3. live'[p] + grants'[p] <= live[p] + grants[p] + 1
    BY <1>1, <1>6
  <2>. QED
    BY <1>4, <2>1, <2>2, <2>3 DEF Spends
<1>11. \A q \in Proposals : proposal'[q].status # "approved" =>
                              live'[q] = 0 /\ grants'[q] = 0
  BY <1>1, <1>6 DEF IInv, Deliveries
<1>12. Deliveries'
  BY <1>7, <1>9, <1>10, <1>11, DeliveriesKeep
<1>13. VerdictBinds'
  <2>1. \A q \in Proposals : /\ intent'[q] = intent[q] \/ (q = p /\ intent'[q] = "approved")
                             /\ action'[q] = action[q] \/ (q = p /\ action'[q] = "approved_for_live")
    BY <1>3, <1>5 DEF TypeOK
  <2>. QED
    BY <1>1, <2>1 DEF IInv, VerdictBinds
<1>. QED
  BY <1>1, <1>4, <1>7, <1>8, <1>12, <1>13 DEF IInv, InHand

\* An event that finds nothing to do is settled.
LEMMA ApproveNothingKeeps ==
  ASSUME IInv, NEW r \in Routers, NEW p \in Proposals, ApproveNothing(r, p)
  PROVE  IInv'
<1>. DEFINE k == <<"approved", p>>
<1>1. /\ replaying[r] = NoCommand /\ k \in batch[r] /\ Settled(r, k, events, "handled")
      /\ UNCHANGED <<kind, proposal, intent, action, due, grants, replaying,
                     session, live>>
  BY DEF ApproveNothing, Handles, approvalVars
<1>2. /\ EventsTypeOK' /\ StaleMayRerun' /\ reruns' = reruns
      /\ \A l \in Keys : events'[l] # "none" <=> events[l] # "none"
      /\ \A x \in Routers : batch'[x] \subseteq batch[x]
      /\ \A x \in Routers \ {r} : batch'[x] = batch[x]
      /\ \A q \in Proposals : Ahead(q)' <= Ahead(q)
  BY <1>1, HandlerLeaves
<1>3. TypeOK /\ TypeOK'
  BY <1>1, <1>2 DEF IInv, TypeOK
<1>4. VerdictOnItsWay'
  BY <1>1, <1>2, <1>3, WayKeeps DEF TypeOK
<1>5. ASSUME NEW q \in Proposals
      PROVE  Calm(q)
  <2>1. live'[q] + grants'[q] <= live[q] + grants[q]
    BY <1>1, <1>3 DEF TypeOK
  <2>2. /\ \A x \in Routers : replaying'[x] = q => replaying[x] = q
        /\ \A x \in Routers : replaying[x] = q =>
             replaying'[x] = q \/ <<"approved", q>> \notin batch'[x]
    BY <1>1
  <2>3. Ahead(q)' <= Ahead(q) /\ reruns' = reruns
        /\ \A x \in Routers : batch'[x] \subseteq batch[x]
    BY <1>2
  <2>. QED
    BY <2>1, <2>2, <2>3, OthersCalm
<1>6. \A q \in Proposals : proposal'[q].status # "approved" =>
                             live'[q] = 0 /\ grants'[q] = 0
  BY <1>1 DEF IInv, Deliveries
<1>7. Deliveries'
  BY <1>3, <1>5, <1>6, DeliveriesKeep
<1>. QED
  BY <1>1, <1>2, <1>3, <1>4, <1>7 DEF IInv, InHand, VerdictBinds

\* The start of a command is its call.
LEMMA StartReplayKeeps ==
  ASSUME IInv, NEW r \in Routers, NEW p \in Proposals, StartReplay(r, p)
  PROVE  IInv'
<1>. DEFINE k == <<"approved", p>>
<1>1. /\ replaying[r] = NoCommand /\ k \in batch[r] /\ proposal[p].status = "approved"
      /\ UNCHANGED <<events, batch, reruns, crashes, kind, proposal, intent, action,
                     due, grants, session>>
      /\ replaying' = [replaying EXCEPT ![r] = p]
      /\ live' = [live EXCEPT ![p] = live[p] + 1]
  BY DEF StartReplay, Handles, Executable, eventVars
<1>2. TypeOK
  BY DEF IInv
<1>3. /\ live' \in [Proposals -> Nat] /\ live'[p] = live[p] + 1
      /\ \A q \in Proposals \ {p} : live'[q] = live[q]
      /\ replaying' \in [Routers -> Proposals \cup {NoCommand}] /\ replaying'[r] = p
      /\ \A x \in Routers \ {r} : replaying'[x] = replaying[x]
  BY <1>1, <1>2 DEF TypeOK
<1>4. TypeOK'
  BY <1>1, <1>2, <1>3 DEF TypeOK, EventsTypeOK
<1>5. ASSUME NEW q \in Proposals \ {p}
      PROVE  Calm(q)
  <2>1. live'[q] + grants'[q] <= live[q] + grants[q]
    BY <1>1, <1>2, <1>3 DEF TypeOK
  <2>2. /\ \A x \in Routers : replaying'[x] = q => replaying[x] = q
        /\ \A x \in Routers : replaying[x] = q =>
             replaying'[x] = q \/ <<"approved", q>> \notin batch'[x]
    BY <1>1, <1>3, ProposalsAssumption
  <2>3. Ahead(q)' <= Ahead(q) /\ reruns' = reruns
        /\ \A x \in Routers : batch'[x] \subseteq batch[x]
    BY <1>1
  <2>. QED
    BY <2>1, <2>2, <2>3, OthersCalm
<1>6. Spends(p)
  <2>1. r \in Holders(p)
    BY <1>1, ProposalsAssumption
  <2>2. Holders(p)' \subseteq Holders(p) \ {r}
    BY <1>1, <1>3, ProposalsAssumption
  <2>3. live'[p] + grants'[p] <= live[p] + grants[p] + 1
    BY <1>1, <1>2, <1>3 DEF TypeOK
  <2>4. Ahead(p)' <= Ahead(p)
    BY <1>1
  <2>. QED
    BY <1>1, <2>1, <2>2, <2>3, <2>4 DEF Spends
<1>7. \A q \in Proposals : proposal'[q].status # "approved" =>
                             live'[q] = 0 /\ grants'[q] = 0
  BY <1>1, <1>3 DEF IInv, Deliveries
<1>8. Deliveries'
  BY <1>4, <1>5, <1>6, <1>7, DeliveriesKeep
<1>9. VerdictOnItsWay'
  BY <1>1, <1>3, <1>2, WayKeeps DEF TypeOK
<1>. QED
  BY <1>3, <1>1, <1>4, <1>8, <1>9 DEF IInv, InHand, StaleMayRerun, VerdictBinds

\* However its command ends, the router is done with the event.
LEMMA ReplayEnds ==
  ASSUME IInv, NEW r \in Routers, replaying[r] # NoCommand,
         EventsTypeOK', StaleMayRerun', reruns' = reruns,
         \A l \in Keys : events'[l] # "none" <=> events[l] # "none",
         \A x \in Routers : batch'[x] \subseteq batch[x],
         <<"approved", replaying[r]>> \notin batch'[r],
         \A x \in Routers \ {r} : batch'[x] = batch[x],
         \A q \in Proposals : Ahead(q)' <= Ahead(q),
         replaying' = [replaying EXCEPT ![r] = NoCommand],
         UNCHANGED <<kind, intent, due, grants, session, live>>,
         NEW ex \in {"none", "pending", "applied", "failed"},
         proposal' = [proposal EXCEPT ![replaying[r]] =
                        [proposal[replaying[r]] EXCEPT !.exec = ex]],
         action' \in {action, [action EXCEPT ![replaying[r]] = "approved_for_live"]}
  PROVE  IInv'
<1>. DEFINE p == replaying[r]
<1>1. TypeOK
  BY DEF IInv
<1>2. p \in Proposals /\ proposal[p].status = "approved"
  BY <1>1 DEF TypeOK, IInv, VerdictOnItsWay
<1>3. [proposal[p] EXCEPT !.exec = ex] \in
        [status : {"none", "pending"} \cup Verdicts,
         exec : {"none", "pending", "applied", "failed"}]
  BY <1>1, <1>2 DEF TypeOK
<1>4. TypeOK'
  <2>1. replaying' \in [Routers -> Proposals \cup {NoCommand}]
    BY <1>1 DEF TypeOK
  <2>2. proposal' \in [Proposals -> [status : {"none", "pending"} \cup Verdicts,
                                     exec : {"none", "pending", "applied", "failed"}]]
    BY <1>1, <1>3 DEF TypeOK
  <2>3. action' \in [Proposals -> {"none", "blocked", "approved_for_live", "discarded"}]
    BY <1>1 DEF TypeOK
  <2>. QED
    BY <1>1, <2>1, <2>2, <2>3 DEF TypeOK
<1>5. /\ proposal'[p].status = "approved"
      /\ \A q \in Proposals \ {p} : proposal'[q] = proposal[q] /\ action'[q] = action[q]
      /\ action'[p] \in {action[p], "approved_for_live"}
      /\ \A q \in Proposals : proposal'[q].status = proposal[q].status
  BY <1>1, <1>2 DEF TypeOK
<1>6. /\ replaying'[r] = NoCommand
      /\ \A y \in Routers \ {r} : replaying'[y] = replaying[y]
  BY <1>1 DEF TypeOK
<1>7. ASSUME NEW q \in Proposals
      PROVE  Calm(q)
  <2>1. live'[q] + grants'[q] <= live[q] + grants[q]
    BY <1>1 DEF TypeOK
  <2>2. /\ \A y \in Routers : replaying'[y] = q => replaying[y] = q
        /\ \A y \in Routers : replaying[y] = q =>
             replaying'[y] = q \/ <<"approved", q>> \notin batch'[y]
    BY <1>6, ProposalsAssumption
  <2>. QED
    BY <2>1, <2>2, OthersCalm
<1>8. \A q \in Proposals : proposal'[q].status # "approved" =>
                             live'[q] = 0 /\ grants'[q] = 0
  BY <1>5 DEF IInv, Deliveries
<1>9. Deliveries'
  BY <1>4, <1>7, <1>8, DeliveriesKeep
<1>10. \A y \in Routers : replaying'[y] # NoCommand =>
            /\ replaying'[y] \in Proposals
            /\ replaying[y] # replaying'[y] => proposal[replaying'[y]].status = "approved"
  BY <1>1, <1>6 DEF TypeOK
<1>11. VerdictOnItsWay'
  BY <1>5, <1>10, WayKeeps
<1>12. VerdictBinds'
  <2>. SUFFICES ASSUME NEW q \in Proposals
                PROVE  /\ intent[q] \in Verdicts => intent[q] = proposal'[q].status
                       /\ action'[q] = "approved_for_live" => proposal'[q].status = "approved"
                       /\ action'[q] = "discarded" => proposal'[q].status = "rejected"
                       /\ proposal'[q].exec # "none" => proposal'[q].status = "approved"
    BY DEF VerdictBinds
  <2>1. CASE q = p
    BY <1>2, <1>5, <2>1 DEF IInv, VerdictBinds
  <2>2. CASE q # p
    BY <1>5, <2>2 DEF IInv, VerdictBinds
  <2>. QED
    BY <2>1, <2>2
<1>. QED
  BY <1>6, <1>4, <1>9, <1>11, <1>12 DEF IInv, InHand

\* A command succeeds, fails, or its router dies.
LEMMA ReplayKeeps ==
  ASSUME IInv, NEW r \in Routers,
         ReplaySucceeds(r) \/ ReplayFails(r) \/ ReplayLost(r)
  PROVE  IInv'
<1>. DEFINE p == replaying[r]
            k == <<"approved", p>>
<1>1. /\ p # NoCommand /\ replaying' = [replaying EXCEPT ![r] = NoCommand]
      /\ UNCHANGED <<kind, intent, due, grants, session, live>>
  BY DEF ReplaySucceeds, ReplayFails, ReplayLost
<1>2. \E s \in {"handled", "failed"} : Settled(r, k, events, s) \/ Abandoned(r, events)
  BY DEF ReplaySucceeds, ReplayFails, ReplayLost
<1>3. k \in batch[r]
  BY <1>1 DEF IInv, InHand
<1>4. /\ EventsTypeOK' /\ StaleMayRerun' /\ reruns' = reruns
      /\ \A l \in Keys : events'[l] # "none" <=> events[l] # "none"
      /\ \A x \in Routers : batch'[x] \subseteq batch[x]
      /\ k \notin batch'[r] /\ \A x \in Routers \ {r} : batch'[x] = batch[x]
      /\ \A q \in Proposals : Ahead(q)' <= Ahead(q)
  BY <1>2, <1>3, HandlerLeaves
<1>5. TypeOK /\ p \in Proposals
  BY <1>1 DEF IInv, TypeOK
<1>6. \E ex \in {"none", "pending", "applied", "failed"} :
        proposal' = [proposal EXCEPT ![p] = [proposal[p] EXCEPT !.exec = ex]]
  <2>1. CASE ReplaySucceeds(r)
    BY <2>1 DEF ReplaySucceeds
  <2>2. CASE ReplayFails(r)
    BY <2>2 DEF ReplayFails
  <2>3. CASE ReplayLost(r)
    <3>1. /\ proposal[p].exec \in {"none", "pending", "applied", "failed"}
          /\ [proposal[p] EXCEPT !.exec = proposal[p].exec] = proposal[p]
      BY <1>5 DEF TypeOK
    <3>2. proposal' = proposal
      BY <2>3 DEF ReplayLost
    <3>3. proposal' = [proposal EXCEPT ![p] = proposal[p]]
      BY <1>5, <3>2 DEF TypeOK
    <3>. QED
      BY <3>1, <3>3
  <2>. QED
    BY <2>1, <2>2, <2>3
<1>7. action' \in {action, [action EXCEPT ![p] = "approved_for_live"]}
  BY DEF ReplaySucceeds, ReplayFails, ReplayLost
<1>. QED
  BY <1>1, <1>4, <1>6, <1>7, ReplayEnds

\* A rejection closes what it finds, for the proposal is rejected.
LEMMA RejectKeeps ==
  ASSUME IInv, NEW r \in Routers, NEW p \in Proposals, Reject(r, p)
  PROVE  IInv'
<1>. DEFINE k == <<"rejected", p>>
<1>1. /\ replaying[r] = NoCommand /\ k \in batch[r]
      /\ UNCHANGED <<kind, proposal, due, grants, replaying, session, live>>
  BY DEF Reject, Handles
<1>2. PICK done \in 0..3 :
        /\ intent' = IF done >= 1 /\ intent[p] # "none"
                     THEN [intent EXCEPT ![p] = "rejected"] ELSE intent
        /\ action' = IF done >= 2 THEN [action EXCEPT ![p] = "discarded"] ELSE action
        /\ IF done = 3 THEN Settled(r, <<"rejected", p>>, events, "handled")
                       ELSE Abandoned(r, events)
  BY DEF Reject
<1>3. TypeOK
  BY DEF IInv
<1>4. /\ EventsTypeOK' /\ StaleMayRerun' /\ reruns' = reruns
      /\ \A l \in Keys : events'[l] # "none" <=> events[l] # "none"
      /\ \A x \in Routers : batch'[x] \subseteq batch[x]
      /\ \A x \in Routers \ {r} : batch'[x] = batch[x]
      /\ \A q \in Proposals : Ahead(q)' <= Ahead(q)
  BY <1>1, <1>2, HandlerLeaves
<1>5. proposal[p].status = "rejected"
  <2>1. events[k] # "none"
    BY <1>1 DEF IInv, VerdictOnItsWay
  <2>. QED
    BY <2>1 DEF IInv, VerdictOnItsWay
<1>6. /\ intent' \in {intent, [intent EXCEPT ![p] = "rejected"]}
      /\ action' \in {action, [action EXCEPT ![p] = "discarded"]}
  BY <1>2
<1>7. TypeOK'
  <2>1. intent' \in [Proposals -> {"none", "pending"} \cup Verdicts]
    BY <1>3, <1>6 DEF TypeOK
  <2>2. action' \in [Proposals -> {"none", "blocked", "approved_for_live", "discarded"}]
    BY <1>3, <1>6 DEF TypeOK
  <2>. QED
    BY <1>1, <1>3, <1>4, <2>1, <2>2 DEF TypeOK
<1>8. VerdictOnItsWay'
  BY <1>1, <1>3, <1>4, WayKeeps DEF TypeOK
<1>9. ASSUME NEW q \in Proposals
      PROVE  Calm(q)
  <2>1. live'[q] + grants'[q] <= live[q] + grants[q]
    BY <1>1, <1>3 DEF TypeOK
  <2>2. /\ \A x \in Routers : replaying'[x] = q => replaying[x] = q
        /\ \A x \in Routers : replaying[x] = q =>
             replaying'[x] = q \/ <<"approved", q>> \notin batch'[x]
    BY <1>1
  <2>3. Ahead(q)' <= Ahead(q) /\ reruns' = reruns
        /\ \A x \in Routers : batch'[x] \subseteq batch[x]
    BY <1>4
  <2>. QED
    BY <2>1, <2>2, <2>3, OthersCalm
<1>10. \A q \in Proposals : proposal'[q].status # "approved" =>
                              live'[q] = 0 /\ grants'[q] = 0
  BY <1>1 DEF IInv, Deliveries
<1>11. Deliveries'
  BY <1>7, <1>9, <1>10, DeliveriesKeep
<1>12. VerdictBinds'
  <2>1. \A q \in Proposals : /\ intent'[q] = intent[q] \/ (q = p /\ intent'[q] = "rejected")
                             /\ action'[q] = action[q] \/ (q = p /\ action'[q] = "discarded")
    BY <1>3, <1>6 DEF TypeOK
  <2>. QED
    BY <1>1, <1>5, <2>1 DEF IInv, VerdictBinds
<1>. QED
  BY <1>1, <1>4, <1>7, <1>8, <1>11, <1>12 DEF IInv, InHand

-----------------------------------------------------------------------------
(* The steps: the event table                                              *)

\* A step of the event table alone keeps what is said of proposals.
LEMMA PipelineKeeps ==
  ASSUME IInv, UNCHANGED approvalVars, EventsTypeOK', StaleMayRerun', InHand',
         \A l \in Keys : events'[l] # "none" => events[l] # "none",
         \A x \in Routers : \A k \in batch'[x] : events'[k] # "none",
         \A p \in Proposals : Calm(p) \/ Takes(p)
  PROVE  IInv'
<1>1. UNCHANGED <<kind, proposal, intent, action, due, grants, replaying, session,
                  live>>
  BY DEF approvalVars
<1>2. TypeOK'
  BY <1>1 DEF IInv, TypeOK
<1>3. ASSUME NEW q \in Proposals, NEW v \in Verdicts, events'[<<v, q>>] # "none"
      PROVE  proposal[q].status = v
  <2>1. <<v, q>> \in Keys
    BY ApprovalKey
  <2>. QED
    BY <1>3, <2>1 DEF IInv, VerdictOnItsWay
<1>4. VerdictOnItsWay'
  BY <1>1, <1>3 DEF IInv, VerdictOnItsWay
<1>5. \A q \in Proposals : proposal'[q].status # "approved" =>
                             live'[q] = 0 /\ grants'[q] = 0
  BY <1>1 DEF IInv, Deliveries
<1>6. Deliveries'
  BY <1>2, <1>5, DeliveriesKeep
<1>. QED
  BY <1>1, <1>2, <1>4, <1>6 DEF IInv, VerdictBinds

\* A claim takes every event that waits.
LEMMA ClaimKeeps ==
  ASSUME IInv, NEW r \in Routers, Claim(r), UNCHANGED approvalVars
  PROVE  IInv'
<1>1. /\ events \in [Keys -> EventStatus] /\ batch \in [Routers -> SUBSET Keys]
      /\ reruns \in [Keys -> 0..MaxReruns] /\ crashes \in 0..MaxCrashes
      /\ live \in [Proposals -> Nat] /\ grants \in [Proposals -> Nat]
  BY DEF IInv, TypeOK, EventsTypeOK
<1>2. /\ batch[r] = {} /\ reruns' = reruns /\ crashes' = crashes
      /\ batch' = [batch EXCEPT ![r] = {k \in Keys : events[k] = "pending"}]
      /\ events' = [k \in Keys |->
                      IF events[k] = "pending" THEN "processing" ELSE events[k]]
      /\ UNCHANGED <<replaying, live, grants>>
  BY DEF Claim, approvalVars
<1>3. EventsTypeOK'
  BY <1>1, <1>2 DEF EventsTypeOK
<1>4. StaleMayRerun' /\ InHand'
  BY <1>1, <1>2 DEF IInv, StaleMayRerun, InHand
<1>5. \A l \in Keys : events'[l] # "none" <=> events[l] # "none"
  BY <1>2
<1>6. ASSUME NEW x \in Routers, NEW k \in batch'[x]
      PROVE  events'[k] # "none"
  <2>1. CASE x = r
    BY <1>1, <1>2, <1>6, <2>1
  <2>2. CASE x # r
    <3>1. k \in batch[x] /\ k \in Keys
      BY <1>1, <1>2, <1>6, <2>2
    <3>2. events[k] # "none"
      BY <3>1 DEF IInv, VerdictOnItsWay
    <3>. QED
      BY <1>5, <3>1, <3>2
  <2>. QED
    BY <2>1, <2>2
<1>7. ASSUME NEW p \in Proposals
      PROVE  Calm(p) \/ Takes(p)
  <2>. DEFINE k == <<"approved", p>>
  <2>1. k \in Keys
    BY ApprovalKey
  <2>2. CASE events[k] = "pending"
    <3>1. Holders(p)' \subseteq Holders(p) \cup {r}
      BY <1>1, <1>2
    <3>2. Ahead(p) = 1 /\ Ahead(p)' = 0
      BY <1>2, <2>1, <2>2
    <3>3. live'[p] + grants'[p] <= live[p] + grants[p]
      BY <1>1, <1>2
    <3>. QED
      BY <1>2, <3>1, <3>2, <3>3 DEF Takes
  <2>3. CASE events[k] # "pending"
    <3>1. Holders(p)' \subseteq Holders(p)
      BY <1>1, <1>2, <2>3
    <3>2. Ahead(p)' = Ahead(p) /\ Ahead(p) \in Nat
      BY <1>2, <2>1, <2>3
    <3>3. reruns[k] \in Nat
      <4>1. \A n \in 0..MaxReruns : n \in Nat
        BY EventBoundsAssumption
      <4>. QED
        BY <1>1, <2>1, <4>1
    <3>4. live'[p] + grants'[p] <= live[p] + grants[p]
      BY <1>1, <1>2
    <3>. QED
      BY <1>2, <3>1, <3>2, <3>3, <3>4 DEF Calm
  <2>. QED
    BY <2>2, <2>3
<1>. QED
  BY <1>3, <1>4, <1>5, <1>6, <1>7, PipelineKeeps

\* What a step of the sweep, the operator or the clock does to one event: it
\* waits again, which counts as a rerun, or becomes old.
PutBack(l) ==
  \/ events'[l] = events[l] /\ reruns'[l] = reruns[l]
  \/ /\ events[l] \notin {"none", "pending"} /\ events'[l] = "pending"
     /\ reruns[l] < MaxReruns /\ reruns'[l] = reruns[l] + 1
  \/ /\ events[l] = "processing" /\ events'[l] = "stale"
     /\ reruns[l] < MaxReruns /\ reruns'[l] = reruns[l]

\* Every rerun is worth one more delivery.
LEMMA PutBackKeeps ==
  ASSUME IInv, UNCHANGED approvalVars, UNCHANGED <<batch, crashes>>,
         events' = [l \in Keys |-> events'[l]], reruns' = [l \in Keys |-> reruns'[l]],
         \A l \in Keys : PutBack(l)
  PROVE  IInv'
<1>1. /\ events \in [Keys -> EventStatus] /\ batch \in [Routers -> SUBSET Keys]
      /\ reruns \in [Keys -> 0..MaxReruns] /\ crashes \in 0..MaxCrashes
      /\ live \in [Proposals -> Nat] /\ grants \in [Proposals -> Nat]
      /\ UNCHANGED <<replaying, live, grants>>
  BY DEF IInv, TypeOK, EventsTypeOK, approvalVars
<1>2. ASSUME NEW l \in Keys
      PROVE  events'[l] \in EventStatus /\ reruns'[l] \in 0..MaxReruns
  BY <1>1, EventBoundsAssumption DEF PutBack
<1>3. EventsTypeOK'
  BY <1>1, <1>2 DEF EventsTypeOK
<1>4. StaleMayRerun'
  BY DEF IInv, StaleMayRerun, PutBack
<1>5. InHand'
  BY <1>1 DEF IInv, InHand
<1>6. \A l \in Keys : events'[l] # "none" <=> events[l] # "none"
  BY DEF PutBack
<1>7. \A x \in Routers : \A k \in batch'[x] : events'[k] # "none"
  BY <1>1, <1>6 DEF IInv, VerdictOnItsWay
<1>8. ASSUME NEW p \in Proposals
      PROVE  Calm(p)
  <2>. DEFINE k == <<"approved", p>>
  <2>1. k \in Keys
    BY ApprovalKey
  <2>2. reruns[k] \in Nat
    <3>1. \A n \in 0..MaxReruns : n \in Nat
      BY EventBoundsAssumption
    <3>. QED
      BY <1>1, <2>1, <3>1
  <2>3. Holders(p)' = Holders(p)
    BY <1>1
  <2>4. PutBack(k)
    BY <2>1
  <2>. HIDE DEF k
  <2>5. LET a == IF events[k] \in {"none", "pending"} THEN 1 ELSE 0
            b == IF events'[k] \in {"none", "pending"} THEN 1 ELSE 0
        IN b + reruns[k] <= a + reruns'[k]
    BY <2>2, <2>4 DEF PutBack
  <2>6. Ahead(p)' + reruns[<<"approved", p>>] <= Ahead(p) + reruns'[<<"approved", p>>]
    BY <2>5 DEF k
  <2>. QED
    BY <1>1, <2>3, <2>6 DEF Calm
<1>. QED
  BY <1>3, <1>4, <1>5, <1>6, <1>7, <1>8, PipelineKeeps

\* reclaimStaleEvents
LEMMA ReclaimKeeps ==
  ASSUME IInv, ReclaimStale, UNCHANGED approvalVars
  PROVE  IInv'
<1>1. /\ events' = [k \in Keys |->
                  IF events[k] = "stale" THEN "pending" ELSE events[k]]
      /\ reruns' = [k \in Keys |->
                  IF events[k] = "stale" THEN reruns[k] + 1 ELSE reruns[k]]
      /\ UNCHANGED <<batch, crashes>>
  BY DEF ReclaimStale
<1>2. \A l \in Keys : PutBack(l)
  BY <1>1 DEF PutBack, IInv, StaleMayRerun
<1>3. events' = [l \in Keys |-> events'[l]] /\ reruns' = [l \in Keys |-> reruns'[l]]
  BY <1>1
<1>. QED
  BY <1>1, <1>2, <1>3, PutBackKeeps

\* requeueEvents, and the passing of time.
LEMMA RequeueKeeps ==
  ASSUME IInv, NEW k \in Keys, Requeue(k) \/ Age(k), UNCHANGED approvalVars
  PROVE  IInv'
<1>1. events \in [Keys -> EventStatus] /\ reruns \in [Keys -> 0..MaxReruns]
  BY DEF IInv, TypeOK, EventsTypeOK
<1>2. UNCHANGED <<batch, crashes>>
  BY DEF Requeue, Age
<1>3. ASSUME NEW l \in Keys
      PROVE  PutBack(l)
  BY <1>1, RequeuedAssumption DEF Requeue, Age, PutBack
<1>4. events' = [l \in Keys |-> events'[l]] /\ reruns' = [l \in Keys |-> reruns'[l]]
  BY <1>1 DEF Requeue, Age
<1>. QED
  BY <1>2, <1>3, <1>4, PutBackKeeps

-----------------------------------------------------------------------------
(* The theorems                                                            *)

\* No event, no verdict, no call.
LEMMA InitIInv ==
  ASSUME Init
  PROVE  IInv
<1>1. TypeOK
  BY EventBoundsAssumption DEF Init, EventsInit, TypeOK, EventsTypeOK
<1>2. StaleMayRerun /\ InHand /\ VerdictBinds
  BY DEF Init, EventsInit, StaleMayRerun, InHand, VerdictBinds
<1>3. VerdictOnItsWay
  <2>1. \A p \in Proposals, v \in Verdicts : events[<<v, p>>] = "none"
    BY ApprovalKey DEF Init, EventsInit
  <2>. QED
    BY <2>1 DEF Init, EventsInit, VerdictOnItsWay
<1>4. ASSUME NEW p \in Proposals
      PROVE  /\ IsFiniteSet(Holders(p))
             /\ live[p] + grants[p] + Cardinality(Holders(p)) + Ahead(p)
                  <= 1 + reruns[<<"approved", p>>]
             /\ live[p] = 0 /\ grants[p] = 0
  <2>1. Holders(p) = {}
    BY DEF Init, EventsInit
  <2>2. IsFiniteSet(Holders(p)) /\ Cardinality(Holders(p)) = 0
    BY <2>1, FS_EmptySet
  <2>3. live[p] = 0 /\ grants[p] = 0 /\ reruns[<<"approved", p>>] = 0
    BY ApprovalKey DEF Init, EventsInit
  <2>4. Ahead(p) \in {0, 1}
    OBVIOUS
  <2>. HIDE DEF Holders, Ahead
  <2>. QED
    BY <2>2, <2>3, <2>4
<1>5. Deliveries
  BY <1>4 DEF Deliveries
<1>. QED
  BY <1>1, <1>2, <1>3, <1>5 DEF IInv

\* Every step of agents, operators, routers and the sweep keeps the invariant.
LEMMA NextIInv ==
  ASSUME IInv, [Next]_vars
  PROVE  IInv'
<1>1. CASE Agent
  <2>1. CASE \E p \in Proposals : InterceptTool(p) \/ InterceptCommand(p)
    BY <2>1, InterceptKeeps DEF InterceptTool, InterceptCommand
  <2>2. CASE EnqueueTask \/ StartSession \/ EndSession
    BY <2>2, SessionKeeps
  <2>3. CASE \E p \in Proposals : CallApproved(p)
    BY <2>3, CallApprovedKeeps
  <2>. QED
    BY <1>1, <2>1, <2>2, <2>3 DEF Agent
<1>2. CASE Operator
  BY <1>2, ResolveKeeps, RequeueKeeps DEF Operator
<1>3. CASE Sweep
  BY <1>3, ReclaimKeeps DEF Sweep
<1>4. ASSUME NEW r \in Routers, Route(r)
      PROVE  IInv'
  BY <1>4, ClaimKeeps, ApproveToolKeeps, ApproveNothingKeeps, StartReplayKeeps,
     RejectKeeps, ReplayKeeps DEF Route
<1>5. ASSUME NEW p \in Proposals, EmitVerdict(p) \/ LoseVerdict(p) \/ ExpireProposal(p)
      PROVE  IInv'
  BY <1>5, EmitVerdictKeeps, LoseVerdictKeeps, ExpireProposalKeeps
<1>6. CASE ExpireGrants
  BY <1>6, ExpireGrantsKeeps
<1>7. ASSUME NEW k \in Keys, Age(k), UNCHANGED approvalVars
      PROVE  IInv'
  BY <1>7, RequeueKeeps
<1>8. CASE UNCHANGED vars
  <2>1. /\ UNCHANGED approvalVars /\ UNCHANGED <<events, batch, reruns, crashes>>
    BY <1>8 DEF vars, eventVars
  <2>2. events' = [l \in Keys |-> events'[l]] /\ reruns' = [l \in Keys |-> reruns'[l]]
    BY <2>1 DEF IInv, TypeOK, EventsTypeOK
  <2>3. \A l \in Keys : PutBack(l)
    BY <2>1 DEF PutBack
  <2>. QED
    BY <2>1, <2>2, <2>3, PutBackKeeps
<1>. QED
  BY <1>1, <1>2, <1>3, <1>4, <1>5, <1>6, <1>7, <1>8 DEF Next

\* The invariant holds in every state that verdicts and their events reach.
THEOREM Invariant == Spec => []IInv
<1>1. Init => IInv
  BY InitIInv
<1>2. IInv /\ [Next]_vars => IInv'
  BY NextIInv
<1>. QED
  BY <1>1, <1>2, PTL DEF Spec

\* Proposals, events, intents and pre-approvals stay within their types.
THEOREM TypeCorrect == Spec => []TypeOK
<1>1. IInv => TypeOK
  BY DEF IInv
<1>. QED
  BY <1>1, Invariant, PTL

\* The intent, the simulated action and the execution of a proposal follow its
\* verdict, in whatever order verdicts, events and reruns come.
THEOREM VerdictBindsHolds == Spec => []VerdictBinds
<1>1. IInv => VerdictBinds
  BY DEF IInv
<1>. QED
  BY <1>1, Invariant, PTL

\* A delivery that has not been used takes nothing away.
LEMMA DeliveriesBound ==
  ASSUME IInv
  PROVE  CallsWithinDeliveries
<1>1. SUFFICES ASSUME NEW p \in Proposals
               PROVE  live[p] + grants[p] <=
                        IF proposal[p].status = "approved"
                        THEN 1 + reruns[<<"approved", p>>] ELSE 0
  BY DEF CallsWithinDeliveries
<1>. DEFINE n == reruns[<<"approved", p>>]
            c == Cardinality(Holders(p))
            a == Ahead(p)
<1>2. live[p] \in Nat /\ grants[p] \in Nat /\ n \in Nat
  <2>1. \A m \in 0..MaxReruns : m \in Nat
    BY EventBoundsAssumption
  <2>. QED
    BY <2>1, ApprovalKey DEF IInv, TypeOK, EventsTypeOK
<1>3. /\ IsFiniteSet(Holders(p)) /\ live[p] + grants[p] + c + a <= 1 + n
      /\ proposal[p].status # "approved" => live[p] = 0 /\ grants[p] = 0
  BY DEF IInv, Deliveries
<1>4. c \in Nat /\ a \in Nat
  BY <1>3, Counting
<1>. HIDE DEF n, c, a
<1>5. live[p] + grants[p] <= 1 + n
  BY <1>2, <1>3, <1>4
<1>. QED
  BY <1>3, <1>5 DEF n

\* An approval is worth one call, and one more for each time its event is put
\* back, however many routers, operators and sessions act at once.
THEOREM CallsWithinDeliveriesHolds == Spec => []CallsWithinDeliveries
  BY Invariant, DeliveriesBound, PTL
=============================================================================
