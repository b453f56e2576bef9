--------------------------- MODULE EventPipeline ---------------------------
(***************************************************************************)
(* The events of one project (src/events/store.ts) and the loop that       *)
(* routes them (processEvents in src/events/router.ts), without the        *)
(* handlers: a module that extends this one says what handling an event    *)
(* does.                                                                   *)
(*                                                                         *)
(* An event is named by its deduplication key, under which the table holds *)
(* one row for ever.  A router is a process inside processEvents: it       *)
(* claims the pending events, then handles and settles one after another.  *)
(* A process that dies leaves its batch in "processing"; after five        *)
(* minutes, in the model at any time, the sweep of any process puts such   *)
(* events back, also under a router that is only slow.                     *)
(***************************************************************************)
EXTENDS Naturals

CONSTANTS
  Keys,       \* deduplication keys of the events
  Routers,    \* processes that route events
  Requeued,   \* the statuses whose events an operator puts back
  MaxReruns,  \* bound: how often the rows of one key are put back
  MaxCrashes  \* bound: how often a router dies

ASSUME RequeuedAssumption == Requeued \subseteq {"handled", "failed", "ignored"}
ASSUME EventBoundsAssumption == MaxReruns \in Nat /\ MaxCrashes \in Nat

VARIABLES
  events,   \* status of the row of each key, "none" without a row
  batch,    \* the claimed events a router has still to handle
  reruns,   \* how often a key was put back to pending after its first claim
  crashes   \* how many routers have died

eventVars == <<events, batch, reruns, crashes>>

\* "stale" is processing, five minutes after processed_at.
EventStatus == {"none", "pending", "processing", "stale",
                "handled", "failed", "ignored"}

EventsTypeOK ==
  /\ events \in [Keys -> EventStatus]
  /\ batch \in [Routers -> SUBSET Keys]
  /\ reruns \in [Keys -> 0..MaxReruns]
  /\ crashes \in 0..MaxCrashes

EventsInit ==
  /\ events = [k \in Keys |-> "none"]
  /\ batch = [r \in Routers |-> {}]
  /\ reruns = [k \in Keys |-> 0]
  /\ crashes = 0

\* ingestEvent: INSERT OR IGNORE under the unique index of the key.
Ingested(ev, k) == IF ev[k] = "none" THEN [ev EXCEPT ![k] = "pending"] ELSE ev

\* claimPendingEvents: one transaction.  (Fewer than 50 events wait.)
Claim(r) ==
  /\ batch[r] = {}
  /\ \E k \in Keys : events[k] = "pending"
  /\ batch' = [batch EXCEPT ![r] = {k \in Keys : events[k] = "pending"}]
  /\ events' = [k \in Keys |->
                  IF events[k] = "pending" THEN "processing" ELSE events[k]]
  /\ UNCHANGED <<reruns, crashes>>

\* markHandled, markIgnored, markFailed after the handler: by id, whatever
\* the status has become.  ev is the table the handler leaves.
Settled(r, k, ev, s) ==
  /\ events' = [ev EXCEPT ![k] = s]
  /\ batch' = [batch EXCEPT ![r] = @ \ {k}]
  /\ UNCHANGED <<reruns, crashes>>

\* The process dies in the handler: nothing of the batch is settled.  (It may
\* not die if the bound would keep its events from being put back.)
Abandoned(r, ev) ==
  /\ crashes < MaxCrashes /\ \A k \in batch[r] : reruns[k] < MaxReruns
  /\ crashes' = crashes + 1
  /\ events' = ev
  /\ batch' = [batch EXCEPT ![r] = {}]
  /\ UNCHANGED reruns

\* Five minutes pass since the claim.
Age(k) ==
  /\ events[k] = "processing"
  /\ reruns[k] < MaxReruns
  /\ events' = [events EXCEPT ![k] = "stale"]
  /\ UNCHANGED <<batch, reruns, crashes>>

\* Fault: only events that failed are put back.
ReclaimFailed ==
  /\ \E k \in Keys : events[k] = "failed" /\ reruns[k] < MaxReruns
  /\ events' = [k \in Keys |->
                  IF events[k] = "failed" THEN "pending" ELSE events[k]]
  /\ reruns' = [k \in Keys |->
                  IF events[k] = "failed" THEN reruns[k] + 1 ELSE reruns[k]]
  /\ UNCHANGED <<batch, crashes>>

\* reclaimStaleEvents: the first step of every sweep.
ReclaimStale ==
  /\ \E k \in Keys : events[k] = "stale"
  /\ events' = [k \in Keys |->
                  IF events[k] = "stale" THEN "pending" ELSE events[k]]
  /\ reruns' = [k \in Keys |->
                  IF events[k] = "stale" THEN reruns[k] + 1 ELSE reruns[k]]
  /\ UNCHANGED <<batch, crashes>>

\* requeueEvents: an operator puts settled events back, by default the failed.
Requeue(k) ==
  /\ events[k] \in Requeued
  /\ reruns[k] < MaxReruns
  /\ events' = [events EXCEPT ![k] = "pending"]
  /\ reruns' = [reruns EXCEPT ![k] = @ + 1]
  /\ UNCHANGED <<batch, crashes>>
=============================================================================
