------------------------ MODULE NotificationDelivery ------------------------
(***************************************************************************)
(* NotificationQueue with what obliges the monitoring runs to publish: a   *)
(* run publishes an identifier only while it sees the leader and version,  *)
(* or the target and cycle, that make it.  The market, the chats and the   *)
(* other runs change that at any time, so it is left open here; a run that *)
(* is under way may publish what was called for when it read its copies.   *)
(***************************************************************************)
EXTENDS NotificationQueue

VARIABLE wanted   \* the events a monitoring run would publish if it began now

deliveryVars == <<queueVars, wanted>>

DeliveryInit == QueueInit /\ wanted = {}

\* An offer, a subscription or its version or cycle changes.
WantedChanges ==
  /\ \E e \in Events : wanted' = IF e \in wanted THEN wanted \ {e} ELSE wanted \cup {e}
  /\ UNCHANGED queueVars

DeliveryNext ==
  \/ QueueNext /\ UNCHANGED wanted
  \/ WantedChanges

DeliverySpec == DeliveryInit /\ [][DeliveryNext]_deliveryVars

Publish(p, e) == PublishNew(p, e) \/ PublishAgain(p, e)

\* Every call returns, BullMQ serves every job it holds and finds stalled ones, and
\* the monitoring runs, which start minute by minute, publish what every one of them
\* would publish.  Nothing obliges them to publish an event that is wanted only now
\* and then, a failure to happen, or an old job to be removed while it still matters.
DeliveryFairness ==
  /\ \A p \in Publishers : WF_queueVars(PublisherStep(p))
  /\ \A h \in Handlers : WF_queueVars(HandlerStep(h)) /\ WF_queueVars(Finish(h))
  /\ \A e \in Events :
       /\ WF_queueVars(\E h \in Handlers : PickUp(h, e))
       /\ WF_queueVars(BackoffOver(e))
       /\ WF_queueVars(Stalled(e))
       /\ <>[](e \in wanted) => SF_queueVars(\E p \in Publishers : Publish(p, e))

FairDeliverySpec == DeliverySpec /\ DeliveryFairness

\* publish leaves a "sending" event alone, and BullMQ will not run its job again.
Stuck(e) == status[e] = "sending" /\ job[e] \in {"failed", "none"}

\* An event is not wanted for ever without being sent: rejected calls, restarts and
\* exhausted attempts only delay it, since the next run publishes it again and
\* publish retries its failed job.  The exception is the event that its last attempt
\* left "sending": publish takes it for one under way.
EventuallySent ==
  \A e \in Events :
    e \in wanted ~> status[e] = "sent" \/ e \notin wanted \/ Stuck(e)
=============================================================================
