--------------------------- MODULE PriceTracking ---------------------------
(***************************************************************************)
(* The subscriptions of one SKU between the three parties that write them: *)
(*   - the monitoring runs (MonitoringService.monitorSku), which work on a *)
(*     copy of the subscriptions and on a snapshot of the offers, both     *)
(*     taken before their first write;                                     *)
(*   - the notification handlers (NotificationEvents), which write the     *)
(*     outcome of an event back into its subscription;                     *)
(*   - the chats (BotService and TrackingSubscriptionService.upsert).      *)
(* Every await is a step, so any of them may run between two writes.       *)
(*                                                                         *)
(* The queue between publish() and the handlers is reduced to what         *)
(* NotificationQueue establishes for it: an event is in one handler at a   *)
(* time and an unsent event is taken up.                                   *)
(***************************************************************************)
EXTENDS NotificationEvents

CONSTANTS
  Subs,         \* the chats that may subscribe to the SKU
  Legacy,       \* those stored active by an older release, without a leader
  Offers,       \* offer identifiers
  NoOffer,      \* null: no available offer, no last leader
  Prices,       \* prices in minor units
  Targets,      \* target prices the chats choose, possibly NoTarget
  NoTarget,     \* null: a subscription without a target price
  Monitors,     \* monitoring runs that may overlap
  Savers,       \* updates of the bot that may be inside upsert at once
  MaxSeq,       \* bound on the version or cycle in an event identifier
  MaxChanges,   \* bound on the changes of the market
  MaxRequests   \* bound on the products chats ask for and stop

(***************************************************************************)
(* The deterministic event identifiers of compareLeader and                *)
(* compareTargetPrice, `leader-${id}-${version + 1}-${offerId}` and        *)
(* `target-${id}-${cycle}-${price}`, as records with the same parts.       *)
(***************************************************************************)
LeaderId(s, n, o) == [type |-> "leader", sub |-> s, seq |-> n, arg |-> o]
TargetId(s, n, t) == [type |-> "target", sub |-> s, seq |-> n, arg |-> t]

LeaderIds == [type : {"leader"}, sub : Subs, seq : 1..MaxSeq, arg : Offers]
TargetIds == [type : {"target"}, sub : Subs, seq : 0..MaxSeq, arg : Targets \ {NoTarget}]

ASSUME TrackingAssumption ==
  /\ Events = LeaderIds \cup TargetIds
  /\ NoOffer \notin Offers
  /\ Prices \subseteq Nat
  /\ Targets \subseteq Nat \cup {NoTarget}
  /\ NoTarget \notin Nat
  /\ Legacy \subseteq Subs
  /\ {MaxSeq, MaxChanges, MaxRequests} \subseteq Nat

VARIABLES
  market,     \* the best available offer on Noon: [leader, price]
  doc,        \* the tracking_subscriptions document of each chat
  run,        \* each monitoring run: its step, copies, snapshot and position
  pending,    \* the leader of each chat's pending product, or none
  save,       \* each update inside completeSubscription
  changes,    \* changes of the market so far
  requests,   \* chat requests so far
  news,       \* the leader each chat was last told (ghost)
  dipTold,    \* target messages since the price last dropped to the target, or the
              \* target was chosen (ghost)
  wasReset    \* a save reset the trigger within the present cycle (ghost)

chatVars == <<pending, save>>
ghostVars == <<news, dipTold, wasReset>>
trackingVars == <<market, doc, run, chatVars, changes, requests, ghostVars>>
allVars == <<eventVars, trackingVars>>

Docs == [stored : BOOLEAN, active : BOOLEAN, target : Targets \cup {NoTarget},
         triggered : BOOLEAN, leader : Offers \cup {NoOffer}, version : Nat, cycle : Nat]

NoDoc == [stored |-> FALSE, active |-> FALSE, target |-> NoTarget, triggered |-> FALSE,
          leader |-> NoOffer, version |-> 0, cycle |-> 0]

LegacyDoc(t) == [NoDoc EXCEPT !.stored = TRUE, !.active = TRUE, !.target = t]

Snapshots == [leader : Offers \cup {NoOffer}, price : Prices]

\* The cheapest available offer is at or below the target exactly when some is:
\* selectOfferAtOrBelow, on the offers of the snapshot.
Reached(snapshot, target) ==
  /\ snapshot.leader # NoOffer
  /\ target # NoTarget
  /\ snapshot.price <= target

NoCopies == [s \in {} |-> NoDoc]

IdleRun == [step |-> "idle", copies |-> NoCopies, at |-> NoEvent,
            snapshot |-> [leader |-> NoOffer, price |-> 0]]

IdleSave == [step |-> "idle", sub |-> NoEvent, leader |-> NoOffer, target |-> NoTarget,
             changed |-> FALSE]

TrackingInit ==
  /\ EventInit
  /\ market \in Snapshots
  /\ \E t \in Targets :
       doc = [s \in Subs |-> IF s \in Legacy THEN LegacyDoc(t) ELSE NoDoc]
  /\ run = [m \in Monitors |-> IdleRun]
  /\ pending = [s \in Subs |-> NoOffer]
  /\ save = [u \in Savers |-> IdleSave]
  /\ changes = 0
  /\ requests = 0
  /\ news = [s \in Subs |-> NoOffer]
  /\ dipTold = [s \in Subs |-> 0]
  /\ wasReset = [s \in Subs |-> FALSE]

-----------------------------------------------------------------------------
(* Noon. *)

ChangeMarket ==
  /\ changes < MaxChanges
  /\ changes' = changes + 1
  /\ market' \in Snapshots \ {market}
  /\ dipTold' = [s \in Subs |->
       IF Reached(market', doc[s].target) /\ ~Reached(market, doc[s].target)
         THEN 0 ELSE dipTold[s]]
  /\ UNCHANGED <<eventVars, doc, run, chatVars, requests, news, wasReset>>

-----------------------------------------------------------------------------
(* MonitoringService.monitorSku and processSku *)

\* The upsert of publish(): an event that is stored already is left as it is.
Publish(e) ==
  /\ e \in Events
  /\ IF status[e] = "absent" THEN Insert(e) ELSE UNCHANGED eventVars

\* Mutant: a run goes on though it found no active subscription.
FindActiveOrNone(m) ==
  /\ run[m].step = "idle"
  /\ run' = [run EXCEPT ![m].step = "fetch",
                        ![m].copies = [s \in {t \in Subs : doc[t].active} |-> doc[s]]]
  /\ UNCHANGED <<eventVars, market, doc, chatVars, changes, requests, ghostVars>>

FindActive(m) ==
  /\ run[m].step = "idle"
  /\ \E s \in Subs : doc[s].active
  /\ run' = [run EXCEPT ![m].step = "fetch",
                        ![m].copies = [s \in {t \in Subs : doc[t].active} |-> doc[s]]]
  /\ UNCHANGED <<eventVars, market, doc, chatVars, changes, requests, ghostVars>>

Fetch(m) ==
  /\ run[m].step = "fetch"
  /\ run' = IF market.leader = NoOffer
              THEN [run EXCEPT ![m] = IdleRun]
              ELSE [run EXCEPT ![m].step = "leader", ![m].snapshot = market]
  /\ UNCHANGED <<eventVars, market, doc, chatVars, changes, requests, ghostVars>>

SetLastLeader(s, o) == doc' = [doc EXCEPT ![s].leader = o]

Update(s, d) == doc' = [doc EXCEPT ![s] = d]

CompareLeader(m, s) ==
  LET seen == run[m].copies[s]
      now == run[m].snapshot.leader
  IN
  /\ run[m].step = "leader"
  /\ s \in DOMAIN run[m].copies
  /\ \/ /\ seen.leader = NoOffer
        /\ SetLastLeader(s, now)
        /\ UNCHANGED eventVars
     \/ /\ seen.leader = now
        /\ UNCHANGED <<doc, eventVars>>
     \/ /\ seen.leader \notin {NoOffer, now}
        /\ Publish(LeaderId(s, seen.version + 1, now))
        /\ UNCHANGED doc
  /\ run' = [run EXCEPT ![m].step = "target", ![m].at = s]
  /\ UNCHANGED <<market, chatVars, changes, requests, ghostVars>>

Rearm(s, d) ==
  IF doc[s].triggered
    THEN Update(s, d) /\ wasReset' = [wasReset EXCEPT ![s] = FALSE]
    ELSE UNCHANGED <<doc, wasReset>>

\* Mutant: rearming does not start a new cycle.
RearmWithoutCycle(s) == Rearm(s, [doc[s] EXCEPT !.triggered = FALSE])

\* Mutant: rearming starts a new cycle but leaves the subscription triggered.
RearmWithoutReset(s) == Rearm(s, [doc[s] EXCEPT !.cycle = @ + 1])

RearmTargetPrice(s) == Rearm(s, [doc[s] EXCEPT !.triggered = FALSE, !.cycle = @ + 1])

\* compareTargetPrice, then on to the next subscription or the end of the run.
CompareTarget(m) ==
  LET s == run[m].at
      seen == run[m].copies[s]
      reached == Reached(run[m].snapshot, seen.target)
      left == DOMAIN run[m].copies \ {s}
  IN
  /\ run[m].step = "target"
  /\ \/ /\ seen.target = NoTarget \/ reached = seen.triggered
        /\ UNCHANGED <<doc, wasReset, eventVars>>
     \/ /\ seen.target # NoTarget /\ ~reached /\ seen.triggered
        /\ RearmTargetPrice(s)
        /\ UNCHANGED eventVars
     \/ /\ reached /\ ~seen.triggered
        /\ Publish(TargetId(s, seen.cycle, seen.target))
        /\ UNCHANGED <<doc, wasReset>>
  /\ run' = [run EXCEPT ![m] =
       IF left = {} THEN IdleRun
       ELSE [@ EXCEPT !.step = "leader", !.at = NoEvent,
                      !.copies = [t \in left |-> run[m].copies[t]]]]
  /\ UNCHANGED <<market, chatVars, changes, requests, news, dipTold>>

\* A call of the run rejects: the rest of its subscriptions wait for another run.
RunFails(m) ==
  /\ run[m].step # "idle"
  /\ Fault("monitor")
  /\ run' = [run EXCEPT ![m] = IdleRun]
  /\ UNCHANGED <<status, stage, task, told, applied, market, doc, chatVars, changes,
                 requests, ghostVars>>

RunStep(m) ==
  \/ Fetch(m) \/ (\E s \in Subs : CompareLeader(m, s)) \/ CompareTarget(m)
  \/ RunFails(m)

-----------------------------------------------------------------------------
(* NotificationProcessor *)

TakeUp(h, e) ==
  /\ status[e] \in {"queued", "failed", "sending"}
  /\ \A g \in Handlers : task[g] # e
  /\ Start(h, e)
  /\ UNCHANGED trackingVars

SendEvent(h) ==
  LET e == task[h] IN
  /\ Send(h)
  /\ IF told' # told
       THEN IF e.type = "leader"
              THEN news' = [news EXCEPT ![e.sub] = e.arg] /\ UNCHANGED dipTold
              ELSE dipTold' = [dipTold EXCEPT ![e.sub] = @ + 1] /\ UNCHANGED news
       ELSE UNCHANGED <<news, dipTold>>
  /\ UNCHANGED <<market, doc, run, chatVars, changes, requests, wasReset>>

AdvanceLeader(s, o) == Update(s, [doc[s] EXCEPT !.leader = o, !.version = @ + 1])

SetTargetPriceTriggered(s) == Update(s, [doc[s] EXCEPT !.triggered = TRUE])

\* Mutant: the leader is stored but leaderChangeVersion is not incremented.
FinalizeWithoutVersion(h) ==
  LET e == task[h] IN
  /\ Finalize(h)
  /\ IF e.type = "leader"
       THEN SetLastLeader(e.sub, e.arg)
       ELSE SetTargetPriceTriggered(e.sub)
  /\ UNCHANGED <<market, run, chatVars, changes, requests, ghostVars>>

\* Mutant: a target message starts the next cycle at once and disarms nothing.
FinalizeStaysArmed(h) ==
  LET e == task[h] IN
  /\ Finalize(h)
  /\ IF e.type = "leader"
       THEN AdvanceLeader(e.sub, e.arg)
       ELSE Update(e.sub, [doc[e.sub] EXCEPT !.cycle = @ + 1])
  /\ UNCHANGED <<market, run, chatVars, changes, requests, ghostVars>>

\* finalizeEvent: advanceLeader or setTargetPriceTriggered, by subscription id.
FinalizeEvent(h) ==
  LET e == task[h] IN
  /\ Finalize(h)
  /\ IF e.type = "leader"
       THEN AdvanceLeader(e.sub, e.arg)
       ELSE SetTargetPriceTriggered(e.sub)
  /\ UNCHANGED <<market, run, chatVars, changes, requests, ghostVars>>

HandlerStep(h) ==
  \/ SendEvent(h) \/ FinalizeEvent(h)
  \/ /\ \/ Read(h) \/ Claim(h) \/ MarkSent(h) \/ RecordFailure(h) \/ MongoError(h)
        \/ Settle(h)
     /\ UNCHANGED trackingVars

-----------------------------------------------------------------------------
(* BotService and TrackingSubscriptionService *)

Request ==
  /\ requests < MaxRequests
  /\ requests' = requests + 1

\* A link is checked and its product becomes the chat's pending product.
CheckProduct(s) ==
  /\ market.leader # NoOffer
  /\ Request
  /\ pending' = [pending EXCEPT ![s] = market.leader]
  /\ UNCHANGED <<eventVars, market, doc, run, save, changes, ghostVars>>

\* completeSubscription and the findOne of upsert, to see whether the target price
\* changes.  The product stays pending, so that another update, such as the button
\* pressed again, may save it as well.
UpsertRead(u, s, t) ==
  /\ save[u].step = "idle"
  /\ pending[s] # NoOffer
  /\ save' = [save EXCEPT ![u] =
       [step |-> "write", sub |-> s, leader |-> pending[s], target |-> t,
        changed |-> ~doc[s].stored \/ doc[s].target # t]]
  /\ UNCHANGED <<eventVars, market, doc, run, pending, changes, requests, ghostVars>>

\* upsert: updateOne, with the targetPriceTriggered reset findOne decided on.
UpsertWrite(u) ==
  LET c == save[u]
      s == c.sub
  IN
  /\ c.step = "write"
  /\ Update(s, [doc[s] EXCEPT !.stored = TRUE, !.active = TRUE,
                               !.target = c.target, !.leader = c.leader,
                               !.triggered = @ /\ ~c.changed])
  /\ dipTold' = IF doc[s].stored /\ doc[s].target = c.target
                   THEN dipTold ELSE [dipTold EXCEPT ![s] = 0]
  /\ wasReset' = [wasReset EXCEPT ![s] = @ \/ (c.changed /\ doc[s].triggered)]
  /\ save' = [save EXCEPT ![u].step = "confirm"]
  /\ UNCHANGED <<eventVars, market, run, pending, changes, requests, news>>

\* The conversation is deleted, and the reply shows the chat the product's leader.
Confirm(u) ==
  /\ save[u].step = "confirm"
  /\ pending' = [pending EXCEPT ![save[u].sub] = NoOffer]
  /\ news' = [news EXCEPT ![save[u].sub] = save[u].leader]
  /\ save' = [save EXCEPT ![u] = IdleSave]
  /\ UNCHANGED <<eventVars, market, doc, run, changes, requests, dipTold, wasReset>>

\* The save rejects: the product stays pending, the user is asked to try again.
UpsertFails(u) ==
  /\ save[u].step = "write"
  /\ Fault("chat")
  /\ save' = [save EXCEPT ![u] = IdleSave]
  /\ UNCHANGED <<status, stage, task, told, applied, market, doc, run, pending, changes,
                 requests, ghostVars>>

\* /cancel, /start or a new link while a product is pending.
Cancel(s) ==
  /\ pending[s] # NoOffer
  /\ pending' = [pending EXCEPT ![s] = NoOffer]
  /\ UNCHANGED <<eventVars, market, doc, run, save, changes, requests, ghostVars>>

\* deactivateForUser
Stop(s) ==
  /\ doc[s].active
  /\ Request
  /\ doc' = [doc EXCEPT ![s].active = FALSE]
  /\ UNCHANGED <<eventVars, market, run, chatVars, changes, ghostVars>>

-----------------------------------------------------------------------------
\* A restart: runs, handlers and the conversations Map are gone.
Restart ==
  /\ Crash
  /\ run' = [m \in Monitors |-> IdleRun]
  /\ pending' = [s \in Subs |-> NoOffer]
  /\ save' = [u \in Savers |-> IdleSave]
  /\ UNCHANGED <<market, doc, changes, requests, ghostVars>>

TrackingNext ==
  \/ ChangeMarket \/ Restart
  \/ \E m \in Monitors : FindActive(m) \/ RunStep(m)
  \/ \E h \in Handlers : HandlerStep(h) \/ \E e \in Events : TakeUp(h, e)
  \/ \E s \in Subs : CheckProduct(s) \/ Cancel(s) \/ Stop(s)
  \/ \E u \in Savers : \/ UpsertWrite(u) \/ UpsertFails(u) \/ Confirm(u)
                       \/ \E s \in Subs, t \in Targets : UpsertRead(u, s, t)

TrackingSpec == TrackingInit /\ [][TrackingNext]_allVars

\* Every run publishes the event again: MonitoringService finds the same difference
\* as long as neither the subscription nor the market changes.
Repeated(e) ==
  LET d == doc[e.sub] IN
  /\ d.active
  /\ \/ /\ e.type = "leader"
        /\ market.leader = e.arg
        /\ d.leader \notin {NoOffer, e.arg}
        /\ d.version + 1 = e.seq
     \/ /\ e.type = "target"
        /\ Reached(market, d.target)
        /\ ~d.triggered
        /\ d.target = e.arg
        /\ d.cycle = e.seq

\* The cron job starts a run every minute and every call of a run, a handler or
\* an upsert returns.  An event is sure to be taken up only while the runs keep
\* publishing it (EventuallySent of NotificationDelivery); one that no run wants any
\* more may wait for ever once its attempts are used up.  The market and the chats
\* owe nothing.
TrackingFairness ==
  /\ \A m \in Monitors : WF_allVars(FindActive(m)) /\ WF_allVars(RunStep(m))
  /\ \A h \in Handlers : WF_allVars(HandlerStep(h))
  /\ \A e \in Events : WF_allVars(Repeated(e) /\ \E h \in Handlers : TakeUp(h, e))
  /\ \A u \in Savers : WF_allVars(UpsertWrite(u)) /\ WF_allVars(Confirm(u))

FairTrackingSpec == TrackingSpec /\ TrackingFairness

-----------------------------------------------------------------------------
(* Properties. *)

\* Every variable has its type; a subscription is active only when it is stored.
TrackingTypeOK ==
  /\ EventTypeOK
  /\ market \in Snapshots
  /\ doc \in [Subs -> Docs]
  /\ \A s \in Subs : doc[s].active => doc[s].stored
  /\ \A m \in Monitors :
       /\ run[m].step \in {"idle", "fetch", "leader", "target"}
       /\ run[m].copies \in [DOMAIN run[m].copies -> Docs]
       /\ run[m].step = "idle" <=> DOMAIN run[m].copies = {}
       /\ run[m].step = "target" => run[m].at \in DOMAIN run[m].copies
       /\ run[m].snapshot \in Snapshots \cup {IdleRun.snapshot}
  /\ pending \in [Subs -> Offers \cup {NoOffer}]
  /\ \A u \in Savers :
       /\ save[u].step \in {"idle", "write", "confirm"}
       /\ save[u].step = "idle" \/ save[u].sub \in Subs
       /\ save[u].leader \in Offers \cup {NoOffer}
       /\ save[u].target \in Targets \cup {NoTarget}
       /\ save[u].changed \in BOOLEAN
  /\ news \in [Subs -> Offers \cup {NoOffer}]
  /\ dipTold \in [Subs -> Nat]
  /\ wasReset \in [Subs -> BOOLEAN]

\* compareLeader numbers the next change leaderChangeVersion + 1, and publish()
\* ignores an identifier that was sent.  So no sent identifier may be ahead of the
\* version: a run that reads the subscription now always finds a number that is
\* free, whatever stale runs, concurrent handlers, upserts and restarts did.
VersionCoversSent ==
  \A s \in Subs, n \in 1..MaxSeq, o \in Offers :
    status[LeaderId(s, n, o)] = "sent" => n <= doc[s].version

\* The identifier of the subscription's next target message.
NextTargetId(s) == TargetId(s, doc[s].cycle, doc[s].target)

\* The same for target prices: while a subscription is armed, the identifier of
\* its next target message (its cycle and target price) was not sent before, or
\* publish() would swallow the message.
ArmedTargetCanFire ==
  \A s \in Subs :
    doc[s].active /\ ~doc[s].triggered /\ NextTargetId(s) \in Events
      => status[NextTargetId(s)] # "sent"

\* What can silence an armed subscription is only a save that reset its trigger,
\* since upsert starts no cycle: a changed target price, or a second first save.
\* Runs, stale as they are, handlers, failures and restarts never do.
SilencedOnlyByReset ==
  \A s \in Subs :
    doc[s].active /\ ~doc[s].triggered /\ NextTargetId(s) \in Events
      /\ status[NextTargetId(s)] = "sent"
      => wasReset[s]

\* A subscription counts as triggered only when the chat was told that its present
\* target price was reached.  It takes a chat that keeps its target price, since
\* finalizeEvent triggers by subscription whatever the target price is by then, and
\* no restart between claim and send.
TriggeredWasTold ==
  \A s \in Subs :
    doc[s].active /\ doc[s].triggered /\ NextTargetId(s) \in Events
      => told[NextTargetId(s)] > 0

\* The chat is told at most once that its target was reached until the price has
\* been above the target again.  It takes runs of a SKU that do not overlap.
OncePerDip == \A s \in Subs : dipTold[s] <= 1

Settled(s) == doc[s].active /\ market.leader # NoOffer

\* Once the market stays as it is, the stored leader of every active subscription
\* becomes the leader of the market and stays it.
LeaderConverges ==
  <>[](\A s \in Subs : Settled(s) => doc[s].leader = market.leader)

\* And the last leader the chat was shown, in the reply to its subscription or in
\* a message, becomes the leader of the market.  It need not: one of two messages sent
\* by two handlers, or the reply to a save, may reach the chat after a newer message.
NewsConverges ==
  <>[](\A s \in Subs : Settled(s) => news[s] = market.leader)
=============================================================================
