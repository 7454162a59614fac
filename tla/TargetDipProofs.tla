---------------------------- MODULE TargetDipProofs ----------------------------
(***************************************************************************)
(* Proofs about the target messages of PriceTracking: what a chat was told *)
(* when its subscription counts as triggered, and how often it is told of  *)
(* one dip of the price, for any number of chats, offers and handlers and  *)
(* any bounds.                                                             *)
(***************************************************************************)
EXTENDS PriceTrackingProofs

USE DEF Statuses, Stages, Fault, Goto, chatVars, ghostVars

\* No handler is stopped before it has settled its event.
HandlersFinish == Faults \cap {"crash", "mongo", "late"} = {}

\* No chat ever asks for another target price.
OneTarget == \A t, u \in Targets : t = u

\* The event was in an earlier cycle, or its subscription is triggered in this one.
Spent(e) ==
  \/ e.seq < doc[e.sub].cycle
  \/ e.seq = doc[e.sub].cycle /\ doc[e.sub].triggered

\* The subscription was written for the event, which is marked sent next.
Finished(e) ==
  \/ status[e] = "sent"
  \/ \E h \in Handlers : task[h] = e /\ stage[h] = "mark"

\* Every handler has its event for itself and knows its status; a "sending" event has
\* its handler, so none is ever resumed.
HandlersKnow ==
  /\ \A g, h \in Handlers : stage[g] # "idle" /\ task[g] = task[h] => g = h
  /\ \A h \in Handlers :
       /\ stage[h] \notin {"resume", "resumeMark"}
       /\ stage[h] \in {"read", "claim"} => status[task[h]] \in {"queued", "failed"}
       /\ Claimed(h) => status[task[h]] = "sending"
       /\ stage[h] \in {"finalize", "mark"} => told[task[h]] > 0
  /\ \A e \in Events :
       /\ status[e] = "sending" => \E h \in Handlers : task[h] = e /\ Claimed(h)
       /\ status[e] = "sent" => told[e] > 0

\* The events a subscription has left behind were finished, each in its own cycle.
SpentAreFinished == \A e \in TargetIds : Spent(e) => Finished(e)

TriggerInv == TargetInv /\ HandlersKnow /\ SpentAreFinished

-----------------------------------------------------------------------------
(* The handlers. *)

LEMMA HandlersKnowInit == TrackingInit => HandlersKnow
<1> SUFFICES ASSUME TrackingInit PROVE HandlersKnow
  OBVIOUS
<1>1. EventInit
  BY DEF TrackingInit
<1> QED
  BY <1>1 DEF EventInit, HandlersKnow, Claimed

\* The steps of EventNext that PriceTracking takes when no handler is stopped.
SteadyNext ==
  \/ \E e \in Events : Insert(e)
  \/ \E h \in Handlers, e \in Events :
       /\ status[e] \in {"queued", "failed", "sending"}
       /\ \A g \in Handlers : task[g] # e
       /\ Start(h, e)
  \/ \E h \in Handlers : \/ Read(h) \/ Claim(h) \/ Send(h) \/ Finalize(h) \/ MarkSent(h)
                          \/ RecordFailure(h) \/ Settle(h)
  \/ FaultElsewhere

LEMMA TrackingStepIsSteady ==
  ASSUME HandlersFinish, [TrackingNext]_allVars
  PROVE  [SteadyNext]_eventVars
<1> USE DEF SteadyNext
<1>1. CASE ChangeMarket
  BY <1>1 DEF ChangeMarket
<1>2. ~Restart
  BY DEF HandlersFinish, Restart, Crash
<1>3. ASSUME NEW m \in Monitors, FindActive(m) \/ Fetch(m) PROVE UNCHANGED eventVars
  BY <1>3 DEF FindActive, Fetch
<1>4. ASSUME NEW m \in Monitors, NEW s \in Subs, CompareLeader(m, s)
      PROVE  [SteadyNext]_eventVars
  BY <1>4 DEF CompareLeader, Publish
<1>5. ASSUME NEW m \in Monitors, CompareTarget(m) PROVE [SteadyNext]_eventVars
  BY <1>5 DEF CompareTarget, Publish
<1>6. ASSUME NEW m \in Monitors, RunFails(m) PROVE FaultElsewhere
  BY <1>6 DEF RunFails, FaultElsewhere, FaultsElsewhere
<1>7. ASSUME NEW h \in Handlers, HandlerStep(h) PROVE SteadyNext
  BY <1>7 DEF HandlerStep, SendEvent, FinalizeEvent, MongoError, HandlersFinish
<1>8. ASSUME NEW h \in Handlers, NEW e \in Events, TakeUp(h, e) PROVE SteadyNext
  BY <1>8 DEF TakeUp
<1>9. ASSUME NEW s \in Subs, CheckProduct(s) \/ Cancel(s) \/ Stop(s)
      PROVE  UNCHANGED eventVars
  BY <1>9 DEF CheckProduct, Cancel, Stop
<1>10. ASSUME NEW u \in Savers, NEW s \in Subs, NEW t \in Targets, UpsertRead(u, s, t)
       PROVE  UNCHANGED eventVars
  BY <1>10 DEF UpsertRead
<1>11. ASSUME NEW u \in Savers, UpsertWrite(u) \/ Confirm(u) PROVE UNCHANGED eventVars
  BY <1>11 DEF UpsertWrite, Confirm
<1>12. ASSUME NEW u \in Savers, UpsertFails(u) PROVE FaultElsewhere
  BY <1>12 DEF UpsertFails, FaultElsewhere, FaultsElsewhere
<1>13. CASE UNCHANGED allVars
  BY <1>13 DEF allVars
<1> QED
  BY <1>1, <1>2, <1>3, <1>4, <1>5, <1>6, <1>7, <1>8, <1>9, <1>10, <1>11, <1>12,
     <1>13
  DEF TrackingNext, RunStep

\* Handlers keep what they know, and what is finished stays finished.
LEMMA HandlersStayInformed ==
  ASSUME EventTypeOK, HandlersKnow, [SteadyNext]_eventVars
  PROVE  HandlersKnow' /\ \A e \in Events : Finished(e) => Finished(e)'
<1> DEFINE Good == HandlersKnow' /\ \A e \in Events : Finished(e) => Finished(e)'
<1> USE DEF EventTypeOK, HandlersKnow, Finished, Claimed
<1>1. ASSUME NEW e \in Events, Insert(e) PROVE Good
  BY <1>1 DEF Insert
<1>2. ASSUME NEW h \in Handlers, NEW e \in Events,
             status[e] \in {"queued", "failed", "sending"},
             \A g \in Handlers : task[g] # e, Start(h, e)
      PROVE  Good
  BY <1>2 DEF Start
<1>3. ASSUME NEW h \in Handlers, Read(h) PROVE Good
  <2>1. task[h] \in Events /\ status[task[h]] \in {"queued", "failed"}
    BY <1>3 DEF Read
  <2>2. AfterRead["queued"] = "claim" /\ AfterRead["failed"] = "claim"
    BY DEF AfterRead
  <2>3. stage' = [stage EXCEPT ![h] = "claim"]
    BY <1>3, <2>1, <2>2 DEF Read
  <2> QED
    BY <1>3, <2>1, <2>3 DEF Read
<1>4. ASSUME NEW h \in Handlers, Claim(h) PROVE Good
  BY <1>4 DEF Claim, ClaimWith
<1>5. ASSUME NEW h \in Handlers, Send(h) PROVE Good
  BY <1>5 DEF Send
<1>6. ASSUME NEW h \in Handlers, Finalize(h) PROVE Good
  BY <1>6 DEF Finalize
<1>7. ASSUME NEW h \in Handlers, MarkSent(h) PROVE Good
  BY <1>7 DEF MarkSent
<1>8. ASSUME NEW h \in Handlers, RecordFailure(h) PROVE Good
  BY <1>8 DEF RecordFailure
<1>9. ASSUME NEW h \in Handlers, Settle(h) PROVE Good
  BY <1>9 DEF Settle
<1>10. CASE FaultElsewhere \/ UNCHANGED eventVars
  BY <1>10 DEF FaultElsewhere, eventVars
<1> QED
  BY <1>1, <1>2, <1>3, <1>4, <1>5, <1>6, <1>7, <1>8, <1>9, <1>10
  DEF SteadyNext

-----------------------------------------------------------------------------
(* The triggers. *)

\* Of all writes only the one of finalizeEvent uses up an identifier: rearming starts
\* a cycle, and the upsert and the leader leave the trigger or reset it.
LEMMA OnlyFinalizeSpends ==
  ASSUME TargetInv, [TrackingNext]_allVars, NEW e \in TargetIds, Spent(e)', ~Spent(e)
  PROVE  \E h \in Handlers :
           /\ FinalizeEvent(h)
           /\ task[h] \in TargetIds /\ task[h].sub = e.sub
           /\ doc[e.sub].cycle = e.seq
<1> DEFINE Spends == \E h \in Handlers :
                       /\ FinalizeEvent(h)
                       /\ task[h] \in TargetIds /\ task[h].sub = e.sub
                       /\ doc[e.sub].cycle = e.seq
<1>0. /\ StoredInv /\ e.sub \in Subs /\ e.seq \in Nat
      /\ doc[e.sub].cycle \in Nat
  BY TargetIdFields DEF TargetInv, StoredInv
<1> DEFINE Same(d) == /\ d.cycle = doc[e.sub].cycle
                      /\ d.triggered => doc[e.sub].triggered
<1>1. ~Same(doc'[e.sub])
  BY <1>0 DEF Spent
<1>2. ASSUME NEW x, NEW d, Update(x, d), x = e.sub => Same(d) PROVE FALSE
  BY <1>0, <1>1, <1>2 DEF Update, StoredInv
<1>3. ~UNCHANGED doc
  BY <1>1
<1>4. ASSUME NEW m \in Monitors, NEW s \in Subs, CompareLeader(m, s) PROVE FALSE
  <2> DEFINE d == [doc[s] EXCEPT !.leader = run[m].snapshot.leader]
  <2>1. Update(s, d)
    BY <1>3, <1>4 DEF CompareLeader, SetLastLeader, Update
  <2>2. s = e.sub => Same(d)
    BY <1>0 DEF StoredInv, NoDoc
  <2> HIDE DEF d, Same
  <2> QED
    BY <1>2, <2>1, <2>2
<1>5. ASSUME NEW m \in Monitors, CompareTarget(m) PROVE FALSE
  <2> DEFINE s == run[m].at
             d == [doc[s] EXCEPT !.triggered = FALSE, !.cycle = @ + 1]
  <2>1. Update(s, d) /\ doc[s].triggered
    BY <1>3, <1>5 DEF CompareTarget, RearmTargetPrice, Rearm
  <2>2. s \in Subs => d.cycle = doc[s].cycle + 1 /\ ~d.triggered
    BY <1>0 DEF StoredInv, NoDoc
  <2>3. s \in DOMAIN doc => doc'[s] = d
    BY <2>1 DEF Update
  <2>4. s # e.sub
    <3> SUFFICES ASSUME s = e.sub PROVE FALSE
      OBVIOUS
    <3>1. doc'[e.sub].cycle = doc[e.sub].cycle + 1 /\ ~doc'[e.sub].triggered
      BY <1>0, <2>2, <2>3 DEF StoredInv
    <3> QED
      BY <1>0, <2>1, <3>1 DEF Spent
  <2> HIDE DEF d, s
  <2> QED
    BY <1>2, <2>1, <2>4
<1>6. ASSUME NEW h \in Handlers, FinalizeEvent(h) PROVE Spends
  <2> DEFINE s == task[h].sub
             d1 == [doc[s] EXCEPT !.leader = task[h].arg, !.version = @ + 1]
             d2 == [doc[s] EXCEPT !.triggered = TRUE]
  <2>0. task[h] \in Events
    BY <1>6 DEF FinalizeEvent, Finalize, TargetInv, EventTypeOK
  <2>1. \/ task[h].type = "leader" /\ Update(s, d1)
        \/ task[h].type # "leader" /\ Update(s, d2)
    BY <1>6 DEF FinalizeEvent, AdvanceLeader, SetTargetPriceTriggered
  <2>2. s = e.sub => Same(d1) /\ d2.cycle = doc[e.sub].cycle
    BY <1>0 DEF StoredInv, NoDoc
  <2>3. task[h].type # "leader" /\ s = e.sub
    <3> HIDE DEF d1, d2, s, Same
    <3> QED
      BY <1>2, <2>1, <2>2
  <2>4. doc[e.sub].cycle = e.seq
    <3>1. doc'[e.sub].cycle = doc[e.sub].cycle
      <4> HIDE DEF d1, d2
      <4> QED
        BY <1>0, <2>1, <2>2, <2>3 DEF Update, StoredInv
    <3> QED
      BY <1>0, <3>1 DEF Spent
  <2> QED
    BY <1>6, <2>0, <2>3, <2>4, TargetIdFields
<1>7. ASSUME NEW u \in Savers, UpsertWrite(u) PROVE FALSE
  <2> DEFINE s == save[u].sub
             d == [doc[s] EXCEPT !.stored = TRUE, !.active = TRUE,
                                 !.target = save[u].target, !.leader = save[u].leader,
                                 !.triggered = doc[s].triggered /\ ~save[u].changed]
  <2>1. Update(s, d) /\ s \in Subs
    BY <1>0, <1>7 DEF UpsertWrite, StoredInv
  <2>2. d.cycle = doc[s].cycle
    BY <1>0, <2>1 DEF StoredInv, NoDoc
  <2>3. d.triggered => doc[s].triggered
    BY <1>0, <2>1 DEF StoredInv, NoDoc
  <2> HIDE DEF d
  <2> QED
    BY <1>2, <2>1, <2>2, <2>3
<1>8. ASSUME NEW s \in Subs, Stop(s) PROVE FALSE
  BY <1>0, <1>1, <1>8 DEF Stop, StoredInv, NoDoc
<1> QED
  BY <1>3, <1>4, <1>5, <1>6, <1>7, <1>8
  DEF TrackingNext, ChangeMarket, Restart, FindActive, RunStep, Fetch, RunFails,
      HandlerStep, SendEvent, TakeUp, CheckProduct, UpsertRead, Confirm, UpsertFails,
      Cancel, allVars, trackingVars

\* With one target price a chat has one event in a cycle.
LEMMA OneEventPerCycle ==
  ASSUME OneTarget, NEW e \in TargetIds, NEW f \in TargetIds,
         e.sub = f.sub, e.seq = f.seq
  PROVE  e = f
<1>1. e.arg = f.arg
  BY DEF OneTarget, TargetIds
<1> QED
  BY <1>1 DEF TargetIds

\* The event that is finalized is not finished, so it is of the present cycle: what is
\* behind has been finished.
LEMMA FinalizedIsCurrent ==
  ASSUME TriggerInv, NEW h \in Handlers, FinalizeEvent(h), task[h] \in TargetIds
  PROVE  /\ stage[h] = "finalize" /\ status[task[h]] = "sending"
         /\ ~Finished(task[h])
         /\ task[h].seq = doc[task[h].sub].cycle /\ ~doc[task[h].sub].triggered
<1> DEFINE e == task[h]
<1>1. stage[h] = "finalize" /\ status[e] = "sending"
  BY DEF TriggerInv, HandlersKnow, FinalizeEvent, Finalize, Claimed
<1>2. ~Finished(e)
  BY <1>1 DEF TriggerInv, HandlersKnow, Finished
<1>3. ~Spent(e)
  BY <1>2 DEF TriggerInv, SpentAreFinished
<1>4. e.seq <= doc[e.sub].cycle
  BY <1>1 DEF TriggerInv, TargetInv, TargetIdsInv
<1>5. e.seq \in Nat /\ doc[e.sub].cycle \in Nat
  BY TargetIdFields DEF TriggerInv, TargetInv, StoredInv
<1> QED
  BY <1>1, <1>2, <1>3, <1>4, <1>5 DEF Spent

LEMMA SpentStayFinished ==
  ASSUME OneTarget, HandlersFinish, TriggerInv, [TrackingNext]_allVars
  PROVE  SpentAreFinished'
<1> SUFFICES ASSUME NEW e \in TargetIds, Spent(e)' PROVE Finished(e)'
  BY DEF SpentAreFinished
<1>1. e \in Events
  BY TargetIdFields
<1>2. CASE Spent(e)
  <2>1. Finished(e)
    BY <1>2 DEF TriggerInv, SpentAreFinished
  <2>2. Finished(e) => Finished(e)'
    BY <1>1, TrackingStepIsSteady, HandlersStayInformed DEF TriggerInv, TargetInv
  <2> QED
    BY <2>1, <2>2
<1>3. CASE ~Spent(e)
  <2>1. PICK h \in Handlers : /\ FinalizeEvent(h)
                              /\ task[h] \in TargetIds /\ task[h].sub = e.sub
                              /\ doc[e.sub].cycle = e.seq
    BY <1>3, OnlyFinalizeSpends DEF TriggerInv
  <2>2. stage[h] = "finalize" /\ task[h].seq = doc[task[h].sub].cycle
    BY <2>1, FinalizedIsCurrent
  <2>3. task[h] = e
    BY <2>1, <2>2, OneEventPerCycle
  <2>4. task'[h] = e /\ stage'[h] = "mark"
    BY <2>1, <2>2, <2>3 DEF FinalizeEvent, Finalize, TriggerInv, TargetInv, EventTypeOK
  <2> QED
    BY <2>4 DEF Finished
<1> QED
  BY <1>2, <1>3

LEMMA TriggerInvInit == TrackingInit => TriggerInv
<1> SUFFICES ASSUME TrackingInit PROVE SpentAreFinished
  BY TargetInvInit, HandlersKnowInit DEF TriggerInv
<1>1. \A s \in Subs : doc[s].cycle = 0 /\ ~doc[s].triggered
  BY DEF TrackingInit, LegacyDoc, NoDoc
<1> QED
  BY <1>1, TargetIdFields DEF SpentAreFinished, Spent

LEMMA TriggerInvariant ==
  ASSUME OneTarget, HandlersFinish
  PROVE  TrackingSpec => []TriggerInv
<1>1. TrackingSpec => []EventTypeOK
  BY TrackingImplementsEvents, EventTypeCorrect, PTL
<1>2. TriggerInv /\ EventTypeOK' /\ [TrackingNext]_allVars => TriggerInv'
  <2> SUFFICES ASSUME TriggerInv, EventTypeOK', [TrackingNext]_allVars PROVE TriggerInv'
    OBVIOUS
  <2>1. TargetInv'
    BY StoredStays, TargetIdsStay DEF TriggerInv, TargetInv
  <2>2. HandlersKnow'
    BY TrackingStepIsSteady, HandlersStayInformed DEF TriggerInv, TargetInv
  <2> QED
    BY <2>1, <2>2, SpentStayFinished DEF TriggerInv
<1> QED
  BY <1>1, <1>2, TriggerInvInit, PTL DEF TrackingSpec

\* TriggeredWasTold, for any number of chats, offers, handlers, saves and overlapping
\* runs, when there is one target price and neither a restart nor a MongoDB error stops
\* a handler.  Messages that Telegram rejects, delivered or not, and rejected runs and
\* saves are allowed.
THEOREM TriggersWereTold ==
  ASSUME OneTarget, HandlersFinish
  PROVE  TrackingSpec => []TriggeredWasTold
<1>1. TriggerInv => TriggeredWasTold
  <2> SUFFICES ASSUME TriggerInv, NEW s \in Subs, doc[s].triggered,
                      NextTargetId(s) \in Events
               PROVE  told[NextTargetId(s)] > 0
    BY DEF TriggeredWasTold
  <2>1. NextTargetId(s).sub = s /\ NextTargetId(s).seq = doc[s].cycle /\ NextTargetId(s) \in TargetIds
    BY TargetIdFields DEF NextTargetId, TargetId
  <2>2. Finished(NextTargetId(s))
    BY <2>1 DEF Spent, TriggerInv, SpentAreFinished
  <2> QED
    BY <2>1, <2>2, TargetIdFields DEF Finished, TriggerInv, HandlersKnow
<1> QED
  BY <1>1, TriggerInvariant, PTL

-----------------------------------------------------------------------------
(* The dips of the price. *)

OneRunAtATime == \A m, n \in Monitors : m = n

InDip(s) == Reached(market, doc[s].target)

\* The run has its snapshot and has not compared the target price of s yet.
Comparing(m, s) ==
  run[m].step \in {"leader", "target"} /\ s \in DOMAIN run[m].copies

\* While no other run rearms it, a subscription is in the cycle of the run's copy, and
\* a trigger in the copy is the work of an event that is finished.
CopyAgrees(m, s) ==
  /\ run[m].copies[s].cycle = doc[s].cycle
  /\ run[m].copies[s].target = doc[s].target
  /\ run[m].copies[s].triggered /\ NextTargetId(s) \in TargetIds
       => Finished(NextTargetId(s))

CopiesAgree == \A m \in Monitors : \A s \in DOMAIN run[m].copies : CopyAgrees(m, s)

\* The chat was told in the last cycle, and the price has not been at the target since
\* the subscription was rearmed: nothing is published, and no run is about to.
Quiet(s) ==
  /\ ~InDip(s)
  /\ ~doc[s].triggered
  /\ status[NextTargetId(s)] = "absent"
  /\ \A m \in Monitors : Comparing(m, s) => ~Reached(run[m].snapshot, doc[s].target)

\* A chat that was told of this dip was told in this cycle, or the dip is over; and the
\* run that is about to rearm its subscription does so after the dip.
DipKept(s) ==
  /\ dipTold[s] <= 1
  /\ dipTold[s] > 0 /\ NextTargetId(s) \in TargetIds => told[NextTargetId(s)] > 0 \/ Quiet(s)
  /\ dipTold[s] > 0 =>
       \A m \in Monitors :
         Comparing(m, s) /\ run[m].copies[s].triggered
           /\ ~Reached(run[m].snapshot, doc[s].target) => ~InDip(s)

\* A chat is told nothing before its subscription is stored.
ToldAreStored == \A s \in Subs : ~doc[s].stored => dipTold[s] = 0

DipInv ==
  /\ TriggerInv /\ ToldInv /\ TrackingTyped
  /\ CopiesAgree /\ ToldAreStored
  /\ \A s \in Subs : DipKept(s)

\* What a step leaves of the target price of a subscription; it may reset the trigger.
SameTarget(s) ==
  /\ doc'[s].target = doc[s].target
  /\ doc'[s].cycle = doc[s].cycle
  /\ doc'[s].triggered => doc[s].triggered

\* A step that may end the dip or close a cycle, but starts neither for s.
Undisturbed(s) ==
  /\ SameTarget(s)
  /\ dipTold'[s] = dipTold[s]
  /\ InDip(s)' => InDip(s)
  /\ NextTargetId(s) \in TargetIds =>
       /\ told[NextTargetId(s)] > 0 => told'[NextTargetId(s)] > 0
       /\ Quiet(s) => status'[NextTargetId(s)] = "absent"
  /\ \A m \in Monitors :
       Comparing(m, s)' => /\ Comparing(m, s)
                           /\ run'[m].copies[s] = run[m].copies[s]
                           /\ run'[m].snapshot = run[m].snapshot

LEMMA UndisturbedDipsAreKept ==
  ASSUME NEW s \in Subs, DipKept(s), Undisturbed(s)
  PROVE  DipKept(s)'
<1>1. /\ NextTargetId(s)' = NextTargetId(s)
      /\ InDip(s)' => InDip(s)
  BY DEF Undisturbed, SameTarget, NextTargetId
<1>2. NextTargetId(s) \in TargetIds /\ Quiet(s) => Quiet(s)'
  BY <1>1 DEF Undisturbed, SameTarget, Quiet
<1> QED
  BY <1>1, <1>2 DEF Undisturbed, SameTarget, DipKept

LEMMA NewDipsAreKept ==
  ASSUME NEW s \in Subs, dipTold'[s] = 0
  PROVE  DipKept(s)'
  BY DEF DipKept

\* The leader of a subscription does not matter for its target price.
LEMMA LeaderWrites ==
  ASSUME DocsTyped, NEW x, NEW o,
         \/ Update(x, [doc[x] EXCEPT !.leader = o])
         \/ Update(x, [doc[x] EXCEPT !.leader = o, !.version = @ + 1])
  PROVE  \A s \in Subs : SameTarget(s)
<1> DEFINE Keeps(d) == /\ d.stored = doc[x].stored /\ d.target = doc[x].target
                       /\ d.cycle = doc[x].cycle /\ d.triggered = doc[x].triggered
<1>1. ASSUME NEW d, Update(x, d), x \in Subs => Keeps(d)
      PROVE  \A s \in Subs : SameTarget(s)
  BY <1>1 DEF DocsTyped, Update, SameTarget
<1>2. x \in Subs =>
        /\ Keeps([doc[x] EXCEPT !.leader = o])
        /\ Keeps([doc[x] EXCEPT !.leader = o, !.version = @ + 1])
  BY DEF DocsTyped, Docs
<1> HIDE DEF Keeps
<1> QED
  BY <1>1, <1>2

\* The steps that rearm and trigger a subscription, and a save that found none.
Rearms(m, s) ==
  /\ CompareTarget(m) /\ run[m].at = s
  /\ ~Reached(run[m].snapshot, run[m].copies[s].target)
  /\ run[m].copies[s].triggered
  /\ doc'[s] = [doc[s] EXCEPT !.triggered = FALSE, !.cycle = @ + 1]
  /\ UNCHANGED eventVars

Triggers(h, s) ==
  /\ FinalizeEvent(h) /\ task[h] \in TargetIds /\ task[h].sub = s
  /\ doc'[s] = [doc[s] EXCEPT !.triggered = TRUE]

Creates(s) ==
  /\ \E u \in Savers : UpsertWrite(u) /\ save[u].sub = s
  /\ ~doc[s].stored /\ dipTold'[s] = 0

LEMMA RunRearms ==
  ASSUME StoredInv, DocsTyped, NEW m \in Monitors, CompareTarget(m), NEW s \in Subs
  PROVE  SameTarget(s) \/ Rearms(m, s)
<1> DEFINE x == run[m].at
           d == [doc[x] EXCEPT !.triggered = FALSE, !.cycle = @ + 1]
<1>1. CASE UNCHANGED doc
  BY <1>1 DEF SameTarget
<1>2. CASE ~UNCHANGED doc
  <2>1. /\ Update(x, d) /\ run[m].copies[x].triggered /\ UNCHANGED eventVars
        /\ ~Reached(run[m].snapshot, run[m].copies[x].target)
    BY <1>2 DEF CompareTarget, RearmTargetPrice, Rearm
  <2>2. s # x => SameTarget(s)
    BY <2>1 DEF Update, SameTarget, DocsTyped
  <2>3. s = x => doc'[s] = d
    BY <2>1 DEF Update, DocsTyped
  <2> QED
    BY <2>1, <2>2, <2>3 DEF Rearms
<1> QED
  BY <1>1, <1>2

LEMMA HandlerTriggers ==
  ASSUME EventTypeOK, DocsTyped, NEW h \in Handlers, FinalizeEvent(h), NEW s \in Subs
  PROVE  SameTarget(s) \/ Triggers(h, s)
<1> DEFINE x == task[h].sub
           d == [doc[x] EXCEPT !.triggered = TRUE]
<1>1. task[h] \in Events
  BY DEF FinalizeEvent, Finalize, EventTypeOK
<1>2. CASE task[h].type = "leader"
  BY <1>2, LeaderWrites DEF FinalizeEvent, AdvanceLeader
<1>3. CASE task[h].type # "leader"
  <2>1. Update(x, d) /\ task[h] \in TargetIds
    BY <1>1, <1>3, TargetIdFields DEF FinalizeEvent, SetTargetPriceTriggered
  <2>2. s # x => SameTarget(s)
    BY <2>1 DEF Update, SameTarget, DocsTyped
  <2>3. s = x => doc'[s] = d
    BY <2>1 DEF Update, DocsTyped
  <2> QED
    BY <2>1, <2>2, <2>3 DEF Triggers
<1> QED
  BY <1>2, <1>3

\* With one target price, a save of a stored subscription leaves it or resets it.
LEMMA UpsertCreates ==
  ASSUME OneTarget, StoredInv, TrackingTyped, ToldAreStored, NEW u \in Savers,
         UpsertWrite(u), NEW s \in Subs
  PROVE  \/ SameTarget(s) /\ dipTold'[s] = dipTold[s]
         \/ Creates(s)
<1> DEFINE x == save[u].sub
           d == [doc[x] EXCEPT !.stored = TRUE, !.active = TRUE,
                               !.target = save[u].target, !.leader = save[u].leader,
                               !.triggered = doc[x].triggered /\ ~save[u].changed]
<1>0. DocsTyped
  BY DEF TrackingTyped
<1>1. /\ Update(x, d) /\ x \in Subs /\ save[u].target \in Targets
      /\ dipTold' = IF doc[x].stored /\ doc[x].target = save[u].target
                      THEN dipTold ELSE [dipTold EXCEPT ![x] = 0]
  BY DEF UpsertWrite, StoredInv
<1>2. CASE s # x
  BY <1>0, <1>1, <1>2 DEF Update, SameTarget, DocsTyped, TrackingTyped
<1>3. CASE s = x /\ ~doc[x].stored
  BY <1>1, <1>3 DEF Creates, TrackingTyped
<1>4. CASE s = x /\ doc[x].stored
  <2>1. save[u].target = doc[x].target
    BY <1>1, <1>4 DEF StoredInv, OneTarget
  <2>2. /\ d.target = save[u].target /\ d.cycle = doc[x].cycle
        /\ d.triggered => doc[x].triggered
    BY <1>0, <1>1 DEF DocsTyped, Docs
  <2>3. doc'[x] = d
    BY <1>0, <1>1 DEF Update, DocsTyped
  <2> HIDE DEF d
  <2> QED
    BY <1>1, <1>4, <2>1, <2>2, <2>3 DEF SameTarget
<1> QED
  BY <1>2, <1>3, <1>4

\* Nothing else writes the target price of a subscription.
LEMMA WhoWritesTargets ==
  ASSUME OneTarget, HandlersFinish, TargetInv, TrackingTyped, ToldAreStored,
         [TrackingNext]_allVars, NEW s \in Subs
  PROVE  \/ SameTarget(s)
         \/ \E m \in Monitors : Rearms(m, s)
         \/ \E h \in Handlers : Triggers(h, s)
         \/ Creates(s)
<1> DEFINE Written == \/ SameTarget(s)
                      \/ \E m \in Monitors : Rearms(m, s)
                      \/ \E h \in Handlers : Triggers(h, s)
                      \/ Creates(s)
<1>0. StoredInv /\ EventTypeOK /\ DocsTyped
  BY DEF TargetInv, TrackingTyped
<1>1. CASE UNCHANGED doc
  BY <1>1 DEF SameTarget
<1>2. ASSUME NEW m \in Monitors, NEW x \in Subs, CompareLeader(m, x) PROVE Written
  <2>1. UNCHANGED doc \/ Update(x, [doc[x] EXCEPT !.leader = run[m].snapshot.leader])
    BY <1>2 DEF CompareLeader, SetLastLeader, Update
  <2> QED
    BY <1>0, <1>1, <2>1, LeaderWrites
<1>3. ASSUME NEW m \in Monitors, CompareTarget(m) PROVE Written
  BY <1>0, <1>3, RunRearms
<1>4. ASSUME NEW h \in Handlers, FinalizeEvent(h) PROVE Written
  BY <1>0, <1>4, HandlerTriggers
<1>5. ASSUME NEW u \in Savers, UpsertWrite(u) PROVE Written
  BY <1>0, <1>5, UpsertCreates
<1>6. ASSUME NEW x \in Subs, Stop(x) PROVE Written
  BY <1>0, <1>6 DEF Stop, DocsTyped, Docs, SameTarget
<1> QED
  BY <1>1, <1>2, <1>3, <1>4, <1>5, <1>6
  DEF TrackingNext, ChangeMarket, Restart, FindActive, RunStep, Fetch, RunFails,
      HandlerStep, SendEvent, TakeUp, CheckProduct, UpsertRead, Confirm, UpsertFails,
      Cancel, allVars, trackingVars

\* Copies are made of documents and leave the run one by one.
LEMMA WhereCopiesComeFrom ==
  ASSUME RunsTyped, HandlersFinish, [TrackingNext]_allVars,
         NEW m \in Monitors, NEW s \in DOMAIN run'[m].copies
  PROVE  \/ /\ s \in DOMAIN run[m].copies
            /\ run'[m].copies[s] = run[m].copies[s]
         \/ s \in Subs /\ run'[m].copies[s] = doc[s] /\ UNCHANGED doc
<1> DEFINE Kept == \/ /\ s \in DOMAIN run[m].copies
                      /\ run'[m].copies[s] = run[m].copies[s]
                   \/ s \in Subs /\ run'[m].copies[s] = doc[s] /\ UNCHANGED doc
<1> USE DEF RunsTyped, RunTyped, IdleRun, NoCopies
<1>1. CASE UNCHANGED run
  BY <1>1
<1>2. ASSUME NEW n \in Monitors, FindActive(n) PROVE Kept
  BY <1>2 DEF FindActive
<1>3. ASSUME NEW n \in Monitors, Fetch(n) PROVE Kept
  BY <1>3 DEF Fetch
<1>4. ASSUME NEW n \in Monitors, NEW x \in Subs, CompareLeader(n, x) PROVE Kept
  BY <1>4 DEF CompareLeader
<1>5. ASSUME NEW n \in Monitors, CompareTarget(n) PROVE Kept
  BY <1>5 DEF CompareTarget
<1>6. ASSUME NEW n \in Monitors, RunFails(n) PROVE Kept
  BY <1>6 DEF RunFails
<1>7. ~Restart
  BY DEF HandlersFinish, Restart, Crash
<1> QED
  BY <1>1, <1>2, <1>3, <1>4, <1>5, <1>6, <1>7
  DEF TrackingNext, ChangeMarket, RunStep, HandlerStep, SendEvent, FinalizeEvent, TakeUp,
      CheckProduct, UpsertRead, UpsertWrite, Confirm, UpsertFails, Cancel, Stop,
      allVars, trackingVars

LEMMA CopiesStayAgreed ==
  ASSUME OneTarget, HandlersFinish, OneRunAtATime, DipInv, [TrackingNext]_allVars
  PROVE  CopiesAgree'
<1> SUFFICES ASSUME NEW m \in Monitors, NEW s \in DOMAIN run'[m].copies
             PROVE  CopyAgrees(m, s)'
  BY DEF CopiesAgree
<1>1. /\ DocsTyped /\ RunsTyped /\ StoredInv /\ EventTypeOK /\ TrackingTyped
      /\ TriggerInv /\ HandlersKnow /\ ToldAreStored
  BY DEF DipInv, TrackingTyped, TriggerInv, TargetInv
<1>2. \A e \in TargetIds : Finished(e) => Finished(e)'
  BY <1>1, TargetIdFields, TrackingStepIsSteady, HandlersStayInformed
<1>3. ASSUME doc'[s].cycle = doc[s].cycle, doc'[s].target = doc[s].target
      PROVE  /\ NextTargetId(s)' = NextTargetId(s)
             /\ NextTargetId(s) \in TargetIds /\ Finished(NextTargetId(s))
                  => Finished(NextTargetId(s))'
  <2>1. NextTargetId(s)' = NextTargetId(s)
    BY <1>3 DEF NextTargetId
  <2>2. ASSUME NEW e, e = NextTargetId(s), e \in TargetIds, Finished(e)
        PROVE  Finished(NextTargetId(s))'
    BY <1>2, <2>1, <2>2 DEF Finished
  <2> QED
    BY <2>1, <2>2
<1>4. CASE s \in Subs /\ run'[m].copies[s] = doc[s] /\ UNCHANGED doc
  <2>1. doc[s].triggered /\ NextTargetId(s) \in TargetIds => Finished(NextTargetId(s))
    BY <1>1, <1>4 DEF NextTargetId, TargetId, Spent, TriggerInv, SpentAreFinished
  <2> QED
    BY <1>3, <1>4, <2>1 DEF CopyAgrees
<1>5. CASE s \in DOMAIN run[m].copies /\ run'[m].copies[s] = run[m].copies[s]
  <2>1. s \in Subs /\ doc[s].stored /\ doc[s].target \in Targets
    BY <1>1, <1>5 DEF StoredInv
  <2>2. /\ run[m].copies[s].cycle = doc[s].cycle
        /\ run[m].copies[s].target = doc[s].target
        /\ run[m].copies[s].triggered /\ NextTargetId(s) \in TargetIds
             => Finished(NextTargetId(s))
    BY <1>5 DEF DipInv, CopiesAgree, CopyAgrees
  <2>3. ASSUME doc'[s].cycle = doc[s].cycle, doc'[s].target = doc[s].target
        PROVE  CopyAgrees(m, s)'
    BY <1>3, <1>5, <2>2, <2>3 DEF CopyAgrees
  <2>4. CASE SameTarget(s)
    BY <2>3, <2>4 DEF SameTarget
  <2>5. ASSUME NEW n \in Monitors, Rearms(n, s) PROVE FALSE
    <3>1. n = m
      BY DEF OneRunAtATime
    <3>2. s \notin DOMAIN run'[m].copies
      BY <1>1, <2>5, <3>1
      DEF Rearms, CompareTarget, RunsTyped, IdleRun, NoCopies
    <3> QED
      BY <3>2
  <2>6. ASSUME NEW h \in Handlers, Triggers(h, s) PROVE CopyAgrees(m, s)'
    BY <1>1, <2>1, <2>3, <2>6 DEF Triggers, DocsTyped, Docs
  <2>7. ~Creates(s)
    BY <2>1 DEF Creates
  <2> QED
    BY <1>1, <2>1, <2>4, <2>5, <2>6, <2>7, WhoWritesTargets DEF TriggerInv
<1> QED
  BY <1>1, <1>4, <1>5, WhereCopiesComeFrom

\* The chat of s is told that its target price is reached.
Announces(h, s) ==
  /\ SendEvent(h) /\ task[h] \in TargetIds /\ task[h].sub = s
  /\ told' = [told EXCEPT ![task[h]] = @ + 1]
  /\ dipTold'[s] = dipTold[s] + 1

LEMMA SendAnnounces ==
  ASSUME EventTypeOK, TrackingTyped, NEW h \in Handlers, SendEvent(h), NEW s \in Subs
  PROVE  dipTold'[s] = dipTold[s] \/ Announces(h, s)
<1>1. task[h] \in Events
  BY DEF SendEvent, Send, EventTypeOK
<1>2. CASE UNCHANGED dipTold
  BY <1>2
<1>3. CASE ~UNCHANGED dipTold
  <2>1. /\ task[h].type # "leader"
        /\ told' = [told EXCEPT ![task[h]] = @ + 1]
        /\ dipTold' = [dipTold EXCEPT ![task[h].sub] = @ + 1]
    BY <1>3 DEF SendEvent, Send
  <2>2. task[h] \in TargetIds
    BY <1>1, <2>1, TargetIdFields
  <2> QED
    BY <2>1, <2>2 DEF TrackingTyped, Announces
<1> QED
  BY <1>2, <1>3

\* It is told so by the event of its present cycle, for the first time.
LEMMA AnnouncedIsCurrent ==
  ASSUME OneTarget, DipInv, NEW s \in Subs, NEW h \in Handlers, Announces(h, s)
  PROVE  /\ task[h] = NextTargetId(s) /\ NextTargetId(s) \in TargetIds
         /\ told[NextTargetId(s)] = 0 /\ status[NextTargetId(s)] = "sending"
         /\ ~Finished(NextTargetId(s))
         /\ doc[s].stored /\ ~doc[s].triggered
<1> DEFINE e == task[h]
<1>0. /\ e \in TargetIds /\ e.sub = s /\ e \in Events
      /\ stage[h] = "send" /\ stage[h] # "idle"
  BY TargetIdFields DEF Announces, SendEvent, Send
<1>1. status[e] = "sending" /\ ~Finished(e)
  BY <1>0 DEF DipInv, TriggerInv, HandlersKnow, Claimed, Finished
<1>2. ~Spent(e) /\ e.seq <= doc[s].cycle /\ doc[s].stored
  BY <1>0, <1>1 DEF DipInv, TriggerInv, SpentAreFinished, TargetInv, TargetIdsInv
<1>3. e.seq = doc[s].cycle /\ ~doc[s].triggered
  <2>1. e.seq \in Nat /\ doc[s].cycle \in Nat
    BY <1>0, TargetIdFields DEF DipInv, TriggerInv, TargetInv, StoredInv
  <2> QED
    BY <1>0, <1>2, <2>1 DEF Spent
<1>4. e.arg = doc[s].target
  <2>1. doc[s].target \in Targets
    BY <1>2 DEF DipInv, TriggerInv, TargetInv, StoredInv
  <2> QED
    BY <1>0, <2>1 DEF OneTarget, TargetIds
<1>5. e = NextTargetId(s)
  BY <1>0, <1>3, <1>4 DEF NextTargetId, TargetId, TargetIds
<1>6. told[e] = 0
  BY <1>0 DEF DipInv, ToldInv, ToldIsSettled
<1> QED
  BY <1>0, <1>1, <1>2, <1>3, <1>5, <1>6

\* Messages are for stored subscriptions only.
LEMMA ToldStayStored ==
  ASSUME OneTarget, DipInv, [TrackingNext]_allVars
  PROVE  ToldAreStored'
<1>1. EventTypeOK /\ TrackingTyped /\ StoredInv
  BY DEF DipInv, TriggerInv, TargetInv
<1>2. \A s \in Subs : doc[s].stored => doc'[s].stored
  BY <1>1, StepsAdvance DEF DocsAdvance
<1>3. ASSUME NEW s \in Subs, ~doc'[s].stored PROVE dipTold'[s] = 0
  <2>1. ~doc[s].stored
    BY <1>2, <1>3
  <2>2. dipTold[s] = 0
    BY <2>1 DEF DipInv, ToldAreStored
  <2>3. CASE UNCHANGED dipTold
    BY <2>2, <2>3
  <2>4. CASE ChangeMarket
    BY <2>2, <2>4 DEF ChangeMarket
  <2>5. ASSUME NEW h \in Handlers, SendEvent(h) PROVE dipTold'[s] = 0
    BY <1>1, <2>1, <2>2, <2>5, SendAnnounces, AnnouncedIsCurrent
  <2>6. ASSUME NEW u \in Savers, UpsertWrite(u) PROVE dipTold'[s] = 0
    BY <1>1, <2>2, <2>6 DEF UpsertWrite, TrackingTyped
  <2> QED
    BY <2>3, <2>4, <2>5, <2>6
    DEF TrackingNext, Restart, FindActive, RunStep, Fetch, CompareLeader, CompareTarget,
        RunFails, HandlerStep, FinalizeEvent, TakeUp, CheckProduct, UpsertRead,
        Confirm, UpsertFails, Cancel, Stop, allVars, trackingVars
<1> QED
  BY <1>3 DEF ToldAreStored

\* A dip is only counted from its start on.
LEMMA MarketKeepsDips ==
  ASSUME DipInv, ChangeMarket, NEW s \in Subs
  PROVE  DipKept(s)'
<1>1. /\ UNCHANGED <<doc, run, told, status>>
      /\ dipTold'[s] = IF InDip(s)' /\ ~InDip(s) THEN 0 ELSE dipTold[s]
  BY DEF ChangeMarket, InDip, eventVars
<1>2. CASE dipTold'[s] = 0
  BY <1>2, NewDipsAreKept
<1>3. CASE dipTold'[s] # 0
  <2>1. dipTold'[s] = dipTold[s] /\ (InDip(s)' => InDip(s))
    BY <1>1, <1>3
  <2>2. Quiet(s) => status'[NextTargetId(s)] = "absent"
    BY <1>1 DEF Quiet
  <2>3. Undisturbed(s)
    BY <1>1, <2>1, <2>2 DEF Undisturbed, SameTarget, Comparing
  <2> QED
    BY <2>3, UndisturbedDipsAreKept DEF DipInv
<1> QED
  BY <1>2, <1>3

\* The snapshot of a run is the market of that moment.
LEMMA FetchKeepsDips ==
  ASSUME OneRunAtATime, DipInv, NEW m \in Monitors, Fetch(m), NEW s \in Subs
  PROVE  DipKept(s)'
<1>1. UNCHANGED <<market, doc, dipTold, told, status>>
  BY DEF Fetch, eventVars
<1>2. /\ UNCHANGED <<InDip(s), NextTargetId(s)>>
      /\ \A n \in Monitors : Comparing(n, s)' => run'[n].snapshot = market
  <2>1. UNCHANGED <<InDip(s), NextTargetId(s)>>
    BY <1>1 DEF InDip, NextTargetId
  <2>2. ASSUME NEW n \in Monitors, Comparing(n, s)' PROVE run'[n].snapshot = market
    <3>1. n = m
      BY DEF OneRunAtATime
    <3>2. run'[m] # IdleRun
      BY <2>2, <3>1 DEF Comparing, IdleRun
    <3> QED
      BY <3>1, <3>2 DEF Fetch, DipInv, TrackingTyped, RunsTyped, RunTyped, IdleRun
  <2> QED
    BY <2>1, <2>2
<1>3. Quiet(s) => Quiet(s)'
  BY <1>1, <1>2 DEF Quiet, InDip
<1>4. DipKept(s)
  BY DEF DipInv
<1>5. \A n \in Monitors :
        Comparing(n, s)' /\ ~Reached(run'[n].snapshot, doc'[s].target) => ~InDip(s)
  BY <1>1, <1>2 DEF InDip
<1> QED
  BY <1>1, <1>2, <1>3, <1>4, <1>5 DEF DipKept

\* A run that rearms a subscription leaves it, and its next event is new.
LEMMA RearmKeepsDips ==
  ASSUME OneRunAtATime, DipInv, NEW m \in Monitors, NEW s \in Subs, Rearms(m, s)
  PROVE  DipKept(s)'
<1>1. /\ run[m].step = "target" /\ s \in DOMAIN run[m].copies
      /\ UNCHANGED <<market, dipTold>>
  BY DEF Rearms, CompareTarget, DipInv, TrackingTyped, RunsTyped, RunTyped
<1>2. s \notin DOMAIN run'[m].copies
  BY DEF Rearms, CompareTarget, DipInv, TrackingTyped, RunsTyped, IdleRun, NoCopies
<1>3. \A n \in Monitors : ~Comparing(n, s)'
  BY <1>2 DEF OneRunAtATime, Comparing
<1>4. /\ doc[s] \in Docs
      /\ doc'[s].target = doc[s].target /\ ~doc'[s].triggered
      /\ doc'[s].cycle = doc[s].cycle + 1 /\ doc[s].cycle \in Nat
  BY DEF Rearms, DipInv, TrackingTyped, DocsTyped, Docs
<1>5. dipTold[s] > 0 => ~InDip(s)'
  <2>1. run[m].copies[s].target = doc[s].target
    BY <1>1 DEF DipInv, CopiesAgree, CopyAgrees
  <2>2. Comparing(m, s)
    BY <1>1 DEF Comparing
  <2>3. dipTold[s] > 0 => ~InDip(s)
    BY <2>1, <2>2 DEF Rearms, DipInv, DipKept
  <2> QED
    BY <1>1, <1>4, <2>3 DEF InDip
<1>6. NextTargetId(s)' \in TargetIds => status'[NextTargetId(s)'] = "absent"
  <2>1. NextTargetId(s)'.sub = s /\ NextTargetId(s)'.seq = doc[s].cycle + 1
    BY <1>4 DEF NextTargetId, TargetId
  <2>2. UNCHANGED status
    BY DEF Rearms, eventVars
  <2>3. NextTargetId(s)' \in TargetIds =>
          status[NextTargetId(s)'] = "absent" \/ doc[s].cycle + 1 <= doc[s].cycle
    BY <2>1 DEF DipInv, TriggerInv, TargetInv, TargetIdsInv
  <2> QED
    BY <1>4, <2>2, <2>3
<1>7. DipKept(s)
  BY DEF DipInv
<1> QED
  BY <1>1, <1>3, <1>4, <1>5, <1>6, <1>7 DEF DipKept, Quiet

\* A run publishes only at the target price, and then the chat was not told yet or the
\* event is there already.
LEMMA CompareTargetKeepsDips ==
  ASSUME OneTarget, OneRunAtATime, DipInv, NEW m \in Monitors, CompareTarget(m),
         NEW s \in Subs
  PROVE  DipKept(s)'
<1>0. /\ DocsTyped /\ RunsTyped /\ StoredInv /\ EventTypeOK /\ DipKept(s)
      /\ UNCHANGED <<market, dipTold>>
  BY DEF DipInv, TrackingTyped, TriggerInv, TargetInv, CompareTarget
<1>1. CASE Rearms(m, s)
  BY <1>1, RearmKeepsDips
<1>2. CASE SameTarget(s)
  <2> DEFINE x == run[m].at
             e == TargetId(x, run[m].copies[x].cycle, run[m].copies[x].target)
  <2>1. \/ UNCHANGED <<status, told>>
        \/ /\ e \in Events /\ Insert(e)
           /\ Reached(run[m].snapshot, run[m].copies[x].target)
    BY DEF CompareTarget, Publish, eventVars
  <2>2. UNCHANGED told
    BY <2>1 DEF Insert
  <2>3. InDip(s)' => InDip(s)
    BY <1>0, <1>2 DEF InDip, SameTarget
  <2>4. ASSUME NEW n \in Monitors, Comparing(n, s)'
        PROVE  /\ Comparing(n, s)
               /\ run'[n].copies[s] = run[n].copies[s]
               /\ run'[n].snapshot = run[n].snapshot
    BY <1>0, <2>4 DEF CompareTarget, RunsTyped, RunTyped, Comparing, IdleRun, NoCopies
  <2>5. ASSUME NextTargetId(s) \in TargetIds, Quiet(s) PROVE status'[NextTargetId(s)] = "absent"
    <3>1. CASE UNCHANGED status
      BY <2>5, <3>1 DEF Quiet
    <3>2. CASE /\ e \in Events /\ Insert(e)
               /\ Reached(run[m].snapshot, run[m].copies[x].target)
      <4>1. e.sub = x /\ NextTargetId(s).sub = s
        BY DEF TargetId, NextTargetId
      <4>2. x # s
        <5> SUFFICES ASSUME x = s PROVE FALSE
          OBVIOUS
        <5>1. Comparing(m, s)
          BY <1>0 DEF Comparing, CompareTarget, RunsTyped, RunTyped
        <5>2. run[m].copies[s].target = doc[s].target
          BY <5>1 DEF DipInv, CopiesAgree, CopyAgrees, Comparing
        <5> QED
          BY <2>5, <3>2, <5>1, <5>2 DEF Quiet
      <4>3. NextTargetId(s) # e /\ status[NextTargetId(s)] = "absent"
        BY <2>5, <4>1, <4>2 DEF Quiet
      <4> QED
        BY <1>0, <2>5, <3>2, <4>3, TargetIdFields DEF Insert, EventTypeOK
    <3> QED
      BY <2>1, <3>1, <3>2
  <2>6. Undisturbed(s)
    BY <1>0, <1>2, <2>2, <2>3, <2>4, <2>5 DEF Undisturbed
  <2> QED
    BY <1>0, <2>6, UndisturbedDipsAreKept
<1> QED
  BY <1>0, <1>1, <1>2, RunRearms

\* The message of the present cycle was not sent before, so nothing was told of the dip.
LEMMA SendKeepsDips ==
  ASSUME OneTarget, DipInv, NEW h \in Handlers, SendEvent(h), NEW s \in Subs
  PROVE  DipKept(s)'
<1>0. /\ UNCHANGED <<market, doc, run, status>> /\ DipKept(s)
      /\ EventTypeOK /\ TrackingTyped
  BY DEF SendEvent, Send, DipInv, TriggerInv, TargetInv
<1>1. CASE Announces(h, s)
  <2>1. /\ task[h] = NextTargetId(s) /\ NextTargetId(s) \in TargetIds /\ told[NextTargetId(s)] = 0
        /\ status[NextTargetId(s)] = "sending" /\ ~Finished(NextTargetId(s))
    BY <1>1, AnnouncedIsCurrent
  <2>2. ~Quiet(s)
    BY <2>1 DEF Quiet
  <2>3. dipTold[s] = 0
    BY <1>0, <2>1, <2>2 DEF DipKept, TrackingTyped
  <2>4. dipTold'[s] = 1 /\ told'[NextTargetId(s)] = 1
    BY <1>0, <1>1, <2>1, <2>3, TargetIdFields DEF Announces, EventTypeOK
  <2>5. NextTargetId(s)' = NextTargetId(s)
    BY <1>0 DEF NextTargetId
  <2>6. ASSUME NEW m \in Monitors, Comparing(m, s)' PROVE ~run'[m].copies[s].triggered
    BY <1>0, <2>1, <2>6 DEF Comparing, DipInv, CopiesAgree, CopyAgrees
  <2> QED
    BY <2>4, <2>5, <2>6 DEF DipKept
<1>2. CASE dipTold'[s] = dipTold[s]
  <2>1. NextTargetId(s) \in TargetIds /\ told[NextTargetId(s)] > 0 => told'[NextTargetId(s)] > 0
    BY <1>0, TargetIdFields DEF SendEvent, Send, EventTypeOK
  <2>2. Undisturbed(s)
    BY <1>0, <1>2, <2>1 DEF Undisturbed, SameTarget, InDip, Quiet, Comparing
  <2> QED
    BY <1>0, <2>2, UndisturbedDipsAreKept
<1> QED
  BY <1>0, <1>1, <1>2, SendAnnounces

\* A subscription is triggered by the event its chat was told of.
LEMMA FinalizeKeepsDips ==
  ASSUME OneTarget, DipInv, NEW h \in Handlers, FinalizeEvent(h), NEW s \in Subs
  PROVE  DipKept(s)'
<1>0. /\ UNCHANGED <<market, run, status, told, dipTold>> /\ DipKept(s)
      /\ EventTypeOK /\ TrackingTyped /\ DocsTyped
  BY DEF FinalizeEvent, Finalize, DipInv, TriggerInv, TargetInv, TrackingTyped
<1>1. CASE Triggers(h, s)
  <2> DEFINE e == task[h]
  <2>1. /\ e \in TargetIds /\ e.sub = s /\ e.seq = doc[s].cycle
        /\ ~Finished(e) /\ stage[h] = "finalize" /\ status[e] = "sending"
    BY <1>1, FinalizedIsCurrent DEF Triggers, DipInv
  <2>2. told[e] > 0
    BY <2>1 DEF DipInv, TriggerInv, HandlersKnow
  <2>3. doc[s].stored /\ doc[s].target \in Targets
    BY <2>1 DEF DipInv, TriggerInv, TargetInv, TargetIdsInv, StoredInv
  <2>4. e.arg = doc[s].target
    BY <2>1, <2>3 DEF OneTarget, TargetIds
  <2>5. doc'[s].cycle = doc[s].cycle /\ doc'[s].target = doc[s].target
    BY <1>0, <1>1 DEF Triggers, DocsTyped, Docs
  <2>6. NextTargetId(s)' = e /\ NextTargetId(s) = e
    BY <2>1, <2>4, <2>5 DEF NextTargetId, TargetId, TargetIds
  <2>7. ASSUME NEW m \in Monitors, Comparing(m, s)' PROVE ~run'[m].copies[s].triggered
    BY <1>0, <2>1, <2>6, <2>7 DEF Comparing, DipInv, CopiesAgree, CopyAgrees
  <2> QED
    BY <1>0, <2>2, <2>6, <2>7 DEF DipKept
<1>2. CASE SameTarget(s)
  <2>1. Undisturbed(s)
    BY <1>0, <1>2 DEF Undisturbed, SameTarget, InDip, Quiet, Comparing
  <2> QED
    BY <1>0, <2>1, UndisturbedDipsAreKept
<1> QED
  BY <1>0, <1>1, <1>2, HandlerTriggers

\* A save that found no subscription starts the count again, however many of them
\* there are; one that found it keeps its target price.
LEMMA UpsertKeepsDips ==
  ASSUME OneTarget, DipInv, NEW u \in Savers, UpsertWrite(u), NEW s \in Subs
  PROVE  DipKept(s)'
<1>0. /\ UNCHANGED <<market, run, status, told>> /\ DipKept(s)
      /\ StoredInv /\ TrackingTyped /\ ToldAreStored
  BY DEF UpsertWrite, eventVars, DipInv, TriggerInv, TargetInv
<1>1. CASE Creates(s)
  BY <1>1, NewDipsAreKept DEF Creates
<1>2. CASE SameTarget(s) /\ dipTold'[s] = dipTold[s]
  <2>1. Undisturbed(s)
    BY <1>0, <1>2 DEF Undisturbed, SameTarget, InDip, Quiet, Comparing
  <2> QED
    BY <1>0, <2>1, UndisturbedDipsAreKept
<1> QED
  BY <1>0, <1>1, <1>2, UpsertCreates

\* The other steps of the runs leave the target prices alone.
LEMMA RunKeepsDips ==
  ASSUME DipInv, NEW m \in Monitors, NEW s \in Subs,
         \/ FindActive(m) \/ RunFails(m)
         \/ \E x \in Subs : CompareLeader(m, x)
  PROVE  DipKept(s)'
<1>0. /\ UNCHANGED <<market, told, dipTold>> /\ DipKept(s)
      /\ EventTypeOK /\ TrackingTyped /\ DocsTyped /\ RunsTyped
  <2>1. UNCHANGED <<market, told, dipTold>>
    BY DEF FindActive, RunFails, CompareLeader, Publish, Insert, eventVars
  <2> QED
    BY <2>1 DEF DipInv, TriggerInv, TargetInv, TrackingTyped
<1>1. SameTarget(s)
  <2>1. CASE FindActive(m) \/ RunFails(m)
    BY <2>1 DEF FindActive, RunFails, SameTarget
  <2>2. ASSUME NEW x \in Subs, CompareLeader(m, x) PROVE SameTarget(s)
    <3>1. \/ UNCHANGED doc
          \/ Update(x, [doc[x] EXCEPT !.leader = run[m].snapshot.leader])
      BY <2>2 DEF CompareLeader, SetLastLeader, Update
    <3> QED
      BY <1>0, <3>1, LeaderWrites DEF SameTarget
  <2> QED
    BY <2>1, <2>2
<1>2. ASSUME NextTargetId(s) \in TargetIds, Quiet(s) PROVE status'[NextTargetId(s)] = "absent"
  <2>1. CASE FindActive(m) \/ RunFails(m)
    BY <1>2, <2>1 DEF FindActive, RunFails, Quiet, eventVars
  <2>2. ASSUME NEW x \in Subs, CompareLeader(m, x) PROVE status'[NextTargetId(s)] = "absent"
    <3> DEFINE e == LeaderId(x, run[m].copies[x].version + 1, run[m].snapshot.leader)
    <3>1. UNCHANGED status \/ (e \in Events /\ Insert(e))
      BY <2>2 DEF CompareLeader, Publish, eventVars
    <3>2. e # NextTargetId(s)
      BY DEF LeaderId, NextTargetId, TargetId
    <3> HIDE DEF e
    <3> QED
      BY <1>0, <1>2, <3>1, <3>2, TargetIdFields DEF Insert, EventTypeOK, Quiet
  <2> QED
    BY <2>1, <2>2
<1>3. ASSUME NEW n \in Monitors, Comparing(n, s)'
      PROVE  /\ Comparing(n, s)
             /\ run'[n].copies[s] = run[n].copies[s]
             /\ run'[n].snapshot = run[n].snapshot
  <2> USE DEF RunsTyped, RunTyped, Comparing, IdleRun, NoCopies
  <2>1. CASE FindActive(m)
    BY <1>0, <1>3, <2>1 DEF FindActive
  <2>2. CASE RunFails(m)
    BY <1>0, <1>3, <2>2 DEF RunFails
  <2>3. ASSUME NEW x \in Subs, CompareLeader(m, x)
        PROVE  /\ Comparing(n, s)
               /\ run'[n].copies[s] = run[n].copies[s]
               /\ run'[n].snapshot = run[n].snapshot
    BY <1>0, <1>3, <2>3 DEF CompareLeader
  <2> QED
    BY <2>1, <2>2, <2>3
<1>4. Undisturbed(s)
  BY <1>0, <1>1, <1>2, <1>3 DEF Undisturbed, SameTarget, InDip
<1> QED
  BY <1>0, <1>4, UndisturbedDipsAreKept

\* An event that a handler or the queue moves is stored already.
LEMMA QueueKeepsDips ==
  ASSUME DipInv, NEW h \in Handlers, NEW s \in Subs,
         \/ Read(h) \/ Claim(h) \/ MarkSent(h) \/ RecordFailure(h) \/ Settle(h)
         \/ \E e \in Events : Start(h, e),
         UNCHANGED trackingVars
  PROVE  DipKept(s)'
<1>0. DipKept(s) /\ EventTypeOK
  BY DEF DipInv, TriggerInv, TargetInv
<1>1. UNCHANGED told
  BY DEF Read, Claim, ClaimWith, MarkSent, RecordFailure, Settle, Start
<1>2. ASSUME NextTargetId(s) \in TargetIds, status[NextTargetId(s)] = "absent"
      PROVE  status'[NextTargetId(s)] = "absent"
  <2>1. stage[h] = "idle" \/ status[task[h]] # "absent"
    BY DEF DipInv, TriggerInv, TargetInv, TargetIdsInv
  <2>2. CASE UNCHANGED status
    BY <1>2, <2>2
  <2>3. ASSUME NEW st, stage[h] # "idle", status' = [status EXCEPT ![task[h]] = st]
        PROVE  status'[NextTargetId(s)] = "absent"
    BY <1>0, <1>2, <2>1, <2>3, TargetIdFields DEF EventTypeOK
  <2>4. \/ UNCHANGED status
        \/ /\ stage[h] # "idle"
           /\ \E st : status' = [status EXCEPT ![task[h]] = st]
    BY DEF Read, Claim, ClaimWith, MarkSent, RecordFailure, Settle, Start
  <2> QED
    BY <2>2, <2>3, <2>4
<1>3. Undisturbed(s)
  BY <1>1, <1>2 DEF trackingVars, Undisturbed, SameTarget, InDip, Comparing, Quiet
<1> QED
  BY <1>0, <1>3, UndisturbedDipsAreKept

\* What the chats do before they save, and stopping, does not matter here.
LEMMA RestKeepsDips ==
  ASSUME DipInv, NEW s \in Subs,
         UNCHANGED <<status, told, market, run, dipTold>>,
         UNCHANGED doc \/ \E x \in Subs : Stop(x)
  PROVE  DipKept(s)'
<1>1. SameTarget(s)
  BY DEF Stop, DipInv, TrackingTyped, DocsTyped, Docs, SameTarget
<1>2. Undisturbed(s)
  BY <1>1 DEF Undisturbed, SameTarget, InDip, Comparing, Quiet
<1> QED
  BY <1>2, UndisturbedDipsAreKept DEF DipInv

LEMMA DipsStayKept ==
  ASSUME OneTarget, HandlersFinish, OneRunAtATime, DipInv, [TrackingNext]_allVars,
         NEW s \in Subs
  PROVE  DipKept(s)'
<1>1. CASE ChangeMarket
  BY <1>1, MarketKeepsDips
<1>2. ~Restart
  BY DEF HandlersFinish, Restart, Crash
<1>3. ASSUME NEW m \in Monitors, FindActive(m) \/ RunStep(m) PROVE DipKept(s)'
  BY <1>3, FetchKeepsDips, CompareTargetKeepsDips, RunKeepsDips DEF RunStep
<1>4. ASSUME NEW h \in Handlers, HandlerStep(h) PROVE DipKept(s)'
  <2>1. ~MongoError(h)
    BY DEF HandlersFinish, MongoError
  <2> QED
    BY <1>4, <2>1, SendKeepsDips, FinalizeKeepsDips, QueueKeepsDips DEF HandlerStep
<1>5. ASSUME NEW h \in Handlers, NEW e \in Events, TakeUp(h, e) PROVE DipKept(s)'
  BY <1>5, QueueKeepsDips DEF TakeUp
<1>6. ASSUME NEW u \in Savers, UpsertWrite(u) PROVE DipKept(s)'
  BY <1>6, UpsertKeepsDips
<1>7. ASSUME NEW x \in Subs, CheckProduct(x) \/ Cancel(x) \/ Stop(x)
      PROVE  DipKept(s)'
  <2>1. UNCHANGED <<status, told, market, run, dipTold>>
    BY <1>7 DEF CheckProduct, Cancel, Stop, eventVars
  <2>2. UNCHANGED doc \/ Stop(x)
    BY <1>7 DEF CheckProduct, Cancel
  <2> QED
    BY <2>1, <2>2, RestKeepsDips
<1>8. ASSUME NEW u \in Savers,
             \/ Confirm(u) \/ UpsertFails(u)
             \/ \E x \in Subs, t \in Targets : UpsertRead(u, x, t)
      PROVE  DipKept(s)'
  BY <1>8, RestKeepsDips DEF UpsertRead, Confirm, UpsertFails, eventVars
<1>9. CASE UNCHANGED allVars
  BY <1>9, RestKeepsDips DEF allVars, eventVars, trackingVars
<1> QED
  BY <1>1, <1>2, <1>3, <1>4, <1>5, <1>6, <1>7, <1>8, <1>9 DEF TrackingNext

LEMMA DipInvInit == TrackingInit /\ ToldInv => DipInv
<1> SUFFICES ASSUME TrackingInit, ToldInv PROVE CopiesAgree /\ ToldAreStored /\
                                              \A s \in Subs : DipKept(s)
  BY TriggerInvInit, TrackingTypedInit DEF DipInv
<1>1. CopiesAgree
  BY DEF TrackingInit, CopiesAgree, IdleRun, NoCopies
<1>2. ToldAreStored
  BY DEF TrackingInit, ToldAreStored
<1>3. \A s \in Subs : DipKept(s)
  BY DEF TrackingInit, DipKept
<1> QED
  BY <1>1, <1>2, <1>3

\* OncePerDip, for any number of chats, offers, handlers and saves, when the runs of a
\* SKU do not overlap, there is one target price, no handler is stopped and Telegram
\* delivers nothing that it rejects: a chat is told at most once that its target was
\* reached until the price has been above the target again, however often the market
\* moves between the snapshot of a run, its comparison and the message, and whichever
\* saves reset the trigger meanwhile.
THEOREM ToldOncePerDip ==
  ASSUME OneTarget, HandlersFinish, OneRunAtATime, CleanFaults
  PROVE  TrackingSpec => []OncePerDip
<1>1. TrackingSpec => []ToldInv
  BY TrackingImplementsEvents, ToldInvariant, PTL
<1>2. TrackingSpec => []TriggerInv
  BY TriggerInvariant, PTL
<1>3. TrackingSpec => [](EventTypeOK /\ TrackingTyped)
  BY TrackingTypes, PTL
<1>4. /\ DipInv /\ ToldInv' /\ TriggerInv' /\ TrackingTyped' /\ [TrackingNext]_allVars
      => DipInv'
  BY CopiesStayAgreed, ToldStayStored, DipsStayKept DEF DipInv
<1>5. DipInv => OncePerDip
  BY DEF DipInv, DipKept, OncePerDip
<1> QED
  BY <1>1, <1>2, <1>3, <1>4, <1>5, DipInvInit, PTL DEF TrackingSpec

=============================================================================
