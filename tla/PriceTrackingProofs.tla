-------------------------- MODULE PriceTrackingProofs --------------------------
(***************************************************************************)
(* Proofs about PriceTracking, for any number of chats, offers, monitoring *)
(* runs and handlers, every failure, and any bounds.                       *)
(***************************************************************************)
EXTENDS PriceTracking, NotificationEventsProofs

USE DEF Statuses, Stages, Fault, Goto, chatVars, ghostVars

\* What the tracking module adds to the event module only says when its steps are
\* taken and what they write besides.
LEMMA TrackingStepIsEventStep ==
  ASSUME [TrackingNext]_allVars
  PROVE  [EventNext]_eventVars
<1> USE DEF EventNext
<1>1. CASE ChangeMarket
  BY <1>1 DEF ChangeMarket
<1>2. CASE Restart
  BY <1>2 DEF Restart
<1>3. ASSUME NEW m \in Monitors, FindActive(m) \/ Fetch(m) PROVE UNCHANGED eventVars
  BY <1>3 DEF FindActive, Fetch
<1>4. ASSUME NEW m \in Monitors, NEW s \in Subs, CompareLeader(m, s)
      PROVE  [EventNext]_eventVars
  BY <1>4 DEF CompareLeader, Publish
<1>5. ASSUME NEW m \in Monitors, CompareTarget(m) PROVE [EventNext]_eventVars
  BY <1>5 DEF CompareTarget, Publish
<1>6. ASSUME NEW m \in Monitors, RunFails(m) PROVE FaultElsewhere
  BY <1>6 DEF RunFails, FaultElsewhere, FaultsElsewhere
<1>7. ASSUME NEW h \in Handlers, HandlerStep(h) PROVE EventNext
  BY <1>7 DEF HandlerStep, SendEvent, FinalizeEvent, Process
<1>8. ASSUME NEW h \in Handlers, NEW e \in Events, TakeUp(h, e) PROVE EventNext
  BY <1>8 DEF TakeUp
<1>9. ASSUME NEW s \in Subs, CheckProduct(s) \/ Cancel(s) \/ Stop(s)
      PROVE  UNCHANGED eventVars
  BY <1>9 DEF CheckProduct, Cancel, Stop
<1>10. ASSUME NEW u \in Savers, NEW s \in Subs, NEW t \in Targets, UpsertRead(u, s, t)
       PROVE  UNCHANGED eventVars
  BY <1>10 DEF UpsertRead
<1>11. ASSUME NEW u \in Savers, UpsertWrite(u) \/ Confirm(u) PROVE UNCHANGED eventVars
  BY <1>11 DEF UpsertWrite, Confirm
<1>12. ASSUME NEW u \in Savers, UpsertFails(u) PROVE FaultElsewhere
  BY <1>12 DEF UpsertFails, FaultElsewhere, FaultsElsewhere
<1>13. CASE UNCHANGED allVars
  BY <1>13 DEF allVars
<1> QED
  BY <1>1, <1>2, <1>3, <1>4, <1>5, <1>6, <1>7, <1>8, <1>9, <1>10, <1>11, <1>12,
     <1>13
  DEF TrackingNext, RunStep

\* The tracking of prices implements the event store, so that ClaimExclusive,
\* SentWasApplied and, without late MongoDB errors and ambiguous sends, AtMostOnce
\* hold of it.
THEOREM TrackingImplementsEvents == TrackingSpec => EventSpec
<1>1. TrackingInit => EventInit
  BY DEF TrackingInit
<1> QED
  BY <1>1, TrackingStepIsEventStep, PTL DEF TrackingSpec, EventSpec

-----------------------------------------------------------------------------
\* Types, with what TrackingTypeOK leaves out: the fields of the runs, and that runs
\* work on copies of subscriptions.
Saves == [step : {"idle", "write", "confirm"}, sub : Subs \cup {NoEvent},
          leader : Offers \cup {NoOffer}, target : Targets \cup {NoTarget},
          changed : BOOLEAN]

SavesTyped ==
  /\ save \in [Savers -> Saves]
  /\ \A u \in Savers : save[u].step = "idle" \/ save[u].sub \in Subs

RunTyped(r) ==
  /\ DOMAIN r = DOMAIN IdleRun
  /\ r.step \in {"idle", "fetch", "leader", "target"}
  /\ DOMAIN r.copies \subseteq Subs
  /\ r.copies \in [DOMAIN r.copies -> Docs]
  /\ r.step = "idle" <=> DOMAIN r.copies = {}
  /\ r.step = "target" => r.at \in DOMAIN r.copies
  /\ r.snapshot \in Snapshots \cup {IdleRun.snapshot}

DocsTyped ==
  /\ doc \in [Subs -> Docs]
  /\ \A s \in Subs : doc[s].active => doc[s].stored

RunsTyped == DOMAIN run = Monitors /\ \A m \in Monitors : RunTyped(run[m])

TrackingTyped ==
  /\ DocsTyped
  /\ RunsTyped
  /\ market \in Snapshots
  /\ pending \in [Subs -> Offers \cup {NoOffer}]
  /\ SavesTyped
  /\ news \in [Subs -> Offers \cup {NoOffer}]
  /\ dipTold \in [Subs -> Nat]
  /\ wasReset \in [Subs -> BOOLEAN]

LEMMA EventArgs ==
  \A e \in Events : /\ e.sub \in Subs
                    /\ e.type = "leader" => e.arg \in Offers
  BY TrackingAssumption DEF LeaderIds, TargetIds

LEMMA IdleRunTyped == RunTyped(IdleRun)
  BY DEF RunTyped, IdleRun, NoCopies

Storable(d) == d \in Docs /\ (d.active => d.stored)

\* What the writes make of a document.
LEMMA WritesTyped ==
  ASSUME NEW d, Storable(d)
  PROVE  /\ \A o \in Offers \cup {NoOffer} :
              /\ Storable([d EXCEPT !.leader = o])
              /\ Storable([d EXCEPT !.leader = o, !.version = @ + 1])
         /\ Storable([d EXCEPT !.triggered = TRUE])
         /\ Storable([d EXCEPT !.triggered = FALSE, !.cycle = @ + 1])
         /\ Storable([d EXCEPT !.active = FALSE])
<1> USE DEF Storable, Docs
<1>1. \A o \in Offers \cup {NoOffer} : Storable([d EXCEPT !.leader = o])
  OBVIOUS
<1>2. \A o \in Offers \cup {NoOffer} :
        Storable([d EXCEPT !.leader = o, !.version = @ + 1])
  <2>1. \A n \in Nat, o \in Offers \cup {NoOffer} :
          Storable([d EXCEPT !.leader = o, !.version = n])
    OBVIOUS
  <2>2. d.version + 1 \in Nat
    OBVIOUS
  <2> HIDE DEF Storable
  <2> QED
    BY <2>1, <2>2
<1>3. Storable([d EXCEPT !.triggered = TRUE])
  OBVIOUS
<1>4. Storable([d EXCEPT !.triggered = FALSE, !.cycle = @ + 1])
  <2>1. \A n \in Nat : Storable([d EXCEPT !.triggered = FALSE, !.cycle = n])
    OBVIOUS
  <2>2. d.cycle + 1 \in Nat
    OBVIOUS
  <2> HIDE DEF Storable
  <2> QED
    BY <2>1, <2>2
<1>5. Storable([d EXCEPT !.active = FALSE])
  OBVIOUS
<1> QED
  BY <1>1, <1>2, <1>3, <1>4, <1>5

LEMMA UpdateTyped ==
  ASSUME DocsTyped, NEW s \in Subs, NEW d, Storable(d), Update(s, d)
  PROVE  DocsTyped'
  BY DEF DocsTyped, Storable, Update

\* What upsert makes of one.
LEMMA UpsertTyped ==
  ASSUME NEW d, Storable(d), NEW t \in Targets \cup {NoTarget},
         NEW o \in Offers \cup {NoOffer}, NEW b \in BOOLEAN
  PROVE  Storable([d EXCEPT !.stored = TRUE, !.active = TRUE, !.target = t, !.leader = o,
                            !.triggered = b])
  BY DEF Storable, Docs

LEMMA DocsStayTyped ==
  ASSUME EventTypeOK, TrackingTyped, [TrackingNext]_allVars
  PROVE  DocsTyped'
<1>0. DocsTyped /\ \A s \in Subs : Storable(doc[s])
  BY DEF TrackingTyped, DocsTyped, Storable
<1>1. CASE UNCHANGED doc
  BY <1>0, <1>1 DEF DocsTyped
<1>2. ASSUME NEW m \in Monitors, NEW s \in Subs, CompareLeader(m, s) PROVE DocsTyped'
  <2> DEFINE o == run[m].snapshot.leader
             d == [doc[s] EXCEPT !.leader = o]
  <2>1. o \in Offers \cup {NoOffer}
    BY DEF TrackingTyped, RunsTyped, RunTyped, Snapshots, IdleRun
  <2>2. Storable(d)
    BY <1>0, <2>1, WritesTyped
  <2>3. UNCHANGED doc \/ Update(s, d)
    BY <1>2 DEF CompareLeader, SetLastLeader, Update
  <2> HIDE DEF d
  <2> QED
    BY <1>0, <1>1, <2>2, <2>3, UpdateTyped
<1>3. ASSUME NEW m \in Monitors, CompareTarget(m) PROVE DocsTyped'
  <2> DEFINE s == run[m].at
             d == [doc[s] EXCEPT !.triggered = FALSE, !.cycle = @ + 1]
  <2>1. s \in Subs
    BY <1>3 DEF CompareTarget, TrackingTyped, RunsTyped, RunTyped
  <2>2. Storable(d)
    BY <1>0, <2>1, WritesTyped
  <2>3. UNCHANGED doc \/ Update(s, d)
    BY <1>3 DEF CompareTarget, RearmTargetPrice, Rearm
  <2> HIDE DEF s, d
  <2> QED
    BY <1>0, <1>1, <2>1, <2>2, <2>3, UpdateTyped
<1>4. ASSUME NEW h \in Handlers, FinalizeEvent(h) PROVE DocsTyped'
  <2> DEFINE s == task[h].sub
             d1 == [doc[s] EXCEPT !.leader = task[h].arg, !.version = @ + 1]
             d2 == [doc[s] EXCEPT !.triggered = TRUE]
  <2>1. task[h] \in Events
    BY <1>4 DEF EventTypeOK, FinalizeEvent, Finalize
  <2>2. s \in Subs
    BY <2>1, EventArgs
  <2>3. Storable(d2)
    BY <1>0, <2>2, WritesTyped
  <2>4. task[h].type = "leader" => Storable(d1)
    BY <1>0, <2>1, <2>2, WritesTyped, EventArgs
  <2>5. \/ task[h].type = "leader" /\ Update(s, d1)
        \/ Update(s, d2)
    BY <1>4 DEF FinalizeEvent, AdvanceLeader, SetTargetPriceTriggered
  <2> HIDE DEF s, d1, d2
  <2> QED
    BY <1>0, <2>2, <2>3, <2>4, <2>5, UpdateTyped
<1>5. ASSUME NEW u \in Savers, UpsertWrite(u) PROVE DocsTyped'
  <2> DEFINE s == save[u].sub
             d == [doc[s] EXCEPT !.stored = TRUE, !.active = TRUE,
                                 !.target = save[u].target, !.leader = save[u].leader,
                                 !.triggered = @ /\ ~save[u].changed]
  <2>1. save[u] \in Saves /\ s \in Subs
    BY <1>5 DEF TrackingTyped, SavesTyped, UpsertWrite
  <2>0. /\ Storable(doc[s])
        /\ save[u].target \in Targets \cup {NoTarget}
        /\ save[u].leader \in Offers \cup {NoOffer}
        /\ (doc[s].triggered /\ ~save[u].changed) \in BOOLEAN
    BY <1>0, <2>1 DEF Saves
  <2>2. Storable(d)
    <3> HIDE DEF s
    <3> QED BY <2>0, UpsertTyped
  <2>3. Update(s, d)
    BY <1>5 DEF UpsertWrite
  <2> HIDE DEF d, s
  <2> QED
    BY <1>0, <2>1, <2>2, <2>3, UpdateTyped
<1>6. ASSUME NEW s \in Subs, Stop(s) PROVE DocsTyped'
  <2> DEFINE d == [doc[s] EXCEPT !.active = FALSE]
  <2>1. Storable(d)
    BY <1>0, WritesTyped
  <2>2. Update(s, d)
    BY <1>6 DEF Stop, Update
  <2> HIDE DEF d
  <2> QED
    BY <1>0, <2>1, <2>2, UpdateTyped
<1> QED
  BY <1>1, <1>2, <1>3, <1>4, <1>5, <1>6
  DEF TrackingNext, ChangeMarket, Restart, FindActive, RunStep, Fetch, RunFails,
      HandlerStep, SendEvent, TakeUp, CheckProduct, UpsertRead, Confirm, UpsertFails, Cancel,
      allVars, trackingVars

LEMMA RunsStayTyped ==
  ASSUME EventTypeOK, TrackingTyped, [TrackingNext]_allVars
  PROVE  RunsTyped'
<1> USE IdleRunTyped DEF TrackingTyped, RunsTyped
<1>1. CASE UNCHANGED run
  BY <1>1
<1>2. CASE Restart
  BY <1>2 DEF Restart
<1>3. ASSUME NEW m \in Monitors, NEW r, RunTyped(r), run' = [run EXCEPT ![m] = r]
      PROVE  RunsTyped'
  BY <1>3
<1>4. ASSUME NEW m \in Monitors, FindActive(m) PROVE RunsTyped'
  <2> DEFINE copies == [s \in {t \in Subs : doc[t].active} |-> doc[s]]
             r == [run[m] EXCEPT !.step = "fetch", !.copies = copies]
  <2>1. run' = [run EXCEPT ![m] = r]
    BY <1>4 DEF FindActive
  <2>2. /\ DOMAIN copies \subseteq Subs /\ DOMAIN copies # {}
        /\ copies \in [DOMAIN copies -> Docs]
    BY <1>4 DEF FindActive, DocsTyped
  <2> HIDE DEF copies
  <2>3. RunTyped(r)
    BY <2>2 DEF RunTyped, IdleRun
  <2> QED
    BY <1>3, <2>1, <2>3
<1>5. ASSUME NEW m \in Monitors, Fetch(m) PROVE RunsTyped'
  <2> DEFINE r == [run[m] EXCEPT !.step = "leader", !.snapshot = market]
  <2>1. run' = [run EXCEPT ![m] = IdleRun] \/ run' = [run EXCEPT ![m] = r]
    BY <1>5 DEF Fetch
  <2>2. RunTyped(r)
    BY <1>5 DEF Fetch, RunTyped, IdleRun
  <2> QED
    BY <1>3, <2>1, <2>2
<1>6. ASSUME NEW m \in Monitors, NEW s \in Subs, CompareLeader(m, s) PROVE RunsTyped'
  <2> DEFINE r == [run[m] EXCEPT !.step = "target", !.at = s]
  <2>1. run' = [run EXCEPT ![m] = r]
    BY <1>6 DEF CompareLeader
  <2>2. RunTyped(r)
    BY <1>6 DEF CompareLeader, RunTyped, IdleRun
  <2> QED
    BY <1>3, <2>1, <2>2
<1>7. ASSUME NEW m \in Monitors, CompareTarget(m) PROVE RunsTyped'
  <2> DEFINE left == DOMAIN run[m].copies \ {run[m].at}
             copies == [t \in left |-> run[m].copies[t]]
             r == [run[m] EXCEPT !.step = "leader", !.at = NoEvent, !.copies = copies]
  <2>1. \/ run' = [run EXCEPT ![m] = IdleRun]
        \/ left # {} /\ run' = [run EXCEPT ![m] = r]
    BY <1>7 DEF CompareTarget
  <2>2. /\ DOMAIN copies = left /\ left \subseteq Subs
        /\ copies \in [left -> Docs]
    BY DEF RunTyped
  <2> HIDE DEF left, copies
  <2>3. left # {} => RunTyped(r)
    BY <2>2 DEF RunTyped, IdleRun
  <2> QED
    BY <1>3, <2>1, <2>3
<1>8. ASSUME NEW m \in Monitors, RunFails(m) PROVE RunsTyped'
  BY <1>3, <1>8 DEF RunFails
<1> QED
  BY <1>1, <1>2, <1>4, <1>5, <1>6, <1>7, <1>8
  DEF TrackingNext, ChangeMarket, RunStep, HandlerStep, SendEvent, FinalizeEvent, TakeUp,
      CheckProduct, UpsertRead, UpsertWrite, Confirm, UpsertFails, Cancel, Stop, allVars,
      trackingVars

LEMMA SavesStayTyped ==
  ASSUME TrackingTyped, [TrackingNext]_allVars
  PROVE  SavesTyped'
<1> USE DEF TrackingTyped, SavesTyped
<1>0. IdleSave \in Saves /\ IdleSave.step = "idle"
  BY DEF IdleSave, Saves
<1>1. CASE UNCHANGED save
  BY <1>1
<1>2. CASE Restart
  BY <1>0, <1>2 DEF Restart
<1>3. ASSUME NEW u \in Savers, NEW c \in Saves, c.step = "idle" \/ c.sub \in Subs,
             save' = [save EXCEPT ![u] = c]
      PROVE  SavesTyped'
  BY <1>3
<1>4. ASSUME NEW u \in Savers, NEW s \in Subs, NEW t \in Targets, UpsertRead(u, s, t)
      PROVE  SavesTyped'
  <2> DEFINE c == [step |-> "write", sub |-> s, leader |-> pending[s], target |-> t,
                   changed |-> ~doc[s].stored \/ doc[s].target # t]
  <2>1. c \in Saves /\ c.sub \in Subs
    BY DEF Saves
  <2>2. save' = [save EXCEPT ![u] = c]
    BY <1>4 DEF UpsertRead
  <2> HIDE DEF c
  <2> QED
    BY <1>3, <2>1, <2>2
<1>5. ASSUME NEW u \in Savers, UpsertWrite(u) PROVE SavesTyped'
  <2> DEFINE c == [save[u] EXCEPT !.step = "confirm"]
  <2>1. c \in Saves /\ c.sub \in Subs
    BY <1>5 DEF Saves, UpsertWrite
  <2>2. save' = [save EXCEPT ![u] = c]
    BY <1>5 DEF UpsertWrite
  <2> HIDE DEF c
  <2> QED
    BY <1>3, <2>1, <2>2
<1>6. ASSUME NEW u \in Savers, Confirm(u) \/ UpsertFails(u) PROVE SavesTyped'
  BY <1>0, <1>3, <1>6 DEF Confirm, UpsertFails
<1> QED
  BY <1>1, <1>2, <1>4, <1>5, <1>6
  DEF TrackingNext, ChangeMarket, FindActive, RunStep, Fetch, CompareLeader,
      CompareTarget, RunFails, HandlerStep, SendEvent, FinalizeEvent, TakeUp,
      CheckProduct, Cancel, Stop, allVars, trackingVars

LEMMA RestStaysTyped ==
  ASSUME EventTypeOK, TrackingTyped, [TrackingNext]_allVars
  PROVE  /\ market' \in Snapshots
         /\ pending' \in [Subs -> Offers \cup {NoOffer}]
         /\ news' \in [Subs -> Offers \cup {NoOffer}]
         /\ dipTold' \in [Subs -> Nat]
         /\ wasReset' \in [Subs -> BOOLEAN]
<1> DEFINE Rest == /\ market' \in Snapshots
                   /\ pending' \in [Subs -> Offers \cup {NoOffer}]
                   /\ news' \in [Subs -> Offers \cup {NoOffer}]
                   /\ dipTold' \in [Subs -> Nat]
                   /\ wasReset' \in [Subs -> BOOLEAN]
<1> USE DEF TrackingTyped
<1>1. CASE UNCHANGED <<market, pending, news, dipTold, wasReset>>
  BY <1>1
<1>2. CASE ChangeMarket
  BY <1>2 DEF ChangeMarket
<1>3. ASSUME NEW h \in Handlers, SendEvent(h) PROVE Rest
  <2>1. task[h] \in Events
    BY <1>3 DEF SendEvent, Send, EventTypeOK
  <2>2. /\ task[h].sub \in Subs
        /\ task[h].type = "leader" => task[h].arg \in Offers
    BY <2>1, EventArgs
  <2>3. UNCHANGED <<market, pending, wasReset>>
    BY <1>3 DEF SendEvent
  <2>4. \/ /\ task[h].type = "leader" /\ UNCHANGED dipTold
           /\ news' = [news EXCEPT ![task[h].sub] = task[h].arg]
        \/ /\ dipTold' = [dipTold EXCEPT ![task[h].sub] = @ + 1] /\ UNCHANGED news
        \/ UNCHANGED <<news, dipTold>>
    BY <1>3 DEF SendEvent
  <2> QED
    BY <2>2, <2>3, <2>4
<1>4. CASE Restart
  BY <1>4 DEF Restart
<1>5. ASSUME NEW s \in Subs, CheckProduct(s) \/ Cancel(s) PROVE Rest
  BY <1>5 DEF CheckProduct, Cancel, Snapshots
<1>6. ASSUME NEW m \in Monitors, CompareTarget(m) PROVE Rest
  <2>1. UNCHANGED <<market, pending, news, dipTold>>
    BY <1>6 DEF CompareTarget
  <2>2. wasReset' \in [Subs -> BOOLEAN]
    BY <1>6 DEF CompareTarget, RearmTargetPrice, Rearm
  <2> QED
    BY <2>1, <2>2
<1>7. ASSUME NEW u \in Savers, UpsertWrite(u) PROVE Rest
  <2>1. save[u].sub \in Subs /\ save[u].changed \in BOOLEAN
    BY <1>7 DEF SavesTyped, Saves, UpsertWrite
  <2>2. doc[save[u].sub].triggered \in BOOLEAN
    BY <2>1 DEF DocsTyped, Docs
  <2>3. dipTold' \in [Subs -> Nat]
    BY <1>7 DEF UpsertWrite
  <2>4. wasReset' \in [Subs -> BOOLEAN]
    BY <1>7, <2>1, <2>2 DEF UpsertWrite
  <2> QED
    BY <1>7, <2>3, <2>4 DEF UpsertWrite
<1>8. ASSUME NEW u \in Savers, Confirm(u) PROVE Rest
  BY <1>8 DEF Confirm, SavesTyped, Saves
<1> QED
  BY <1>1, <1>2, <1>3, <1>4, <1>5, <1>6, <1>7, <1>8
  DEF TrackingNext, FindActive, RunStep, Fetch, CompareLeader, RunFails,
      HandlerStep, FinalizeEvent, TakeUp, Stop, UpsertRead, UpsertFails, allVars,
      trackingVars

LEMMA TrackingTypedInit == TrackingInit => TrackingTyped
<1> SUFFICES ASSUME TrackingInit PROVE TrackingTyped
  OBVIOUS
<1>1. NoDoc \in Docs /\ \A t \in Targets : LegacyDoc(t) \in Docs /\ LegacyDoc(t).stored
  BY DEF NoDoc, LegacyDoc, Docs
<1>2. DocsTyped
  BY <1>1 DEF TrackingInit, DocsTyped, NoDoc
<1>3. RunsTyped
  BY IdleRunTyped DEF TrackingInit, RunsTyped
<1>4. SavesTyped
  BY DEF TrackingInit, IdleSave, SavesTyped, Saves
<1> QED
  BY <1>2, <1>3, <1>4 DEF TrackingInit, TrackingTyped

LEMMA TrackingTypes == TrackingSpec => [](EventTypeOK /\ TrackingTyped)
<1>1. TrackingSpec => []EventTypeOK
  BY TrackingImplementsEvents, EventTypeCorrect, PTL
<1>2. EventTypeOK /\ TrackingTyped /\ [TrackingNext]_allVars => TrackingTyped'
  BY DocsStayTyped, RunsStayTyped, SavesStayTyped, RestStaysTyped DEF TrackingTyped
<1> QED
  BY <1>1, <1>2, TrackingTypedInit, PTL DEF TrackingSpec

\* TrackingTypeOK, for any number of chats, overlapping runs and handlers and under
\* every failure.
THEOREM TrackingTypeCorrect == TrackingSpec => []TrackingTypeOK
<1>1. EventTypeOK /\ TrackingTyped => TrackingTypeOK
  BY DEF TrackingTyped, DocsTyped, RunsTyped, RunTyped, SavesTyped, Saves, TrackingTypeOK
<1> QED
  BY <1>1, TrackingTypes, PTL

-----------------------------------------------------------------------------
\* Versions are numbers, in the documents and in the copies of the runs.
VersionsTyped ==
  /\ DOMAIN doc = Subs
  /\ \A s \in Subs : DOMAIN doc[s] = DOMAIN NoDoc /\ doc[s].version \in Nat
  /\ DOMAIN run = Monitors
  /\ \A m \in Monitors : DOMAIN run[m] = DOMAIN IdleRun
  /\ \A m \in Monitors : \A s \in DOMAIN run[m].copies :
       s \in Subs /\ run[m].copies[s].version \in Nat

\* A copy is never ahead of its document.
CopiesAreOld ==
  \A m \in Monitors : \A s \in DOMAIN run[m].copies :
    run[m].copies[s].version <= doc[s].version

\* An identifier is at most one ahead of the version when it is published, and not
\* ahead any more when its event is about to be marked sent.
IdsFollowVersion ==
  /\ \A e \in LeaderIds : status[e] # "absent" => e.seq <= doc[e.sub].version + 1
  /\ \A e \in LeaderIds : status[e] = "sent" => e.seq <= doc[e.sub].version
  /\ \A h \in Handlers : stage[h] # "idle" => status[task[h]] # "absent"
  /\ \A h \in Handlers :
       stage[h] \in {"mark", "resumeMark"} /\ task[h] \in LeaderIds
         => task[h].seq <= doc[task[h].sub].version

VersionInv == EventTypeOK /\ VersionsTyped /\ CopiesAreOld /\ IdsFollowVersion

LEMMA LeaderIdFields ==
  /\ \A e \in LeaderIds : e \in Events /\ e.type = "leader" /\ e.sub \in Subs /\ e.seq \in Nat
  /\ \A e \in Events : e.sub \in Subs /\ (e.type = "leader" => e \in LeaderIds)
  BY TrackingAssumption DEF LeaderIds, TargetIds

LEMMA VersionInvInit == TrackingInit => VersionInv
<1> SUFFICES ASSUME TrackingInit PROVE VersionInv
  OBVIOUS
<1>1. EventInit /\ EventTypeOK
  BY ConstantsAssumption DEF TrackingInit, EventInit, EventTypeOK
<1>2. VersionsTyped
  BY DEF TrackingInit, VersionsTyped, LegacyDoc, NoDoc, IdleRun, NoCopies
<1>3. CopiesAreOld
  BY DEF TrackingInit, CopiesAreOld, IdleRun, NoCopies
<1>4. IdsFollowVersion
  BY <1>1, LeaderIdFields DEF EventInit, IdsFollowVersion
<1> QED
  BY <1>1, <1>2, <1>3, <1>4 DEF VersionInv

\* A document of any subscription, or of none, may only be replaced by one with
\* the same fields and no lower version.
LEMMA UpdateGrows ==
  ASSUME VersionsTyped, NEW x, NEW d, Update(x, d),
         x \in Subs => /\ DOMAIN d = DOMAIN NoDoc
                       /\ d.version \in Nat
                       /\ doc[x].version <= d.version
  PROVE  /\ DOMAIN doc' = Subs
         /\ \A s \in Subs : /\ DOMAIN doc'[s] = DOMAIN NoDoc
                           /\ doc'[s].version \in Nat
                           /\ doc[s].version <= doc'[s].version
  BY DEF VersionsTyped, Update

\* Nothing lowers a version.
LEMMA VersionsGrow ==
  ASSUME VersionsTyped, EventTypeOK, [TrackingNext]_allVars
  PROVE  /\ DOMAIN doc' = Subs
         /\ \A s \in Subs : /\ DOMAIN doc'[s] = DOMAIN NoDoc
                           /\ doc'[s].version \in Nat
                           /\ doc[s].version <= doc'[s].version
<1> DEFINE Grown == /\ DOMAIN doc' = Subs
                    /\ \A s \in Subs : /\ DOMAIN doc'[s] = DOMAIN NoDoc
                                      /\ doc'[s].version \in Nat
                                      /\ doc[s].version <= doc'[s].version
<1> USE DEF VersionsTyped, NoDoc
<1>1. CASE UNCHANGED doc
  BY <1>1
<1>2. ASSUME NEW m \in Monitors, NEW s \in Subs, CompareLeader(m, s) PROVE Grown
  BY <1>2 DEF CompareLeader, SetLastLeader
<1>3. ASSUME NEW m \in Monitors, CompareTarget(m) PROVE Grown
  <2> DEFINE s == run[m].at
             d == [doc[s] EXCEPT !.triggered = FALSE, !.cycle = @ + 1]
  <2>1. s \in Subs => DOMAIN d = DOMAIN NoDoc /\ d.version = doc[s].version
    OBVIOUS
  <2>2. UNCHANGED doc \/ Update(s, d)
    BY <1>3 DEF CompareTarget, RearmTargetPrice, Rearm
  <2>3. CASE Update(s, d)
    <3> HIDE DEF d
    <3> QED
      BY <2>1, <2>3, UpdateGrows
  <2> QED
    BY <1>1, <2>2, <2>3
<1>4. ASSUME NEW h \in Handlers, FinalizeEvent(h) PROVE Grown
  <2> DEFINE s == task[h].sub
             d1 == [doc[s] EXCEPT !.leader = task[h].arg, !.version = @ + 1]
             d2 == [doc[s] EXCEPT !.triggered = TRUE]
  <2>1. s \in Subs => /\ DOMAIN d1 = DOMAIN NoDoc /\ d1.version = doc[s].version + 1
                     /\ DOMAIN d2 = DOMAIN NoDoc /\ d2.version = doc[s].version
    OBVIOUS
  <2>2. Update(s, d1) \/ Update(s, d2)
    BY <1>4 DEF FinalizeEvent, AdvanceLeader, SetTargetPriceTriggered
  <2> HIDE DEF d1, d2
  <2> QED
    BY <2>1, <2>2, UpdateGrows
<1>5. ASSUME NEW u \in Savers, UpsertWrite(u) PROVE Grown
  BY <1>5 DEF UpsertWrite, Update
<1>6. ASSUME NEW s \in Subs, Stop(s) PROVE Grown
  BY <1>6 DEF Stop
<1> QED
  BY <1>1, <1>2, <1>3, <1>4, <1>5, <1>6
  DEF TrackingNext, ChangeMarket, Restart, FindActive, RunStep, Fetch, RunFails,
      HandlerStep, SendEvent, TakeUp, CheckProduct, UpsertRead, Confirm, UpsertFails, Cancel,
      allVars, trackingVars

\* The copies of a run are taken from the documents, and versions only grow.
LEMMA CopiesStayOld ==
  ASSUME VersionInv, [TrackingNext]_allVars
  PROVE  VersionsTyped' /\ CopiesAreOld'
<1> DEFINE Good == VersionsTyped' /\ CopiesAreOld'
<1>0. /\ DOMAIN doc' = Subs
      /\ \A s \in Subs : /\ DOMAIN doc'[s] = DOMAIN NoDoc
                        /\ doc'[s].version \in Nat
                        /\ doc[s].version <= doc'[s].version
  BY VersionsGrow DEF VersionInv
<1> USE <1>0 DEF VersionInv, VersionsTyped, CopiesAreOld, IdleRun, NoCopies
<1>1. CASE UNCHANGED run
  BY <1>1
<1>2. CASE Restart
  BY <1>2 DEF Restart
<1>3. ASSUME NEW m \in Monitors, FindActive(m) PROVE Good
  BY <1>3 DEF FindActive
<1>4. ASSUME NEW m \in Monitors, Fetch(m) PROVE Good
  BY <1>4 DEF Fetch
<1>5. ASSUME NEW m \in Monitors, NEW s \in Subs, CompareLeader(m, s) PROVE Good
  BY <1>5 DEF CompareLeader
<1>6. ASSUME NEW m \in Monitors, CompareTarget(m) PROVE Good
  BY <1>6 DEF CompareTarget
<1>7. ASSUME NEW m \in Monitors, RunFails(m) PROVE Good
  BY <1>7 DEF RunFails
<1> QED
  BY <1>1, <1>2, <1>3, <1>4, <1>5, <1>6, <1>7
  DEF TrackingNext, ChangeMarket, RunStep, HandlerStep, SendEvent, FinalizeEvent, TakeUp,
      CheckProduct, UpsertRead, UpsertWrite, Confirm, UpsertFails, Cancel, Stop, allVars,
      trackingVars

\* A published identifier is one ahead of a copy, hence at most one ahead of the
\* document; finalizing its event raises the version; only then is it marked sent.
LEMMA IdsStayBehind ==
  ASSUME VersionInv, [TrackingNext]_allVars
  PROVE  IdsFollowVersion'
<1>1. /\ IdsFollowVersion /\ EventTypeOK /\ VersionsTyped /\ CopiesAreOld
  BY DEF VersionInv
<1>2. \A s \in Subs : /\ doc[s].version \in Nat /\ doc'[s].version \in Nat
                     /\ doc[s].version <= doc'[s].version
  BY <1>1, VersionsGrow DEF VersionsTyped
<1>3. \A h \in Handlers : stage[h] # "idle" => task[h] \in Events
  BY <1>1 DEF EventTypeOK
<1> USE DEF IdsFollowVersion, EventTypeOK, eventVars
<1>4. CASE UNCHANGED <<status, stage, task>>
  BY <1>1, <1>2, <1>3, <1>4, LeaderIdFields
<1>5. CASE Restart
  BY <1>1, <1>2, <1>5, LeaderIdFields DEF Restart, Crash
<1>6. ASSUME NEW e \in Events, Insert(e),
             e \in LeaderIds => e.seq <= doc[e.sub].version + 1
      PROVE  IdsFollowVersion'
  BY <1>1, <1>2, <1>3, <1>6, LeaderIdFields DEF Insert
<1>7. ASSUME NEW m \in Monitors, NEW s \in Subs, CompareLeader(m, s)
      PROVE  IdsFollowVersion'
  <2> DEFINE e == LeaderId(s, run[m].copies[s].version + 1, run[m].snapshot.leader)
  <2>1. UNCHANGED eventVars \/ (e \in Events /\ Insert(e))
    BY <1>7 DEF CompareLeader, Publish
  <2>2. e.sub = s /\ e.seq = run[m].copies[s].version + 1
    BY DEF LeaderId
  <2>3. e.seq <= doc[e.sub].version + 1
    BY <1>1, <1>2, <1>7, <2>2 DEF CompareLeader, CopiesAreOld, VersionsTyped
  <2> HIDE DEF e
  <2> QED
    BY <1>4, <1>6, <2>1, <2>3
<1>8. ASSUME NEW m \in Monitors, CompareTarget(m) PROVE IdsFollowVersion'
  <2> DEFINE e == TargetId(run[m].at, run[m].copies[run[m].at].cycle,
                           run[m].copies[run[m].at].target)
  <2>1. UNCHANGED eventVars \/ (e \in Events /\ Insert(e))
    BY <1>8 DEF CompareTarget, Publish
  <2>2. e \notin LeaderIds
    BY LeaderIdFields DEF TargetId
  <2> HIDE DEF e
  <2> QED
    BY <1>4, <1>6, <2>1, <2>2
<1>9. ASSUME NEW h \in Handlers, NEW e \in Events, TakeUp(h, e) PROVE IdsFollowVersion'
  BY <1>1, <1>2, <1>3, <1>9, LeaderIdFields DEF TakeUp, Start
<1>22. ASSUME NEW h \in Handlers, Read(h) PROVE IdsFollowVersion'
  <2>1. AfterRead[status[task[h]]] \in {"return", "resume", "claim"}
    BY <1>1, <1>3, <1>22 DEF AfterRead, Read
  <2> QED
    BY <1>1, <1>2, <1>3, <1>22, <2>1, LeaderIdFields DEF Read
<1>10. ASSUME NEW h \in Handlers, Claim(h) PROVE IdsFollowVersion'
  BY <1>1, <1>2, <1>3, <1>10, LeaderIdFields DEF Claim, ClaimWith
<1>11. ASSUME NEW h \in Handlers, Send(h) PROVE IdsFollowVersion'
  BY <1>1, <1>2, <1>3, <1>11, LeaderIdFields DEF Send
<1>12. ASSUME NEW h \in Handlers, FinalizeEvent(h) PROVE IdsFollowVersion'
  <2>1. task[h] \in Events /\ status[task[h]] # "absent"
    BY <1>1, <1>3, <1>12 DEF FinalizeEvent, Finalize
  <2>2. task[h] \in LeaderIds => doc'[task[h].sub].version = doc[task[h].sub].version + 1
    <3> DEFINE s == task[h].sub
               d == [doc[s] EXCEPT !.leader = task[h].arg, !.version = @ + 1]
    <3>1. ASSUME task[h] \in LeaderIds PROVE s \in Subs /\ Update(s, d)
      BY <1>12, <3>1, LeaderIdFields DEF FinalizeEvent, AdvanceLeader
    <3>2. s \in Subs => d.version = doc[s].version + 1
      BY <1>1 DEF VersionsTyped, NoDoc
    <3>3. s \in Subs => s \in DOMAIN doc
      BY <1>1 DEF VersionsTyped
    <3> HIDE DEF d
    <3> QED
      BY <3>1, <3>2, <3>3 DEF Update
  <2>3. task[h] \in LeaderIds => task[h].seq <= doc'[task[h].sub].version
    BY <1>1, <2>1, <2>2
  <2>4. UNCHANGED <<status, task>> /\ \E next : Goto(h, next)
    BY <1>12 DEF FinalizeEvent, Finalize
  <2>5. stage[h] # "idle"
    BY <1>12 DEF FinalizeEvent, Finalize
  <2> QED
    BY <1>1, <1>2, <1>3, <2>1, <2>3, <2>4, <2>5, LeaderIdFields
<1>13. ASSUME NEW h \in Handlers, MarkSent(h) PROVE IdsFollowVersion'
  BY <1>1, <1>2, <1>3, <1>13, LeaderIdFields DEF MarkSent
<1>14. ASSUME NEW h \in Handlers, RecordFailure(h) PROVE IdsFollowVersion'
  BY <1>1, <1>2, <1>3, <1>14, LeaderIdFields DEF RecordFailure
<1>15. ASSUME NEW h \in Handlers, MongoError(h) PROVE IdsFollowVersion'
  BY <1>1, <1>2, <1>3, <1>15, LeaderIdFields DEF MongoError, AfterMongoError
<1>16. ASSUME NEW h \in Handlers, Settle(h) PROVE IdsFollowVersion'
  BY <1>1, <1>2, <1>3, <1>16, LeaderIdFields DEF Settle
<1>17. ASSUME NEW h \in Handlers, HandlerStep(h) PROVE IdsFollowVersion'
  BY <1>10, <1>11, <1>12, <1>13, <1>14, <1>15, <1>16, <1>17, <1>22
  DEF HandlerStep, SendEvent
<1>18. ASSUME NEW m \in Monitors, FindActive(m) \/ Fetch(m) \/ RunFails(m)
       PROVE  IdsFollowVersion'
  BY <1>4, <1>18 DEF FindActive, Fetch, RunFails
<1>19. ASSUME NEW s \in Subs, CheckProduct(s) \/ Cancel(s) \/ Stop(s)
       PROVE  IdsFollowVersion'
  BY <1>4, <1>19 DEF CheckProduct, Cancel, Stop
<1>20. ASSUME NEW u \in Savers,
              \/ UpsertWrite(u) \/ Confirm(u) \/ UpsertFails(u)
              \/ \E s \in Subs, t \in Targets : UpsertRead(u, s, t)
       PROVE  IdsFollowVersion'
  BY <1>4, <1>20 DEF UpsertRead, UpsertWrite, Confirm, UpsertFails
<1>21. CASE ChangeMarket \/ UNCHANGED allVars
  BY <1>4, <1>21 DEF ChangeMarket, allVars
<1> QED
  BY <1>5, <1>7, <1>8, <1>9, <1>17, <1>18, <1>19, <1>20, <1>21 DEF TrackingNext, RunStep

\* VersionCoversSent, for any number of chats, offers, overlapping runs and
\* handlers, under every failure.
THEOREM SentLeadersAreCounted == TrackingSpec => []VersionCoversSent
<1>1. TrackingSpec => []EventTypeOK
  BY TrackingImplementsEvents, EventTypeCorrect, PTL
<1>2. VersionInv /\ EventTypeOK' /\ [TrackingNext]_allVars => VersionInv'
  BY CopiesStayOld, IdsStayBehind DEF VersionInv
<1>3. VersionInv => VersionCoversSent
  BY DEF VersionInv, IdsFollowVersion, VersionCoversSent, LeaderIds, LeaderId
<1> QED
  BY <1>1, <1>2, <1>3, VersionInvInit, PTL DEF TrackingSpec
-----------------------------------------------------------------------------
\* The target prices.  A stored subscription has one of them, an active subscription is
\* stored, and so is one that a run works on.
StoredInv ==
  /\ DOMAIN doc = Subs /\ DOMAIN run = Monitors /\ DOMAIN save = Savers
  /\ \A s \in Subs :
       /\ DOMAIN doc[s] = DOMAIN NoDoc
       /\ doc[s].cycle \in Nat
       /\ doc[s].stored => doc[s].target \in Targets
       /\ doc[s].active => doc[s].stored
  /\ wasReset \in [Subs -> BOOLEAN]
  /\ \A u \in Savers :
       /\ DOMAIN save[u] = DOMAIN IdleSave
       /\ save[u].step = "write" => save[u].sub \in Subs /\ save[u].target \in Targets
  /\ \A m \in Monitors :
       /\ DOMAIN run[m] = DOMAIN IdleRun
       /\ run[m].step = "target" => run[m].at \in DOMAIN run[m].copies
       /\ \A s \in DOMAIN run[m].copies :
            s \in Subs /\ run[m].copies[s].cycle \in Nat /\ doc[s].stored

\* The cycles that runs work with are not ahead of the documents.
CyclesAreOld ==
  \A m \in Monitors : \A s \in DOMAIN run[m].copies :
    run[m].copies[s].cycle <= doc[s].cycle

\* The event was in an earlier cycle, or it triggered its subscription in this one,
\* which a save may have reset since.
Used(e) ==
  \/ e.seq < doc[e.sub].cycle
  \/ e.seq = doc[e.sub].cycle /\ (doc[e.sub].triggered \/ wasReset[e.sub])

\* Target events exist for stored subscriptions only, none ahead of the cycle, and
\* one that is sent or about to be marked so is used.
TargetIdsInv ==
  /\ \A e \in TargetIds : status[e] # "absent" =>
       doc[e.sub].stored /\ e.seq <= doc[e.sub].cycle
  /\ \A e \in TargetIds : status[e] = "sent" => Used(e)
  /\ \A h \in Handlers : stage[h] # "idle" => status[task[h]] # "absent"
  /\ \A h \in Handlers :
       stage[h] \in {"mark", "resumeMark"} /\ task[h] \in TargetIds => Used(task[h])

TargetInv == EventTypeOK /\ StoredInv /\ CyclesAreOld /\ TargetIdsInv

LEMMA TargetIdFields ==
  /\ \A e \in TargetIds : e \in Events /\ e.type = "target" /\ e.sub \in Subs /\ e.seq \in Nat
  /\ \A e \in Events : e.sub \in Subs /\ (e.type # "leader" => e \in TargetIds)
  BY TrackingAssumption DEF LeaderIds, TargetIds

LEMMA TargetInvInit == TrackingInit => TargetInv
<1> SUFFICES ASSUME TrackingInit PROVE TargetInv
  OBVIOUS
<1>1. EventInit /\ EventTypeOK
  BY ConstantsAssumption DEF TrackingInit, EventInit, EventTypeOK
<1>2. StoredInv
  BY DEF TrackingInit, StoredInv, LegacyDoc, NoDoc, IdleRun, NoCopies, IdleSave
<1>3. CyclesAreOld
  BY DEF TrackingInit, CyclesAreOld, IdleRun, NoCopies
<1>4. TargetIdsInv
  BY <1>1, TargetIdFields DEF EventInit, TargetIdsInv
<1> QED
  BY <1>1, <1>2, <1>3, <1>4 DEF TargetInv

\* What a write of a run or a handler may do to the target price: no lower cycle, and
\* a subscription is not armed again within its cycle.
Advances(s, d) ==
  /\ DOMAIN d = DOMAIN NoDoc
  /\ d.cycle \in Nat /\ doc[s].cycle <= d.cycle
  /\ d.target = doc[s].target /\ d.stored = doc[s].stored
  /\ d.active = doc[s].active
  /\ doc[s].triggered => d.triggered \/ doc[s].cycle < d.cycle

\* Every write of the runs and the handlers is of that kind.
LEMMA WritesAdvance ==
  ASSUME StoredInv, NEW s \in Subs, NEW o
  PROVE  /\ Advances(s, doc[s])
         /\ Advances(s, [doc[s] EXCEPT !.leader = o])
         /\ Advances(s, [doc[s] EXCEPT !.leader = o, !.version = @ + 1])
         /\ Advances(s, [doc[s] EXCEPT !.triggered = TRUE])
         /\ Advances(s, [doc[s] EXCEPT !.triggered = FALSE, !.cycle = @ + 1])
  BY DEF StoredInv, NoDoc, Advances

\* A write of that kind to one subscription, or to none.
LEMMA UpdateAdvances ==
  ASSUME StoredInv, NEW x, NEW d, Update(x, d), x \in Subs => Advances(x, d)
  PROVE  DOMAIN doc' = Subs /\ \A s \in Subs : Advances(s, doc'[s])
<1>1. \A s \in Subs : Advances(s, doc[s])
  BY WritesAdvance
<1> QED
  BY <1>1 DEF StoredInv, Update

\* What every step leaves of the target prices of the stored subscriptions.
DocsAdvance ==
  /\ DOMAIN doc' = Subs
  /\ wasReset' \in [Subs -> BOOLEAN]
  /\ \A s \in Subs :
       /\ DOMAIN doc'[s] = DOMAIN NoDoc
       /\ doc'[s].cycle \in Nat /\ doc[s].cycle <= doc'[s].cycle
       /\ doc'[s].stored => doc'[s].target \in Targets
       /\ doc'[s].active => doc'[s].stored
       /\ doc[s].stored => doc'[s].stored
       /\ doc[s].triggered \/ wasReset[s] =>
            doc'[s].triggered \/ wasReset'[s] \/ doc[s].cycle < doc'[s].cycle

LEMMA StepsAdvance ==
  ASSUME StoredInv, EventTypeOK, [TrackingNext]_allVars
  PROVE  DocsAdvance
<1>1. ASSUME DOMAIN doc' = Subs, \A s \in Subs : Advances(s, doc'[s]), UNCHANGED wasReset
      PROVE  DocsAdvance
  BY <1>1 DEF Advances, StoredInv, DocsAdvance
<1>2. ASSUME NEW x, NEW d, Update(x, d), x \in Subs => Advances(x, d), UNCHANGED wasReset
      PROVE  DocsAdvance
  BY <1>1, <1>2, UpdateAdvances
<1>3. CASE UNCHANGED <<doc, wasReset>>
  BY <1>3 DEF StoredInv, DocsAdvance
<1>4. ASSUME NEW m \in Monitors, NEW s \in Subs, CompareLeader(m, s) PROVE DocsAdvance
  <2> DEFINE d == [doc[s] EXCEPT !.leader = run[m].snapshot.leader]
  <2>1. (UNCHANGED doc \/ Update(s, d)) /\ UNCHANGED wasReset
    BY <1>4 DEF CompareLeader, SetLastLeader, Update
  <2>2. Advances(s, d)
    BY WritesAdvance
  <2> HIDE DEF d
  <2> QED
    BY <1>2, <1>3, <2>1, <2>2
<1>5. ASSUME NEW m \in Monitors, CompareTarget(m) PROVE DocsAdvance
  <2> DEFINE s == run[m].at
             d == [doc[s] EXCEPT !.triggered = FALSE, !.cycle = @ + 1]
  <2>1. \/ UNCHANGED <<doc, wasReset>>
        \/ Update(s, d) /\ wasReset' = [wasReset EXCEPT ![s] = FALSE]
    BY <1>5 DEF CompareTarget, RearmTargetPrice, Rearm
  <2>2. s \in Subs
    BY <1>5 DEF StoredInv, CompareTarget
  <2>3. Advances(s, d) /\ d.cycle = doc[s].cycle + 1 /\ doc[s].cycle \in Nat
    BY <2>2, WritesAdvance DEF StoredInv, NoDoc
  <2> HIDE DEF d, s
  <2>4. CASE Update(s, d) /\ wasReset' = [wasReset EXCEPT ![s] = FALSE]
    <3>1. DOMAIN doc' = Subs /\ \A x \in Subs : Advances(x, doc'[x])
      BY <2>2, <2>3, <2>4, UpdateAdvances
    <3>2. doc'[s].cycle = doc[s].cycle + 1 /\ \A x \in Subs : x # s => doc'[x] = doc[x]
      BY <2>2, <2>3, <2>4 DEF Update, StoredInv
    <3> QED
      BY <2>2, <2>3, <2>4, <3>1, <3>2 DEF Advances, StoredInv, DocsAdvance
  <2> QED
    BY <1>3, <2>1, <2>4
<1>6. ASSUME NEW h \in Handlers, FinalizeEvent(h) PROVE DocsAdvance
  <2> DEFINE s == task[h].sub
             d1 == [doc[s] EXCEPT !.leader = task[h].arg, !.version = @ + 1]
             d2 == [doc[s] EXCEPT !.triggered = TRUE]
  <2>1. (Update(s, d1) \/ Update(s, d2)) /\ UNCHANGED wasReset
    BY <1>6 DEF FinalizeEvent, AdvanceLeader, SetTargetPriceTriggered
  <2>2. s \in Subs => Advances(s, d1) /\ Advances(s, d2)
    BY WritesAdvance
  <2> HIDE DEF d1, d2
  <2> QED
    BY <1>2, <2>1, <2>2
<1>7. ASSUME NEW u \in Savers, UpsertWrite(u) PROVE DocsAdvance
  <2> DEFINE s == save[u].sub
             reset == save[u].changed
             d == [doc[s] EXCEPT !.stored = TRUE, !.active = TRUE,
                                 !.target = save[u].target, !.leader = save[u].leader,
                                 !.triggered = doc[s].triggered /\ ~reset]
             w == [wasReset EXCEPT ![s] = wasReset[s] \/ (reset /\ doc[s].triggered)]
  <2>1. Update(s, d) /\ wasReset' = w
    BY <1>7 DEF UpsertWrite
  <2>2. s \in Subs /\ save[u].target \in Targets
    BY <1>7 DEF UpsertWrite, StoredInv
  <2>3. /\ DOMAIN d = DOMAIN NoDoc /\ d.cycle = doc[s].cycle
        /\ d.stored /\ d.target = save[u].target
        /\ d.triggered = (doc[s].triggered /\ ~reset)
    BY <2>2 DEF StoredInv, NoDoc
  <2>4. /\ DOMAIN w = Subs /\ w[s] = (wasReset[s] \/ (reset /\ doc[s].triggered))
        /\ \A x \in Subs : w[x] \in BOOLEAN /\ (x # s => w[x] = wasReset[x])
    BY <2>2 DEF StoredInv
  <2>5. w \in [Subs -> BOOLEAN]
    BY <2>2 DEF StoredInv
  <2> HIDE DEF d, w
  <2>6. DOMAIN doc' = Subs /\ doc'[s] = d /\ \A x \in Subs : x # s => doc'[x] = doc[x]
    BY <2>1, <2>2 DEF Update, StoredInv
  <2>7. doc[s].triggered \/ wasReset[s] => d.triggered \/ w[s]
    BY <2>3, <2>4
  <2> HIDE DEF s, reset
  <2> QED
    BY <2>1, <2>2, <2>3, <2>4, <2>5, <2>6, <2>7 DEF StoredInv, DocsAdvance
<1>8. ASSUME NEW s \in Subs, Stop(s) PROVE DocsAdvance
  BY <1>8 DEF Stop, StoredInv, NoDoc, DocsAdvance
<1> QED
  BY <1>3, <1>4, <1>5, <1>6, <1>7, <1>8
  DEF TrackingNext, ChangeMarket, Restart, FindActive, RunStep, Fetch, RunFails,
      HandlerStep, SendEvent, TakeUp, CheckProduct, UpsertRead, Confirm, UpsertFails,
      Cancel, allVars, trackingVars

LEMMA StoredStays ==
  ASSUME StoredInv, EventTypeOK, CyclesAreOld, [TrackingNext]_allVars
  PROVE  StoredInv' /\ CyclesAreOld'
<1>0. DocsAdvance
  BY StepsAdvance
<1> DEFINE RunsGood ==
             /\ DOMAIN run' = Monitors
             /\ \A m \in Monitors :
                  /\ DOMAIN run'[m] = DOMAIN IdleRun
                  /\ run'[m].step = "target" => run'[m].at \in DOMAIN run'[m].copies
                  /\ \A s \in DOMAIN run'[m].copies :
                       /\ s \in Subs /\ run'[m].copies[s].cycle \in Nat /\ doc'[s].stored
                       /\ run'[m].copies[s].cycle <= doc'[s].cycle
           SavesGood ==
             /\ DOMAIN save' = Savers
             /\ \A u \in Savers :
                  /\ DOMAIN save'[u] = DOMAIN IdleSave
                  /\ save'[u].step = "write" => save'[u].sub \in Subs /\ save'[u].target \in Targets
<1>1. RunsGood
  <2> USE <1>0 DEF DocsAdvance, StoredInv, CyclesAreOld, IdleRun, NoCopies
  <2>1. CASE UNCHANGED run
    BY <2>1
  <2>2. CASE Restart
    BY <2>2 DEF Restart
  <2>3. ASSUME NEW m \in Monitors, FindActive(m) PROVE RunsGood
    BY <2>3 DEF FindActive
  <2>4. ASSUME NEW m \in Monitors, Fetch(m) PROVE RunsGood
    BY <2>4 DEF Fetch
  <2>5. ASSUME NEW m \in Monitors, NEW s \in Subs, CompareLeader(m, s) PROVE RunsGood
    BY <2>5 DEF CompareLeader
  <2>6. ASSUME NEW m \in Monitors, CompareTarget(m) PROVE RunsGood
    BY <2>6 DEF CompareTarget
  <2>7. ASSUME NEW m \in Monitors, RunFails(m) PROVE RunsGood
    BY <2>7 DEF RunFails
  <2> QED
    BY <2>1, <2>2, <2>3, <2>4, <2>5, <2>6, <2>7
    DEF TrackingNext, ChangeMarket, RunStep, HandlerStep, SendEvent, FinalizeEvent,
        TakeUp, CheckProduct, UpsertRead, UpsertWrite, Confirm, UpsertFails, Cancel, Stop,
        allVars, trackingVars
<1>2. SavesGood
  <2> USE DEF StoredInv, IdleSave
  <2>1. CASE UNCHANGED save
    BY <2>1
  <2>2. CASE Restart
    BY <2>2 DEF Restart
  <2>3. ASSUME NEW u \in Savers, UpsertWrite(u) \/ Confirm(u) \/ UpsertFails(u)
        PROVE  SavesGood
    BY <2>3 DEF UpsertWrite, Confirm, UpsertFails
  <2>4. ASSUME NEW u \in Savers, NEW s \in Subs, NEW t \in Targets, UpsertRead(u, s, t)
        PROVE  SavesGood
    BY <2>4 DEF UpsertRead
  <2> QED
    BY <2>1, <2>2, <2>3, <2>4
    DEF TrackingNext, ChangeMarket, FindActive, RunStep, Fetch, CompareLeader,
        CompareTarget, RunFails, HandlerStep, SendEvent, FinalizeEvent, TakeUp,
        CheckProduct, Cancel, Stop, allVars, trackingVars
<1> QED
  BY <1>0, <1>1, <1>2 DEF StoredInv, CyclesAreOld, DocsAdvance

\* A target event is published for a cycle that is not ahead of the document;
\* finalizing it triggers the subscription, which uses its identifier; only then
\* is it marked sent.
LEMMA TargetIdsStay ==
  ASSUME TargetInv, [TrackingNext]_allVars
  PROVE  TargetIdsInv'
<1>1. EventTypeOK /\ StoredInv /\ CyclesAreOld /\ TargetIdsInv
  BY DEF TargetInv
<1>2. DocsAdvance
  BY <1>1, StepsAdvance
<1>3. \A h \in Handlers : stage[h] # "idle" => task[h] \in Events
  BY <1>1 DEF EventTypeOK
<1>4. ASSUME NEW e \in TargetIds, status[e] # "absent"
      PROVE  /\ doc'[e.sub].stored /\ e.seq <= doc'[e.sub].cycle
             /\ Used(e) => Used(e)'
  <2>1. /\ e.sub \in Subs /\ e.seq \in Nat
        /\ doc[e.sub].stored /\ e.seq <= doc[e.sub].cycle
    BY <1>1, <1>4, TargetIdFields DEF TargetIdsInv
  <2>2. /\ doc[e.sub].cycle \in Nat /\ doc'[e.sub].cycle \in Nat
        /\ doc[e.sub].cycle <= doc'[e.sub].cycle
        /\ doc'[e.sub].stored
        /\ doc[e.sub].triggered \/ wasReset[e.sub] =>
             \/ doc'[e.sub].triggered \/ wasReset'[e.sub]
             \/ doc[e.sub].cycle < doc'[e.sub].cycle
    BY <1>1, <1>2, <2>1 DEF StoredInv, DocsAdvance
  <2> QED
    BY <2>1, <2>2 DEF Used
<1> USE DEF TargetIdsInv, EventTypeOK, eventVars
<1>5. CASE UNCHANGED <<status, stage, task>>
  BY <1>1, <1>3, <1>4, <1>5, TargetIdFields
<1>6. CASE Restart
  BY <1>1, <1>4, <1>6, TargetIdFields DEF Restart, Crash
<1>7. ASSUME NEW e \in Events, Insert(e),
             e \in TargetIds => doc'[e.sub].stored /\ e.seq <= doc'[e.sub].cycle
      PROVE  TargetIdsInv'
  BY <1>1, <1>3, <1>4, <1>7, TargetIdFields DEF Insert
<1>8. ASSUME NEW m \in Monitors, NEW s \in Subs, CompareLeader(m, s) PROVE TargetIdsInv'
  <2> DEFINE e == LeaderId(s, run[m].copies[s].version + 1, run[m].snapshot.leader)
  <2>1. UNCHANGED eventVars \/ (e \in Events /\ Insert(e))
    BY <1>8 DEF CompareLeader, Publish
  <2>2. e \notin TargetIds
    BY TargetIdFields DEF LeaderId
  <2> HIDE DEF e
  <2> QED
    BY <1>5, <1>7, <2>1, <2>2
<1>9. ASSUME NEW m \in Monitors, CompareTarget(m) PROVE TargetIdsInv'
  <2> DEFINE s == run[m].at
             e == TargetId(s, run[m].copies[s].cycle, run[m].copies[s].target)
  <2>1. UNCHANGED eventVars \/ (e \in Events /\ Insert(e) /\ UNCHANGED doc)
    BY <1>9 DEF CompareTarget, Publish
  <2>2. s \in DOMAIN run[m].copies
    BY <1>1, <1>9 DEF StoredInv, CompareTarget
  <2>3. /\ s \in Subs /\ doc[s].stored
        /\ run[m].copies[s].cycle <= doc[s].cycle
    BY <1>1, <2>2 DEF StoredInv, CyclesAreOld
  <2>4. e.sub = s /\ e.seq = run[m].copies[s].cycle
    BY DEF TargetId
  <2> HIDE DEF e
  <2> QED
    BY <1>5, <1>7, <2>1, <2>3, <2>4
<1>10. ASSUME NEW h \in Handlers, NEW e \in Events, TakeUp(h, e) PROVE TargetIdsInv'
  BY <1>1, <1>3, <1>4, <1>10, TargetIdFields DEF TakeUp, Start
<1>11. ASSUME NEW h \in Handlers, Read(h) PROVE TargetIdsInv'
  <2>1. AfterRead[status[task[h]]] \in {"return", "resume", "claim"}
    BY <1>1, <1>3, <1>11 DEF AfterRead, Read
  <2> QED
    BY <1>1, <1>3, <1>4, <1>11, <2>1, TargetIdFields DEF Read
<1>12. ASSUME NEW h \in Handlers, Claim(h) PROVE TargetIdsInv'
  BY <1>1, <1>3, <1>4, <1>12, TargetIdFields DEF Claim, ClaimWith
<1>13. ASSUME NEW h \in Handlers, Send(h) PROVE TargetIdsInv'
  BY <1>1, <1>3, <1>4, <1>13, TargetIdFields DEF Send
<1>14. ASSUME NEW h \in Handlers, FinalizeEvent(h) PROVE TargetIdsInv'
  <2> DEFINE s == task[h].sub
             d == [doc[s] EXCEPT !.triggered = TRUE]
  <2>1. task[h] \in Events /\ status[task[h]] # "absent"
    BY <1>1, <1>3, <1>14 DEF FinalizeEvent, Finalize
  <2>2. ASSUME task[h] \in TargetIds PROVE Used(task[h])'
    <3>1. s \in Subs /\ Update(s, d)
      BY <1>14, <2>2, TargetIdFields DEF FinalizeEvent, SetTargetPriceTriggered
    <3>2. d.triggered /\ d.cycle = doc[s].cycle /\ s \in DOMAIN doc
      BY <1>1, <3>1 DEF StoredInv, NoDoc
    <3>3. doc'[s].triggered /\ doc'[s].cycle = doc[s].cycle /\ UNCHANGED task
      <4>1. UNCHANGED task
        BY <1>14 DEF FinalizeEvent, Finalize, Goto
      <4> HIDE DEF d
      <4> QED
        BY <3>1, <3>2, <4>1 DEF Update
    <3>4. task[h].seq <= doc[s].cycle /\ task[h].seq \in Nat /\ doc[s].cycle \in Nat
      BY <1>1, <2>1, <2>2, <3>1, TargetIdFields DEF StoredInv
    <3> QED
      BY <3>3, <3>4 DEF Used
  <2>3. UNCHANGED <<status, task>> /\ \E next : Goto(h, next)
    BY <1>14 DEF FinalizeEvent, Finalize
  <2>4. stage[h] # "idle"
    BY <1>14 DEF FinalizeEvent, Finalize
  <2> QED
    BY <1>1, <1>3, <1>4, <2>1, <2>2, <2>3, <2>4, TargetIdFields
<1>15. ASSUME NEW h \in Handlers, MarkSent(h) PROVE TargetIdsInv'
  BY <1>1, <1>3, <1>4, <1>15, TargetIdFields DEF MarkSent
<1>16. ASSUME NEW h \in Handlers, RecordFailure(h) PROVE TargetIdsInv'
  BY <1>1, <1>3, <1>4, <1>16, TargetIdFields DEF RecordFailure
<1>17. ASSUME NEW h \in Handlers, MongoError(h) PROVE TargetIdsInv'
  BY <1>1, <1>3, <1>4, <1>17, TargetIdFields DEF MongoError, AfterMongoError
<1>18. ASSUME NEW h \in Handlers, Settle(h) PROVE TargetIdsInv'
  BY <1>1, <1>3, <1>4, <1>18, TargetIdFields DEF Settle
<1>19. ASSUME NEW h \in Handlers, HandlerStep(h) PROVE TargetIdsInv'
  BY <1>11, <1>12, <1>13, <1>14, <1>15, <1>16, <1>17, <1>18,
     <1>19
  DEF HandlerStep, SendEvent
<1>20. ASSUME NEW m \in Monitors, FindActive(m) \/ Fetch(m) \/ RunFails(m)
       PROVE  TargetIdsInv'
  BY <1>5, <1>20 DEF FindActive, Fetch, RunFails
<1>21. ASSUME NEW s \in Subs, CheckProduct(s) \/ Cancel(s) \/ Stop(s)
       PROVE  TargetIdsInv'
  BY <1>5, <1>21 DEF CheckProduct, Cancel, Stop
<1>22. ASSUME NEW u \in Savers,
              \/ UpsertWrite(u) \/ Confirm(u) \/ UpsertFails(u)
              \/ \E s \in Subs, t \in Targets : UpsertRead(u, s, t)
       PROVE  TargetIdsInv'
  BY <1>5, <1>22 DEF UpsertRead, UpsertWrite, Confirm, UpsertFails
<1>23. CASE ChangeMarket \/ UNCHANGED allVars
  BY <1>5, <1>23 DEF ChangeMarket, allVars
<1> QED
  BY <1>6, <1>8, <1>9, <1>10, <1>19, <1>20, <1>21, <1>22, <1>23
  DEF TrackingNext, RunStep

\* SilencedOnlyByReset, for any number of chats, target prices, offers, overlapping
\* runs, saves and handlers, under every failure.
THEOREM ArmedTargetsFire == TrackingSpec => []SilencedOnlyByReset
<1>1. TrackingSpec => []EventTypeOK
  BY TrackingImplementsEvents, EventTypeCorrect, PTL
<1>2. TargetInv /\ EventTypeOK' /\ [TrackingNext]_allVars => TargetInv'
  BY StoredStays, TargetIdsStay DEF TargetInv
<1>3. TargetInv => SilencedOnlyByReset
  <2> SUFFICES ASSUME TargetInv, NEW s \in Subs, ~doc[s].triggered,
                      NextTargetId(s) \in Events, status[NextTargetId(s)] = "sent"
               PROVE  wasReset[s]
    BY DEF SilencedOnlyByReset
  <2>1. /\ NextTargetId(s).sub = s /\ NextTargetId(s).seq = doc[s].cycle
        /\ NextTargetId(s).type = "target"
    BY DEF NextTargetId, TargetId
  <2>2. NextTargetId(s) \in TargetIds
    BY <2>1, TargetIdFields
  <2>3. Used(NextTargetId(s)) /\ doc[s].cycle \in Nat
    BY <2>2 DEF TargetInv, TargetIdsInv, StoredInv
  <2> QED
    BY <2>1, <2>3 DEF Used
<1> QED
  BY <1>1, <1>2, <1>3, TargetInvInit, PTL DEF TrackingSpec
=============================================================================
