------------------------ MODULE NotificationQueueProofs ------------------------
(***************************************************************************)
(* Proofs about NotificationQueue, for any number of events, handlers,     *)
(* publishers, attempts, stalls and failures.                              *)
(***************************************************************************)
EXTENDS NotificationQueue, NotificationEventsProofs

USE DEF Statuses, Stages, JobStates, Calls, Fault, Goto, SetJob, Calling, Returns, Proceed,
        jobVars, publisherVars

\* BullMQ only restricts which handler takes up which event, and when.
LEMMA QueueStepIsEventStep ==
  ASSUME [QueueNext]_queueVars
  PROVE  [EventNext]_eventVars
<1>1. ASSUME NEW p \in Publishers, NEW e \in Events, PublishNew(p, e)
      PROVE  EventNext
  BY <1>1 DEF PublishNew, EventNext
<1>2. ASSUME NEW p \in Publishers, NEW e \in Events, PublishAgain(p, e)
      PROVE  UNCHANGED eventVars
  BY <1>2 DEF PublishAgain
<1>3. ASSUME NEW p \in Publishers, PublisherStep(p)
      PROVE  FaultElsewhere \/ UNCHANGED eventVars
  BY <1>3 DEF PublisherStep, GetJob, GetState, Retry, Add, RedisError,
              FaultElsewhere, FaultsElsewhere
<1>4. ASSUME NEW h \in Handlers, NEW e \in Events, PickUp(h, e)
      PROVE  EventNext
  BY <1>4 DEF PickUp, EventNext
<1>5. ASSUME NEW h \in Handlers, HandlerStep(h) \/ Finish(h)
      PROVE  EventNext
  BY <1>5 DEF HandlerStep, Finish, EventNext
<1>6. ASSUME NEW h \in Handlers, LockLost(h)
      PROVE  FaultElsewhere
  BY <1>6 DEF LockLost, FaultElsewhere, FaultsElsewhere
<1>7. ASSUME NEW e \in Events, BackoffOver(e) \/ Stalled(e) \/ Expire(e)
      PROVE  UNCHANGED eventVars
  BY <1>7 DEF BackoffOver, Stalled, Expire
<1>8. CASE Restart
  BY <1>8 DEF Restart, EventNext
<1>9. CASE UNCHANGED queueVars
  BY <1>9 DEF queueVars
<1> QED
  BY <1>1, <1>2, <1>3, <1>4, <1>5, <1>6, <1>7, <1>8, <1>9 DEF QueueNext, EventNext

\* The queue implements the open one, so what holds of the processor under any
\* delivery holds under BullMQ's.
THEOREM QueueImplementsEvents == QueueSpec => EventSpec
<1>1. QueueInit => EventInit
  BY DEF QueueInit
<1> QED
  BY <1>1, QueueStepIsEventStep, PTL DEF QueueSpec, EventSpec

\* With BullMQ around it process announces no event twice, even when locks are
\* lost and a stalled job runs beside its first run.
THEOREM QueueAnnouncesAtMostOnce ==
  ASSUME CleanFaults PROVE QueueSpec => []AtMostOnce
<1> QED
  BY QueueImplementsEvents, AnnouncedAtMostOnce, PTL

-----------------------------------------------------------------------------
\* What jobs, publishers and locks agree on while no lock is lost: a published
\* event is stored, a running handler owns its lock and an active job, and no two
\* handlers run the same event.
JobsAgree ==
  /\ job \in [Events -> JobStates]
  /\ locked \in [Handlers -> BOOLEAN]
  /\ call \in [Publishers -> Calls]
  /\ subject \in [Publishers -> Events \cup {NoEvent}]
  /\ \A p \in Publishers :
       call[p] # "idle" => subject[p] \in Events /\ status[subject[p]] # "absent"
  /\ \A e \in Events : job[e] # "none" => status[e] # "absent"
  /\ \A h \in Handlers :
       /\ locked[h] <=> stage[h] # "idle"
       /\ stage[h] # "idle" => job[task[h]] = "active"
  /\ \A g, h \in Handlers : stage[g] # "idle" /\ task[g] = task[h] => g = h

\* The handler of an event is the only one who moves its status, so it knows it.
HandlerKnows ==
  \A h \in Handlers :
    /\ stage[h] = "claim" => status[task[h]] \in {"queued", "failed"}
    /\ stage[h] \in {"send", "finalize", "mark", "recordFailure",
                     "resume", "resumeMark"} => status[task[h]] = "sending"
    /\ stage[h] = "return" => status[task[h]] = "sent"

RunInv == EventTypeOK /\ JobsAgree /\ HandlerKnows /\ CompletedJobMeansSent

LEMMA RunInvInit == QueueInit => RunInv
  BY ConstantsAssumption
  DEF QueueInit, EventInit, RunInv, EventTypeOK, JobsAgree,
      HandlerKnows, CompletedJobMeansSent

LEMMA RunInvStep ==
  ASSUME "lock" \notin Faults, RunInv, EventTypeOK', [QueueNext]_queueVars
  PROVE  RunInv'
<1> USE ConstantsAssumption DEF RunInv, EventTypeOK, JobsAgree, HandlerKnows,
        CompletedJobMeansSent, eventVars
<1>1. ASSUME NEW p \in Publishers, NEW e \in Events, PublishNew(p, e)
      PROVE  RunInv'
  BY <1>1 DEF PublishNew, Insert
<1>2. ASSUME NEW p \in Publishers, NEW e \in Events, PublishAgain(p, e)
      PROVE  RunInv'
  BY <1>2 DEF PublishAgain
<1>3. ASSUME NEW p \in Publishers, GetJob(p) PROVE RunInv'
  BY <1>3 DEF GetJob
<1>4. ASSUME NEW p \in Publishers, GetState(p) PROVE RunInv'
  BY <1>4 DEF GetState
<1>5. ASSUME NEW p \in Publishers, Retry(p) PROVE RunInv'
  BY <1>5 DEF Retry
<1>6. ASSUME NEW p \in Publishers, Add(p) PROVE RunInv'
  BY <1>6 DEF Add
<1>7. ASSUME NEW p \in Publishers, RedisError(p) PROVE RunInv'
  BY <1>7 DEF RedisError
<1>8. ASSUME NEW h \in Handlers, NEW e \in Events, PickUp(h, e) PROVE RunInv'
  BY <1>8 DEF PickUp, Start
<1>9. ASSUME NEW h \in Handlers, HandlerStep(h) PROVE RunInv'
  <2>7. CASE Read(h)
    BY <1>9, <2>7 DEF HandlerStep, Read, AfterRead
  <2>1. CASE Claim(h)
    BY <1>9, <2>1 DEF HandlerStep, Claim, ClaimWith
  <2>2. CASE Send(h)
    BY <1>9, <2>2 DEF HandlerStep, Send
  <2>3. CASE Finalize(h)
    BY <1>9, <2>3 DEF HandlerStep, Finalize
  <2>4. CASE MarkSent(h)
    BY <1>9, <2>4 DEF HandlerStep, MarkSent
  <2>5. CASE RecordFailure(h)
    BY <1>9, <2>5 DEF HandlerStep, RecordFailure
  <2>6. CASE MongoError(h)
    BY <1>9, <2>6 DEF HandlerStep, MongoError, AfterMongoError
  <2> QED
    BY <1>9, <2>1, <2>2, <2>3, <2>4, <2>5, <2>6, <2>7 DEF HandlerStep, Process
<1>10. ASSUME NEW h \in Handlers, Finish(h) PROVE RunInv'
  BY <1>10 DEF Finish, Settle
<1>11. ASSUME NEW h \in Handlers, LockLost(h) PROVE FALSE
  BY <1>11 DEF LockLost
<1>12. ASSUME NEW e \in Events, BackoffOver(e) PROVE RunInv'
  BY <1>12 DEF BackoffOver
<1>13. ASSUME NEW e \in Events, Stalled(e) PROVE RunInv'
  BY <1>13 DEF Stalled, Owned
<1>14. ASSUME NEW e \in Events, Expire(e) PROVE RunInv'
  BY <1>14 DEF Expire
<1>15. CASE Restart
  BY <1>15 DEF Restart, Crash
<1>16. CASE UNCHANGED queueVars
  BY <1>16 DEF queueVars
<1> QED
  BY <1>1, <1>2, <1>3, <1>4, <1>5, <1>6, <1>7, <1>8, <1>9, <1>10, <1>11, <1>12,
     <1>13, <1>14, <1>15, <1>16
  DEF QueueNext, PublisherStep

LEMMA RunInvariant == ASSUME "lock" \notin Faults PROVE QueueSpec => []RunInv
<1>1. QueueSpec => []EventTypeOK
  BY QueueImplementsEvents, EventTypeCorrect, PTL
<1> QED
  BY <1>1, RunInvInit, RunInvStep, PTL DEF QueueSpec

\* While workers keep their locks, an event runs in one handler at a time.
THEOREM OneRun == ASSUME "lock" \notin Faults PROVE QueueSpec => []OneRunPerEvent
<1>1. RunInv => OneRunPerEvent
  BY DEF RunInv, JobsAgree, OneRunPerEvent
<1> QED
  BY <1>1, RunInvariant, PTL

\* While workers keep their locks, publish() may take a completed job for an
\* event that needs nothing more: rejected sends, MongoDB errors, stalls,
\* restarts and lost Redis calls included.
THEOREM CompletedJobsAreSent ==
  ASSUME "lock" \notin Faults PROVE QueueSpec => []CompletedJobMeansSent
<1>1. RunInv => CompletedJobMeansSent
  BY DEF RunInv
<1> QED
  BY <1>1, RunInvariant, PTL

\* While workers keep their locks, nothing reopens a sent event.
THEOREM SentEventsStaySent ==
  ASSUME "lock" \notin Faults PROVE QueueSpec => SentIsFinal
<1>1. ASSUME RunInv, [QueueNext]_queueVars, NEW e \in Events, status[e] = "sent"
      PROVE  status'[e] = "sent"
  <2> USE <1>1 DEF RunInv, EventTypeOK, HandlerKnows, eventVars
  <2>1. CASE \E x \in Events : Insert(x)
    BY <2>1 DEF Insert
  <2>2. CASE \E h \in Handlers : Process(h)
    BY <2>2 DEF Process, Read, Claim, ClaimWith, Send, Finalize, MarkSent,
                RecordFailure, MongoError
  <2>3. CASE UNCHANGED status
    BY <2>3
  <2>4. CASE EventNext
    BY <2>1, <2>2, <2>3, <2>4 DEF EventNext, Start, Settle, Crash, FaultElsewhere
  <2> QED
    BY <2>3, <2>4, QueueStepIsEventStep
<1>2. RunInv /\ [QueueNext]_queueVars
        => [\A e \in Events : status[e] = "sent" => status'[e] = "sent"]_queueVars
  BY <1>1
<1> QED
  BY <1>2, RunInvariant, PTL DEF QueueSpec, SentIsFinal

-----------------------------------------------------------------------------
\* The try block goes on to finalizeEvent and markSent only after the message.
ToldBeforeMark ==
  \A h \in Handlers : stage[h] \in {"finalize", "mark"} => told[task[h]] = 1

MessageInv == RunInv /\ ToldInv /\ ToldBeforeMark

LEMMA ToldBeforeMarkStep ==
  ASSUME RunInv, ToldInv, ToldBeforeMark, [EventNext]_eventVars
  PROVE  ToldBeforeMark'
<1> USE DEF RunInv, EventTypeOK, ToldBeforeMark
<1>1. ASSUME NEW h \in Handlers, Send(h) PROVE ToldBeforeMark'
  <2>1. told[task[h]] = 0
    BY <1>1 DEF Send, ToldInv, ToldIsSettled
  <2> QED
    BY <1>1, <2>1 DEF Send, JobsAgree
<1>2. ASSUME NEW h \in Handlers, Read(h) \/ Finalize(h) \/ MongoError(h)
      PROVE  ToldBeforeMark'
  BY <1>2 DEF Read, AfterRead, Finalize, MongoError, AfterMongoError
<1>3. ASSUME NEW h \in Handlers, Claim(h) \/ MarkSent(h) \/ RecordFailure(h) \/ Settle(h)
      PROVE  ToldBeforeMark'
  BY <1>3 DEF Claim, ClaimWith, MarkSent, RecordFailure, Settle
<1>4. ASSUME NEW h \in Handlers, NEW e \in Events, Start(h, e) PROVE ToldBeforeMark'
  BY <1>4 DEF Start
<1>5. CASE UNCHANGED <<stage, task, told>>
  BY <1>5
<1>6. CASE Crash
  BY <1>6 DEF Crash
<1> QED
  BY <1>1, <1>2, <1>3, <1>4, <1>5, <1>6
  DEF EventNext, Process, Insert, FaultElsewhere, eventVars

LEMMA MessageInvariant ==
  ASSUME "lock" \notin Faults, CleanFaults PROVE QueueSpec => []MessageInv
<1>1. QueueSpec => []ToldInv /\ []RunInv /\ [][EventNext]_eventVars
  BY QueueImplementsEvents, ToldInvariant, RunInvariant, PTL DEF EventSpec
<1>2. QueueInit => ToldBeforeMark
  BY DEF QueueInit, EventInit, ToldBeforeMark
<1>3. RunInv /\ ToldInv /\ ToldBeforeMark /\ [EventNext]_eventVars => ToldBeforeMark'
  BY ToldBeforeMarkStep
<1>4. RunInv /\ ToldInv /\ ToldBeforeMark => MessageInv
  BY DEF MessageInv
<1> QED
  BY <1>1, <1>2, <1>3, <1>4, PTL DEF QueueSpec

-----------------------------------------------------------------------------
\* The refinement of DeliveryPromise.  A step of one event's handler moves that
\* event's phase and messages and no other's; a restart abandons what it interrupts.
Phase(e) == IF Abandoned(e) THEN "abandoned" ELSE PhaseOf[status[e]]

LEMMA PromiseInitially == QueueInit => Promise!PromiseInit
  BY DEF QueueInit, EventInit, Promise!PromiseInit, Abandoned, PhaseOf

LEMMA PhasesStay ==
  ASSUME \A x \in Events : Phase(x)' = Phase(x), told' = told
  PROVE  Promise!promiseVars' = Promise!promiseVars
  BY DEF Promise!promiseVars, Phase

LEMMA PhaseOpens ==
  ASSUME NEW e \in Events, Phase(e) = "unknown", told' = told,
         \A x \in Events : Phase(x)' = IF x = e THEN "open" ELSE Phase(x)
  PROVE  Promise!PromiseNext
<1>1. Promise!Open(e)
  BY Zenon DEF Promise!Open, Phase
<1> QED
  BY <1>1 DEF Promise!PromiseNext

LEMMA PhaseCloses ==
  ASSUME NEW e \in Events, told' = told,
         (Phase(e) = "open" /\ told[e] = 1) \/ Phase(e) = "abandoned",
         \A x \in Events : Phase(x)' = IF x = e THEN "closed" ELSE Phase(x)
  PROVE  Promise!PromiseNext
<1>1. Promise!Close(e)
  BY Zenon DEF Promise!Close, Phase
<1> QED
  BY <1>1 DEF Promise!PromiseNext

LEMMA PhasesAbandoned ==
  ASSUME NEW E \in SUBSET Events, told' = told,
         \A e \in E : Phase(e) = "open" /\ told[e] = 0,
         \A x \in Events : Phase(x)' = IF x \in E THEN "abandoned" ELSE Phase(x)
  PROVE  Promise!PromiseNext
<1>1. Promise!Abandon(E)
  BY DEF Promise!Abandon, Phase
<1> QED
  BY <1>1 DEF Promise!PromiseNext

LEMMA MessageGoesOut ==
  ASSUME NEW e \in Events, Phase(e) = "open", told[e] = 0,
         told' = [told EXCEPT ![e] = 1],
         \A x \in Events : Phase(x)' = Phase(x)
  PROVE  Promise!PromiseNext
<1>1. Promise!Message(e)
  BY Zenon DEF Promise!Message, Phase
<1> QED
  BY <1>1 DEF Promise!PromiseNext

LEMMA PromiseStep ==
  ASSUME CleanFaults, MessageInv, [EventNext]_eventVars
  PROVE  [Promise!PromiseNext]_(Promise!promiseVars)
<1> USE ConstantsAssumption DEF MessageInv, RunInv, EventTypeOK, JobsAgree, HandlerKnows,
        CleanFaults
<1> DEFINE Next == Promise!PromiseNext
           Same == Promise!promiseVars' = Promise!promiseVars
<1>1. ASSUME NEW e \in Events, Insert(e) PROVE Next
  <2>1. \A x \in Events : Phase(x)' = IF x = e THEN "open" ELSE Phase(x)
    BY <1>1 DEF Insert, Phase, Abandoned, Claimed, PhaseOf
  <2>2. Phase(e) = "unknown" /\ told' = told
    BY <1>1 DEF Insert, Phase, Abandoned, PhaseOf
  <2> QED
    BY <2>1, <2>2, PhaseOpens
<1>2. ASSUME NEW h \in Handlers, Claim(h) PROVE Same
  <2>1. \A x \in Events : Phase(x)' = Phase(x)
    BY <1>2 DEF Claim, ClaimWith, Phase, Abandoned, Claimed, PhaseOf
  <2> QED
    BY <1>2, <2>1, PhasesStay DEF Claim, ClaimWith
<1>3. ASSUME NEW h \in Handlers, Send(h) PROVE Next \/ Same
  <2>1. PICK e \in Events : e = task[h]
    BY <1>3 DEF Send
  <2>2. told[e] = 0 /\ status[e] = "sending"
    BY <1>3, <2>1 DEF Send, ToldInv, ToldIsSettled
  <2>3. Phase(e) = "open"
    BY <1>3, <2>1, <2>2 DEF Send, Phase, Abandoned, Claimed, PhaseOf
  <2>4. \A x \in Events : Phase(x)' = Phase(x)
    BY <1>3, <2>1, <2>2 DEF Send, Phase, Abandoned, Claimed, PhaseOf
  <2>5. CASE told' = told
    BY <2>4, <2>5, PhasesStay
  <2>6. CASE told' = [told EXCEPT ![e] = 1]
    BY <2>2, <2>3, <2>4, <2>6, MessageGoesOut
  <2> QED
    BY <1>3, <2>1, <2>2, <2>5, <2>6 DEF Send
<1>4. ASSUME NEW h \in Handlers, MarkSent(h) PROVE Next
  <2>1. PICK e \in Events : e = task[h]
    BY <1>4 DEF MarkSent
  <2>2. status[e] = "sending" /\ (told[e] = 0 \/ told[e] = 1) /\ told' = told
    BY <1>4, <2>1 DEF MarkSent, ToldInv, ToldIsSettled
  <2>3. told[e] = 1 => Phase(e) = "open"
    BY <2>2 DEF Phase, Abandoned, PhaseOf
  <2>4. told[e] = 0 => Phase(e) = "abandoned"
    <3>1. told[e] = 0 => stage[h] = "resumeMark"
      BY <1>4, <2>1 DEF MarkSent, ToldBeforeMark
    <3>2. \A g \in Handlers : Claimed(g) /\ task[g] = e => g = h
      BY <1>4, <2>1 DEF MarkSent, Claimed
    <3> QED
      BY <2>2, <3>1, <3>2 DEF Phase, Abandoned, Claimed
  <2>5. \A x \in Events : Phase(x)' = IF x = e THEN "closed" ELSE Phase(x)
    BY <1>4, <2>1 DEF MarkSent, Phase, Abandoned, Claimed, PhaseOf
  <2> QED
    BY <2>2, <2>3, <2>4, <2>5, PhaseCloses
<1>5. ASSUME NEW h \in Handlers, RecordFailure(h) PROVE Same
  <2>1. \A x \in Events : Phase(x)' = Phase(x)
    BY <1>5 DEF RecordFailure, Phase, Abandoned, Claimed, PhaseOf
  <2> QED
    BY <1>5, <2>1, PhasesStay DEF RecordFailure
<1>6. ASSUME NEW h \in Handlers, MongoError(h), stage[h] = "recordFailure" PROVE Next
  <2>1. PICK e \in Events : e = task[h]
    BY <1>6
  <2>2. status[e] = "sending" /\ told[e] = 0 /\ told' = told
    BY <1>6, <2>1 DEF MongoError, ToldInv, ToldIsSettled
  <2>3. Phase(e) = "open"
    BY <1>6, <2>1, <2>2 DEF Phase, Abandoned, Claimed, PhaseOf
  <2>4. \A x \in Events : Phase(x)' = IF x \in {e} THEN "abandoned" ELSE Phase(x)
    <3>1. stage' = [stage EXCEPT ![h] = "throw"] /\ UNCHANGED <<status, task, told>>
      BY <1>6 DEF MongoError, AfterMongoError
    <3>2. \A g \in Handlers : task[g] = e => g = h
      BY <1>6, <2>1
    <3> QED
      BY <2>1, <2>2, <3>1, <3>2 DEF Phase, Abandoned, Claimed
  <2>5. {e} \in SUBSET Events /\ \A x \in {e} : Phase(x) = "open" /\ told[x] = 0
    BY <2>2, <2>3
  <2> QED
    BY <2>2, <2>4, <2>5, PhasesAbandoned
<1>7. ASSUME NEW h \in Handlers, stage[h] # "recordFailure",
             Read(h) \/ Finalize(h) \/ Settle(h) \/ MongoError(h)
      PROVE  Same
  <2>1. \A g \in Handlers : /\ Claimed(g)' <=> Claimed(g)
                            /\ Claimed(g) => task'[g] = task[g]
    BY <1>7 DEF Read, AfterRead, Finalize, Settle, MongoError, AfterMongoError, Claimed
  <2>2. \A x \in Events : Phase(x)' = Phase(x)
    BY <1>7, <2>1 DEF Read, Finalize, Settle, MongoError, Phase, Abandoned
  <2> QED
    BY <1>7, <2>2, PhasesStay DEF Read, Finalize, Settle, MongoError
<1>8. ASSUME NEW h \in Handlers, NEW e \in Events, Start(h, e) PROVE Same
  <2>1. \A x \in Events : Phase(x)' = Phase(x)
    BY <1>8 DEF Start, Phase, Abandoned, Claimed
  <2> QED
    BY <1>8, <2>1, PhasesStay DEF Start
<1>9. CASE Crash
  <2> DEFINE E == {x \in Events : status[x] = "sending" /\ told[x] = 0 /\ ~Abandoned(x)}
  <2>1. \A x \in E : Phase(x) = "open" /\ told[x] = 0
    BY DEF Phase, PhaseOf
  <2>2. \A x \in Events : Phase(x)' = IF x \in E THEN "abandoned" ELSE Phase(x)
    BY <1>9 DEF Crash, Phase, Abandoned, Claimed
  <2>3. E \in SUBSET Events /\ told' = told
    BY <1>9 DEF Crash
  <2> HIDE DEF E
  <2> QED
    BY <2>1, <2>2, <2>3, PhasesAbandoned
<1>10. CASE UNCHANGED <<status, stage, task, told>>
  <2>1. \A x \in Events : Phase(x)' = Phase(x)
    BY <1>10 DEF Phase, Abandoned, Claimed
  <2> QED
    BY <1>10, <2>1, PhasesStay
<1>11. ASSUME NEW h \in Handlers, Process(h) \/ Settle(h) PROVE Next \/ Same
  <2> HIDE DEF Next, Same
  <2>1. CASE MongoError(h)
    BY <2>1, <1>6, <1>7
  <2>2. CASE Read(h) \/ Finalize(h) \/ Settle(h)
    <3>1. stage[h] # "recordFailure"
      BY <2>2 DEF Read, Finalize, Settle
    <3> QED
      BY <2>2, <3>1, <1>7
  <2> QED
    BY <1>11, <2>1, <2>2, <1>2, <1>3, <1>4, <1>5, Zenon DEF Process
<1> QED
  BY <1>1, <1>8, <1>9, <1>10, <1>11 DEF EventNext, FaultElsewhere, eventVars

\* While workers keep their locks, MongoDB answers between a send and its markSent and
\* Telegram delivers nothing it rejects, the publisher and the worker keep the promise:
\* under rejected sends, restarts, other MongoDB errors and lost Redis calls together.
THEOREM PromiseIsKept ==
  ASSUME "lock" \notin Faults, CleanFaults PROVE QueueSpec => PromiseKept
<1>1. MessageInv /\ [EventNext]_eventVars => [Promise!PromiseNext]_(Promise!promiseVars)
  BY PromiseStep
<1> QED
  BY <1>1, PromiseInitially, MessageInvariant, QueueImplementsEvents, PTL
  DEF QueueSpec, EventSpec, PromiseKept, Promise!PromiseSpec

-----------------------------------------------------------------------------
\* What it takes to abandon an event: a restart, or a MongoDB call that rejects.
OnlyCallsFail == Faults \subseteq {"send", "redis"}

SendingIsHandled ==
  /\ \A e \in Events :
       status[e] = "sending" => \E h \in Handlers : Claimed(h) /\ task[h] = e
  /\ \A h \in Handlers : stage[h] \notin {"resume", "resumeMark"}

LEMMA SendingIsHandledStep ==
  ASSUME OnlyCallsFail, RunInv, SendingIsHandled, [QueueNext]_queueVars
  PROVE  SendingIsHandled'
<1> USE DEF OnlyCallsFail, RunInv, EventTypeOK, JobsAgree, HandlerKnows, SendingIsHandled,
        Claimed
<1>1. ASSUME NEW e \in Events, Insert(e) PROVE SendingIsHandled'
  BY <1>1 DEF Insert
<1>2. ASSUME NEW h \in Handlers, NEW e \in Events, Start(h, e) PROVE SendingIsHandled'
  BY <1>2 DEF Start
<1>3. ASSUME NEW h \in Handlers, Read(h) PROVE SendingIsHandled'
  BY <1>3 DEF Read, AfterRead
<1>4. ASSUME NEW h \in Handlers, Claim(h) PROVE SendingIsHandled'
  BY <1>4 DEF Claim, ClaimWith
<1>5. ASSUME NEW h \in Handlers, Send(h) PROVE SendingIsHandled'
  BY <1>5 DEF Send
<1>6. ASSUME NEW h \in Handlers, Finalize(h) PROVE SendingIsHandled'
  BY <1>6 DEF Finalize
<1>7. ASSUME NEW h \in Handlers, MarkSent(h) PROVE SendingIsHandled'
  BY <1>7 DEF MarkSent
<1>8. ASSUME NEW h \in Handlers, RecordFailure(h) PROVE SendingIsHandled'
  BY <1>8 DEF RecordFailure
<1>9. ASSUME NEW h \in Handlers, Settle(h) PROVE SendingIsHandled'
  BY <1>9 DEF Settle
<1>10. CASE UNCHANGED <<status, stage, task>>
  BY <1>10
<1>11. ~Restart /\ ~Crash /\ \A h \in Handlers : ~MongoError(h)
  BY DEF Restart, Crash, MongoError
<1> QED
  BY <1>1, <1>2, <1>3, <1>4, <1>5, <1>6, <1>7, <1>8, <1>9, <1>10, <1>11,
     QueueStepIsEventStep
  DEF EventNext, Process, FaultElsewhere, eventVars

\* When calls to Telegram and Redis are all that fails, no event is abandoned, so by
\* PromiseIsKept every event that is closed was announced, once and before its close.
THEOREM NothingIsAbandoned ==
  ASSUME OnlyCallsFail PROVE QueueSpec => [](\A e \in Events : ~Abandoned(e))
<1>0. "lock" \notin Faults
  BY DEF OnlyCallsFail
<1>1. QueueSpec => []RunInv
  BY <1>0, RunInvariant
<1>2. QueueInit => SendingIsHandled
  BY DEF QueueInit, EventInit, SendingIsHandled
<1>3. RunInv /\ SendingIsHandled /\ [QueueNext]_queueVars => SendingIsHandled'
  BY SendingIsHandledStep
<1>4. SendingIsHandled => \A e \in Events : ~Abandoned(e)
  BY DEF SendingIsHandled, Abandoned
<1> QED
  BY <1>1, <1>2, <1>3, <1>4, PTL DEF QueueSpec

-----------------------------------------------------------------------------
\* What holds of jobs and locks even when locks are lost.
QueueTyped ==
  /\ job \in [Events -> JobStates]
  /\ made \in [Events -> Nat]
  /\ stalls \in [Events -> Nat]
  /\ locked \in [Handlers -> BOOLEAN]
  /\ call \in [Publishers -> Calls]
  /\ subject \in [Publishers -> Events \cup {NoEvent}]
  /\ \A p \in Publishers : call[p] = "idle" <=> subject[p] = NoEvent

\* A lock belongs to one running handler of an active job.
LocksExclude ==
  /\ \A h \in Handlers : locked[h] => stage[h] # "idle" /\ job[task[h]] = "active"
  /\ \A g, h \in Handlers : locked[g] /\ locked[h] /\ task[g] = task[h] => g = h

\* Every time a job was found stalled, and when it is about to be, a lock was lost or
\* the process restarted before.
StallsAreFaults ==
  \A e \in Events :
    /\ stalls[e] <= faults
    /\ job[e] = "active" /\ ~Owned(e) => stalls[e] < faults

LockInv == QueueTyped /\ LocksExclude /\ StallsAreFaults

LEMMA LockInvInit == QueueInit => LockInv
  BY ConstantsAssumption
  DEF QueueInit, EventInit, LockInv, QueueTyped, LocksExclude, StallsAreFaults

\* Only steps of the queue touch jobs and locks; a step of process leaves them, its
\* task and its running alone and may only add a fault.
LEMMA ProcessKeepsLocks ==
  ASSUME LockInv, EventTypeOK, EventTypeOK', NEW h \in Handlers, HandlerStep(h)
  PROVE  LockInv'
<1>1. /\ UNCHANGED <<job, made, stalls, locked, call, subject, task>>
      /\ faults \in Nat /\ faults' \in Nat /\ faults <= faults'
      /\ \E next \in Stages : next # "idle" /\ Goto(h, next)
  <2> USE ConstantsAssumption DEF EventTypeOK
  <2>1. UNCHANGED <<job, made, stalls, locked, call, subject>>
    BY DEF HandlerStep
  <2>8. CASE Read(h)
    <3>1. AfterRead[status[task[h]]] \in Stages \ {"idle"}
      BY <2>8 DEF Read, AfterRead
    <3>2. UNCHANGED task /\ faults \in Nat /\ faults' \in Nat /\ faults <= faults'
      BY <2>8 DEF Read
    <3>3. \E next \in Stages : next # "idle" /\ Goto(h, next)
      BY <2>8, <3>1 DEF Read
    <3> HIDE DEF EventTypeOK, Goto
    <3> QED
      BY <2>1, <3>2, <3>3
  <2>2. CASE Claim(h)
    BY <2>1, <2>2 DEF Claim, ClaimWith
  <2>3. CASE Send(h)
    BY <2>1, <2>3 DEF Send
  <2>4. CASE Finalize(h)
    <3>1. Goto(h, "mark") \/ Goto(h, "resumeMark")
      BY <2>4 DEF Finalize
    <3> QED
      BY <2>1, <2>4, <3>1 DEF Finalize
  <2>5. CASE MarkSent(h)
    BY <2>1, <2>5 DEF MarkSent
  <2>6. CASE RecordFailure(h)
    BY <2>1, <2>6 DEF RecordFailure
  <2>7. CASE MongoError(h)
    <3>1. stage[h] \in DOMAIN AfterMongoError =>
            AfterMongoError[stage[h]] \in {"throw", "recordFailure"}
      BY DEF AfterMongoError
    <3>2. \E next \in {"throw", "recordFailure"} : Goto(h, next)
      BY <2>7, <3>1, Zenon DEF MongoError
    <3>3. UNCHANGED task /\ faults \in Nat /\ faults' \in Nat /\ faults <= faults'
      BY <2>7 DEF MongoError
    <3>4. \E next \in Stages : next # "idle" /\ Goto(h, next)
      BY <3>2
    <3> HIDE DEF EventTypeOK, Goto
    <3> QED
      BY <2>1, <3>3, <3>4
  <2> QED
    BY <2>2, <2>3, <2>4, <2>5, <2>6, <2>7, <2>8 DEF HandlerStep, Process
<1>2. QueueTyped'
  BY <1>1 DEF LockInv, QueueTyped
<1>3. LocksExclude'
  BY <1>1 DEF LockInv, LocksExclude, EventTypeOK
<1>4. StallsAreFaults'
  BY <1>1 DEF LockInv, QueueTyped, StallsAreFaults, Owned
<1> QED
  BY <1>2, <1>3, <1>4 DEF LockInv

LEMMA LockInvStep ==
  ASSUME LockInv, EventTypeOK, EventTypeOK', [QueueNext]_queueVars
  PROVE  LockInv'
<1> USE ConstantsAssumption DEF LockInv, EventTypeOK, QueueTyped, LocksExclude,
        StallsAreFaults, Owned, eventVars
<1>1. ASSUME NEW p \in Publishers, NEW e \in Events, PublishNew(p, e) PROVE LockInv'
  BY <1>1 DEF PublishNew, Insert
<1>2. ASSUME NEW p \in Publishers, NEW e \in Events, PublishAgain(p, e) PROVE LockInv'
  BY <1>2 DEF PublishAgain
<1>3. ASSUME NEW p \in Publishers, GetJob(p) PROVE LockInv'
  BY <1>3 DEF GetJob
<1>4. ASSUME NEW p \in Publishers, GetState(p) PROVE LockInv'
  BY <1>4 DEF GetState
<1>5. ASSUME NEW p \in Publishers, Retry(p) PROVE LockInv'
  BY <1>5 DEF Retry
<1>6. ASSUME NEW p \in Publishers, Add(p) PROVE LockInv'
  BY <1>6 DEF Add
<1>7. ASSUME NEW p \in Publishers, RedisError(p) PROVE LockInv'
  BY <1>7 DEF RedisError
<1>8. ASSUME NEW h \in Handlers, NEW e \in Events, PickUp(h, e) PROVE LockInv'
  BY <1>8 DEF PickUp, Start
<1>9. ASSUME NEW h \in Handlers, HandlerStep(h) PROVE LockInv'
  BY <1>9, ProcessKeepsLocks
<1>10. ASSUME NEW h \in Handlers, Finish(h) PROVE LockInv'
  BY <1>10 DEF Finish, Settle
<1>11. ASSUME NEW h \in Handlers, LockLost(h) PROVE LockInv'
  BY <1>11 DEF LockLost
<1>12. ASSUME NEW e \in Events, BackoffOver(e) PROVE LockInv'
  BY <1>12 DEF BackoffOver
<1>13. ASSUME NEW e \in Events, Stalled(e) PROVE LockInv'
  BY <1>13 DEF Stalled
<1>14. ASSUME NEW e \in Events, Expire(e) PROVE LockInv'
  BY <1>14 DEF Expire
<1>15. CASE Restart
  BY <1>15 DEF Restart, Crash
<1>16. CASE UNCHANGED queueVars
  BY <1>16 DEF queueVars
<1> QED
  BY <1>1, <1>2, <1>3, <1>4, <1>5, <1>6, <1>7, <1>8, <1>9, <1>10, <1>11, <1>12, <1>13, <1>14, <1>15, <1>16
  DEF QueueNext, PublisherStep

\* QueueTypeOK, under every failure: among the rest, a job is found stalled no more
\* often than locks were lost and the process restarted.
THEOREM QueueTypeCorrect == QueueSpec => []QueueTypeOK
<1>1. QueueSpec => []EventTypeOK
  BY QueueImplementsEvents, EventTypeCorrect, PTL
<1>2. LockInv /\ EventTypeOK /\ EventTypeOK' /\ [QueueNext]_queueVars => LockInv'
  BY LockInvStep
<1>3. LockInv /\ EventTypeOK => QueueTypeOK
  BY ConstantsAssumption
  DEF LockInv, QueueTyped, LocksExclude, StallsAreFaults, EventTypeOK, QueueTypeOK
<1> QED
  BY <1>1, <1>2, <1>3, LockInvInit, PTL DEF QueueSpec
=============================================================================
