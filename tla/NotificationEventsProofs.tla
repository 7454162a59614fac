----------------------- MODULE NotificationEventsProofs -----------------------
(***************************************************************************)
(* Proofs about NotificationEvents, for any number of events, handlers and *)
(* failures.  Nothing is assumed of the queue that delivers the events.    *)
(***************************************************************************)
EXTENDS NotificationEvents, TLAPS

USE DEF Statuses, Stages, Fault, Goto

\* Every variable keeps its type, and a handler has a task exactly while it
\* runs, under every action of the processor, the publisher and the failures.
THEOREM EventTypeCorrect == EventSpec => []EventTypeOK
<1>1. EventInit => EventTypeOK
  BY ConstantsAssumption DEF EventInit, EventTypeOK
<1>2. EventTypeOK /\ [EventNext]_eventVars => EventTypeOK'
  <2> SUFFICES ASSUME EventTypeOK, [EventNext]_eventVars PROVE EventTypeOK'
    OBVIOUS
  <2> USE ConstantsAssumption DEF EventTypeOK
  <2>1. ASSUME NEW e \in Events, Insert(e) PROVE EventTypeOK'
    BY <2>1 DEF Insert
  <2>2. ASSUME NEW h \in Handlers, NEW e \in Events, Start(h, e) PROVE EventTypeOK'
    BY <2>2 DEF Start
  <2>13. ASSUME NEW h \in Handlers, Read(h) PROVE EventTypeOK'
    BY <2>13 DEF Read, AfterRead
  <2>3. ASSUME NEW h \in Handlers, Claim(h) PROVE EventTypeOK'
    BY <2>3 DEF Claim, ClaimWith
  <2>4. ASSUME NEW h \in Handlers, Send(h) PROVE EventTypeOK'
    BY <2>4 DEF Send
  <2>5. ASSUME NEW h \in Handlers, Finalize(h) PROVE EventTypeOK'
    BY <2>5 DEF Finalize
  <2>6. ASSUME NEW h \in Handlers, MarkSent(h) PROVE EventTypeOK'
    BY <2>6 DEF MarkSent
  <2>7. ASSUME NEW h \in Handlers, RecordFailure(h) PROVE EventTypeOK'
    BY <2>7 DEF RecordFailure
  <2>8. ASSUME NEW h \in Handlers, MongoError(h) PROVE EventTypeOK'
    BY <2>8 DEF MongoError, AfterMongoError
  <2>9. ASSUME NEW h \in Handlers, Settle(h) PROVE EventTypeOK'
    BY <2>9 DEF Settle
  <2>10. CASE Crash
    BY <2>10 DEF Crash
  <2>11. CASE FaultElsewhere
    BY <2>11 DEF FaultElsewhere, FaultsElsewhere
  <2>12. CASE UNCHANGED eventVars
    BY <2>12 DEF eventVars
  <2> QED
    BY <2>1, <2>2, <2>3, <2>4, <2>5, <2>6, <2>7, <2>8, <2>9, <2>10, <2>11, <2>12, <2>13
    DEF EventNext, Process
<1> QED
  BY <1>1, <1>2, PTL DEF EventSpec

-----------------------------------------------------------------------------
\* A claimed event is not claimable: while a handler is in the try block the
\* status can only be moved by that handler itself or, through the resume path,
\* to "sent".  This is what makes ClaimExclusive inductive.
ClaimBlocks ==
  \A h \in Handlers : Claimed(h) => status[task[h]] \in {"sending", "sent"}

ClaimInv == EventTypeOK /\ ClaimBlocks /\ ClaimExclusive

LEMMA ClaimInvInit == EventInit => ClaimInv
  BY ConstantsAssumption
  DEF EventInit, ClaimInv, EventTypeOK, ClaimBlocks, ClaimExclusive, Claimed

LEMMA ClaimInvStep ==
  ASSUME ClaimInv, EventTypeOK', [EventNext]_eventVars
  PROVE  ClaimInv'
<1> USE DEF ClaimInv, EventTypeOK, ClaimBlocks, ClaimExclusive, Claimed
<1>1. ASSUME NEW e \in Events, Insert(e) PROVE ClaimInv'
  BY <1>1 DEF Insert
<1>2. ASSUME NEW h \in Handlers, NEW e \in Events, Start(h, e) PROVE ClaimInv'
  BY <1>2 DEF Start
<1>13. ASSUME NEW h \in Handlers, Read(h) PROVE ClaimInv'
  BY <1>13 DEF Read, AfterRead
<1>3. ASSUME NEW h \in Handlers, Claim(h) PROVE ClaimInv'
  BY <1>3 DEF Claim, ClaimWith
<1>4. ASSUME NEW h \in Handlers, Send(h) PROVE ClaimInv'
  BY <1>4 DEF Send
<1>5. ASSUME NEW h \in Handlers, Finalize(h) PROVE ClaimInv'
  BY <1>5 DEF Finalize
<1>6. ASSUME NEW h \in Handlers, MarkSent(h) PROVE ClaimInv'
  BY <1>6 DEF MarkSent
<1>7. ASSUME NEW h \in Handlers, RecordFailure(h) PROVE ClaimInv'
  BY <1>7 DEF RecordFailure
<1>8. ASSUME NEW h \in Handlers, MongoError(h) PROVE ClaimInv'
  BY <1>8 DEF MongoError, AfterMongoError
<1>9. ASSUME NEW h \in Handlers, Settle(h) PROVE ClaimInv'
  BY <1>9 DEF Settle
<1>10. CASE Crash
  BY <1>10 DEF Crash
<1>11. CASE FaultElsewhere
  BY <1>11 DEF FaultElsewhere
<1>12. CASE UNCHANGED eventVars
  BY <1>12 DEF eventVars
<1> QED
  BY <1>1, <1>2, <1>3, <1>4, <1>5, <1>6, <1>7, <1>8, <1>9, <1>10, <1>11, <1>12, <1>13
  DEF EventNext, Process

\* Under every failure, and however the queue delivers events, at most one
\* handler is inside the try block of process for one event.
THEOREM ClaimIsExclusive == EventSpec => []ClaimExclusive
<1>1. ClaimInv => ClaimExclusive
  BY DEF ClaimInv
<1> QED
  BY <1>1, EventTypeCorrect, ClaimInvInit, ClaimInvStep, PTL DEF EventSpec

-----------------------------------------------------------------------------
\* Both paths to markSent have made the subscription write before.
AppliedBeforeMark ==
  \A h \in Handlers : stage[h] \in {"mark", "resumeMark"} => applied[task[h]]

AppliedInv == EventTypeOK /\ AppliedBeforeMark /\ SentWasApplied

\* Under every failure, an event is stored as sent only after advanceLeader or
\* setTargetPriceTriggered was called for it.
THEOREM SentEventsWereApplied == EventSpec => []SentWasApplied
<1>1. EventInit => AppliedInv
  BY ConstantsAssumption
  DEF EventInit, AppliedInv, EventTypeOK, AppliedBeforeMark, SentWasApplied
<1>2. ASSUME AppliedInv, EventTypeOK', [EventNext]_eventVars PROVE AppliedInv'
  <2> USE <1>2 DEF AppliedInv, EventTypeOK, AppliedBeforeMark, SentWasApplied
  <2>1. ASSUME NEW e \in Events, Insert(e) PROVE AppliedInv'
    BY <2>1 DEF Insert
  <2>2. ASSUME NEW h \in Handlers, NEW e \in Events, Start(h, e) PROVE AppliedInv'
    BY <2>2 DEF Start
  <2>13. ASSUME NEW h \in Handlers, Read(h) PROVE AppliedInv'
    BY <2>13 DEF Read, AfterRead
  <2>3. ASSUME NEW h \in Handlers, Claim(h) PROVE AppliedInv'
    BY <2>3 DEF Claim, ClaimWith
  <2>4. ASSUME NEW h \in Handlers, Send(h) PROVE AppliedInv'
    BY <2>4 DEF Send
  <2>5. ASSUME NEW h \in Handlers, Finalize(h) PROVE AppliedInv'
    BY <2>5 DEF Finalize
  <2>6. ASSUME NEW h \in Handlers, MarkSent(h) PROVE AppliedInv'
    BY <2>6 DEF MarkSent
  <2>7. ASSUME NEW h \in Handlers, RecordFailure(h) PROVE AppliedInv'
    BY <2>7 DEF RecordFailure
  <2>8. ASSUME NEW h \in Handlers, MongoError(h) PROVE AppliedInv'
    BY <2>8 DEF MongoError, AfterMongoError
  <2>9. ASSUME NEW h \in Handlers, Settle(h) PROVE AppliedInv'
    BY <2>9 DEF Settle
  <2>10. CASE Crash
    BY <2>10 DEF Crash
  <2>11. CASE FaultElsewhere
    BY <2>11 DEF FaultElsewhere
  <2>12. CASE UNCHANGED eventVars
    BY <2>12 DEF eventVars
  <2> QED
    BY <2>1, <2>2, <2>3, <2>4, <2>5, <2>6, <2>7, <2>8, <2>9, <2>10, <2>11, <2>12, <2>13
    DEF EventNext, Process
<1>3. AppliedInv => SentWasApplied
  BY DEF AppliedInv
<1> QED
  BY <1>1, <1>2, <1>3, EventTypeCorrect, PTL DEF EventSpec

-----------------------------------------------------------------------------
\* Once the message of an event is out, the event cannot be claimed again and no
\* handler is left that would send it or would make it claimable.
ToldIsSettled ==
  \A e \in Events :
    /\ told[e] = 0 \/ told[e] = 1
    /\ told[e] = 1 =>
         /\ status[e] \in {"sending", "sent"}
         /\ \A h \in Handlers : task[h] = e => stage[h] \notin {"send", "recordFailure"}

ToldInv == ClaimInv /\ ToldIsSettled

\* Only failures that come after the send reach the catch block with the message
\* already delivered.
CleanFaults == "late" \notin Faults /\ "ambiguous" \notin Faults

LEMMA ToldInvStep ==
  ASSUME CleanFaults, ToldInv, ClaimInv', [EventNext]_eventVars
  PROVE  ToldInv'
<1> USE DEF CleanFaults, ToldInv, ToldIsSettled, ClaimInv, EventTypeOK, ClaimExclusive, ClaimBlocks,
            Claimed
<1>1. ASSUME NEW e \in Events, Insert(e) PROVE ToldInv'
  BY <1>1 DEF Insert
<1>2. ASSUME NEW h \in Handlers, NEW e \in Events, Start(h, e) PROVE ToldInv'
  BY <1>2 DEF Start
<1>13. ASSUME NEW h \in Handlers, Read(h) PROVE ToldInv'
  BY <1>13 DEF Read, AfterRead
<1>3. ASSUME NEW h \in Handlers, Claim(h) PROVE ToldInv'
  BY <1>3 DEF Claim, ClaimWith
<1>4. ASSUME NEW h \in Handlers, Send(h) PROVE ToldInv'
  BY <1>4 DEF Send
<1>5. ASSUME NEW h \in Handlers, Finalize(h) PROVE ToldInv'
  BY <1>5 DEF Finalize
<1>6. ASSUME NEW h \in Handlers, MarkSent(h) PROVE ToldInv'
  BY <1>6 DEF MarkSent
<1>7. ASSUME NEW h \in Handlers, RecordFailure(h) PROVE ToldInv'
  BY <1>7 DEF RecordFailure
<1>8. ASSUME NEW h \in Handlers, MongoError(h) PROVE ToldInv'
  <2>1. stage[h] \notin {"finalize", "mark"}
    BY <1>8 DEF MongoError
  <2> QED
    BY <1>8, <2>1 DEF MongoError, AfterMongoError
<1>9. ASSUME NEW h \in Handlers, Settle(h) PROVE ToldInv'
  BY <1>9 DEF Settle
<1>10. CASE Crash
  BY <1>10 DEF Crash
<1>11. CASE FaultElsewhere
  BY <1>11 DEF FaultElsewhere
<1>12. CASE UNCHANGED eventVars
  BY <1>12 DEF eventVars
<1> QED
  BY <1>1, <1>2, <1>3, <1>4, <1>5, <1>6, <1>7, <1>8, <1>9, <1>10, <1>11, <1>12, <1>13
  DEF EventNext, Process

LEMMA ToldInvariant == ASSUME CleanFaults PROVE EventSpec => []ToldInv
<1>1. EventInit => ToldInv
  <2> SUFFICES ASSUME EventInit PROVE ToldIsSettled
    BY ClaimInvInit DEF ToldInv
  <2>1. \A e \in Events : told[e] = 0
    BY DEF EventInit
  <2> QED
    BY <2>1, 0 # 1 DEF ToldIsSettled
<1>2. EventSpec => []ClaimInv
  BY EventTypeCorrect, ClaimInvInit, ClaimInvStep, PTL DEF EventSpec
<1>3. ToldInv /\ ClaimInv' /\ [EventNext]_eventVars => ToldInv'
  BY ToldInvStep
<1> QED
  BY <1>1, <1>2, <1>3, PTL DEF EventSpec

\* As long as MongoDB answers between a send and its markSent, and Telegram delivers
\* nothing it rejects, no event is announced twice, whatever crashes, rejected sends,
\* other MongoDB errors, lost locks and repeated or concurrent deliveries of its job
\* there are.
THEOREM AnnouncedAtMostOnce ==
  ASSUME CleanFaults PROVE EventSpec => []AtMostOnce
<1>1. ToldInv => AtMostOnce
  <2> SUFFICES ASSUME ToldInv, NEW e \in Events PROVE told[e] <= 1
    BY DEF AtMostOnce
  <2>1. told[e] = 0 \/ told[e] = 1
    BY DEF ToldInv, ToldIsSettled
  <2> QED
    BY <2>1
<1> QED
  BY <1>1, ToldInvariant, PTL

=============================================================================
