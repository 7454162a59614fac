------------------------- MODULE NotificationQueue -------------------------
(***************************************************************************)
(* NotificationEvents under the discipline of the BullMQ queue             *)
(* telegram-notifications: NotificationQueuePublisher.publish looks for a  *)
(* job, retries a failed one or adds a new one, a worker runs a waiting    *)
(* job under a lock, a job that throws is delayed until its attempts are   *)
(* used up, and a job whose worker died is found stalled.                  *)
(*                                                                         *)
(* publish() makes up to three calls; other publishers and the workers run *)
(* between any two of them.                                                *)
(***************************************************************************)
EXTENDS NotificationEvents

CONSTANTS
  Publishers,    \* monitoring runs that may be inside publish() at once
  MaxAttempts,   \* NOTIFICATION_JOB_ATTEMPTS
  MaxStalls      \* BullMQ's maxStalledCount

ASSUME QueueAssumption ==
  /\ MaxAttempts \in Nat \ {0}
  /\ MaxStalls \in Nat

VARIABLES
  job,       \* BullMQ's state of the job whose jobId is the event
  made,      \* attemptsMade of the job
  stalls,    \* times the job was found stalled
  locked,    \* the handler still owns the lock of its job
  call,      \* the next call of each publisher
  subject    \* the event each publisher is publishing

jobVars == <<job, made, stalls>>
publisherVars == <<call, subject>>
queueVars == <<eventVars, jobVars, locked, publisherVars>>

JobStates == {"none", "waiting", "active", "delayed", "completed", "failed"}

Calls == {"idle", "getJob", "getState", "retry", "add"}

QueueInit ==
  /\ EventInit
  /\ job = [e \in Events |-> "none"]
  /\ made = [e \in Events |-> 0]
  /\ stalls = [e \in Events |-> 0]
  /\ locked = [h \in Handlers |-> FALSE]
  /\ call = [p \in Publishers |-> "idle"]
  /\ subject = [p \in Publishers |-> NoEvent]

SetJob(e, state) == job' = [job EXCEPT ![e] = state]

-----------------------------------------------------------------------------
(* NotificationQueuePublisher.publish *)

Calling(p, next) == call' = [call EXCEPT ![p] = next]

Returns(p) ==
  /\ Calling(p, "idle")
  /\ subject' = [subject EXCEPT ![p] = NoEvent]

Proceed(p, e) ==
  /\ Calling(p, "getJob")
  /\ subject' = [subject EXCEPT ![p] = e]

\* The upsert inserts the event, or finds it; a sent or sending event is left
\* alone and publish returns, which changes nothing.
PublishNew(p, e) ==
  /\ call[p] = "idle"
  /\ Insert(e)
  /\ Proceed(p, e)
  /\ UNCHANGED <<jobVars, locked>>

PublishAgain(p, e) ==
  /\ call[p] = "idle"
  /\ status[e] \in {"queued", "failed"}
  /\ Proceed(p, e)
  /\ UNCHANGED <<eventVars, jobVars, locked>>

GetJob(p) ==
  /\ call[p] = "getJob"
  /\ Calling(p, IF job[subject[p]] = "none" THEN "add" ELSE "getState")
  /\ UNCHANGED <<eventVars, jobVars, locked, subject>>

\* Mutant: an existing job is taken for one that will still run.
GetStateIgnoresFailed(p) ==
  /\ call[p] = "getState"
  /\ Returns(p)
  /\ UNCHANGED <<eventVars, jobVars, locked>>

GetState(p) ==
  /\ call[p] = "getState"
  /\ IF job[subject[p]] = "failed"
       THEN Calling(p, "retry") /\ UNCHANGED subject
       ELSE Returns(p)
  /\ UNCHANGED <<eventVars, jobVars, locked>>

\* Mutant: the job is sent back to wait whatever has become of it since.
RetryUnchecked(p) ==
  /\ call[p] = "retry"
  /\ SetJob(subject[p], "waiting")
  /\ Returns(p)
  /\ UNCHANGED <<eventVars, made, stalls, locked>>

\* retry() throws unless the job is still failed; attemptsMade is kept.
Retry(p) ==
  /\ call[p] = "retry"
  /\ IF job[subject[p]] = "failed"
       THEN SetJob(subject[p], "waiting")
       ELSE UNCHANGED job
  /\ Returns(p)
  /\ UNCHANGED <<eventVars, made, stalls, locked>>

\* add() with a jobId that exists leaves the existing job as it is.
Add(p) ==
  /\ call[p] = "add"
  /\ IF job[subject[p]] = "none"
       THEN /\ SetJob(subject[p], "waiting")
            /\ made' = [made EXCEPT ![subject[p]] = 0]
            /\ stalls' = [stalls EXCEPT ![subject[p]] = 0]
       ELSE UNCHANGED jobVars
  /\ Returns(p)
  /\ UNCHANGED <<eventVars, locked>>

RedisError(p) ==
  /\ call[p] # "idle"
  /\ Fault("redis")
  /\ Returns(p)
  /\ UNCHANGED <<status, stage, task, told, applied, jobVars, locked>>

PublisherStep(p) == GetJob(p) \/ GetState(p) \/ Retry(p) \/ Add(p) \/ RedisError(p)

-----------------------------------------------------------------------------
(* The worker: BullMQ around process(). *)

PickUp(h, e) ==
  /\ job[e] = "waiting"
  /\ Start(h, e)
  /\ SetJob(e, "active")
  /\ locked' = [locked EXCEPT ![h] = TRUE]
  /\ UNCHANGED <<made, stalls, publisherVars>>

HandlerStep(h) ==
  /\ Process(h)
  /\ UNCHANGED <<jobVars, locked, publisherVars>>

\* Mutant: the job is settled but its lock is not released.
FinishKeepsLock(h) ==
  /\ Settle(h)
  /\ SetJob(task[h], "completed")
  /\ UNCHANGED <<made, stalls, locked, publisherVars>>

\* process() is over.  Only the owner of the lock moves the job: to completed,
\* or back to wait out the backoff, or to failed when no attempt is left.
Finish(h) ==
  LET e == task[h] IN
  /\ Settle(h)
  /\ locked' = [locked EXCEPT ![h] = FALSE]
  /\ \/ ~locked[h] /\ UNCHANGED <<job, made>>
     \/ /\ locked[h] /\ stage[h] = "return"
        /\ SetJob(e, "completed")
        /\ UNCHANGED made
     \/ /\ locked[h] /\ stage[h] = "throw"
        /\ SetJob(e, IF made[e] + 1 < MaxAttempts THEN "delayed" ELSE "failed")
        /\ made' = [made EXCEPT ![e] = @ + 1]
  /\ UNCHANGED <<stalls, publisherVars>>

BackoffOver(e) ==
  /\ job[e] = "delayed"
  /\ SetJob(e, "waiting")
  /\ UNCHANGED <<eventVars, made, stalls, locked, publisherVars>>

Owned(e) == \E h \in Handlers : locked[h] /\ task[h] = e

\* The stalled check: an active job that no lock protects.
Stalled(e) ==
  /\ job[e] = "active"
  /\ ~Owned(e)
  /\ SetJob(e, IF stalls[e] < MaxStalls THEN "waiting" ELSE "failed")
  /\ stalls' = [stalls EXCEPT ![e] = @ + 1]
  /\ UNCHANGED <<eventVars, made, locked, publisherVars>>

LockLost(h) ==
  /\ locked[h]
  /\ Fault("lock")
  /\ locked' = [locked EXCEPT ![h] = FALSE]
  /\ UNCHANGED <<status, stage, task, told, applied, jobVars, publisherVars>>

\* removeOnComplete and removeOnFail.
Expire(e) ==
  /\ job[e] \in {"completed", "failed"}
  /\ SetJob(e, "none")
  /\ UNCHANGED <<eventVars, made, stalls, locked, publisherVars>>

Restart ==
  /\ Crash
  /\ locked' = [h \in Handlers |-> FALSE]
  /\ call' = [p \in Publishers |-> "idle"]
  /\ subject' = [p \in Publishers |-> NoEvent]
  /\ UNCHANGED jobVars

QueueNext ==
  \/ \E p \in Publishers, e \in Events : PublishNew(p, e) \/ PublishAgain(p, e)
  \/ \E p \in Publishers : PublisherStep(p)
  \/ \E h \in Handlers, e \in Events : PickUp(h, e)
  \/ \E h \in Handlers : HandlerStep(h) \/ Finish(h) \/ LockLost(h)
  \/ \E e \in Events : BackoffOver(e) \/ Stalled(e) \/ Expire(e)
  \/ Restart

QueueSpec == QueueInit /\ [][QueueNext]_queueVars

-----------------------------------------------------------------------------
(* Properties. *)

\* Every variable has its type, and a job is found stalled no more often than locks were
\* lost and the process restarted.
QueueTypeOK ==
  /\ EventTypeOK
  /\ job \in [Events -> JobStates]
  /\ made \in [Events -> Nat]
  /\ stalls \in [Events -> 0..MaxFaults]
  /\ locked \in [Handlers -> BOOLEAN]
  /\ \A h \in Handlers : locked[h] => stage[h] # "idle"
  /\ call \in [Publishers -> Calls]
  /\ subject \in [Publishers -> Events \cup {NoEvent}]
  /\ \A p \in Publishers : call[p] = "idle" <=> subject[p] = NoEvent

\* BullMQ runs a job in one handler at a time, so every handler that runs at all
\* (no lock being lost) owns the lock of an active job of its own.
OneRunPerEvent ==
  \A g, h \in Handlers :
    stage[g] # "idle" /\ task[g] = task[h] => g = h /\ job[task[g]] = "active"

\* publish() does nothing for an event whose job is completed, so a completed
\* job must never leave its event unsent: not after rejected sends, MongoDB
\* errors in process, stalls or restarts.
CompletedJobMeansSent ==
  \A e \in Events : job[e] = "completed" => status[e] = "sent"

\* A sent event stays sent: no retry, stalled job or late failure reopens it.
SentIsFinal ==
  [][\A e \in Events : status[e] = "sent" => status'[e] = "sent"]_queueVars

\* The event is "sending" though its message did not go out and no handler is left
\* that will send it: process was interrupted between its claim and its send, or the
\* send was rejected and so was the write of the failure.
Abandoned(e) ==
  /\ status[e] = "sending"
  /\ told[e] = 0
  /\ ~\E h \in Handlers : Claimed(h) /\ task[h] = e

PhaseOf == [absent |-> "unknown", queued |-> "open", sending |-> "open",
            failed |-> "open", sent |-> "closed"]

Promise == INSTANCE DeliveryPromise WITH
  phase <- [e \in Events |->
              IF Abandoned(e) THEN "abandoned" ELSE PhaseOf[status[e]]],
  messages <- told

\* The publisher and the worker keep the promise of DeliveryPromise: one message at
\* most, none once the event is abandoned or sent, and sent only after the message
\* or an abandoned delivery.  In particular a rejected send that was recorded as
\* such never ends as sent without a message.
PromiseKept == Promise!PromiseSpec
=============================================================================
