------------------------- MODULE NotificationEvents -------------------------
(***************************************************************************)
(* The notification_events collection and the code that moves an event     *)
(* through it: the upsert of NotificationQueuePublisher.publish and the    *)
(* process method of NotificationProcessor.                                *)
(*                                                                         *)
(* The job queue is left open here: an event may be handed to any idle     *)
(* handler at any time, any number of times, also to two handlers at once. *)
(* Every await of the processor is a step of its own.  NotificationQueue   *)
(* adds BullMQ's discipline, PriceTracking adds what the events are about. *)
(***************************************************************************)
EXTENDS Naturals

CONSTANTS
  Events,     \* the event identifiers
  NoEvent,    \* the task of an idle handler
  Handlers,   \* the slots in which the worker runs process()
  Faults,     \* the failures that may happen, among the kinds named below
  MaxFaults   \* bound on the number of failures in a behaviour

(***************************************************************************)
(* Kinds of failure:                                                       *)
(*   "send"       Telegram rejects the message, which is not delivered     *)
(*   "ambiguous"  Telegram delivers the message and the call still fails   *)
(*   "late"       a MongoDB call between the send and the end of the try   *)
(*                block rejects without effect                             *)
(*   "mongo"      any other MongoDB call of the processor rejects          *)
(*   "crash"      the application process dies and is restarted            *)
(* and, outside the processor, in the modules that extend this one:        *)
(*   "lock"       a worker loses the BullMQ lock of the job it is running  *)
(*   "redis"      a call of publish() to the queue rejects                 *)
(*   "monitor"    a call of a monitoring run rejects                       *)
(*   "chat"       the save of a subscription rejects                       *)
(***************************************************************************)
ASSUME ConstantsAssumption ==
  /\ NoEvent \notin Events
  /\ MaxFaults \in Nat

FaultsElsewhere == {"lock", "redis", "monitor", "chat"}

VARIABLES
  status,     \* status of the stored event, "absent" before it is inserted
  stage,      \* the next await of each handler
  task,       \* the event each handler is processing
  told,       \* number of messages Telegram delivered for the event (ghost)
  applied,    \* the subscription write of the event was made (ghost)
  faults      \* failures so far

eventVars == <<status, stage, task, told, applied, faults>>

Statuses == {"absent", "queued", "sending", "sent", "failed"}

Stages == {"idle", "read", "claim", "send", "finalize", "mark", "recordFailure",
           "resume", "resumeMark", "return", "throw"}

Fault(kind) ==
  /\ kind \in Faults
  /\ faults < MaxFaults
  /\ faults' = faults + 1

Goto(h, next) == stage' = [stage EXCEPT ![h] = next]

EventInit ==
  /\ status = [e \in Events |-> "absent"]
  /\ stage = [h \in Handlers |-> "idle"]
  /\ task = [h \in Handlers |-> NoEvent]
  /\ told = [e \in Events |-> 0]
  /\ applied = [e \in Events |-> FALSE]
  /\ faults = 0

-----------------------------------------------------------------------------
(* NotificationQueuePublisher: the upsert with $setOnInsert. *)

\* Mutant: the upsert sets the fields of an event that is stored already, too.
InsertOverwrites(e) ==
  /\ status' = [status EXCEPT ![e] = "queued"]
  /\ UNCHANGED <<stage, task, told, applied, faults>>

Insert(e) ==
  /\ status[e] = "absent"
  /\ status' = [status EXCEPT ![e] = "queued"]
  /\ UNCHANGED <<stage, task, told, applied, faults>>

-----------------------------------------------------------------------------
(* NotificationProcessor.process, one action per await. *)

\* Mutant: an event found "sending" is only marked sent, not finalized.
AfterReadUnfinalized == [absent  |-> "return", sent |-> "return",
                         sending |-> "resumeMark",
                         queued  |-> "claim", failed |-> "claim"]

\* Where findOne sends the handler, by the status it read.
AfterRead == [absent  |-> "return", sent |-> "return", sending |-> "resume",
              queued |-> "claim", failed |-> "claim"]

\* process is called for the event.
Start(h, e) ==
  /\ stage[h] = "idle"
  /\ Goto(h, "read")
  /\ task' = [task EXCEPT ![h] = e]
  /\ UNCHANGED <<status, told, applied, faults>>

Read(h) ==
  /\ stage[h] = "read"
  /\ Goto(h, AfterRead[status[task[h]]])
  /\ UNCHANGED <<status, task, told, applied, faults>>

\* findOneAndUpdate: the filter on the status makes the claim atomic.
ClaimWith(h, claimable) ==
  /\ stage[h] = "claim"
  /\ IF status[task[h]] \in claimable
       THEN /\ status' = [status EXCEPT ![task[h]] = "sending"]
            /\ Goto(h, "send")
       ELSE Goto(h, "return") /\ UNCHANGED status
  /\ UNCHANGED <<task, told, applied, faults>>

\* Mutant: the claim filters on the event id alone.
ClaimUnfiltered(h) == ClaimWith(h, Statuses)

Claim(h) == ClaimWith(h, {"queued", "failed"})

\* Mutant: a rejected send is taken for a delivered one.
SendUnchecked(h) ==
  /\ stage[h] = "send"
  /\ \/ /\ told' = [told EXCEPT ![task[h]] = @ + 1]
        /\ UNCHANGED faults
     \/ /\ Fault("send")
        /\ UNCHANGED told
  /\ Goto(h, "finalize")
  /\ UNCHANGED <<status, task, applied>>

Send(h) ==
  /\ stage[h] = "send"
  /\ \/ /\ told' = [told EXCEPT ![task[h]] = @ + 1]
        /\ Goto(h, "finalize")
        /\ UNCHANGED faults
     \/ /\ Fault("send")
        /\ Goto(h, "recordFailure")
        /\ UNCHANGED told
     \/ /\ Fault("ambiguous")
        /\ told' = [told EXCEPT ![task[h]] = @ + 1]
        /\ Goto(h, "recordFailure")
  /\ UNCHANGED <<status, task, applied>>

\* finalizeEvent, after a send or when a "sending" event is taken up again.
Finalize(h) ==
  /\ stage[h] \in {"finalize", "resume"}
  /\ Goto(h, IF stage[h] = "finalize" THEN "mark" ELSE "resumeMark")
  /\ applied' = [applied EXCEPT ![task[h]] = TRUE]
  /\ UNCHANGED <<status, task, told, faults>>

\* markSent: an update by event id, whatever the status is by now.
MarkSent(h) ==
  /\ stage[h] \in {"mark", "resumeMark"}
  /\ status' = [status EXCEPT ![task[h]] = "sent"]
  /\ Goto(h, "return")
  /\ UNCHANGED <<task, told, applied, faults>>

\* Mutant: the catch block stores the failure but does not rethrow it.
RecordFailureSwallowed(h) ==
  /\ stage[h] = "recordFailure"
  /\ status' = [status EXCEPT ![task[h]] = "failed"]
  /\ Goto(h, "return")
  /\ UNCHANGED <<task, told, applied, faults>>

\* The catch block: an update by event id, then the error is rethrown.
RecordFailure(h) ==
  /\ stage[h] = "recordFailure"
  /\ status' = [status EXCEPT ![task[h]] = "failed"]
  /\ Goto(h, "throw")
  /\ UNCHANGED <<task, told, applied, faults>>

\* A MongoDB call rejects.  Only those inside the try reach the catch block.
AfterMongoError == [read |-> "throw", claim |-> "throw",
                    finalize |-> "recordFailure", mark |-> "recordFailure",
                    recordFailure |-> "throw",
                    resume |-> "throw", resumeMark |-> "throw"]

MongoError(h) ==
  /\ stage[h] \in DOMAIN AfterMongoError
  /\ Fault(IF stage[h] \in {"finalize", "mark"} THEN "late" ELSE "mongo")
  /\ Goto(h, AfterMongoError[stage[h]])
  /\ UNCHANGED <<status, task, told, applied>>

\* Mutant: the slot is freed but keeps its job.
SettleKeepsTask(h) ==
  /\ stage[h] \in {"return", "throw"}
  /\ Goto(h, "idle")
  /\ UNCHANGED <<status, task, told, applied, faults>>

\* process() has returned or thrown and the slot is free again.
Settle(h) ==
  /\ stage[h] \in {"return", "throw"}
  /\ Goto(h, "idle")
  /\ task' = [task EXCEPT ![h] = NoEvent]
  /\ UNCHANGED <<status, told, applied, faults>>

Process(h) ==
  \/ Read(h) \/ Claim(h) \/ Send(h) \/ Finalize(h) \/ MarkSent(h)
  \/ RecordFailure(h) \/ MongoError(h)

\* The process dies: every handler is gone, MongoDB keeps what was written.
Crash ==
  /\ Fault("crash")
  /\ stage' = [h \in Handlers |-> "idle"]
  /\ task' = [h \in Handlers |-> NoEvent]
  /\ UNCHANGED <<status, told, applied>>

\* A failure outside the processor.
FaultElsewhere ==
  /\ \E kind \in FaultsElsewhere : Fault(kind)
  /\ UNCHANGED <<status, stage, task, told, applied>>

EventNext ==
  \/ \E e \in Events : Insert(e)
  \/ \E h \in Handlers, e \in Events : Start(h, e)
  \/ \E h \in Handlers : Process(h) \/ Settle(h)
  \/ Crash \/ FaultElsewhere

EventSpec == EventInit /\ [][EventNext]_eventVars

-----------------------------------------------------------------------------
(* Properties. *)

\* Every variable has its type, and a handler has a task exactly while it runs.
EventTypeOK ==
  /\ status \in [Events -> Statuses]
  /\ stage \in [Handlers -> Stages]
  /\ task \in [Handlers -> Events \cup {NoEvent}]
  /\ \A h \in Handlers : stage[h] = "idle" <=> task[h] = NoEvent
  /\ told \in [Events -> Nat]
  /\ applied \in [Events -> BOOLEAN]
  /\ faults \in 0..MaxFaults

\* The handler won the claim and has not left the try block yet.
Claimed(h) == stage[h] \in {"send", "finalize", "mark", "recordFailure"}

\* However often and however concurrently jobs are delivered, at most one
\* handler at a time is between winning the claim and the end of the try block
\* of process (notification.processor.ts:50-86) for one event.
ClaimExclusive ==
  \A g, h \in Handlers :
    Claimed(g) /\ Claimed(h) /\ task[g] = task[h] => g = h

\* No event is announced twice: crashes, rejected sends and duplicated job
\* deliveries never make process send one event's message again.  A MongoDB error
\* after the send, or a send that fails although it was delivered, does.
AtMostOnce == \A e \in Events : told[e] <= 1

\* An event is stored as sent only after its subscription write was made:
\* finalizeEvent precedes markSent on both paths of process.
SentWasApplied == \A e \in Events : status[e] = "sent" => applied[e]

=============================================================================
