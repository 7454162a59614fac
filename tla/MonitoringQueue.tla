-------------------------- MODULE MonitoringQueue --------------------------
(***************************************************************************)
(* The checks of the tracked SKUs, minute by minute:                       *)
(*   - QueuesService.enqueueActiveProducts, started by the cron (every     *)
(*     minute, or as OFFERS_CRON says) whether or not the one before ended;*)
(*   - BullMQ's queue product-monitoring, with its limiter;                *)
(*   - MonitoringProcessor.process, two jobs at a time;                    *)
(*   - the audit in queue_executions, which both of them write.            *)
(*                                                                         *)
(* monitorSku is one step here, PriceTracking takes it apart.  A job is    *)
(* removed an hour after its end at the earliest, when nothing asks for it *)
(* any more: removal is left out.                                          *)
(***************************************************************************)
EXTENDS Naturals, FiniteSets

CONSTANTS
  Skus,         \* products with active subscriptions
  Crons,        \* invocations of enqueueActiveProducts that may overlap
  Workers,      \* jobs processed at once: concurrency
  Limit,        \* jobs started in a window: limiter.max
  MaxAttempts,  \* MONITORING_JOB_ATTEMPTS
  MaxStalls,    \* BullMQ's maxStalledCount
  MaxMinutes,   \* bound on the minutes
  MaxFirings,   \* bound on the invocations
  Faults,       \* what may go wrong, among the kinds named below
  MaxFaults,    \* bound on their number
  MaxJobs       \* bound on the jobs that are queued

(***************************************************************************)
(* Kinds of fault:                                                         *)
(*   "redis"    queue.add rejects                                          *)
(*   "mongo"    a call of the scheduler or of the audit rejects            *)
(*   "monitor"  monitorSku rejects                                         *)
(*   "lock"     a worker does not renew its lock in time                   *)
(*   "crash"    the process dies and is restarted                          *)
(***************************************************************************)
ASSUME MonitoringAssumption ==
  /\ {Limit, MaxAttempts} \subseteq Nat \ {0}
  /\ {MaxStalls, MaxMinutes, MaxFirings, MaxFaults, MaxJobs} \subseteq Nat

Minutes == 1..MaxMinutes

\* The job ids `monitor-${sku}-${minuteBucket}`.
Jobs == Skus \X Minutes

VARIABLES
  minute,    \* the present minute
  fired,     \* invocations so far
  cron,      \* each invocation: its next step, what it found and what is left
  job,       \* BullMQ's state of each job
  made,      \* attemptsMade of each job
  stalls,    \* times each job was found stalled
  started,   \* jobs started in the limiter's window
  worker,    \* each worker: its next step, job, attempt and whether it owns the lock
  audit,     \* the queue_executions document of each job
  faults,    \* faults so far
  checked,   \* jobs for which monitorSku returned (ghost)
  blurred    \* jobs whose audit missed a write or lost its worker (ghost)

bullVars == <<job, made, stalls, started>>
monitoringVars ==
  <<minute, fired, cron, bullVars, worker, audit, faults, checked, blurred>>

NoJob == <<>>

IdleCron == [step |-> "idle", found |-> {}, left |-> {}, refused |-> {}, at |-> 0,
             next |-> NoJob]

IdleWorker == [step |-> "idle", job |-> NoJob, attempt |-> 0, locked |-> FALSE]

NoAudit == [status |-> "none", attempt |-> 0]

MonitoringInit ==
  /\ minute \in Minutes
  /\ fired = 0
  /\ cron = [c \in Crons |-> IdleCron]
  /\ job = [j \in Jobs |-> "none"]
  /\ made = [j \in Jobs |-> 0]
  /\ stalls = [j \in Jobs |-> 0]
  /\ started = 0
  /\ worker = [w \in Workers |-> IdleWorker]
  /\ audit = [j \in Jobs |-> NoAudit]
  /\ faults = 0
  /\ checked = {}
  /\ blurred = {}

Fault(kind) ==
  /\ kind \in Faults
  /\ faults < MaxFaults
  /\ faults' = faults + 1

SetJob(j, state) == job' = [job EXCEPT ![j] = state]

-----------------------------------------------------------------------------
(* QueuesService.enqueueActiveProducts *)

NextMinute ==
  /\ minute < MaxMinutes
  /\ minute' = minute + 1
  /\ UNCHANGED <<fired, cron, bullVars, worker, audit, faults, checked, blurred>>

CronFires(c) ==
  /\ fired < MaxFirings
  /\ fired' = fired + 1
  /\ cron[c].step = "idle"
  /\ cron' = [cron EXCEPT ![c] = [IdleCron EXCEPT !.step = "find"]]
  /\ UNCHANGED <<minute, bullVars, worker, audit, faults, checked, blurred>>

\* The jobs that are queued or about to be.
Asked ==
  {j \in Jobs : job[j] # "none" \/ \E c \in Crons : j \in cron[c].found \X {cron[c].at}}

\* findActive returned; the minute of the job ids is the one in which it did.
Found(c, skus) ==
  /\ cron[c].step = "find"
  /\ Cardinality(Asked \cup skus \X {minute}) <= MaxJobs
  /\ cron' = [cron EXCEPT
       ![c] = [IdleCron EXCEPT !.step = IF skus = {} THEN "idle" ELSE "add",
                               !.found = skus, !.left = skus, !.at = minute]]
  /\ UNCHANGED <<minute, fired, bullVars, worker, audit, faults, checked, blurred>>

\* enqueueActiveProducts rejects: this minute is not scheduled.
FindFails(c) ==
  /\ cron[c].step = "find"
  /\ Fault("mongo")
  /\ cron' = [cron EXCEPT ![c] = IdleCron]
  /\ UNCHANGED <<minute, fired, bullVars, worker, audit, checked, blurred>>

\* add() leaves a job that exists as it is.
Added(c, sku) ==
  LET j == <<sku, cron[c].at>> IN
  /\ cron[c].step = "add"
  /\ sku \in cron[c].left
  /\ IF job[j] = "none" THEN SetJob(j, "waiting") ELSE UNCHANGED job
  /\ cron' = [cron EXCEPT ![c].step = "insert", ![c].next = j]
  /\ UNCHANGED <<minute, fired, made, stalls, started, worker, audit, faults,
                 checked, blurred>>

\* On to the next SKU, or the end of the loop.
Continue(c, left, refused) ==
  cron' = [cron EXCEPT ![c].step = IF left = {} THEN "idle" ELSE "add",
                       ![c].next = NoJob, ![c].left = left, ![c].refused = refused]

\* Mutant: the try block is around the loop.
AddFailsEndsLoop(c, sku) ==
  /\ cron[c].step = "add"
  /\ sku \in cron[c].left
  /\ Fault("redis")
  /\ Continue(c, {}, cron[c].refused \cup {sku})
  /\ UNCHANGED <<minute, fired, bullVars, worker, audit, checked, blurred>>

\* The catch block in the loop: the other SKUs are still scheduled.
AddFails(c, sku) ==
  /\ cron[c].step = "add"
  /\ sku \in cron[c].left
  /\ Fault("redis")
  /\ Continue(c, cron[c].left \ {sku}, cron[c].refused \cup {sku})
  /\ UNCHANGED <<minute, fired, bullVars, worker, audit, checked, blurred>>

\* Mutant: the record of a job is written whether or not there is one.
InsertedSets(c) ==
  LET j == cron[c].next IN
  /\ cron[c].step = "insert"
  /\ audit' = [audit EXCEPT ![j] = [status |-> "queued", attempt |-> 0]]
  /\ Continue(c, cron[c].left \ {j[1]}, cron[c].refused)
  /\ UNCHANGED <<minute, fired, bullVars, worker, faults, checked, blurred>>

\* $setOnInsert: a worker may have written the record first.
Inserted(c) ==
  LET j == cron[c].next IN
  /\ cron[c].step = "insert"
  /\ audit' = IF audit[j] = NoAudit
                THEN [audit EXCEPT ![j] = [status |-> "queued", attempt |-> 0]]
                ELSE audit
  /\ Continue(c, cron[c].left \ {j[1]}, cron[c].refused)
  /\ UNCHANGED <<minute, fired, bullVars, worker, faults, checked, blurred>>

\* The same catch block; the job is queued all the same.
InsertFails(c) ==
  /\ cron[c].step = "insert"
  /\ Fault("mongo")
  /\ Continue(c, cron[c].left \ {cron[c].next[1]}, cron[c].refused)
  /\ UNCHANGED <<minute, fired, bullVars, worker, audit, checked, blurred>>

CronStep(c) ==
  \/ FindFails(c) \/ Inserted(c) \/ InsertFails(c)
  \/ \E skus \in SUBSET Skus : Found(c, skus)
  \/ \E sku \in Skus : Added(c, sku) \/ AddFails(c, sku)

-----------------------------------------------------------------------------
(* BullMQ: a worker takes a job up, within the limit of the window. *)

Goto(w, next) == worker' = [worker EXCEPT ![w].step = next]

PickUp(w, j) ==
  /\ worker[w].step = "idle"
  /\ job[j] = "waiting"
  /\ started < Limit
  /\ started' = started + 1
  /\ SetJob(j, "active")
  /\ worker' = [worker EXCEPT ![w] = [step |-> "running", job |-> j,
                                      attempt |-> made[j] + 1, locked |-> TRUE]]
  /\ UNCHANGED <<minute, fired, cron, made, stalls, audit, faults, checked, blurred>>

\* Mutant: the limiter has a maximum and no duration.
WindowNeverOver ==
  /\ started # 0
  /\ UNCHANGED monitoringVars

WindowOver ==
  /\ started # 0
  /\ started' = 0
  /\ UNCHANGED <<minute, fired, cron, job, made, stalls, worker, audit, faults,
                 checked, blurred>>

-----------------------------------------------------------------------------
(* MonitoringProcessor.process: the steps "running", "monitor", then           *)
(* "completed" and "return", or "failed" and "throw".                          *)

After == [running |-> "monitor", completed |-> "return", failed |-> "throw"]

RecordStatus(w) ==
  LET step == worker[w].step IN
  /\ step \in DOMAIN After
  /\ audit' = [audit EXCEPT ![worker[w].job] =
                 [status |-> step, attempt |-> worker[w].attempt]]
  /\ Goto(w, After[step])
  /\ UNCHANGED <<minute, fired, cron, bullVars, faults, checked, blurred>>

\* Mutant: recordStatus lets its errors through, into the try block or past it.
RecordFailsThrows(w) ==
  LET step == worker[w].step IN
  /\ step \in DOMAIN After
  /\ Fault("mongo")
  /\ Goto(w, IF step = "completed" THEN "failed" ELSE "throw")
  /\ blurred' = blurred \cup {worker[w].job}
  /\ UNCHANGED <<minute, fired, cron, bullVars, audit, checked>>

\* recordStatus catches its own errors: the job goes on without the record.
RecordFails(w) ==
  LET step == worker[w].step IN
  /\ step \in DOMAIN After
  /\ Fault("mongo")
  /\ Goto(w, After[step])
  /\ blurred' = blurred \cup {worker[w].job}
  /\ UNCHANGED <<minute, fired, cron, bullVars, audit, checked>>

Monitored(w) ==
  /\ worker[w].step = "monitor"
  /\ checked' = checked \cup {worker[w].job}
  /\ Goto(w, "completed")
  /\ UNCHANGED <<minute, fired, cron, bullVars, audit, faults, blurred>>

\* Mutant: the error is recorded and not thrown again.
MonitorFailsQuietly(w) ==
  /\ worker[w].step = "monitor"
  /\ Fault("monitor")
  /\ Goto(w, "completed")
  /\ UNCHANGED <<minute, fired, cron, bullVars, audit, checked, blurred>>

MonitorFails(w) ==
  /\ worker[w].step = "monitor"
  /\ Fault("monitor")
  /\ Goto(w, "failed")
  /\ UNCHANGED <<minute, fired, cron, bullVars, audit, checked, blurred>>

Process(w) == RecordStatus(w) \/ RecordFails(w) \/ Monitored(w) \/ MonitorFails(w)

-----------------------------------------------------------------------------
(* BullMQ: the end of a run, or its loss. *)

\* Mutant: the job is over after its first failure.
FinishGivesUp(w) ==
  LET j == worker[w].job IN
  /\ worker[w].step \in {"return", "throw"}
  /\ IF worker[w].locked
       THEN SetJob(j, IF worker[w].step = "return" THEN "completed" ELSE "failed")
       ELSE UNCHANGED job
  /\ made' = IF worker[w].locked /\ worker[w].step = "throw"
               THEN [made EXCEPT ![j] = @ + 1] ELSE made
  /\ worker' = [worker EXCEPT ![w] = IdleWorker]
  /\ UNCHANGED <<minute, fired, cron, stalls, started, audit, faults, checked, blurred>>

\* Mutant: one attempt more than MONITORING_JOB_ATTEMPTS.
FinishTriesAgain(w) ==
  LET j == worker[w].job IN
  /\ worker[w].step \in {"return", "throw"}
  /\ \/ /\ ~worker[w].locked
        /\ UNCHANGED <<job, made>>
     \/ /\ worker[w].locked /\ worker[w].step = "return"
        /\ SetJob(j, "completed")
        /\ UNCHANGED made
     \/ /\ worker[w].locked /\ worker[w].step = "throw"
        /\ SetJob(j, IF made[j] < MaxAttempts THEN "delayed" ELSE "failed")
        /\ made' = [made EXCEPT ![j] = @ + 1]
  /\ worker' = [worker EXCEPT ![w] = IdleWorker]
  /\ UNCHANGED <<minute, fired, cron, stalls, started, audit, faults, checked, blurred>>

\* Only the owner of the lock moves the job: to completed, or back to wait out the
\* backoff, or to failed when no attempt is left.
Finish(w) ==
  LET j == worker[w].job IN
  /\ worker[w].step \in {"return", "throw"}
  /\ \/ /\ ~worker[w].locked
        /\ UNCHANGED <<job, made>>
     \/ /\ worker[w].locked /\ worker[w].step = "return"
        /\ SetJob(j, "completed")
        /\ UNCHANGED made
     \/ /\ worker[w].locked /\ worker[w].step = "throw"
        /\ SetJob(j, IF made[j] + 1 < MaxAttempts THEN "delayed" ELSE "failed")
        /\ made' = [made EXCEPT ![j] = @ + 1]
  /\ worker' = [worker EXCEPT ![w] = IdleWorker]
  /\ UNCHANGED <<minute, fired, cron, stalls, started, audit, faults, checked, blurred>>

BackoffOver(j) ==
  /\ job[j] = "delayed"
  /\ SetJob(j, "waiting")
  /\ UNCHANGED <<minute, fired, cron, made, stalls, started, worker, audit, faults,
                 checked, blurred>>

Owned(j) == \E w \in Workers : worker[w].job = j /\ worker[w].locked

Stalled(j) ==
  /\ job[j] = "active"
  /\ ~Owned(j)
  /\ SetJob(j, IF stalls[j] < MaxStalls THEN "waiting" ELSE "failed")
  /\ stalls' = [stalls EXCEPT ![j] = @ + 1]
  /\ UNCHANGED <<minute, fired, cron, made, started, worker, audit, faults, checked,
                 blurred>>

LockLost(w) ==
  /\ worker[w].locked
  /\ Fault("lock")
  /\ worker' = [worker EXCEPT ![w].locked = FALSE]
  /\ blurred' = blurred \cup {worker[w].job}
  /\ UNCHANGED <<minute, fired, cron, bullVars, audit, checked>>

\* The process and with it every invocation and worker; Redis keeps the jobs.
Restart ==
  /\ Fault("crash")
  /\ cron' = [c \in Crons |-> IdleCron]
  /\ worker' = [w \in Workers |-> IdleWorker]
  /\ blurred' = (blurred \cup {worker[w].job : w \in Workers}) \ {NoJob}
  /\ UNCHANGED <<minute, fired, bullVars, audit, checked>>

MonitoringNext ==
  \/ NextMinute \/ WindowOver \/ Restart
  \/ \E c \in Crons : CronFires(c) \/ CronStep(c)
  \/ \E w \in Workers :
       Process(w) \/ Finish(w) \/ LockLost(w) \/ \E j \in Jobs : PickUp(w, j)
  \/ \E j \in Jobs : BackoffOver(j) \/ Stalled(j)

MonitoringSpec == MonitoringInit /\ [][MonitoringNext]_monitoringVars

\* Every call of a job returns or rejects, BullMQ serves the jobs that wait in their
\* turn, whenever its limiter lets it, and finds the stalled ones.  A job may be passed
\* over while others use up the limit, but not for ever: strong fairness.
MonitoringFairness ==
  /\ WF_monitoringVars(WindowOver)
  /\ \A w \in Workers : WF_monitoringVars(Process(w)) /\ WF_monitoringVars(Finish(w))
  /\ \A j \in Jobs :
       /\ SF_monitoringVars(\E w \in Workers : PickUp(w, j))
       /\ WF_monitoringVars(BackoffOver(j))
       /\ WF_monitoringVars(Stalled(j))

FairMonitoringSpec == MonitoringSpec /\ MonitoringFairness

-----------------------------------------------------------------------------
(* Properties. *)

\* Every variable has its type.
MonitoringTypeOK ==
  /\ minute \in Minutes
  /\ fired \in 0..MaxFirings
  /\ cron \in [Crons -> [step : {"idle", "find", "add", "insert"}, found : SUBSET Skus,
                         left : SUBSET Skus, refused : SUBSET Skus,
                         at : 0..MaxMinutes, next : Jobs \cup {NoJob}]]
  /\ job \in [Jobs -> {"none", "waiting", "active", "delayed", "completed", "failed"}]
  /\ made \in [Jobs -> 0..MaxAttempts]
  /\ stalls \in [Jobs -> 0..(MaxStalls + 1)]
  /\ started \in 0..Limit
  /\ worker \in [Workers -> [step : {"idle", "running", "monitor", "completed", "failed",
                                     "return", "throw"},
                             job : Jobs \cup {NoJob}, attempt : 0..MaxAttempts,
                             locked : BOOLEAN]]
  /\ audit \in [Jobs -> [status : {"none", "queued", "running", "completed", "failed"},
                         attempt : 0..MaxAttempts]]
  /\ faults \in 0..MaxFaults
  /\ checked \subseteq Jobs
  /\ blurred \subseteq Jobs

\* One SKU that cannot be queued does not keep the others of its minute from being
\* checked: when an invocation is past a SKU, its job is there or add() rejected it.
FoundAreQueued ==
  \A c \in Crons, sku \in Skus :
    sku \in cron[c].found \ (cron[c].left \cup cron[c].refused)
      => job[<<sku, cron[c].at>>] # "none"

\* The two writers of an audit record do not spoil it: unless a write was lost, or the
\* worker, the record of a job that is over says how and after how many attempts, and
\* that of a job waiting for its next attempt that the last one failed.
AuditMatchesJob ==
  \A j \in Jobs \ blurred :
    /\ job[j] = "completed" => audit[j] = [status |-> "completed", attempt |-> made[j] + 1]
    /\ job[j] \in {"failed", "delayed"} =>
         audit[j] = [status |-> "failed", attempt |-> made[j]]

\* A job that is completed had its SKU checked: no path through process() returns
\* without monitorSku having returned.
CompletedWasChecked == \A j \in Jobs : job[j] = "completed" => j \in checked

\* A SKU that was checked is not checked again, nor given up, on account of its audit
\* record: only a stalled job runs again after its check succeeded.
CheckedOnce ==
  \A j \in checked : stalls[j] = 0 => job[j] \in {"active", "completed"}

\* What the limiter, failures, lost locks and restarts have delayed is worked off once
\* no more is asked for.
BacklogDrains == []<>(\A j \in Jobs : job[j] \in {"none", "completed", "failed"})

\* Scheduler, queue and worker keep what MonitoringCycle promises.
PhaseOf == [none |-> "unknown", waiting |-> "open", active |-> "open", delayed |-> "open",
            completed |-> "done", failed |-> "lost"]

Cycle == INSTANCE MonitoringCycle WITH
  phase <- [j \in Jobs |-> PhaseOf[job[j]]],
  misses <- [j \in Jobs |-> made[j] + stalls[j]],
  Patience <- IF MaxAttempts <= MaxStalls THEN MaxAttempts ELSE MaxStalls + 1

CycleKept == Cycle!CycleSpec
=============================================================================
