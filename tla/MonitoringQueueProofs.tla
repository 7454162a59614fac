----------------------- MODULE MonitoringQueueProofs -----------------------
(***************************************************************************)
(* Proofs about MonitoringQueue, for any number of SKUs, invocations and   *)
(* workers, any limits and every failure.                                  *)
(***************************************************************************)
EXTENDS MonitoringQueue, TLAPS

WorkerRecord ==
  [step : {"idle", "running", "monitor", "completed", "failed", "return", "throw"},
   job : Jobs \cup {NoJob}, attempt : 0..MaxAttempts, locked : BOOLEAN]

CronRecord ==
  [step : {"idle", "find", "add", "insert"}, found : SUBSET Skus, left : SUBSET Skus,
   refused : SUBSET Skus, at : 0..MaxMinutes, next : Jobs \cup {NoJob}]

AuditRecord ==
  [status : {"none", "queued", "running", "completed", "failed"}, attempt : 0..MaxAttempts]

JobStates == {"none", "waiting", "active", "delayed", "completed", "failed"}

\* An invocation works on the jobs of one minute; the one it inserts is queued.
CronOK(c) ==
  /\ cron[c].found # {} => cron[c].at \in Minutes
  /\ cron[c].left \subseteq cron[c].found
  /\ cron[c].step = "insert" =>
       /\ cron[c].next \in Jobs
       /\ cron[c].next = <<cron[c].next[1], cron[c].at>>
       /\ job[cron[c].next] # "none"

\* A job that is not over has an attempt left.
AttemptsLeft ==
  \A j \in Jobs :
    job[j] \notin {"completed", "failed"} => made[j] < MaxAttempts /\ stalls[j] <= MaxStalls

Busy(w) == worker[w].step # "idle"

\* The worker that owns the lock of a job is alone with it.
LocksHeld ==
  /\ \A w \in Workers :
       /\ IF Busy(w) THEN worker[w].job \in Jobs /\ job[worker[w].job] # "none"
                     ELSE worker[w] = IdleWorker
       /\ worker[w].locked =>
            /\ job[worker[w].job] = "active"
            /\ worker[w].attempt = made[worker[w].job] + 1
  /\ \A v, w \in Workers :
       worker[v].locked /\ worker[w].locked /\ v # w => worker[v].job # worker[w].job

ChecksAreDone ==
  \A w \in Workers : worker[w].step \in {"completed", "return"} => worker[w].job \in checked

\* What is written about a job whose audit lost no write and no worker.
AuditsFollow ==
  \A j \in Jobs \ blurred :
    /\ job[j] = "active" => Owned(j)
    /\ \A w \in Workers : worker[w].job = j =>
         /\ worker[w].locked
         /\ worker[w].step = "return" =>
              audit[j] = [status |-> "completed", attempt |-> worker[w].attempt]
         /\ worker[w].step = "throw" =>
              audit[j] = [status |-> "failed", attempt |-> worker[w].attempt]

MonitoringInv ==
  /\ MonitoringTypeOK
  /\ \A c \in Crons : CronOK(c)
  /\ FoundAreQueued
  /\ AttemptsLeft
  /\ LocksHeld
  /\ ChecksAreDone
  /\ CompletedWasChecked
  /\ AuditsFollow
  /\ AuditMatchesJob

LEMMA BoundsAreNumbers ==
  /\ Limit \in Nat \ {0} /\ MaxAttempts \in Nat \ {0}
  /\ MaxStalls \in Nat /\ MaxMinutes \in Nat /\ MaxFirings \in Nat
  /\ MaxFaults \in Nat /\ MaxJobs \in Nat
  BY MonitoringAssumption

LEMMA RecordsAreTyped ==
  \A status \in {"none", "queued", "running", "completed", "failed"} :
    /\ \A n \in 0..MaxAttempts : [status |-> status, attempt |-> n] \in AuditRecord
    /\ [status |-> status, attempt |-> 0] \in AuditRecord
  BY BoundsAreNumbers DEF AuditRecord

LEMMA NoJobIsNoJob == \A j \in Jobs : j # NoJob
  BY DEF Jobs, NoJob

LEMMA JobParts ==
  /\ \A s \in Skus, n \in Minutes : <<s, n>> \in Jobs
  /\ \A j \in Jobs : j[1] \in Skus /\ j[2] \in Minutes /\ j = <<j[1], j[2]>>
  BY DEF Jobs

LEMMA MonitoringInvInit == MonitoringInit => MonitoringInv
<1> SUFFICES ASSUME MonitoringInit PROVE MonitoringInv
  OBVIOUS
<1> USE MonitoringAssumption DEF MonitoringInit
<1>1. IdleCron \in CronRecord /\ IdleWorker \in WorkerRecord /\ NoAudit \in AuditRecord
  BY DEF IdleCron, IdleWorker, NoAudit, CronRecord, WorkerRecord, AuditRecord
<1>2. MonitoringTypeOK
  BY <1>1 DEF MonitoringTypeOK, CronRecord, WorkerRecord, AuditRecord, Minutes
<1>3. (\A c \in Crons : CronOK(c)) /\ FoundAreQueued
  BY DEF CronOK, FoundAreQueued, IdleCron
<1>4. AttemptsLeft /\ LocksHeld /\ ChecksAreDone /\ CompletedWasChecked
  BY DEF AttemptsLeft, LocksHeld, ChecksAreDone, CompletedWasChecked, Busy, IdleWorker
<1>5. AuditsFollow /\ AuditMatchesJob
  BY NoJobIsNoJob DEF AuditsFollow, AuditMatchesJob, IdleWorker
<1> QED BY <1>2, <1>3, <1>4, <1>5 DEF MonitoringInv

-----------------------------------------------------------------------------
(* The scheduler: it changes invocations, adds jobs and inserts records. *)

\* Jobs that are queued stay so: an invocation that does not step is not disturbed.
LEMMA QueuedStaysQueued ==
  ASSUME MonitoringInv, job' \in [Jobs -> JobStates],
         \A j \in Jobs : job[j] # "none" => job'[j] # "none",
         NEW c \in Crons, cron'[c] = cron[c]
  PROVE  /\ CronOK(c)'
         /\ \A sku \in Skus :
              sku \in (cron[c].found \ (cron[c].left \cup cron[c].refused))'
                => job'[<<sku, cron'[c].at>>] # "none"
  BY JobParts DEF MonitoringInv, CronOK, FoundAreQueued

\* The parts that do not speak of invocations are kept by a step of one that changes
\* neither jobs nor records, or adds one that was absent.
LEMMA SchedulerKeepsWork ==
  ASSUME MonitoringInv, UNCHANGED <<made, stalls, started, worker, checked, blurred>>,
         job' = job \/ \E k \in Jobs : job[k] = "none" /\ job' = [job EXCEPT ![k] = "waiting"],
         audit' = audit
           \/ \E k \in Jobs :
                /\ audit[k] = NoAudit
                /\ audit' = [audit EXCEPT ![k] = [status |-> "queued", attempt |-> 0]]
  PROVE  AttemptsLeft' /\ LocksHeld' /\ ChecksAreDone' /\ CompletedWasChecked'
         /\ AuditsFollow' /\ AuditMatchesJob'
<1> USE DEF MonitoringInv, MonitoringTypeOK
<1>1. AttemptsLeft' /\ ChecksAreDone' /\ CompletedWasChecked'
  BY DEF AttemptsLeft, ChecksAreDone, CompletedWasChecked
<1>2. LocksHeld'
  BY DEF LocksHeld, Busy, IdleWorker
<1>3. AuditsFollow'
  BY DEF AuditsFollow, Owned, NoAudit
<1>4. AuditMatchesJob'
  BY DEF AuditMatchesJob, NoAudit
<1> QED BY <1>1, <1>2, <1>3, <1>4

\* What a step of one invocation must show.
LEMMA SchedulerKeepsInv ==
  ASSUME MonitoringInv, NEW c \in Crons, MonitoringTypeOK',
         UNCHANGED <<made, stalls, started, worker, checked, blurred>>,
         job' = job \/ \E k \in Jobs : job[k] = "none" /\ job' = [job EXCEPT ![k] = "waiting"],
         audit' = audit
           \/ \E k \in Jobs :
                /\ audit[k] = NoAudit
                /\ audit' = [audit EXCEPT ![k] = [status |-> "queued", attempt |-> 0]],
         \A d \in Crons \ {c} : cron'[d] = cron[d],
         CronOK(c)',
         \A sku \in Skus :
           sku \in (cron[c].found \ (cron[c].left \cup cron[c].refused))'
             => job'[<<sku, cron'[c].at>>] # "none"
  PROVE  MonitoringInv'
<1>1. \A j \in Jobs : job[j] # "none" => job'[j] # "none"
  BY DEF MonitoringInv, MonitoringTypeOK
<1>2. job' \in [Jobs -> JobStates]
  BY DEF MonitoringTypeOK, JobStates
<1>3. \A d \in Crons : CronOK(d)'
  BY <1>1, <1>2, QueuedStaysQueued
<1>4. FoundAreQueued'
  BY <1>1, <1>2, QueuedStaysQueued DEF FoundAreQueued
<1>5. AttemptsLeft' /\ LocksHeld' /\ ChecksAreDone' /\ CompletedWasChecked'
      /\ AuditsFollow' /\ AuditMatchesJob'
  BY SchedulerKeepsWork
<1> QED BY <1>3, <1>4, <1>5 DEF MonitoringInv

LEMMA CronIsTyped ==
  ASSUME MonitoringTypeOK
  PROVE  cron \in [Crons -> CronRecord] /\ worker \in [Workers -> WorkerRecord]
         /\ audit \in [Jobs -> AuditRecord] /\ job \in [Jobs -> JobStates]
  BY DEF MonitoringTypeOK, CronRecord, WorkerRecord, AuditRecord, JobStates

\* Typing of a step of an invocation, from what it changes.
LEMMA SchedulerIsTyped ==
  ASSUME MonitoringTypeOK, cron' \in [Crons -> CronRecord], job' \in [Jobs -> JobStates],
         audit' \in [Jobs -> AuditRecord], fired' \in 0..MaxFirings,
         faults' \in 0..MaxFaults,
         UNCHANGED <<minute, made, stalls, started, worker, checked, blurred>>
  PROVE  MonitoringTypeOK'
  BY DEF MonitoringTypeOK, CronRecord, AuditRecord, JobStates

LEMMA FaultIsTyped ==
  ASSUME MonitoringTypeOK, NEW kind, Fault(kind)
  PROVE  faults' \in 0..MaxFaults
  BY MonitoringAssumption DEF MonitoringTypeOK, Fault

LEMMA CronFiresKeepsInv ==
  ASSUME MonitoringInv, NEW c \in Crons, CronFires(c)
  PROVE  MonitoringInv'
<1> USE DEF MonitoringInv, CronFires
<1>1. cron' \in [Crons -> CronRecord]
  BY MonitoringAssumption, CronIsTyped DEF CronRecord, IdleCron
<1>2. MonitoringTypeOK'
  <2>1. fired' \in 0..MaxFirings
    BY MonitoringAssumption DEF MonitoringTypeOK
  <2>2. faults' \in 0..MaxFaults
    BY DEF MonitoringTypeOK
  <2> QED BY <1>1, <2>1, <2>2, CronIsTyped, SchedulerIsTyped DEF bullVars
<1>3. /\ CronOK(c)' /\ (cron[c].found)' = {}
      /\ \A d \in Crons \ {c} : cron'[d] = cron[d]
  BY CronIsTyped DEF CronOK, IdleCron
<1> QED BY <1>2, <1>3, SchedulerKeepsInv DEF bullVars

LEMMA FoundKeepsInv ==
  ASSUME MonitoringInv, NEW c \in Crons, NEW skus \in SUBSET Skus, Found(c, skus)
  PROVE  MonitoringInv'
<1> USE DEF MonitoringInv, Found
<1> DEFINE found == [IdleCron EXCEPT !.step = IF skus = {} THEN "idle" ELSE "add",
                                     !.found = skus, !.left = skus, !.at = minute]
<1>1. found \in CronRecord
  <2>1. minute \in 0..MaxMinutes
    BY MonitoringAssumption DEF MonitoringTypeOK, Minutes
  <2>2. (IF skus = {} THEN "idle" ELSE "add") \in {"idle", "add"}
    OBVIOUS
  <2> QED BY <2>1, <2>2 DEF CronRecord, IdleCron
<1>2. cron'[c] = found /\ cron' \in [Crons -> CronRecord]
  BY <1>1, CronIsTyped
<1>3. MonitoringTypeOK'
  BY <1>2, CronIsTyped, SchedulerIsTyped DEF MonitoringTypeOK, bullVars
<1>4. found.found = skus /\ found.left = skus /\ found.at \in Minutes
      /\ found.step # "insert"
  BY DEF MonitoringTypeOK, IdleCron
<1>5. \A d \in Crons \ {c} : cron'[d] = cron[d]
  BY CronIsTyped
<1> HIDE DEF found
<1>6. CronOK(c)'
  BY <1>2, <1>4 DEF CronOK
<1> QED BY <1>2, <1>3, <1>4, <1>5, <1>6, SchedulerKeepsInv DEF bullVars

LEMMA AddedKeepsInv ==
  ASSUME MonitoringInv, NEW c \in Crons, NEW sku \in Skus, Added(c, sku)
  PROVE  MonitoringInv'
<1> USE DEF MonitoringInv, Added
<1> DEFINE k == <<sku, cron[c].at>>
<1>1. k \in Jobs /\ k[1] = sku
  BY JobParts, CronIsTyped DEF CronOK, CronRecord
<1>2. /\ cron' \in [Crons -> CronRecord]
      /\ cron'[c] = [cron[c] EXCEPT !.step = "insert", !.next = k]
      /\ \A d \in Crons \ {c} : cron'[d] = cron[d]
  BY <1>1, CronIsTyped DEF CronRecord
<1>3. /\ job' \in [Jobs -> JobStates]
      /\ job' = job \/ (job[k] = "none" /\ job' = [job EXCEPT ![k] = "waiting"])
      /\ job'[k] # "none"
      /\ \A j \in Jobs : job[j] # "none" => job'[j] # "none"
  BY <1>1, CronIsTyped DEF SetJob, JobStates
<1>4. MonitoringTypeOK'
  BY <1>2, <1>3, CronIsTyped, SchedulerIsTyped DEF MonitoringTypeOK
<1>5. /\ cron'[c].found = cron[c].found /\ cron'[c].left = cron[c].left
      /\ cron'[c].refused = cron[c].refused /\ cron'[c].at = cron[c].at
      /\ cron'[c].next = k /\ cron'[c].step = "insert"
  BY <1>2, CronIsTyped DEF CronRecord
<1> HIDE DEF k
<1>6. k = <<k[1], cron[c].at>>
  BY <1>1 DEF k
<1>7. CronOK(c)'
  BY <1>1, <1>3, <1>5, <1>6 DEF CronOK
<1>8. \A s \in Skus :
        s \in (cron[c].found \ (cron[c].left \cup cron[c].refused))'
          => job'[<<s, cron'[c].at>>] # "none"
  <2>1. SUFFICES ASSUME NEW s \in Skus,
                        s \in cron[c].found \ (cron[c].left \cup cron[c].refused)
                 PROVE  job'[<<s, cron[c].at>>] # "none"
    BY <1>5
  <2>2. job[<<s, cron[c].at>>] # "none"
    BY <2>1 DEF FoundAreQueued
  <2>3. <<s, cron[c].at>> \in Jobs
    BY <2>1, JobParts DEF CronOK
  <2> QED BY <1>3, <2>2, <2>3
<1> QED BY <1>1, <1>2, <1>3, <1>4, <1>7, <1>8, SchedulerKeepsInv

\* Going on to the next SKU after one that was added or refused.
LEMMA ContinueKeepsInv ==
  ASSUME MonitoringInv, NEW c \in Crons, NEW k \in Jobs, NEW refused \in SUBSET Skus,
         Continue(c, cron[c].left \ {k[1]}, refused),
         cron[c].refused \subseteq refused,
         k[1] \in refused \/ (k[2] = cron[c].at /\ job[k] # "none"),
         audit' = audit
           \/ (audit[k] = NoAudit
               /\ audit' = [audit EXCEPT ![k] = [status |-> "queued", attempt |-> 0]]),
         faults' \in 0..MaxFaults,
         UNCHANGED <<minute, fired, bullVars, worker, checked, blurred>>
  PROVE  MonitoringInv'
<1> USE DEF MonitoringInv, Continue
<1> DEFINE left == cron[c].left \ {k[1]}
           next == [cron[c] EXCEPT !.step = IF left = {} THEN "idle" ELSE "add",
                                   !.next = NoJob, !.left = left, !.refused = refused]
<1>0. cron[c] \in CronRecord
  BY CronIsTyped
<1>1. /\ cron' \in [Crons -> CronRecord]
      /\ \A d \in Crons \ {c} : cron'[d] = cron[d]
      /\ cron'[c].found = cron[c].found /\ cron'[c].left = cron[c].left \ {k[1]}
      /\ cron'[c].refused = refused /\ cron'[c].at = cron[c].at
      /\ cron'[c].step # "insert"
  <2>1. (IF left = {} THEN "idle" ELSE "add") \in {"idle", "add"}
    OBVIOUS
  <2>2. next \in CronRecord
    BY <1>0, <2>1 DEF CronRecord
  <2>3. cron' = [cron EXCEPT ![c] = next]
    BY CronIsTyped
  <2>4. /\ next.found = cron[c].found /\ next.left = cron[c].left \ {k[1]}
        /\ next.refused = refused /\ next.at = cron[c].at
        /\ next.step # "insert"
    BY <1>0, <2>1 DEF CronRecord
  <2>5. DOMAIN cron = Crons /\ cron \in [Crons -> CronRecord]
    BY CronIsTyped
  <2> HIDE DEF next
  <2>6. cron'[c] = next /\ \A d \in Crons \ {c} : cron'[d] = cron[d]
    BY <2>3, <2>5
  <2>7. cron' \in [Crons -> CronRecord]
    BY <2>2, <2>3, <2>5
  <2> QED BY <2>4, <2>6, <2>7
<1>2. audit' \in [Jobs -> AuditRecord]
  BY RecordsAreTyped, CronIsTyped
<1>3. MonitoringTypeOK'
  BY <1>1, <1>2, CronIsTyped, SchedulerIsTyped DEF MonitoringTypeOK, bullVars
<1>4. CronOK(c)'
  BY <1>1 DEF CronOK
<1>5. \A s \in Skus :
        s \in (cron[c].found \ (cron[c].left \cup cron[c].refused))'
          => job'[<<s, cron'[c].at>>] # "none"
  <2>1. SUFFICES ASSUME NEW s \in Skus,
                        s \in cron[c].found \ ((cron[c].left \ {k[1]}) \cup refused)
                 PROVE  job[<<s, cron[c].at>>] # "none"
    BY <1>1 DEF bullVars
  <2>2. CASE s = k[1]
    BY <2>1, <2>2, JobParts
  <2>3. CASE s # k[1]
    BY <2>1, <2>3 DEF FoundAreQueued
  <2> QED BY <2>2, <2>3
<1> QED BY <1>1, <1>3, <1>4, <1>5, SchedulerKeepsInv DEF bullVars

LEMMA CronStepKeepsInv ==
  ASSUME MonitoringInv, NEW c \in Crons, CronStep(c)
  PROVE  MonitoringInv'
<1> USE DEF MonitoringInv
<1>0. cron[c] \in CronRecord /\ cron[c].refused \subseteq Skus
  BY CronIsTyped DEF CronRecord
<1>1. CASE FindFails(c)
  <2>1. cron' \in [Crons -> CronRecord]
    BY <1>1, CronIsTyped, MonitoringAssumption DEF FindFails, CronRecord, IdleCron
  <2>2. MonitoringTypeOK'
    BY <1>1, <2>1, CronIsTyped, SchedulerIsTyped, FaultIsTyped
    DEF FindFails, MonitoringTypeOK, bullVars
  <2>3. /\ CronOK(c)' /\ (cron[c].found)' = {}
        /\ \A d \in Crons \ {c} : cron'[d] = cron[d]
    BY <1>1, CronIsTyped DEF FindFails, CronOK, IdleCron
  <2> QED BY <1>1, <2>2, <2>3, SchedulerKeepsInv DEF FindFails, bullVars
<1>2. CASE \E skus \in SUBSET Skus : Found(c, skus)
  BY <1>2, FoundKeepsInv
<1>3. ASSUME NEW sku \in Skus, Added(c, sku)
      PROVE  MonitoringInv'
  BY <1>3, AddedKeepsInv
<1>4. ASSUME NEW sku \in Skus, AddFails(c, sku)
      PROVE  MonitoringInv'
  <2>2. <<sku, minute>> \in Jobs /\ <<sku, minute>>[1] = sku
    BY JobParts DEF MonitoringTypeOK
  <2> QED BY <1>0, <1>4, <2>2, ContinueKeepsInv, FaultIsTyped DEF AddFails
<1>5. CASE Inserted(c) \/ InsertFails(c)
  <2>1. /\ cron[c].next \in Jobs
        /\ cron[c].next[2] = cron[c].at
        /\ job[cron[c].next] # "none"
    BY <1>5, JobParts DEF CronOK, Inserted, InsertFails
  <2>2. faults' \in 0..MaxFaults
    BY <1>5, FaultIsTyped DEF Inserted, InsertFails, MonitoringTypeOK
  <2> QED BY <1>0, <1>5, <2>1, <2>2, ContinueKeepsInv DEF Inserted, InsertFails
<1> QED BY <1>1, <1>2, <1>3, <1>4, <1>5, CronStep(c) DEF CronStep

-----------------------------------------------------------------------------
(* The queue and its workers: they leave the invocations alone. *)

LEMMA WorkIsTyped ==
  ASSUME MonitoringTypeOK, job' \in [Jobs -> JobStates],
         made' \in [Jobs -> 0..MaxAttempts], stalls' \in [Jobs -> 0..(MaxStalls + 1)],
         started' \in 0..Limit, worker' \in [Workers -> WorkerRecord],
         audit' \in [Jobs -> AuditRecord], faults' \in 0..MaxFaults,
         checked' \subseteq Jobs, blurred' \subseteq Jobs,
         UNCHANGED <<minute, fired, cron>>
  PROVE  MonitoringTypeOK'
  BY DEF MonitoringTypeOK, WorkerRecord, AuditRecord, JobStates

\* What a step of the queue or a worker must show.
LEMMA WorkKeepsInv ==
  ASSUME MonitoringInv, MonitoringTypeOK', UNCHANGED cron,
         \A j \in Jobs : job[j] # "none" => job'[j] # "none",
         AttemptsLeft', LocksHeld', ChecksAreDone', CompletedWasChecked',
         AuditsFollow', AuditMatchesJob'
  PROVE  MonitoringInv'
<1>1. job' \in [Jobs -> JobStates]
  BY DEF MonitoringTypeOK, JobStates
<1>2. \A c \in Crons : CronOK(c)'
  BY <1>1, QueuedStaysQueued
<1>3. FoundAreQueued'
  BY <1>1, QueuedStaysQueued DEF FoundAreQueued
<1> QED BY <1>2, <1>3 DEF MonitoringInv

\* The types of the variables a step of the queue or a worker may change.
LEMMA WorkTypes ==
  ASSUME MonitoringTypeOK
  PROVE  /\ job \in [Jobs -> JobStates] /\ made \in [Jobs -> 0..MaxAttempts]
         /\ stalls \in [Jobs -> 0..(MaxStalls + 1)] /\ started \in 0..Limit
         /\ worker \in [Workers -> WorkerRecord] /\ audit \in [Jobs -> AuditRecord]
         /\ faults \in 0..MaxFaults /\ checked \subseteq Jobs /\ blurred \subseteq Jobs
  BY DEF MonitoringTypeOK, WorkerRecord, AuditRecord, JobStates

LEMMA BusyHasJob ==
  ASSUME MonitoringInv, NEW w \in Workers
  PROVE  /\ Busy(w) => worker[w].job \in Jobs /\ job[worker[w].job] # "none"
         /\ worker[w].job \in Jobs => Busy(w)
         /\ worker[w].locked => Busy(w)
  BY NoJobIsNoJob DEF MonitoringInv, LocksHeld, Busy, IdleWorker

LEMMA PickUpKeepsInv ==
  ASSUME MonitoringInv, NEW w \in Workers, NEW j \in Jobs, PickUp(w, j)
  PROVE  MonitoringInv'
<1> DEFINE taken == [step |-> "running", job |-> j, attempt |-> made[j] + 1,
                     locked |-> TRUE]
<1> USE BoundsAreNumbers, WorkTypes DEF MonitoringInv, PickUp, SetJob
<1>1. made[j] + 1 \in 0..MaxAttempts
  BY DEF AttemptsLeft
<1>2. /\ taken \in WorkerRecord
      /\ worker' = [worker EXCEPT ![w] = taken]
      /\ taken.step = "running" /\ taken.job = j /\ taken.locked
      /\ taken.attempt = made[j] + 1
  BY <1>1 DEF WorkerRecord
<1> HIDE DEF taken
<1>3. /\ worker' \in [Workers -> WorkerRecord] /\ worker'[w] = taken
      /\ \A v \in Workers \ {w} : worker'[v] = worker[v]
  BY <1>2
<1>4. /\ job' \in [Jobs -> JobStates] /\ job[j] = "waiting" /\ job'[j] = "active"
      /\ \A k \in Jobs \ {j} : job'[k] = job[k]
      /\ UNCHANGED <<cron, made, stalls, audit, checked, blurred>>
  BY DEF JobStates
<1>5. MonitoringTypeOK'
  BY <1>3, <1>4, WorkIsTyped
<1>6. AttemptsLeft' /\ CompletedWasChecked'
  BY <1>4 DEF AttemptsLeft, CompletedWasChecked
<1>7. \A v \in Workers : worker[v].locked => worker[v].job # j
  BY <1>4 DEF LocksHeld
<1>8. LocksHeld'
  <2>1. ASSUME NEW v \in Workers
        PROVE  /\ IF Busy(v)' THEN worker'[v].job \in Jobs /\ job'[worker'[v].job] # "none"
                             ELSE worker'[v] = IdleWorker
               /\ worker'[v].locked =>
                    /\ job'[worker'[v].job] = "active"
                    /\ worker'[v].attempt = made'[worker'[v].job] + 1
    <3>1. CASE v = w
      BY <1>2, <1>3, <1>4, <3>1 DEF Busy
    <3>2. CASE v # w
      <4>1. worker'[v] = worker[v] /\ (Busy(v)' <=> Busy(v))
        BY <1>3, <3>2 DEF Busy
      <4>2. worker[v].locked => worker[v].job \in Jobs \ {j}
        BY <1>7, BusyHasJob
      <4> QED BY <1>4, <4>1, <4>2, BusyHasJob DEF LocksHeld
    <3> QED BY <3>1, <3>2
  <2>2. ASSUME NEW u \in Workers, NEW v \in Workers,
               worker'[u].locked, worker'[v].locked, u # v
        PROVE  worker'[u].job # worker'[v].job
    BY <1>2, <1>3, <1>7, <2>2 DEF LocksHeld
  <2> QED BY <2>1, <2>2 DEF LocksHeld
<1>9. ChecksAreDone'
  BY <1>2, <1>3, <1>4 DEF ChecksAreDone
<1>10. AuditsFollow'
  <2>1. ASSUME NEW k \in Jobs \ blurred, job'[k] = "active"
        PROVE  Owned(k)'
    <3>1. CASE k = j
      BY <1>2, <1>3, <3>1 DEF Owned
    <3>2. CASE k # j
      <4>1. PICK v \in Workers : worker[v].job = k /\ worker[v].locked
        BY <1>4, <2>1, <3>2 DEF AuditsFollow, Owned
      <4>2. v # w
        BY <4>1, BusyHasJob DEF Busy
      <4> QED BY <1>3, <4>1, <4>2 DEF Owned
    <3> QED BY <3>1, <3>2
  <2>2. ASSUME NEW k \in Jobs \ blurred, NEW v \in Workers, worker'[v].job = k
        PROVE  /\ worker'[v].locked
               /\ worker'[v].step = "return" =>
                    audit[k] = [status |-> "completed", attempt |-> worker'[v].attempt]
               /\ worker'[v].step = "throw" =>
                    audit[k] = [status |-> "failed", attempt |-> worker'[v].attempt]
    BY <1>2, <1>3, <2>2 DEF AuditsFollow
  <2> QED BY <1>4, <2>1, <2>2 DEF AuditsFollow
<1>11. AuditMatchesJob'
  BY <1>4 DEF AuditMatchesJob
<1> QED BY <1>4, <1>5, <1>6, <1>8, <1>9, <1>10, <1>11, WorkKeepsInv

\* A step of process() that only moves the worker on.
LEMMA MoveKeepsInv ==
  ASSUME MonitoringInv, NEW w \in Workers, worker[w].step \in {"running", "monitor",
           "completed", "failed"},
         NEW next \in {"monitor", "completed", "failed", "return", "throw"},
         Goto(w, next), UNCHANGED <<minute, fired, cron, bullVars>>,
         faults' \in 0..MaxFaults,
         checked' \subseteq Jobs, checked \subseteq checked',
         next \in {"completed", "return"} => worker[w].job \in checked',
         \/ audit' = audit
         \/ \E record \in AuditRecord : audit' = [audit EXCEPT ![worker[w].job] = record],
         blurred' \subseteq Jobs, blurred \subseteq blurred',
         worker[w].job \in Jobs \ blurred' =>
           /\ next = "return" => audit'[worker[w].job] =
                [status |-> "completed", attempt |-> worker[w].attempt]
           /\ next = "throw" => audit'[worker[w].job] =
                [status |-> "failed", attempt |-> worker[w].attempt]
  PROVE  MonitoringInv'
<1> USE BoundsAreNumbers, WorkTypes DEF MonitoringInv, Goto, bullVars
<1>1. /\ worker' \in [Workers -> WorkerRecord]
      /\ \A v \in Workers \ {w} : worker'[v] = worker[v]
      /\ worker'[w].step = next /\ worker'[w].job = worker[w].job
      /\ worker'[w].attempt = worker[w].attempt /\ worker'[w].locked = worker[w].locked
  BY DEF WorkerRecord
<1>2. Busy(w) /\ Busy(w)' /\ worker[w].job \in Jobs
  BY <1>1, BusyHasJob DEF Busy
<1>3. /\ audit' \in [Jobs -> AuditRecord]
      /\ \A k \in Jobs \ {worker[w].job} : audit'[k] = audit[k]
  BY <1>2
<1>4. MonitoringTypeOK'
  BY <1>1, <1>3, WorkIsTyped
<1>5. AttemptsLeft' /\ CompletedWasChecked'
  BY DEF AttemptsLeft, CompletedWasChecked
<1>6. LocksHeld'
  BY <1>1, <1>2 DEF LocksHeld, Busy
<1>7. ChecksAreDone'
  BY <1>1 DEF ChecksAreDone
<1>8. \A k \in Jobs \ blurred' : \A v \in Workers :
        worker[v].job = k /\ v # w => k # worker[w].job
  BY <1>2 DEF AuditsFollow, LocksHeld
<1>9. AuditsFollow'
  <2>1. ASSUME NEW k \in Jobs \ blurred', job[k] = "active"
        PROVE  Owned(k)'
    BY <1>1, <2>1 DEF AuditsFollow, Owned
  <2>2. ASSUME NEW k \in Jobs \ blurred', NEW v \in Workers, worker'[v].job = k
        PROVE  /\ worker'[v].locked
               /\ worker'[v].step = "return" =>
                    audit'[k] = [status |-> "completed", attempt |-> worker'[v].attempt]
               /\ worker'[v].step = "throw" =>
                    audit'[k] = [status |-> "failed", attempt |-> worker'[v].attempt]
    <3>1. CASE v = w
      BY <1>1, <2>2, <3>1 DEF AuditsFollow
    <3>2. CASE v # w
      BY <1>1, <1>3, <1>8, <2>2, <3>2 DEF AuditsFollow
    <3> QED BY <3>1, <3>2
  <2> QED BY <2>1, <2>2 DEF AuditsFollow
<1>10. worker[w].job \in Jobs \ blurred' => job[worker[w].job] = "active"
  BY <1>2 DEF AuditsFollow, LocksHeld
<1>11. AuditMatchesJob'
  BY <1>3, <1>10 DEF AuditMatchesJob
<1> QED BY <1>4, <1>5, <1>6, <1>7, <1>9, <1>11, WorkKeepsInv

LEMMA ProcessKeepsInv ==
  ASSUME MonitoringInv, NEW w \in Workers, Process(w)
  PROVE  MonitoringInv'
<1> USE WorkTypes DEF MonitoringInv
<1>1. worker[w].step \in DOMAIN After \cup {"monitor"} => worker[w].job \in Jobs
  BY BusyHasJob DEF Busy, After
<1>2. CASE RecordStatus(w)
  <2>1. /\ worker[w].step \in {"running", "completed", "failed"}
        /\ worker[w].attempt \in 0..MaxAttempts /\ worker[w].job \in Jobs
    BY <1>1, <1>2 DEF RecordStatus, After, WorkerRecord
  <2> DEFINE record == [status |-> worker[w].step, attempt |-> worker[w].attempt]
             next == After[worker[w].step]
  <2>2. record \in AuditRecord
    BY <2>1, RecordsAreTyped
  <2>3. /\ next \in {"monitor", "return", "throw"}
        /\ next = "return" <=> worker[w].step = "completed"
        /\ next = "throw" <=> worker[w].step = "failed"
    BY <2>1 DEF After
  <2>4. /\ audit' = [audit EXCEPT ![worker[w].job] = record]
        /\ audit'[worker[w].job] = record
        /\ Goto(w, next)
        /\ UNCHANGED <<minute, fired, cron, bullVars, faults, checked, blurred>>
    BY <1>2, <2>1 DEF RecordStatus
  <2>5. next = "return" => worker[w].job \in checked
    BY <2>3 DEF ChecksAreDone
  <2>6. /\ next = "return" => record = [status |-> "completed", attempt |-> worker[w].attempt]
        /\ next = "throw" => record = [status |-> "failed", attempt |-> worker[w].attempt]
    BY <2>3
  <2> HIDE DEF record, next
  <2> QED BY <2>1, <2>2, <2>3, <2>4, <2>5, <2>6, MoveKeepsInv
<1>3. CASE RecordFails(w)
  <2> DEFINE next == After[worker[w].step]
  <2>1. worker[w].step \in {"running", "completed", "failed"} /\ worker[w].job \in Jobs
    BY <1>1, <1>3 DEF RecordFails, After
  <2>2. next \in {"monitor", "return", "throw"}
    BY <2>1 DEF After
  <2>3. next = "return" => worker[w].job \in checked
    BY <2>1 DEF ChecksAreDone, After
  <2>4. /\ Goto(w, next) /\ blurred' = blurred \cup {worker[w].job}
        /\ UNCHANGED <<minute, fired, cron, bullVars, audit, checked>>
    BY <1>3 DEF RecordFails
  <2>5. faults' \in 0..MaxFaults
    BY <1>3, FaultIsTyped DEF RecordFails
  <2> HIDE DEF next
  <2> QED BY <2>1, <2>2, <2>3, <2>4, <2>5, MoveKeepsInv
<1>4. CASE Monitored(w)
  <2>1. /\ worker[w].step = "monitor" /\ worker[w].job \in Jobs /\ Goto(w, "completed")
        /\ checked' = checked \cup {worker[w].job}
        /\ UNCHANGED <<minute, fired, cron, bullVars, audit, faults, blurred>>
    BY <1>1, <1>4 DEF Monitored
  <2> QED BY <2>1, MoveKeepsInv
<1>5. CASE MonitorFails(w)
  <2>1. /\ worker[w].step = "monitor" /\ Goto(w, "failed")
        /\ UNCHANGED <<minute, fired, cron, bullVars, audit, checked, blurred>>
        /\ faults' \in 0..MaxFaults
    BY <1>5, FaultIsTyped DEF MonitorFails
  <2> QED BY <2>1, MoveKeepsInv
<1> QED BY <1>2, <1>3, <1>4, <1>5 DEF Process

\* The end of a run: only the owner of the lock moves the job.
LEMMA FinishKeepsInv ==
  ASSUME MonitoringInv, NEW w \in Workers, Finish(w)
  PROVE  MonitoringInv'
<1> DEFINE j == worker[w].job
<1> USE BoundsAreNumbers, WorkTypes DEF MonitoringInv, Finish, SetJob
<1>1. j \in Jobs /\ Busy(w)
  BY BusyHasJob DEF Busy
<1>2. /\ worker' \in [Workers -> WorkerRecord] /\ worker'[w] = IdleWorker
      /\ \A v \in Workers \ {w} : worker'[v] = worker[v]
  BY DEF IdleWorker, WorkerRecord
<1>3. /\ ~worker'[w].locked /\ ~Busy(w)' /\ worker'[w].job = NoJob
      /\ worker'[w].step = "idle"
  BY <1>2 DEF IdleWorker, Busy
<1>4. worker[w].locked => job[j] = "active" /\ made[j] < MaxAttempts
                          /\ worker[w].attempt = made[j] + 1
  BY <1>1 DEF LocksHeld, AttemptsLeft
<1>5. /\ job' \in [Jobs -> JobStates] /\ made' \in [Jobs -> 0..MaxAttempts]
      /\ \A k \in Jobs \ {j} : job'[k] = job[k] /\ made'[k] = made[k]
      /\ UNCHANGED <<minute, fired, cron, stalls, started, audit, faults, checked, blurred>>
      /\ \/ ~worker[w].locked /\ UNCHANGED <<job, made>>
         \/ /\ worker[w].locked /\ worker[w].step = "return"
            /\ job'[j] = "completed" /\ made'[j] = made[j]
         \/ /\ worker[w].locked /\ worker[w].step = "throw"
            /\ made'[j] = made[j] + 1
            /\ \/ job'[j] = "delayed" /\ made[j] + 1 < MaxAttempts
               \/ job'[j] = "failed"
  <2>1. CASE ~worker[w].locked
    BY <2>1
  <2>2. CASE worker[w].locked /\ worker[w].step = "return"
    BY <1>1, <2>2 DEF JobStates
  <2>3. CASE worker[w].locked /\ worker[w].step = "throw"
    BY <1>1, <1>4, <2>3 DEF JobStates
  <2> QED BY <2>1, <2>2, <2>3
<1> HIDE DEF j, Finish
<1>6. MonitoringTypeOK'
  BY <1>2, <1>5, WorkIsTyped
<1>7. AttemptsLeft'
  <2>1. ASSUME NEW k \in Jobs, job'[k] \notin {"completed", "failed"}
        PROVE  made'[k] < MaxAttempts /\ stalls'[k] <= MaxStalls
    <3>1. stalls[k] <= MaxStalls /\ (made[k] < MaxAttempts \/ k = j)
      <4>1. job[k] \notin {"completed", "failed"}
        BY <1>4, <1>5, <2>1
      <4> QED BY <4>1 DEF AttemptsLeft
    <3>2. CASE k # j
      BY <1>5, <3>1, <3>2
    <3>3. CASE k = j
      <4>1. CASE ~worker[w].locked
        BY <1>5, <2>1, <4>1 DEF AttemptsLeft
      <4>2. CASE worker[w].locked
        BY <1>5, <2>1, <3>1, <3>3, <4>2
      <4> QED BY <4>1, <4>2
    <3> QED BY <3>2, <3>3
  <2> QED BY <2>1 DEF AttemptsLeft
<1>8. CompletedWasChecked' /\ ChecksAreDone'
  BY <1>1, <1>2, <1>3, <1>5 DEF CompletedWasChecked, ChecksAreDone, j
<1>9. \A v \in Workers \ {w} :
        /\ worker[w].locked /\ worker[v].locked => worker[v].job # j
        /\ worker[v].locked => job'[worker[v].job] = job[worker[v].job]
                               /\ made'[worker[v].job] = made[worker[v].job]
  BY <1>1, <1>5, BusyHasJob DEF LocksHeld, j
<1>10. \A k \in Jobs : job[k] # "none" => job'[k] # "none"
  BY <1>5
<1>11. LocksHeld'
  <2>1. ASSUME NEW v \in Workers
        PROVE  /\ IF Busy(v)' THEN worker'[v].job \in Jobs /\ job'[worker'[v].job] # "none"
                             ELSE worker'[v] = IdleWorker
               /\ worker'[v].locked =>
                    /\ job'[worker'[v].job] = "active"
                    /\ worker'[v].attempt = made'[worker'[v].job] + 1
    <3>1. CASE v = w
      BY <1>2, <1>3, <3>1
    <3>2. CASE v # w
      <4>1. worker'[v] = worker[v] /\ (Busy(v)' <=> Busy(v))
        BY <1>2, <3>2 DEF Busy
      <4> QED BY <1>9, <1>10, <3>2, <4>1, BusyHasJob DEF LocksHeld
    <3> QED BY <3>1, <3>2
  <2>2. ASSUME NEW u \in Workers, NEW v \in Workers,
               worker'[u].locked, worker'[v].locked, u # v
        PROVE  worker'[u].job # worker'[v].job
    BY <1>2, <1>3, <2>2 DEF LocksHeld
  <2> QED BY <2>1, <2>2 DEF LocksHeld
<1>12. j \in blurred \/ worker[w].locked
  BY <1>1 DEF AuditsFollow, j
<1>13. AuditsFollow'
  <2>1. ASSUME NEW k \in Jobs \ blurred, job'[k] = "active"
        PROVE  Owned(k)'
    <3>1. k # j
      BY <1>5, <1>12, <2>1
    <3>2. PICK v \in Workers : worker[v].job = k /\ worker[v].locked
      BY <1>5, <2>1, <3>1 DEF AuditsFollow, Owned
    <3>3. v # w
      BY <3>1, <3>2 DEF j
    <3> QED BY <1>2, <3>2, <3>3 DEF Owned
  <2>2. ASSUME NEW k \in Jobs \ blurred, NEW v \in Workers, worker'[v].job = k
        PROVE  /\ worker'[v].locked
               /\ worker'[v].step = "return" =>
                    audit[k] = [status |-> "completed", attempt |-> worker'[v].attempt]
               /\ worker'[v].step = "throw" =>
                    audit[k] = [status |-> "failed", attempt |-> worker'[v].attempt]
    <3>1. v # w
      BY <1>3, <2>2, NoJobIsNoJob
    <3> QED BY <1>2, <2>2, <3>1 DEF AuditsFollow
  <2> QED BY <1>5, <2>1, <2>2 DEF AuditsFollow
<1>14. j \in Jobs \ blurred =>
         /\ worker[w].step = "return" =>
              audit[j] = [status |-> "completed", attempt |-> made[j] + 1]
         /\ worker[w].step = "throw" =>
              audit[j] = [status |-> "failed", attempt |-> made[j] + 1]
  BY <1>4, <1>12 DEF AuditsFollow, j
<1>15. AuditMatchesJob'
  BY <1>5, <1>12, <1>14 DEF AuditMatchesJob
<1> QED BY <1>5, <1>6, <1>7, <1>8, <1>10, <1>11, <1>13, <1>15, WorkKeepsInv

LEMMA BackoffOverKeepsInv ==
  ASSUME MonitoringInv, NEW j \in Jobs, BackoffOver(j)
  PROVE  MonitoringInv'
<1> USE WorkTypes DEF MonitoringInv, BackoffOver, SetJob
<1>1. /\ job' \in [Jobs -> JobStates] /\ job[j] = "delayed" /\ job'[j] = "waiting"
      /\ \A k \in Jobs \ {j} : job'[k] = job[k]
  BY DEF JobStates
<1>2. MonitoringTypeOK'
  BY <1>1, WorkIsTyped
<1>3. AttemptsLeft' /\ CompletedWasChecked' /\ ChecksAreDone'
  BY <1>1 DEF AttemptsLeft, CompletedWasChecked, ChecksAreDone
<1>4. LocksHeld'
  BY <1>1, BusyHasJob DEF LocksHeld, Busy
<1>5. AuditsFollow' /\ AuditMatchesJob'
  BY <1>1 DEF AuditsFollow, AuditMatchesJob, Owned
<1> QED BY <1>1, <1>2, <1>3, <1>4, <1>5, WorkKeepsInv

\* Nobody owns a stalled job: its audit has lost a worker.
LEMMA StalledKeepsInv ==
  ASSUME MonitoringInv, NEW j \in Jobs, Stalled(j)
  PROVE  MonitoringInv'
<1> USE BoundsAreNumbers, WorkTypes DEF MonitoringInv, Stalled, SetJob
<1>1. /\ job' \in [Jobs -> JobStates] /\ job[j] = "active"
      /\ stalls' \in [Jobs -> 0..(MaxStalls + 1)]
      /\ stalls[j] <= MaxStalls /\ stalls'[j] = stalls[j] + 1
      /\ \/ job'[j] = "waiting" /\ stalls[j] < MaxStalls
         \/ job'[j] = "failed"
      /\ \A k \in Jobs \ {j} : job'[k] = job[k] /\ stalls'[k] = stalls[k]
      /\ UNCHANGED <<minute, fired, cron, made, started, worker, audit, faults, checked,
                     blurred>>
  <2>1. stalls[j] <= MaxStalls
    BY DEF AttemptsLeft
  <2> QED BY <2>1 DEF JobStates
<1>2. \A w \in Workers : worker[w].locked => worker[w].job # j
  BY DEF Owned
<1>3. j \in blurred
  BY DEF AuditsFollow
<1> HIDE DEF Stalled
<1>4. MonitoringTypeOK'
  BY <1>1, WorkIsTyped
<1>5. AttemptsLeft'
  <2>1. ASSUME NEW k \in Jobs, job'[k] \notin {"completed", "failed"}
        PROVE  made[k] < MaxAttempts /\ stalls'[k] <= MaxStalls
    <3>1. job[k] \notin {"completed", "failed"}
      BY <1>1, <2>1
    <3>2. made[k] < MaxAttempts /\ stalls[k] <= MaxStalls
      BY <3>1 DEF AttemptsLeft
    <3> QED BY <1>1, <2>1, <3>2
  <2> QED BY <1>1, <2>1 DEF AttemptsLeft
<1>6. CompletedWasChecked' /\ ChecksAreDone'
  BY <1>1 DEF CompletedWasChecked, ChecksAreDone
<1>7. LocksHeld'
  BY <1>1, <1>2, BusyHasJob DEF LocksHeld, Busy
<1>8. AuditsFollow' /\ AuditMatchesJob'
  BY <1>1, <1>3 DEF AuditsFollow, AuditMatchesJob, Owned
<1> QED BY <1>1, <1>4, <1>5, <1>6, <1>7, <1>8, WorkKeepsInv

LEMMA LockLostKeepsInv ==
  ASSUME MonitoringInv, NEW w \in Workers, LockLost(w)
  PROVE  MonitoringInv'
<1> USE WorkTypes DEF MonitoringInv, LockLost, bullVars
<1>1. worker[w].job \in Jobs
  BY BusyHasJob
<1>2. /\ worker' \in [Workers -> WorkerRecord]
      /\ \A v \in Workers \ {w} : worker'[v] = worker[v]
      /\ worker'[w].step = worker[w].step /\ worker'[w].job = worker[w].job
      /\ ~worker'[w].locked
  BY DEF WorkerRecord
<1>3. faults' \in 0..MaxFaults
  BY FaultIsTyped
<1>4. MonitoringTypeOK'
  BY <1>1, <1>2, <1>3, WorkIsTyped
<1>5. AttemptsLeft' /\ CompletedWasChecked' /\ ChecksAreDone'
  BY <1>2 DEF AttemptsLeft, CompletedWasChecked, ChecksAreDone
<1>6. LocksHeld'
  BY <1>2, BusyHasJob DEF LocksHeld, Busy
<1>7. AuditsFollow' /\ AuditMatchesJob'
  <2>1. \A k \in Jobs \ blurred' : \A v \in Workers :
          worker[v].job = k \/ worker'[v].job = k => v # w
    BY <1>2
  <2> QED BY <1>2, <2>1 DEF AuditsFollow, AuditMatchesJob, Owned
<1> QED BY <1>4, <1>5, <1>6, <1>7, WorkKeepsInv

LEMMA RestartKeepsInv ==
  ASSUME MonitoringInv, Restart
  PROVE  MonitoringInv'
<1> USE BoundsAreNumbers, WorkTypes DEF MonitoringInv, Restart, bullVars
<1>1. IdleCron \in CronRecord /\ IdleWorker \in WorkerRecord
  BY DEF IdleCron, IdleWorker, CronRecord, WorkerRecord
<1>2. faults' \in 0..MaxFaults /\ blurred' \subseteq Jobs
  BY FaultIsTyped DEF WorkerRecord
<1>3. MonitoringTypeOK'
  BY <1>1, <1>2 DEF MonitoringTypeOK, CronRecord, WorkerRecord
<1>4. (\A c \in Crons : CronOK(c)') /\ FoundAreQueued'
  BY DEF CronOK, FoundAreQueued, IdleCron
<1>5. AttemptsLeft' /\ CompletedWasChecked' /\ ChecksAreDone'
  BY DEF AttemptsLeft, CompletedWasChecked, ChecksAreDone, IdleWorker
<1>6. LocksHeld'
  BY DEF LocksHeld, Busy, IdleWorker
<1>7. \A k \in Jobs \ blurred' : k \notin blurred /\ job[k] # "active"
  BY NoJobIsNoJob DEF AuditsFollow, Owned
<1>8. AuditsFollow' /\ AuditMatchesJob'
  BY <1>7, NoJobIsNoJob DEF AuditsFollow, AuditMatchesJob, IdleWorker
<1> QED BY <1>3, <1>4, <1>5, <1>6, <1>8

\* Time and the limiter concern nothing else.
LEMMA ClockKeepsInv ==
  ASSUME MonitoringInv, NextMinute \/ WindowOver
  PROVE  MonitoringInv'
<1>1. MonitoringTypeOK'
  BY BoundsAreNumbers
  DEF MonitoringInv, MonitoringTypeOK, NextMinute, WindowOver, Minutes, bullVars
<1>2. UNCHANGED <<fired, cron, job, made, stalls, worker, audit, faults, checked, blurred>>
  BY DEF NextMinute, WindowOver, bullVars
<1> QED
  BY <1>1, <1>2
  DEF MonitoringInv, CronOK, FoundAreQueued, AttemptsLeft, LocksHeld, Busy, ChecksAreDone,
      CompletedWasChecked, AuditsFollow, AuditMatchesJob, Owned

LEMMA MonitoringInvNext ==
  ASSUME MonitoringInv, [MonitoringNext]_monitoringVars
  PROVE  MonitoringInv'
<1>1. CASE UNCHANGED monitoringVars
  BY <1>1
  DEF monitoringVars, bullVars, MonitoringInv, MonitoringTypeOK, CronOK, FoundAreQueued,
      AttemptsLeft, LocksHeld, Busy, ChecksAreDone, CompletedWasChecked, AuditsFollow,
      AuditMatchesJob, Owned
<1>2. CASE NextMinute \/ WindowOver \/ Restart
  BY <1>2, ClockKeepsInv, RestartKeepsInv
<1>3. ASSUME NEW c \in Crons, CronFires(c) \/ CronStep(c)
      PROVE  MonitoringInv'
  BY <1>3, CronFiresKeepsInv, CronStepKeepsInv
<1>4. ASSUME NEW w \in Workers,
             Process(w) \/ Finish(w) \/ LockLost(w) \/ \E j \in Jobs : PickUp(w, j)
      PROVE  MonitoringInv'
  BY <1>4, ProcessKeepsInv, FinishKeepsInv, LockLostKeepsInv, PickUpKeepsInv
<1>5. ASSUME NEW j \in Jobs, BackoffOver(j) \/ Stalled(j)
      PROVE  MonitoringInv'
  BY <1>5, BackoffOverKeepsInv, StalledKeepsInv
<1> QED BY <1>1, <1>2, <1>3, <1>4, <1>5 DEF MonitoringNext

LEMMA MonitoringInvAlways == MonitoringSpec => []MonitoringInv
  BY MonitoringInvInit, MonitoringInvNext, PTL DEF MonitoringSpec

-----------------------------------------------------------------------------
\* The types hold under every failure; in them no job runs more often than its attempts
\* allow, nor more jobs in a window than the limit.
THEOREM MonitoringTypeCorrect == MonitoringSpec => []MonitoringTypeOK
  BY MonitoringInvAlways, PTL DEF MonitoringInv

\* One SKU that cannot be queued never keeps another from being queued.
THEOREM FoundSkusAreQueued == MonitoringSpec => []FoundAreQueued
  BY MonitoringInvAlways, PTL DEF MonitoringInv

\* A completed job had its SKU checked, whichever of its runs completed it.
THEOREM CompletedJobsWereChecked == MonitoringSpec => []CompletedWasChecked
  BY MonitoringInvAlways, PTL DEF MonitoringInv

\* The audit says how a job ended, unless a write of it or a worker was lost.
THEOREM AuditsAreTrue == MonitoringSpec => []AuditMatchesJob
  BY MonitoringInvAlways, PTL DEF MonitoringInv

-----------------------------------------------------------------------------
(* A job that was never stalled has one run at a time, and that run is done   *)
(* with its check once the job is checked.                                    *)

RunsAlone ==
  \A w \in Workers :
    Busy(w) /\ stalls[worker[w].job] = 0 =>
      /\ job[worker[w].job] = "active"
      /\ \A v \in Workers : worker[v].job = worker[w].job => v = w

CheckIsBehind ==
  \A w \in Workers :
    Busy(w) /\ stalls[worker[w].job] = 0 /\ worker[w].job \in checked =>
      worker[w].step \in {"completed", "return"}

OnceInv == RunsAlone /\ CheckIsBehind /\ CheckedOnce

LEMMA OnceInvInit == MonitoringInit => OnceInv
  BY DEF MonitoringInit, OnceInv, RunsAlone, CheckIsBehind, CheckedOnce, Busy, IdleWorker

LEMMA OnceInvNext ==
  ASSUME MonitoringInv, OnceInv, [MonitoringNext]_monitoringVars
  PROVE  OnceInv'
<1>0. /\ MonitoringTypeOK /\ LocksHeld /\ stalls \in [Jobs -> Nat]
      /\ job \in [Jobs -> JobStates] /\ worker \in [Workers -> WorkerRecord]
      /\ checked \subseteq Jobs
  BY WorkTypes, BoundsAreNumbers DEF MonitoringInv
<1>1. \A w \in Workers : Busy(w) => worker[w].job \in Jobs
  BY <1>0 DEF LocksHeld
<1>2. \A w \in Workers : ~Busy(w) => worker[w] = IdleWorker
  BY <1>0 DEF LocksHeld
<1> USE <1>0, <1>1, <1>2, NoJobIsNoJob
    DEF OnceInv, RunsAlone, CheckIsBehind, CheckedOnce, Busy, IdleWorker
<1>3. CASE UNCHANGED <<bullVars, worker, checked>>
  BY <1>3 DEF bullVars
<1>4. CASE NextMinute \/ WindowOver
  BY <1>4 DEF NextMinute, WindowOver, bullVars
<1>5. CASE Restart
  BY <1>5 DEF Restart, bullVars
<1>6. ASSUME NEW c \in Crons, CronFires(c) PROVE OnceInv'
  BY <1>3, <1>6 DEF CronFires
<1>7. ASSUME NEW c \in Crons, CronStep(c) PROVE OnceInv'
  <2>1. ASSUME NEW sku \in Skus, Added(c, sku) PROVE OnceInv'
    BY <2>1 DEF Added, SetJob
  <2>2. CASE ~\E sku \in Skus : Added(c, sku)
    BY <1>3, <1>7, <2>2
    DEF CronStep, FindFails, Inserted, InsertFails, Found, AddFails
  <2> QED
    BY <2>1, <2>2
<1>8. ASSUME NEW w \in Workers, NEW j \in Jobs, PickUp(w, j) PROVE OnceInv'
  BY <1>8 DEF PickUp, SetJob
<1>9. ASSUME NEW w \in Workers, RecordStatus(w) \/ RecordFails(w) PROVE OnceInv'
  BY <1>9 DEF RecordStatus, RecordFails, Goto, After, bullVars, WorkerRecord
<1>10. ASSUME NEW w \in Workers, Monitored(w) \/ MonitorFails(w) PROVE OnceInv'
  BY <1>10 DEF Monitored, MonitorFails, Goto, bullVars, WorkerRecord
<1>11. ASSUME NEW w \in Workers, Finish(w) PROVE OnceInv'
  BY <1>11 DEF Finish, SetJob, WorkerRecord
<1>12. ASSUME NEW w \in Workers, LockLost(w) PROVE OnceInv'
  BY <1>12 DEF LockLost, bullVars, WorkerRecord
<1>13. ASSUME NEW j \in Jobs, BackoffOver(j) PROVE OnceInv'
  BY <1>13 DEF BackoffOver, SetJob
<1>14. ASSUME NEW j \in Jobs, Stalled(j) PROVE OnceInv'
  BY <1>14 DEF Stalled, SetJob
<1>15. CASE UNCHANGED monitoringVars
  BY <1>3, <1>15 DEF monitoringVars
<1> QED
  BY <1>4, <1>5, <1>6, <1>7, <1>8, <1>9, <1>10, <1>11, <1>12, <1>13, <1>14, <1>15
  DEF MonitoringNext, Process

\* Neither failing audit writes nor lost locks, restarts and racing workers make BullMQ
\* repeat or give up a job whose check succeeded, as long as it was never stalled.
THEOREM ChecksAreMadeOnce == MonitoringSpec => []CheckedOnce
  BY MonitoringInvAlways, OnceInvInit, OnceInvNext, PTL DEF MonitoringSpec, OnceInv

-----------------------------------------------------------------------------
(* Scheduler, queue and workers implement MonitoringCycle. *)

LEMMA PhaseValues ==
  /\ PhaseOf["none"] = "unknown" /\ PhaseOf["waiting"] = "open"
  /\ PhaseOf["active"] = "open" /\ PhaseOf["delayed"] = "open"
  /\ PhaseOf["completed"] = "done" /\ PhaseOf["failed"] = "lost"
  BY DEF PhaseOf

LEMMA CycleInitMaps == MonitoringInit => Cycle!CycleInit
<1> SUFFICES ASSUME MonitoringInit PROVE Cycle!CycleInit
  OBVIOUS
<1>1. \A j \in Jobs : PhaseOf[job[j]] = "unknown" /\ made[j] + stalls[j] = 0
  BY PhaseValues DEF MonitoringInit
<1> QED BY <1>1 DEF MonitoringInit, Cycle!CycleInit

\* A step that changes no phase, no miss and no check is a stutter.
LEMMA CycleStutters ==
  ASSUME UNCHANGED <<job, made, stalls, checked>>
  PROVE  UNCHANGED Cycle!cycleVars
  BY DEF Cycle!cycleVars

\* A job that moves takes its phase along.
LEMMA PhaseMoves ==
  ASSUME MonitoringTypeOK, NEW k \in Jobs, NEW state, SetJob(k, state)
  PROVE  [j \in Jobs |-> PhaseOf[job'[j]]]
           = [[j \in Jobs |-> PhaseOf[job[j]]] EXCEPT ![k] = PhaseOf[state]]
<1>1. \A j \in Jobs : job'[j] = IF j = k THEN state ELSE job[j]
  BY DEF MonitoringTypeOK, SetJob
<1> QED BY <1>1

LEMMA MissesGrow ==
  ASSUME MonitoringTypeOK, NEW k \in Jobs,
         \/ made' = [made EXCEPT ![k] = @ + 1] /\ UNCHANGED stalls
         \/ stalls' = [stalls EXCEPT ![k] = @ + 1] /\ UNCHANGED made
  PROVE  [j \in Jobs |-> made'[j] + stalls'[j]]
           = [[j \in Jobs |-> made[j] + stalls[j]] EXCEPT ![k] = @ + 1]
<1>1. \A j \in Jobs : made[j] \in Nat /\ stalls[j] \in Nat
  BY BoundsAreNumbers DEF MonitoringTypeOK
<1>2. \A j \in Jobs : j # k => made'[j] = made[j] /\ stalls'[j] = stalls[j]
  BY DEF MonitoringTypeOK
<1>3. made'[k] + stalls'[k] = (made[k] + stalls[k]) + 1
  <2>1. CASE made' = [made EXCEPT ![k] = @ + 1] /\ UNCHANGED stalls
    BY <1>1, <2>1 DEF MonitoringTypeOK
  <2>2. CASE stalls' = [stalls EXCEPT ![k] = @ + 1] /\ UNCHANGED made
    BY <1>1, <2>2 DEF MonitoringTypeOK
  <2> QED BY <2>1, <2>2
<1> QED BY <1>2, <1>3

LEMMA OpenMaps ==
  ASSUME MonitoringTypeOK, NEW k \in Jobs, job[k] = "none", SetJob(k, "waiting"),
         UNCHANGED <<made, stalls, checked>>
  PROVE  Cycle!Open(k)
<1>1. [j \in Jobs |-> PhaseOf[job'[j]]]
        = [[j \in Jobs |-> PhaseOf[job[j]]] EXCEPT ![k] = "open"]
  BY PhaseMoves, PhaseValues
<1> QED BY <1>1, PhaseValues DEF Cycle!Open

LEMMA DoneMaps ==
  ASSUME MonitoringTypeOK, NEW k \in Jobs, job[k] = "active", k \in checked,
         SetJob(k, "completed"), UNCHANGED <<made, stalls, checked>>
  PROVE  Cycle!Done(k)
<1>1. [j \in Jobs |-> PhaseOf[job'[j]]]
        = [[j \in Jobs |-> PhaseOf[job[j]]] EXCEPT ![k] = "done"]
  BY PhaseMoves, PhaseValues
<1> QED BY <1>1, PhaseValues DEF Cycle!Done

\* A job is given up when it has used up its attempts, or its stalls.
LEMMA MissMaps ==
  ASSUME MonitoringTypeOK, NEW k \in Jobs, job[k] = "active", UNCHANGED checked,
         \/ made' = [made EXCEPT ![k] = @ + 1] /\ UNCHANGED stalls
         \/ stalls' = [stalls EXCEPT ![k] = @ + 1] /\ UNCHANGED made,
         NEW state, SetJob(k, state),
         \/ state \in {"waiting", "delayed"}
         \/ state = "failed" /\ (made[k] + 1 >= MaxAttempts \/ stalls[k] >= MaxStalls)
  PROVE  Cycle!Miss(k)
<1> DEFINE phase == [j \in Jobs |-> PhaseOf[job[j]]]
           misses == [j \in Jobs |-> made[j] + stalls[j]]
           patience == IF MaxAttempts <= MaxStalls THEN MaxAttempts ELSE MaxStalls + 1
<1>1. phase[k] = "open" /\ phase' = [phase EXCEPT ![k] = PhaseOf[state]]
  BY PhaseMoves, PhaseValues
<1>2. misses' = [misses EXCEPT ![k] = @ + 1]
  BY MissesGrow
<1>3. phase' = phase \/ (misses[k] + 1 >= patience /\ phase' = [phase EXCEPT ![k] = "lost"])
  <2>1. CASE state \in {"waiting", "delayed"}
    <3>1. phase' = [phase EXCEPT ![k] = phase[k]]
      BY <1>1, <2>1, PhaseValues
    <3> QED BY <3>1
  <2>2. CASE state = "failed" /\ (made[k] + 1 >= MaxAttempts \/ stalls[k] >= MaxStalls)
    <3>1. made[k] \in Nat /\ stalls[k] \in Nat
      BY BoundsAreNumbers DEF MonitoringTypeOK
    <3>2. misses[k] + 1 >= patience
      BY <2>2, <3>1, BoundsAreNumbers
    <3>3. phase' = [phase EXCEPT ![k] = "lost"]
      BY <1>1, <2>2, PhaseValues
    <3> QED BY <3>2, <3>3
  <2> QED BY <2>1, <2>2
<1> QED BY <1>1, <1>2, <1>3 DEF Cycle!Miss

LEMMA CycleNextMaps ==
  ASSUME MonitoringInv, MonitoringInv', [MonitoringNext]_monitoringVars
  PROVE  [Cycle!CycleNext]_(Cycle!cycleVars)
<1> USE DEF MonitoringInv
<1>1. ASSUME NEW c \in Crons, NEW sku \in Skus, Added(c, sku)
      PROVE  [Cycle!CycleNext]_(Cycle!cycleVars)
  <2>1. cron[c].left \subseteq cron[c].found /\ sku \in cron[c].left
    BY <1>1 DEF Added, CronOK
  <2>2. cron[c].at \in Minutes
    BY <2>1 DEF CronOK
  <2>3. PICK k \in Jobs : k = <<sku, cron[c].at>>
    BY <2>2, JobParts
  <2>4. CASE job[k] = "none"
    <3>1. Cycle!Open(k)
      BY <1>1, <2>3, <2>4, OpenMaps DEF Added
    <3> QED BY <3>1 DEF Cycle!CycleNext
  <2>5. CASE job[k] # "none"
    BY <1>1, <2>3, <2>5, CycleStutters DEF Added
  <2> QED BY <2>4, <2>5
<1>2. ASSUME NEW w \in Workers, Monitored(w)
      PROVE  [Cycle!CycleNext]_(Cycle!cycleVars)
  <2>1. PICK k \in Jobs : k = worker[w].job /\ job[k] # "none"
    BY <1>2, BusyHasJob DEF Busy, Monitored
  <2>2. PhaseOf[job[k]] # "unknown"
    BY <2>1, PhaseValues DEF MonitoringTypeOK
  <2>3. Cycle!Check(k)
    BY <1>2, <2>1, <2>2 DEF Monitored, Cycle!Check, bullVars
  <2> QED BY <2>3 DEF Cycle!CycleNext
<1>3. ASSUME NEW j \in Jobs, NEW state, SetJob(j, state), UNCHANGED <<made, stalls, checked>>,
             PhaseOf[job[j]] = PhaseOf[state]
      PROVE  UNCHANGED Cycle!cycleVars
  <2>1. [i \in Jobs |-> PhaseOf[job'[i]]]
          = [[i \in Jobs |-> PhaseOf[job[i]]] EXCEPT ![j] = PhaseOf[job[j]]]
    BY <1>3, PhaseMoves
  <2>2. [i \in Jobs |-> PhaseOf[job'[i]]] = [i \in Jobs |-> PhaseOf[job[i]]]
    BY <2>1
  <2> QED BY <1>3, <2>2 DEF Cycle!cycleVars
<1>4. ASSUME NEW j \in Jobs, BackoffOver(j) \/ \E w \in Workers : PickUp(w, j)
      PROVE  UNCHANGED Cycle!cycleVars
  BY <1>3, <1>4, PhaseValues DEF BackoffOver, PickUp
<1>5. ASSUME NEW j \in Jobs, Stalled(j)
      PROVE  [Cycle!CycleNext]_(Cycle!cycleVars)
  <2>1. PICK state : state = IF stalls[j] < MaxStalls THEN "waiting" ELSE "failed"
    OBVIOUS
  <2>2. state = "waiting" \/ (state = "failed" /\ stalls[j] >= MaxStalls)
    BY <2>1, BoundsAreNumbers DEF MonitoringTypeOK
  <2>3. Cycle!Miss(j)
    BY <1>5, <2>1, <2>2, MissMaps DEF Stalled
  <2> QED BY <2>3 DEF Cycle!CycleNext
<1>6. ASSUME NEW w \in Workers, Finish(w)
      PROVE  [Cycle!CycleNext]_(Cycle!cycleVars)
  <2>1. CASE ~worker[w].locked
    BY <1>6, <2>1, CycleStutters DEF Finish
  <2>2. CASE worker[w].locked
    <3>1. PICK j \in Jobs : j = worker[w].job
      BY <2>2, BusyHasJob
    <3>2. job[j] = "active"
      BY <2>2, <3>1 DEF LocksHeld
    <3>3. CASE worker[w].step = "return"
      <4>1. j \in checked
        BY <3>1, <3>3 DEF ChecksAreDone
      <4>2. Cycle!Done(j)
        BY <1>6, <2>2, <3>1, <3>2, <3>3, <4>1, DoneMaps DEF Finish
      <4> QED BY <4>2 DEF Cycle!CycleNext
    <3>4. CASE worker[w].step = "throw"
      <4>1. PICK state : state = IF made[j] + 1 < MaxAttempts THEN "delayed" ELSE "failed"
        OBVIOUS
      <4>2. state = "delayed" \/ (state = "failed" /\ made[j] + 1 >= MaxAttempts)
        BY <4>1, BoundsAreNumbers DEF MonitoringTypeOK
      <4>3. /\ SetJob(j, state) /\ made' = [made EXCEPT ![j] = @ + 1]
            /\ UNCHANGED <<stalls, checked>>
        BY <1>6, <2>2, <3>1, <3>4, <4>1 DEF Finish
      <4>4. Cycle!Miss(j)
        BY <3>2, <4>2, <4>3, MissMaps
      <4> QED BY <4>4 DEF Cycle!CycleNext
    <3> QED BY <1>6, <3>3, <3>4 DEF Finish
  <2> QED BY <2>1, <2>2
<1>7. ASSUME NEW w \in Workers,
             RecordStatus(w) \/ RecordFails(w) \/ MonitorFails(w) \/ LockLost(w)
      PROVE  UNCHANGED Cycle!cycleVars
  BY <1>7, CycleStutters DEF RecordStatus, RecordFails, MonitorFails, LockLost, bullVars
<1>8. ASSUME NEW c \in Crons,
             \/ CronFires(c) \/ FindFails(c) \/ Inserted(c) \/ InsertFails(c)
             \/ \E skus \in SUBSET Skus : Found(c, skus)
             \/ \E sku \in Skus : AddFails(c, sku)
      PROVE  UNCHANGED Cycle!cycleVars
  BY <1>8, CycleStutters
  DEF CronFires, FindFails, Found, AddFails, Inserted, InsertFails, bullVars
<1>9. CASE NextMinute \/ WindowOver \/ Restart \/ UNCHANGED monitoringVars
  BY <1>9, CycleStutters DEF NextMinute, WindowOver, Restart, monitoringVars, bullVars
<1> QED
  BY <1>1, <1>2, <1>4, <1>5, <1>6, <1>7, <1>8, <1>9
  DEF MonitoringNext, Process, CronStep

\* What MonitoringCycle promises of every check is kept under every failure.
THEOREM CycleIsKept == MonitoringSpec => CycleKept
<1>1. MonitoringInv /\ MonitoringInv' /\ [MonitoringNext]_monitoringVars
        => [Cycle!CycleNext]_(Cycle!cycleVars)
  BY CycleNextMaps
<1> QED
  BY <1>1, CycleInitMaps, MonitoringInvAlways, PTL
  DEF MonitoringSpec, CycleKept, Cycle!CycleSpec
=============================================================================
