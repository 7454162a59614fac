--------------------------- MODULE MonitoringCycle ---------------------------
(***************************************************************************)
(* What scheduling the check of a SKU in a minute promises: a check is     *)
(* done only when the SKU was checked, and it is given up only after it    *)
(* was missed (a run failed or was lost) as often as Patience says.  Either*)
(* is final.  A run may outlive its job and check the SKU late.            *)
(***************************************************************************)
EXTENDS Naturals

CONSTANTS
  Jobs,       \* one for each SKU and minute
  Patience    \* misses before a job is given up

VARIABLES
  phase,      \* "unknown", "open", "done", or "lost" when given up
  checked,    \* the jobs whose SKU was checked
  misses      \* runs that failed or were lost so far

cycleVars == <<phase, checked, misses>>

CycleInit ==
  /\ phase = [j \in Jobs |-> "unknown"]
  /\ checked = {}
  /\ misses = [j \in Jobs |-> 0]

Open(j) ==
  /\ phase[j] = "unknown"
  /\ phase' = [phase EXCEPT ![j] = "open"]
  /\ UNCHANGED <<checked, misses>>

Check(j) ==
  /\ phase[j] # "unknown"
  /\ checked' = checked \cup {j}
  /\ UNCHANGED <<phase, misses>>

Done(j) ==
  /\ phase[j] = "open"
  /\ j \in checked
  /\ phase' = [phase EXCEPT ![j] = "done"]
  /\ UNCHANGED <<checked, misses>>

Miss(j) ==
  /\ phase[j] = "open"
  /\ misses' = [misses EXCEPT ![j] = @ + 1]
  /\ \/ UNCHANGED phase
     \/ /\ misses[j] + 1 >= Patience
        /\ phase' = [phase EXCEPT ![j] = "lost"]
  /\ UNCHANGED checked

CycleNext == \E j \in Jobs : Open(j) \/ Check(j) \/ Done(j) \/ Miss(j)

CycleSpec == CycleInit /\ [][CycleNext]_cycleVars
=============================================================================
