\* Two SKUs, two workers, a limit below what is asked for, every fault.
SPECIFICATION FairMonitoringSpec
CONSTANTS
  Skus = {a, b}
  Crons = {c1}
  Workers = {w1, w2}
  Limit = 1
  MaxAttempts = 2
  MaxStalls = 1
  MaxMinutes = 2
  MaxFirings = 1
  Faults = {"redis", "mongo", "monitor", "lock", "crash"}
  MaxFaults = 2
  MaxJobs = 2
CHECK_DEADLOCK FALSE
INVARIANTS
  MonitoringTypeOK
  FoundAreQueued
  AuditMatchesJob
  CompletedWasChecked
  CheckedOnce
PROPERTIES
  CycleKept
  BacklogDrains
