\* Every failure but a lost lock, two publishers racing.
SPECIFICATION QueueSpec
CONSTANTS
  Events = {e1, e2}
  NoEvent = NoEvent
  Handlers = {h1, h2}
  Publishers = {p1, p2}
  Faults = {"send", "ambiguous", "mongo", "late", "crash", "redis"}
  MaxFaults = 2
  MaxAttempts = 2
  MaxStalls = 1
CHECK_DEADLOCK FALSE
SYMMETRY Symmetry
INVARIANTS
  QueueTypeOK
  OneRunPerEvent
  CompletedJobMeansSent
  SentWasApplied
PROPERTIES
  SentIsFinal
