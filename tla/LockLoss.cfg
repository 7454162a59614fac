\* Stalled jobs run again while the first run is still alive.
SPECIFICATION QueueSpec
CONSTANTS
  Events = {e1, e2}
  NoEvent = NoEvent
  Handlers = {h1, h2, h3}
  Publishers = {p1}
  Faults = {"send", "crash", "lock", "mongo"}
  MaxFaults = 3
  MaxAttempts = 2
  MaxStalls = 1
CHECK_DEADLOCK FALSE
SYMMETRY Symmetry
INVARIANTS
  EventTypeOK
  ClaimExclusive
  AtMostOnce
