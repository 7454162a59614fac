\* More failures than a job has attempts or stalls, and runs that cease to publish.
SPECIFICATION FairDeliverySpec
CONSTANTS
  Events = {e1, e2}
  NoEvent = NoEvent
  Handlers = {h1}
  Publishers = {p1}
  Faults = {"send", "mongo", "crash", "redis"}
  MaxFaults = 3
  MaxAttempts = 2
  MaxStalls = 1
CHECK_DEADLOCK FALSE
PROPERTIES
  PromiseKept
  EventuallySent
