\* One MongoDB call after the send rejects: the retry sends the message again.
SPECIFICATION QueueSpec
CONSTANTS
  Events = {e1}
  NoEvent = NoEvent
  Handlers = {h1}
  Publishers = {p1}
  Faults = {"late"}
  MaxFaults = 1
  MaxAttempts = 2
  MaxStalls = 1
CHECK_DEADLOCK FALSE
INVARIANTS
  AtMostOnce
