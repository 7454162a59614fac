\* One target price, runs that do not overlap, handlers that do.
SPECIFICATION TrackingSpec
CONSTANTS
  Subs = {s1}
  Legacy = {}
  Offers = {o1}
  NoOffer = NoOffer
  Prices = {1, 2}
  Targets = {1}
  NoTarget = NoTarget
  Monitors = {m1}
  Savers = {u1, u2}
  Handlers = {h1, h2}
  MaxSeq = 4
  MaxChanges = 4
  MaxRequests = 3
  Faults = {"send", "monitor", "chat"}
  MaxFaults = 2
  Events <- MCEvents
  NoEvent = NoEvent
SYMMETRY Symmetry
CHECK_DEADLOCK FALSE
INVARIANTS
  SilencedOnlyByReset
  TriggeredWasTold
  OncePerDip
