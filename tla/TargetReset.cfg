\* A target price that is changed and changed back.
SPECIFICATION TrackingSpec
CONSTANTS
  Subs = {s1}
  Legacy = {}
  Offers = {o1}
  NoOffer = NoOffer
  Prices = {1, 2}
  Targets = {1, 2}
  NoTarget = NoTarget
  Monitors = {m1}
  Savers = {u1}
  Handlers = {h1}
  MaxSeq = 1
  MaxChanges = 0
  MaxRequests = 3
  Faults = {}
  MaxFaults = 0
  Events <- MCEvents
  NoEvent = NoEvent
CHECK_DEADLOCK FALSE
INVARIANTS
  ArmedTargetCanFire
