\* One chat, two handlers, a changing market, and any one failing run, write or restart.
SPECIFICATION FairTrackingSpec
CONSTANTS
  Subs = {s1}
  Legacy = {s1}
  Offers = {o1, o2}
  NoOffer = NoOffer
  Prices = {1}
  Targets = {NoTarget}
  NoTarget = NoTarget
  Monitors = {m1}
  Savers = {u1}
  Handlers = {h1, h2}
  MaxSeq = 8
  MaxChanges = 2
  MaxRequests = 1
  Faults = {"mongo", "monitor", "crash"}
  MaxFaults = 1
  Events <- MCEvents
  NoEvent = NoEvent
CHECK_DEADLOCK FALSE
INVARIANTS
  TrackingTypeOK
  VersionCoversSent
PROPERTIES
  LeaderConverges
