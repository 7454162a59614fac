\* Two clients; every kind of failure, twice in all; one expiry.  The number of
\* sessions stays below its bound: six are enough for these failures.
SPECIFICATION FairNoonSpec
CONSTANTS
  Clients = {c1, c2}
  MaxExtractions = 6
  MaxExpiries = 1
  Failures = {"launch", "page", "chromium", "network", "block"}
  MaxFailures = 2
CHECK_DEADLOCK FALSE
INVARIANTS
  NoonTypeOK
  OneExtraction
  RetryIsNewer
  NoOrphan
PROPERTIES
  FetchesRecover
