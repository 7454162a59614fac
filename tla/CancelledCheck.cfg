\* The answer to a link sent before /cancel, after another link was sent.
SPECIFICATION ConversationSpec
CONSTANTS
  Updates = {u1, u2}
  MaxChecks = 2
  Faults = {}
  MaxFaults = 0
CHECK_DEADLOCK FALSE
INVARIANTS
  CancelHolds
