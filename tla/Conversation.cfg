\* Three handlers at once, two links, every kind of fault, two in all.
SPECIFICATION FairConversationSpec
CONSTANTS
  Updates = {u1, u2, u3}
  MaxChecks = 2
  Faults = {"announce", "reply", "save", "confirm", "restart"}
  MaxFaults = 2
CHECK_DEADLOCK FALSE
INVARIANTS
  ConversationTypeOK
  OvertakenIsDropped
  NewestIsKept
  NothingAfterDelete
  NeverWaitsInVain
PROPERTIES
  LinkIsAnswered
