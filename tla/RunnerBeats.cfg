SPECIFICATION FairSpec
CONSTANTS
  Entries = {"Push", "NoEntry", "Unreadable", "NotJson"}
  MaxChanges = 2
  MaxFaults = 1
  MaxLost = 1
  MaxNet = 2
INVARIANTS
  PresenceGone
PROPERTIES
  ModeReaches
  DrainTold
CHECK_DEADLOCK FALSE
