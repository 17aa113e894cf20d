SPECIFICATION FairSpec
CONSTANTS
  EventCap = 1
  UpdatesCap = 2
  MaxRows = 2
  Dumpers <- MCDumpers
  MaxEvents = 2
  MaxKeys = 2
CHECK_DEADLOCK FALSE
PROPERTIES
  F1Steps
