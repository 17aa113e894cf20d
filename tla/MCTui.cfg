SPECIFICATION FairSpec
CONSTANTS
  EventCap = 2
  UpdatesCap = 1
  MaxRows = 2
  Dumpers <- MCDumpers
  MaxEvents = 3
  MaxKeys = 2
INVARIANTS
  TypeOK
  TableShowsLatest
PROPERTIES
  EventIsShown
  QuitEnds
CHECK_DEADLOCK FALSE
