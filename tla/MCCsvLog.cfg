SPECIFICATION FairSpec
CONSTANTS
  Capacity = 2
  MaxEvents = 5
  MaxSessions = 2
INVARIANTS
  TypeOK
  NothingLost
  StopFlushesPending
  OneHeader
PROPERTIES
  LogOnlyGrows
  EventReachesDisk
  StopTerminates
CHECK_DEADLOCK FALSE
