SPECIFICATION FairSpec
CONSTANTS
  Calls <- MCCalls
  Fds = {1, 2}
  Pol <- MCPol
  MaxSignals = 2
  MaxMigrations = 2
INVARIANTS
  TypeOK
  RefusedNeverExecutes
  FrozenInTime
  LogTellsOutcome
  NilMeansGone
PROPERTIES
  FrozenStaysPut
  ImplementsGate
  StopIsServed
  DeathIsNoticed
CHECK_DEADLOCK FALSE
