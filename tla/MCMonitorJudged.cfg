SPECIFICATION Spec
CONSTANTS
  Calls <- MCCalls
  Fds = {1, 2}
  Pol <- MCPol
  MaxSignals = 1
  MaxMigrations = 0
INVARIANT EveryCallIsJudged
CHECK_DEADLOCK FALSE
