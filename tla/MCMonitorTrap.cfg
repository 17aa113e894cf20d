SPECIFICATION Spec
CONSTANTS
  Calls <- MCCalls
  Fds = {1, 2}
  Pol <- MCPol
  MaxSignals = 0
  MaxMigrations = 0
INVARIANT NoDeathByTrap
CHECK_DEADLOCK FALSE
