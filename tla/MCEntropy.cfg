SPECIFICATION Spec
CONSTANTS
  Fds = {f1, f2}
  Levels = {65, 72, 78}
  Thresholds = {60, 72, 75}
  Limits = {0, 1, 2}
  MaxRecords = 4
INVARIANTS TypeOK AlarmOnTime PanelIsPast
PROPERTY AlarmReachesPanel
CHECK_DEADLOCK FALSE
