SPECIFICATION Spec
CONSTANTS
  MaxRegion = 3
  Size = 2
  Specials = {2}
  MaxChanges = 2
INVARIANTS TypeOK EntriesReadBack UntouchedIsInFile
PROPERTY DumpEnds
CHECK_DEADLOCK FALSE
