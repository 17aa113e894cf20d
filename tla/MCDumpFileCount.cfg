SPECIFICATION Spec
CONSTANTS
  MaxRegion = 3
  Size = 2
  Specials = {2}
  MaxChanges = 0
INVARIANT CountIsAtOffset24
CHECK_DEADLOCK FALSE
