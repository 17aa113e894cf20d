SPECIFICATION Spec
CONSTANTS
  Word = 128
  Lengths = {0, 100}
  Counts = {0, 1, 2, 16, 17}
  Fds = {1, 3}
  Subs = {0, 1, 2, 3}
  Timeouts = {0, 5}
  MemUnits = 10
  Places <- MCPlaces
  Results = {0, 8, 10}
  MaxLoads = 3
  MaxCalls = 2
INVARIANTS TypeOK OutputFollowsDecisions SuccessMeansAll
INVARIANTS PanicOnlyOnWrap PollAnswersItsSubscriptions LoadedIsWhole DefaultRefusesNothing
CHECK_DEADLOCK FALSE
