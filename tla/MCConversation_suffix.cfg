CONSTANTS
  Procs = {p1, p2}
  None = None
  Backends = {"sqlite"}
  Limit = 4
  Budget = 4
  Cost <- MCCost
  MaxTime = 1
  MaxRows = 6
  MaxTurns = 2
  Times <- MCTimes
  Asks = 0
  Hints = 1
  Clears = 0
  Crashes = 0
  Faults = 0
  Busies = 0
  Mishaps = 2
SYMMETRY Symmetry
SPECIFICATION Spec
INVARIANT PriorExact
CHECK_DEADLOCK FALSE
