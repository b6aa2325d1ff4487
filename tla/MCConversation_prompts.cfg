CONSTANTS
  Procs = {p1, p2}
  None = None
  Backends = {"sqlite", "postgres"}
  Limit = 5
  Budget = 3
  Cost <- MCCost
  MaxTime = 1
  MaxRows = 6
  MaxTurns = 2
  Times <- MCTimes
  Asks = 1
  Hints = 1
  Clears = 1
  Crashes = 1
  Faults = 1
  Busies = 1
  Mishaps = 2
SYMMETRY Symmetry
SPECIFICATION Spec
INVARIANTS
  ChainsWhole
  TrimNewest
  KeptButForFaults
CHECK_DEADLOCK FALSE
