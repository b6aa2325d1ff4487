SPECIFICATION FairSpec
CONSTANTS
  d1 = d1
  d2 = d2
  d3 = d3
  e1 = e1
  e2 = e2
  s1 = s1
  p1 = p1
  p2 = p2
  None = None
  Dels = {d1, d2, d3}
  Events = {e1, e2}
  Sessions = {s1}
  Procs = {p1, p2}
  SessionOf <- OneSession
  Installations <- Watched
INVARIANTS ExclusiveWork
PROPERTIES EventsOnce EveryDeliveryEnds
CHECK_DEADLOCK FALSE
