SPECIFICATION FairSpec
CONSTANTS
  m1 = m1
  m2 = m2
  p1 = p1
  p2 = p2
  None = None
  Msgs <- TwoMsgs
  Procs <- TwoProcs
  Sends = 1
  Cap = 5
  Max <- TwoMishaps
CHECK_DEADLOCK FALSE
INVARIANTS LossBounded FIFO
PROPERTIES LockFreed Drained
