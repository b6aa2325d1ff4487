SPECIFICATION Spec
CONSTANTS
  m1 = m1
  m2 = m2
  p1 = p1
  p2 = p2
  None = None
  Msgs <- TwoMsgs
  Procs <- TwoProcs
  Sends = 2
  Cap = 5
  Max <- OneEach
CHECK_DEADLOCK FALSE
SYMMETRY Sym
INVARIANTS OneConsumer NothingLost RedeliveryBounded
