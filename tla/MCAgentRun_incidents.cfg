SPECIFICATION FairSpec
CONSTANTS
  Reqs = {r1, r2}
  r1 = r1
  r2 = r2
  None = None
  look = look
  pay = pay
  wipe = wipe
  step = step
  Tools = {look, pay, wipe}
  Forbid = {wipe}
  Confirm = {pay}
  Steps = {step}
  StepTools <- MCStepTools
  Batches <- OneBatch
  Profiles = {"interactive", "turn_based"}
  MaxRounds = 2
  FuseLimit = 2
  ParseLimit = 2
  Max <- OneOfEach
INVARIANTS
  RecordCoherent
  PolicyKept
  OneRunUnlessLapsed
  CancelledRunEnds
PROPERTIES
  EveryRequestEnds
CHECK_DEADLOCK FALSE
