SPECIFICATION Spec
CONSTANTS
  Reqs = {r1, r2, r3}
  r1 = r1
  r2 = r2
  r3 = r3
  None = None
  look = look
  pay = pay
  wipe = wipe
  step = step
  Tools = {look, pay, wipe}
  Forbid = {wipe}
  Confirm = {pay}
  Steps = {step}
  StepTools <- MCStepTools
  Batches <- MCBatches
  Profiles = {"interactive", "turn_based", "no_wait"}
  MaxRounds = 3
  FuseLimit = 2
  ParseLimit = 2
  Max <- Quiet
SYMMETRY Symmetric
INVARIANTS
  TypeInv
  StepsBeforeFinish
  QuestionKept
  AnsweredOnce
CHECK_DEADLOCK FALSE
