SPECIFICATION MCSpec
CONSTANT Runs = {r1, r2}
CONSTANT MaxAttempts = 2
CONSTANT MaxWrites = 3
CONSTANT Callers = {"chat", "first", "second"}
CONSTANT Given <- MCGiven
CONSTANT TaskOf <- MCTaskOf
CONSTANT MaxCalls = 3
CHECK_DEADLOCK FALSE
INVARIANT LeftOpen
INVARIANT AnswerIsWhole
INVARIANT TokenOfCaller
PROPERTY CallsEnd
