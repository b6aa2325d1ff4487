SPECIFICATION A2Spec
CONSTANT MaxWrites = 1
CHECK_DEADLOCK FALSE
INVARIANT FailureIsError
