SPECIFICATION MCSpec
CONSTANT Names = {"look", "pay", "ask"}
CONSTANT Control = {"ask"}
CONSTANT Pieces = 2
CONSTANT Calls = 2
CONSTANT MaxRows = 4
CONSTANT Blocks <- MCBlocks
CONSTANT MaxBlocks = 4
CONSTANT ChunkSize = 4
CONSTANT MinSize = 2
CONSTANT OverlapSize = 1
CONSTANT Msgs = {"a", "b"}
CONSTANT Kinds <- MCKinds
CONSTANT MaxSeen = 1
CONSTANT Deliveries = 3
CONSTANT MaxTokens = 3
CONSTANT Files = {"a", "b", "empty"}
CONSTANT FileName <- MCFileName
CONSTANT Chunks <- MCChunks
CONSTANT Batch = 1
CONSTANT TopHits = 2
CONSTANT Query = "q"
CONSTANT Lines <- MCLines
CONSTANT NumVariants = 2
CONSTANT Score <- MCScore
CONSTANT Starts = {1, 2}
CONSTANT Removals = 1
CONSTANT None = None
CONSTANT Workers = {w1, w2}
CONSTANT MinTurns = 2
CONSTANT MaxMsgs = 4
CONSTANT MaxTime = 1
CONSTANT Limit <- OneEach
CHECK_DEADLOCK FALSE
INVARIANT TurnAsMeant
INVARIANT OwnSteps
INVARIANT ChunksKeepText
INVARIANT GivenUpTwiceRefused
INVARIANT RetrievalSound
INVARIANT NoTurnPassed
INVARIANT HandedOnce
PROPERTY HandledAgainOnlyIfForgotten
