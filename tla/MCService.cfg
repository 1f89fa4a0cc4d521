SPECIFICATION Spec
CONSTANTS
    attempt_memory_capacity = 1
    kMaxAllocationCount = 2
    max_clients = 2
    state_directory = TRUE
    MaxConnections = 3
    MaxStarts = 2
    PoolUnits = {1}
    Workers = {w1}
    operations = 1
    Messages = {"Shutdown", "Allocate"}
INVARIANTS
    TypeOK
    RetryWindow
    EpochFenced
    FinishedHoldsNothing
    AnswersEarned
    SessionsBounded
    FabricOutlivesSessions
    StopAwaitsNoClient
PROPERTIES
    StopReturns
CHECK_DEADLOCK FALSE
