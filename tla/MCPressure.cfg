SPECIFICATION Spec
CONSTANTS
    p1 = p1
    q1 = q1
    x1 = x1
    NoPool = NoPool
    NoQueue = NoQueue
    NoPolicy = NoPolicy
    Pools = {p1}
    Queues = {q1}
    Policies = {x1}
    kMaxPoolDepth = 1
    kMaxAllocationCount = 2
    kMaxReclaimVictims = 2
    Word = 1024
    refuse_work_after_shutdown = TRUE
    auto_fence_on_queue_retirement = FALSE
    PolicyBodies <- MCPolicyBodies
    PoolRegistrations <- MCPoolRegistrations
    QueueRegistrations <- MCQueueRegistrations
    Capacities = {5}
    AllocateRequests <- MCAllocateRequests
    Resizes <- MCResizes
    Demands = {2}
    PressureReports <- MCPressureReports
    ReclaimTargets = {1}
    MaxPolicyGeneration = 1
    MaxPoolGeneration = 2
    MaxQueueGeneration = 1
    MaxTick = 3
INVARIANTS
    EvaluateForetells
PROPERTIES
    EvidenceGatesGrowth
    ReclaimRespectsPolicy
    ShutdownOnlyDrains
