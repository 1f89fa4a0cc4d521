SPECIFICATION Spec
CONSTANTS
    root = root
    child = child
    q1 = q1
    x1 = x1
    NoPool = NoPool
    NoQueue = NoQueue
    NoPolicy = NoPolicy
    Pools = {root, child}
    Queues = {q1}
    Policies = {x1}
    kMaxPoolDepth = 2
    kMaxAllocationCount = 2
    kMaxReclaimVictims = 2
    Word = 1024
    refuse_work_after_shutdown = TRUE
    auto_fence_on_queue_retirement = TRUE
    PolicyBodies <- MCPolicyBodies
    PoolRegistrations <- MCPoolRegistrations
    QueueRegistrations <- MCQueueRegistrations
    Capacities = {81}
    AllocateRequests <- MCAllocateRequests
    Resizes = {}
    Demands = {}
    PressureReports = {}
    ReclaimTargets = {}
    MaxPolicyGeneration = 1
    MaxPoolGeneration = 1
    MaxQueueGeneration = 1
    MaxTick = 1
INVARIANTS
    AggregatesMatchRecords
