SPECIFICATION Spec
CONSTANTS
    q1 = q1
    x1 = x1
    NoPool = NoPool
    NoQueue = NoQueue
    NoPolicy = NoPolicy
    Pools = {p1, p2, p3, p4}
    Queues = {q1}
    Policies = {x1}
    kMaxPoolDepth = 2
    kMaxAllocationCount = 1
    kMaxReclaimVictims = 1
    Word = 1024
    refuse_work_after_shutdown = FALSE
    auto_fence_on_queue_retirement = FALSE
    PolicyBodies <- MCPolicyBodies
    PoolRegistrations <- MCPoolRegistrations
    QueueRegistrations <- MCQueueRegistrations
    Capacities = {3, 5}
    AllocateRequests <- MCAllocateRequests
    Resizes <- MCResizes
    Demands = {}
    PressureReports = {}
    ReclaimTargets = {}
    MaxPolicyGeneration = 1
    MaxPoolGeneration = 2
    MaxQueueGeneration = 2
    MaxTick = 1
SYMMETRY PoolSymmetry
INVARIANTS
    PartitionBounded
    NoOrphanedUnits
    WalkReachesRoot
