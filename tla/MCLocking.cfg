SPECIFICATION Spec
CONSTANTS
    NoCaller = NoCaller
    Callers = {t1, t2}
    Calls <- AllCalls
    MaxCalls = 2
    MaxClock = 3
    Units = {1, 2}
    ttl_ticks = 1
    ReenterOn <- AfterUnlock
    program_backend_effects = TRUE
    refuse_work_after_shutdown = TRUE
INVARIANTS
    PartitionBounded
    WaitsForRunner
PROPERTIES
    EveryCallReturns
    GrantOnLiveEvidence
CHECK_DEADLOCK FALSE
