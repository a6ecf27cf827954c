SPECIFICATION MCLimitsSpec
CONSTANTS
    Requests = {r1, r2}
    start <- OneWarm
    Sockets = {r1}
    None = None
    wall_limit = TRUE
    budget = 1
    MaxCpu = 2
    MaxGuards = 3
VIEW LimitsView
INVARIANTS
    MemoryBlameInTurns
    CpuLimitExact
    Balanced
PROPERTIES
    CutByOwnLimit
    CutEventFails
