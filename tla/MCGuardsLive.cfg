SPECIFICATION MCLiveSpec
CONSTANTS
    Requests = {r1, r2}
    start <- Ready
    Sockets = {}
    None = None
    wall_limit = TRUE
    budget = 0
    MaxCpu = 0
    MaxGuards = 1
PROPERTIES
    RunawayIsCut
