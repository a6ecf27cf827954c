SPECIFICATION MCSpec
CONSTANTS
    Requests = {r1, r2}
    start <- Cold
    Sockets = {}
    None = None
    wall_limit = TRUE
    budget = 0
    MaxCpu = 0
    MaxGuards = 2
VIEW View
INVARIANTS
    SetUpNotStopped
