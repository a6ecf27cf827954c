SPECIFICATION MCSpec
CONSTANTS
    Requests = {r1}
    start <- Ready
    Sockets = {r1}
    None = None
    wall_limit = TRUE
    budget = 0
    MaxCpu = 0
    MaxGuards = 4
VIEW View
PROPERTIES
    CutEventFails
