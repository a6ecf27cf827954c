SPECIFICATION MCIsolatesSpec
CONSTANTS
    Requests = {r1, r2, r3, r4}
    Owners = {o1, o2, o3}
    Keys <- Deployments
    Ids <- Id4
    NoLimit = NoLimit
    NoOwner = NoOwner
    max_isolates = 2
    max_per_owner = 1
    overcommit = TRUE
    max_concurrent = 2
    max_cached = 2
    max_reuses = 2
SYMMETRY Symmetric
VIEW IsolatesView
INVARIANTS
    SlotsAccounted
    PastCeilingAllBusy
    PerOwnerLimit
    OwnerIsolation
    ContextExclusive
    RunsInFitContext
    QueueOwn
    NoWakeMissed
    WithinLimit
PROPERTY
    ImplementsAdmission
