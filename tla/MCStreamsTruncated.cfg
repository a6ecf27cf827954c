SPECIFICATION MCSpec
CONSTANTS
    N = 2
    high_water_mark = 1
    MaxChunks = 2
    MaxStreams <- OneEach
    Nil = Nil
INVARIANTS
    CleanEndIsWhole
