SPECIFICATION MCBodiesSpec
CONSTANTS
    N = 2
    high_water_mark = 1
    MaxChunks = 3
    MaxStreams <- OneThenNone
    Nil = Nil
    None = None
    Null = Null
INVARIANTS
    WholeUntilReuse
    ReadsAreUpload
    ReadsWhatItWrote
PROPERTIES
    BodyEnds
    PumpGoesOn
    HangUpEndsPump
