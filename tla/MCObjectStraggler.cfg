SPECIFICATION MCSpec
CONSTANTS
    Events = {e1, e2, e3}
    MaxLives = 2
    Nil = Nil
SYMMETRY Symmetry
INVARIANTS
    CountKept
