SPECIFICATION MCObjectsSpec
CONSTANTS
    Events = {e1, e2}
    MaxLives = 2
    Nil = Nil
INVARIANTS
    OutputGate
    CountKeptInOrder
    SocketsAgree
    WaitingBounded
PROPERTIES
    EventFindsSocket
    TransactionAsMade
    EventSettles
