SPECIFICATION MCFairSpec
CONSTANTS
    N = 2
    Programs <- MCPrograms
    MAX_INLINE_CALLS = 1
    MaxInbox = 2
INVARIANTS
    NoAnswerLost
    WireOrder
    PeerTold
PROPERTIES
    AnswersOwn
    TimerOwn
    EventsOwn
    CancelSettles
    LeftoversStop
    CancelIsHeard
    PairsEnd
    HeardSocketEnds
