SPECIFICATION MCFairSpec
CONSTANTS
    Requests = 1
    Scripts <- MCScripts
PROPERTY
    SocketEventEnds
