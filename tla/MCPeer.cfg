SPECIFICATION MCSpec
CONSTANTS
    Thread = {"main", "worker"}
    Conn = {"p", "q"}
    Users <- LoopbackUsers
    MaxSets = 1
    MaxTasks = 1
    MaxCalls = 1
    MaxCb = 1
    MaxChannels = 8
INVARIANTS
    
    
    ObserversMatch
    SessionAgrees
PROPERTIES
    SectionsKept
    EveryTrackNegotiated
CHECK_DEADLOCK FALSE
