SPECIFICATION MCSpec
CONSTANTS
    SeqSpace = 16
    LogSize = 4
    BufSize = 8
    BitmapSize = 8
    Window = 2
    RtcpMod = 8
    PairBits = 2
    Workloads <- MCWorkloads
    SEQ = 16
    First = 13
    MAX_LATE = 3
    MAX_LATE_TS = 0
    SampleWindow = 4
    MaxCopies = 1
INVARIANTS
    ReceiverExact
    
PROPERTIES
    Recovered
    Played
CHECK_DEADLOCK FALSE
