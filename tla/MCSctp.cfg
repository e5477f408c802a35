SPECIFICATION Spec
CONSTANTS
    Streams = {1, 2}
    Workloads <- MCWorkloads
    MaxServer = 3
    TsnMod = 16
    InitTsn <- MCInitTsn
    InitCwnd = 3
    RecvBuf = 8
    MaxMiss = 2
    MaxRtx = 3
INVARIANTS
    InOrder

    
CHECK_DEADLOCK FALSE
