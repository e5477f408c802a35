SPECIFICATION Spec
CONSTANTS
    Workloads <- MCWorkloads
    Addrs <- MCAddrs
    Pref <- MCPref
    PrflxPref = 1
    PrflxWait = 1
    Tie <- MCTie
    MaxBinding = 2
    Keepalive = 1
    Disconnect = 2
    Fail = 3
INVARIANTS
    Agree
PROPERTIES
    Connects
    LossNoticed
CHECK_DEADLOCK FALSE
