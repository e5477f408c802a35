SPECIFICATION MCSpec
CONSTANTS
    Client = {c1, c2}
    Peer = {p1}
    PendingCap = 2
    MaxPackets = 3
    MaxTids = 2
    MaxData = 1
    RemotePeer = {p1, p2}
    MAX_RTX_COUNT = 1
    MIN_CHANNEL_NUMBER = 1
    MAX_CHANNEL_NUMBER = 2
    MaxIds = 4
INVARIANTS
    RequestsAgree
    Accounted
    
PROPERTIES
    BufferDrains
    Concluded
CHECK_DEADLOCK FALSE
