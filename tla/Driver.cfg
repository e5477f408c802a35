SPECIFICATION Spec
CONSTANTS
    Sender = {s1, s2}
    Cap = 1
    UdpSockets = 1
INVARIANTS
    
    NoLostShutdown
PROPERTIES
    
    Responds
