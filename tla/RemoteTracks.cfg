SPECIFICATION Spec
CONSTANTS
    None = None
    Track = {t1, t2}
    Layers = 2
    MaxRtp = 2
    QCap = 2
    Cap = 1
    MaxCalls = 2
INVARIANTS
    ReportedOnce
PROPERTIES
    Served
CHECK_DEADLOCK FALSE
