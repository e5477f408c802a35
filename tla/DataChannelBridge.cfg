SPECIFICATION Spec
CONSTANTS
    Local = {l1}
    Remote = {r1}
    QCap = 2
    MaxMsgs = 2
    MaxOpens = 1
    Careful = TRUE
INVARIANTS
    CallbacksTrue
PROPERTIES
    Delivered
CHECK_DEADLOCK FALSE
