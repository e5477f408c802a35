SPECIFICATION FairSpec
CONSTANTS
    Own = Own
    None = None
    Thread = {"app"}
    Track = {t1, t2}
    MaxTr = 2
    MaxObjs = 2
    MaxCalls = 4
    MaxRtp = 2
    Cap = 1
INVARIANTS
    SendersAgree
    SentInOrder
PROPERTIES
    NothingWaits
CHECK_DEADLOCK FALSE
