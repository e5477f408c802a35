SPECIFICATION Spec
CONSTANTS
    MaxRetransmit = 5
    Workloads <- MCWorkloads
INVARIANTS
    Agreement
PROPERTIES
    Completes
CHECK_DEADLOCK FALSE
