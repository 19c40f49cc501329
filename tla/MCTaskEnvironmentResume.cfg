SPECIFICATION Spec
CONSTANTS
    Task = {t1, t2}
    Protected = {}
    Call = {c1}
    Limit = 1
    MaxStart = 2
    MaxPod = 2
    MaxFault = 0
CHECK_DEADLOCK FALSE
INVARIANTS
    LiveWithinLimit
