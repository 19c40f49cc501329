SPECIFICATION Spec
CONSTANTS
    Task = {t1}
    Protected = {}
    Call = {c1, c2}
    Limit = 1
    MaxStart = 2
    MaxPod = 3
    MaxFault = 1
CHECK_DEADLOCK FALSE
SYMMETRY Symmetry
INVARIANTS
    DroppedNeverRuns
