SPECIFICATION FairSpec
CONSTANTS
    Task = {t1}
    Protected = {t1}
    Call = {c1}
    Limit = 1
    MaxStart = 2
    MaxPod = 3
    MaxFault = 1
CHECK_DEADLOCK FALSE
INVARIANTS
    OriginalPodGone
PROPERTIES
    TransitionsAllowed
    PauseIsNotFailure
    ReleaseEnds
    PauseEnds
    DroppedIsCollected
