\* Publishing transactions commit in the order of their inserts.
SPECIFICATION FairSpec
CONSTANTS
    r1 = r1
    r2 = r2
    Replicas = {r1, r2}
    MaxEvents = 2
    MaxOpen = 1
    Batch = 2
    MaxAttempts = 2
    MaxFaults = 2
INVARIANTS
    NoEventSkipped
    DeadLettersEarned
    DuplicatesNeedFaults
PROPERTIES
    EveryEventSettles
CHECK_DEADLOCK FALSE
