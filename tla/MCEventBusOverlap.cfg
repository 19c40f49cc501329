\* Publishing transactions overlap and may commit out of order.
SPECIFICATION Spec
CONSTANTS
    r1 = r1
    r2 = r2
    Replicas = {r1, r2}
    MaxEvents = 3
    MaxOpen = 2
    Batch = 2
    MaxAttempts = 2
    MaxFaults = 0
SYMMETRY ReplicaSymmetry
INVARIANTS
    NoEventSkipped
CHECK_DEADLOCK FALSE
