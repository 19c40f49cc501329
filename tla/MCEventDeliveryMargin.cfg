SPECIFICATION Spec
CONSTANTS
    Deliveries = {d1}
    Processes = {p1, p2}
    MaxAttempts = 1
    Margin = 2
    MaxReplays = 0
    MaxHolds = 0
    MaxFaults = 1
CHECK_DEADLOCK FALSE
INVARIANTS
    DeliveryDiesFirst
