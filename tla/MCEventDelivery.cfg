SPECIFICATION FairSpec
CONSTANTS
    Deliveries = {d1}
    Processes = {p1, p2}
    MaxAttempts = 1
    Margin = 2
    MaxReplays = 1
    MaxHolds = 2
    MaxFaults = 1
CHECK_DEADLOCK FALSE
INVARIANTS
    OneCallbackWorks
    SnapshotFresh
    NotForgotten
    PurgeFindsNoCallback
    PushesBounded
PROPERTIES
    LivesALife
    EveryDeliverySettles
    
