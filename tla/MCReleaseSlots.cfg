SPECIFICATION FairSpec
CONSTANTS
    NRelease = 2
    Controlled = {2}
    Blocking = {2}
    Worker = {1, 2}
    MaxFault = 2
CHECK_DEADLOCK FALSE
INVARIANTS
    OneOwner
    SnapshotFresh
    ReadyIsOnASlot
    
    EveryMoveRecorded
PROPERTIES
    LiveStays
    KeepsPromise
    
