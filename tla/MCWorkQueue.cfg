SPECIFICATION FairSpec
CONSTANTS
    Keys = {k1, k2, k3}
    Concurrency = 2
    MaxDelay = 2
INVARIANTS
    NoLostTrigger
PROPERTIES
    KeepsPromise
    EveryTriggerServed
    FailedIsRetried
