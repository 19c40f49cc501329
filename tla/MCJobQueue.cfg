SPECIFICATION FairSpec
CONSTANTS
    w1 = w1
    w2 = w2
    d1 = d1
    k1 = k1
    NoKey = NoKey
    NoClaim = NoClaim
    Keys = {k1}
    Workers = {w1, w2}
    Deleters = {d1}
    MaxJobs = 2
    MaxAttempts = 2
    Concurrency = 2
    MaxFaults = 1
    MaxRevivals = 1
CHECK_DEADLOCK FALSE
INVARIANTS
    TokenNamesOneClaim
    ActiveIsNewest
    AttemptsBounded
PROPERTIES
    EffectsFenced
    KeepsPromise
    EveryJobSettles
