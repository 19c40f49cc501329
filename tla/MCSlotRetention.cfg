SPECIFICATION FairSpec
CONSTANTS
    Release = {"r1", "r2"}
    First = "r1"
    Sweeper = {1, 2}
    Gateway = {1}
    Policies <- AllPolicies
    Default <- FirstPolicy
    Interval = 2
    Gap = 2
    MaxLag = 1
    Horizon = 5
    MaxTime = 16
    MaxActs = 3
CHECK_DEADLOCK FALSE
PROPERTIES
    NoticeGiven
    
    UnattendedGoes
