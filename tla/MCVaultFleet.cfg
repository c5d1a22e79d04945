SPECIFICATION Spec
CONSTANTS
    MaxVault = 2
    Bound = 1
    Retry = 1
    MaxDelay = 2
    MaxChanges = 2
    MaxFaults = 2
    MaxSlow = 1
INVARIANTS ListedIsLive ListingIsCurrent
PROPERTY Converges
CHECK_DEADLOCK FALSE
