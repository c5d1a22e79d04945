SPECIFICATION FairSpec
CONSTANTS
    MaxReconnectAttempts = 0
    AttemptMax = 3
    InitialDelay = 1
    MaximumDelay = 6
    StrikeLimit = 3
    Vault = TRUE
    MaxEpoch = 3
INVARIANTS
    GrantScope
PROPERTIES
    StopsWhenAsked
    RetriesOrStops
