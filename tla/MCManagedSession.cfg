SPECIFICATION Spec
CONSTANTS
    MaxReconnectAttempts = 3
    AttemptMax = 4
    InitialDelay = 1
    MaximumDelay = 4
    StrikeLimit = 3
    Vault = FALSE
    MaxEpoch = 4
INVARIANTS
    TypeOK
    DisconnectedOnce
    ReadyIsLive
    NeverResumesExpired
    TruthfulReason
    BackoffSchedule
PROPERTIES
    ImplementsLifecycle
