SPECIFICATION FairSpec
CONSTANTS
    Channels = {rfqs, trades}
    Mints = {sol}
    Initial = TRUE
    MaxChanges = 3
    MaxEpoch = 3
INVARIANTS
    TypeOK
    DeadlineOfChange
    TargetEstablished
PROPERTIES
    ChangeIsResolved
