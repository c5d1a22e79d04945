SPECIFICATION Spec
CONSTANTS
    Channels = {rfqs, trades}
    Mints = {sol}
    Initial = FALSE
    MaxChanges = 1
    MaxEpoch = 2
INVARIANTS
    EveryTargetEstablished
