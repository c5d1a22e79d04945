SPECIFICATION Spec
CONSTANTS
    Calls <- ChangeCalls
    Awaits <- ChangeAwaits
    Fenced <- ChangeCalls
    Control = {}
    Quotes = {}
    Changes <- ChangeCalls
    KeyOf <- ChangeKeys
    MaxPending = 1
    CommandBuffer = 1
    Keepalive = TRUE
    MaxEpoch = 2
INVARIANTS
    EpochFence
    RefusedIsNotSent
