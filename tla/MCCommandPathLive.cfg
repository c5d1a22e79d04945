SPECIFICATION FairSpec
CONSTANTS
    Calls <- MixedCalls
    Awaits <- MixedAwaits
    Fenced <- MixedFenced
    Control <- MixedFenced
    Quotes = {}
    Changes = {}
    KeyOf <- MixedKeys
    MaxPending = 1
    CommandBuffer = 1
    Keepalive = TRUE
    MaxEpoch = 1
PROPERTIES
    EverySendIsAnswered
    TimedOutIsForgotten
