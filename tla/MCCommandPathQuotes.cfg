SPECIFICATION Spec
CONSTANTS
    Calls <- QuoteCalls
    Awaits <- QuoteAwaits
    Fenced <- QuoteCalls
    Control = {}
    Quotes <- QuoteAwaits
    Changes = {}
    KeyOf <- QuoteKeys
    MaxPending = 1
    CommandBuffer = 2
    Keepalive = FALSE
    MaxEpoch = 1
INVARIANTS
    TypeOK
    AnswersAreTrue
    TrackerSound
    DataFrameOrder
    RefusedIsNotSent
PROPERTIES
    OnlyLiveRequestsRefuse
