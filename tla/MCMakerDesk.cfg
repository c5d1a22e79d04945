SPECIFICATION Spec
CONSTANTS
    Chunk = 1
    PriceScale = 1
    Scales = {1, 10}
    MaxU64 = 1000
    Bps = 100
    Rent = 2
    Fee = 1
    MaxTxs = 2
    Program = "Acta"
    Entropies = {2, 3}
    Nonces = 8
    Capacity = 3
    Deadline = 1
    Prices = {0, 5, 11, 12, 25, 40}
    MaxPicks = 2
    MaxFaults = 1
INVARIANTS
    QuoteOutcomeIsTrue
    ConfirmationIsTrue
    SpreadIsCovered
PROPERTY
    ReserveIsKept
CHECK_DEADLOCK FALSE
