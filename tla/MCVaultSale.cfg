\* A covered call, a cash-secured put and two spreads sold to a maker or to another vault, four served
\* opens and seven swaps, against every way the served transaction may differ from the agreed one.
SPECIFICATION Spec
CONSTANTS
    Vaults <- MCVaults
    Makers <- MCMakers
    Keeper <- MCKeeper
    Program <- MCProgram
    Operator <- MCOperator
    Tables <- MCTables
    Bounds <- MCBounds
    MaxEpoch = 2
    MaxPushes = 4
    MaxComputeUnits = 14
    MaxWire = 12
    MaxU64 = 1000
    Bps = 100
INVARIANTS
    InFlightIsComplete
    SaleStaysInEpoch
    SignedIsAgreed
    SwapIsAgreed
PROPERTY
    JobEnds
CHECK_DEADLOCK FALSE
