\* A vault in its windows, between two operators' swaps, being left, wound down, and governed.
SPECIFICATION Spec
CONSTANTS
    Users <- MCUsers
    Scenarios <- MCScenarios
    Static <- MCStatic
    Venues <- MCVenues
    Operator <- MCOperator
    Program <- MCProgram
    JupiterAnswers <- MCJupiterAnswers
    DerivationSteps <- MCDerivationSteps
    CommonSteps <- MCCommonSteps
    MaxNow = 4
    TxLife = 1
    DepositWindow = 2
    TradingWindow = 2
    BatchUsers = 1
    IndexOne = 10
    MaxU64 = 1000
    MaxAccountLocks = 64
    MaxBytes = 1700
    SlippageBps = 100
    LifetimeSecs = 2
INVARIANTS
    OutcomeIsTrue
PROPERTIES
    WindowIsHonoured
    RequestsArePaid
    ShutdownCompletes
CHECK_DEADLOCK FALSE
