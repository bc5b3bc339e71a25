SPECIFICATION MCSpec
CONSTANTS
    full = full
    signal = signal
    a1 = a1
    a2 = a2
    m1 = m1
    Plans = {"caps", "settling", "rough"}
    Sleeves = {signal, full}
    Runners <- MCTwoModes
    Mode <- MCMode
    Markets = {m1}
    Assets = {a1, a2}
    MarketOf <- MCOneMarketOf
    One = 1
    Prices = {1}
    Gases = {0}
    FillGas = 0
    Unknown = Unknown
    NotResolved = NotResolved
    NoPrice = NoPrice
    Tasks = {"clob", "markets"}
    TapeTasks = {"clob"}
    MarketTasks = {"markets"}
    MaxPositions = 1
    MaxExposure = 0
    Sizes = {2}
    PrintSizes = {1}
    Queues = {0}
    DbOutcomes = {TRUE, FALSE}
    MaxSignals = 2
    MaxRestarts = 1
INVARIANTS
    RunnerTypeOK
    FillsReachTracker
    RowsBackedByFills
    RowsCatchUp
    OverrunIsBounded
SYMMETRY MCSymmetry
