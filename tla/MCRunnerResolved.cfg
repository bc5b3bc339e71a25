SPECIFICATION MCSpec
CONSTANTS
    full = full
    signal = signal
    a1 = a1
    a2 = a2
    m1 = m1
    Plans = {"all"}
    Sleeves = {full}
    Runners <- MCFullOnly
    Mode <- MCMode
    Markets = {m1}
    Assets = {a1}
    MarketOf <- MCOneMarketOf
    One = 1
    Prices = {1}
    Gases = {0}
    FillGas = 0
    Unknown = Unknown
    NotResolved = NotResolved
    NoPrice = NoPrice
    Tasks = {"clob", "markets"}
    TapeTasks = {"clob"}
    MarketTasks = {"markets"}
    MaxPositions = 2
    MaxExposure = 0
    Sizes = {1}
    PrintSizes = {1}
    Queues = {0}
    DbOutcomes = {TRUE}
    MaxSignals = 1
    MaxRestarts = 0
INVARIANT
    ResolvedMarketsAreFlat
