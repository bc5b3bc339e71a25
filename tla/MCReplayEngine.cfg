CONSTANTS
    Times = {1, 2}
    Start = 1
    End = 3
    Page = 2
    Payloads <- MCPayloads
    MaxRows = 3
    Tokens = {k1}
    Latencies = {0, 1}
    Sizes = {2}
    MaxSignals = 2
SPECIFICATION Spec
INVARIANTS
    TypeOK
    InTapeOrder
    StableRowsAreSeen
    AsOfEta
    EveryOrderArrives
PROPERTY
    ReplayEnds
CHECK_DEADLOCK FALSE
