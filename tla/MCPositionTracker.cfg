\* Two sleeves on a market with two outcomes, every order of up to 4 fills and
\* redemptions; sizes 1 and 3 give averaging, partial closes, exact closes and
\* reversals.
CONSTANTS
    a1 = a1
    a2 = a2
    m1 = m1
    Unknown = Unknown
    NotResolved = NotResolved
    Sleeves = {s1, s2}
    Markets <- MCMarkets
    Assets <- MCAssets
    MarketOf <- MCMarketOf
    One = 10
    Sizes = {1, 3}
    Prices = {3, 8}
    Gases = {1}
    MaxSteps = 4
SPECIFICATION MCSpec
INVARIANTS TypeOK EntryWithinPayout
PROPERTY KeepsTheLedger
CHECK_DEADLOCK FALSE
