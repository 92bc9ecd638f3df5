SPECIFICATION ServicesSpec
CONSTANTS
    r1 = r1
    r2 = r2
    ReservationIds = {r1, r2}
    Capitals = {3, 4}
    Amounts = {1, 2}
    ReservationExpirySeconds = 1
    MaxTime = 3
    Callers = {"worker", "orders"}
    Placers = {"worker", "manual"}
    FetchMayFail = TRUE
    MaxOrders = 3
    Tokens = {k1, k2}
    NoToken = NoToken
    Tasks = {j1, j2}
    NoTask = NoTask
    Ids = {a}
    Instruments = {n, m}
    AutoSymbols = {n}
    NoRow = NoRow
    NoSymbol = NoSymbol
    Tickers = {w1, w2}
    NoTicker = NoTicker
    NoMerge = NoMerge
INVARIANTS
    ServicesTypeOK
    OwnFetchIsFresh
    FreshUnlessOverlapped
    ReadyHasToken
    StrategiesAreFed
PROPERTIES
    NoDoubleSpend
    DeployedOnlyFromHold
    ChecksSpareGoodTokens
