SPECIFICATION CandleSpec
CONSTANTS
    s1 = s1
    Symbols = {s1}
    TickPrices = {1}
    LastMinute = 2
    MaxTicks = 3
    MaxBatch = 1
    TickQueueSize = 2
    StrategyQueueSize = 2
    MaxHistory = 3
    Lookback = 2
INVARIANTS
    ClosingPricesOnly
