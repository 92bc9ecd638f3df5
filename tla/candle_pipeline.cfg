SPECIFICATION FairCandleSpec
CONSTANTS
    s1 = s1
    s2 = s2
    Symbols = {s1, s2}
    TickPrices = {0, 1, 2}
    LastMinute = 2
    MaxTicks = 3
    MaxBatch = 1
    TickQueueSize = 1
    StrategyQueueSize = 1
    MaxHistory = 2
    Lookback = 2
INVARIANTS
    CandleTypeOK
    StoreSummarisesTicks
    EventsAreFinal
    WindowReachesEvent
PROPERTIES
    EventsDrain
