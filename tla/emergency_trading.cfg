SPECIFICATION WatchedSpec
CONSTANTS
    s1 = s1
    s2 = s2
    r1 = r1
    None = None
    Symbols = {s1, s2}
    ReservationIds = {r1}
    Capitals = {3}
    Prices = {1}
    RawSizes = {1}
    ManualSizes = {1}
    MaxStrategies = 1
    MaxRetries = 1
    MaxOrders = 1
    MaxExposure = 1
    HaltedStates = {"TRADING_DISABLED"}
    Disturbances = {"manual_order"}
    MaxTasks = 1
    MaxKillRequests = 1
    ReconEnabled = FALSE
    Asked = Asked
INVARIANTS
    QuietLiquidationFlattens
PROPERTIES
    PipelineUndisturbed
