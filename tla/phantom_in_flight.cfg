SPECIFICATION ControlSpec
CONSTANTS
    s1 = s1
    r1 = r1
    None = None
    Symbols = {s1}
    ReservationIds = {r1}
    Capitals = {3}
    Prices = {1}
    RawSizes = {1}
    ManualSizes = {1}
    MaxStrategies = 1
    MaxRetries = 1
    MaxOrders = 2
    MaxExposure = 1
    HaltedStates = {"TRADING_DISABLED"}
    Disturbances = {}
    MaxTasks = 1
    MaxKillRequests = 0
    ReconEnabled = TRUE
    Asked = Asked
INVARIANTS
    GraceToleratesFlight
