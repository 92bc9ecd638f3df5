SPECIFICATION FairControlSpec
CONSTANTS
    s1 = s1
    r1 = r1
    None = None
    Symbols = {s1}
    ReservationIds = {r1}
    Capitals = {3}
    Prices = {1}
    RawSizes = {1}
    ManualSizes = {1}
    MaxStrategies = 1
    MaxRetries = 1
    MaxOrders = 1
    MaxExposure = 1
    HaltedStates = {"TRADING_DISABLED"}
    Disturbances = {"lost_response", "exchange_reject", "liquidation_error", "manual_order", "sniff_error", "positions_error"}
    MaxTasks = 1
    MaxKillRequests = 1
    ReconEnabled = TRUE
    Asked = Asked
INVARIANTS
    ControlTypeOK
PROPERTIES
    DesyncHalts
    DecisionEnds
    HoldSettles
