SPECIFICATION Spec
CONSTANTS
    s1 = s1
    r1 = r1
    None = None
    Symbols = {s1}
    ReservationIds = {r1}
    Capitals = {3}
    Prices = {1}
    RawSizes = {0, 1}
    ManualSizes = {1}
    MaxStrategies = 2
    MaxRetries = 2
    MaxOrders = 2
    MaxExposure = 2
    HaltedStates = {}
    Disturbances = {}
PROPERTIES
    ExitAlwaysAllowed
