SPECIFICATION MCSpec
CONSTANTS
    s1 = s1
    s2 = s2
    r1 = r1
    None = None
    Symbols = {s1, s2}
    ReservationIds = {r1}
    Capitals = {5}
    Prices = {1, 2}
    RawSizes = {3}
    ManualSizes = {1}
    MaxStrategies = 2
    MaxRetries = 1
    MaxOrders = 2
    MaxExposure = 2
    HaltedStates = {"TRADING_DISABLED"}
    Disturbances = {}
INVARIANTS
    UsedCoversPositions
    InSyncAtRest
    OneStraggler
PROPERTIES
    ImplementsEscrow
