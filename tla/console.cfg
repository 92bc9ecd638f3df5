SPECIFICATION ConsoleSpec
CONSTANTS
    Tabs = {t1, t2}
    Keys = {k1, k2}
    NoKey = NoKey
    MaxRequests = 2
    MaxRotations = 1
    Ids = {a}
    Instruments = {n, m}
    Slots = {s1, s2}
    NoRow = NoRow
    NoSymbol = NoSymbol
    NoCall = NoCall
    Tickets = {k}
    Blank = Blank
    Submits = {o1, o2}
    Loads = {l1, l2}
    MaxBook = 2
    LiveCut = 1
    BrokerCut = 1
    NoneInFlight = NoneInFlight
    NoFetch = NoFetch
    Delay = 2
    DefaultBase = d
    NoBase = b
    Bases = {d, b}
    LiveCap = cl
    Caps = {cl, ce}
    Commits = {c1}
    NoCommit = NoCommit
    NoRules = NoRules
    NoPoll = NoPoll
    Limits = {v1, v2}
    DefaultLimit = v1
    ReviewDelay = 2
    NotPending = NotPending
    NotReviewed = NotReviewed
    Cooldown = 2
    Lengths = {1, 3}
    Strategies = {x, y}
    NoStrategy = NoStrategy
    MaxRuns = 2
    NoResult = NoResult
    Overview = Overview
    Effects = {e1, e2}
    NoEffect = NoEffect
    Polls = {p1, p2}
    MaxVersion = 2
    NoPolling = NoPolling
    Initial = Initial
    NoData = NoData
    NoFrame = NoFrame
INVARIANTS
    ConsoleTypeOK
    UnlockedHasKey
    QuietDeskIsTrue
    OneOrderPerTicket
    PlacedIsListed
    RulesTogether
    RunsStayApart
    OneStreamOfThePage
PROPERTIES
    CountdownsServed
    PagesCatchUp
CHECK_DEADLOCK FALSE
