SPECIFICATION MCSpec
CONSTANTS
    Null = Null
    None = None
    Proc = {p1, p2}
    Admin = {p1, p2}
    Capability = {"booking", "tracking"}
    Field = {"key"}
    Service = {"express"}
    Vehicle = {"bike"}
    AdapterRegistered = TRUE
    MaxRequests = 4
    MaxCrashes = 1
    Reader = {"r1"}
    Candidate = {"mock", "shiprocket"}
    Preferred = {"shiprocket"}
    MaxAttempts = 2
    Instance = {p1, p2}
    Home <- MCHome
    MaxLogins = 2
    MaxSlips = 1
    MaxCalls = 4
    MaxFaults = 4
    Prices = {100, 103, 130}
    TolerancePercent = 5
    MaxAge = 1
    MaxTime = 2
    MaxOptions = 2
    MaxBookings = 2
    OwnStorage = "own"
    Customers = {"c1", "c2"}
    Key = {"k1", "k2"}
    Contested = {"k1"}
    Racing <- MCRacing
    Edges <- MCEdges
    Listed <- MCListed
    Moves <- MCMoves
    MaxSeq = 3
    MaxClock = 1
    Offered <- MCOffered
    MaxOutcomes = 3
    Provider <- MCProvider
    Delivery <- MCDelivery
SYMMETRY Symmetry
INVARIANTS
    OrdersAreAsReported
    PriceIsKept
    RequestsCreateOnce
PROPERTIES
    OneOfferWins
    OnlyUsableProviders
    TokenIsCurrent
CHECK_DEADLOCK FALSE
