SPECIFICATION MCSpec
CONSTANTS
    Null = Null
    MaxAttempts = 1
    MaxCodes = 2
    MaxDeaths = 0
    Timers <- MCTimers
    Meeting <- MCMeeting
    Submission = {"r1", "r2", "r3"}
    User = {"u1", "u2"}
    Parcel = {"d1"}
    Owner <- MCOwner
    Bodies <- MCBodies
    Roles = {"CUSTOMER", "ADMIN"}
    Proc = {p1, p2}
    Event = {"first", "second"}
    Delivery = {"d1"}
    RawStatus <- MCRawStatus
    Matches <- MCMatches
    Body <- MCBody
    Booking <- MCBooking
    MaxScans = 2
    MaxFailures = 1
    MaxCrashes = 1
    Reader = {"r1"}
    Snapshots <- OnePrice
    Tariffs <- ManyPrices
    Life <- MCLife
    Cancellable <- MCCancellable
    MaxCancels = 1
    MaxRefunds = 2
    Payments = {"p1", "p2"}
    Refunds = {f1, f2}
    Amount <- MCAmount
    Limits = {1, 2}
    ScanPerIssue = 1
    MinScan = 1
SYMMETRY Symmetry
INVARIANTS
    OneAtATime
    CodesOpenTheWay
    SurveyIsWhole
    BooksAddUp
PROPERTIES
    ImplementsWebhookInbox
    AllFollowTheTable
    HistoryTellsAll
CHECK_DEADLOCK FALSE
