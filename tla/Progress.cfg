SPECIFICATION MCSpec
CONSTANTS
    Null = Null
    None = None
    Proc = {p1, p2}
    Event = {"e1"}
    Delivery = {"d1"}
    RawStatus <- MCRawStatus
    Matches <- MCMatches
    Body <- MCBody
    Booking <- MCBooking
    MaxScans = 1
    MaxFailures = 0
    MaxCrashes = 1
PROPERTIES
    
    ActiveIsRefreshed
    EveryRequestEnds
CHECK_DEADLOCK FALSE
