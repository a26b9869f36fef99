SPECIFICATION FairSpec
CONSTANTS
    Proc = {p1, p2}
    MaxBookings = 2
    MaxCancels = 2
    MaxCrashes = 1
INVARIANTS
    TypeOK
    BookingBacksDelivery
    OneBookingInFlight
    CancelledIsReleased
PROPERTIES
    FollowsTransitionTable
    BookingSettles
CHECK_DEADLOCK FALSE
