SPECIFICATION Spec
CONSTANTS
    Proc = {p1, p2}
    MaxBookings = 2
    MaxCancels = 2
    MaxCrashes = 0
INVARIANTS
    RefundedMeansCancelled
CHECK_DEADLOCK FALSE
