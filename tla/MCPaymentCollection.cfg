SPECIFICATION FairSpec
CONSTANTS
    Proc = {p1, p2}
    Key = {k1}
    NoKey = NoKey
    MaxCrashes = 1
INVARIANTS
    TypeOK
    CaptureIsConsistent
    CheckoutIsWhole
PROPERTIES
    StatusFollowsTable
    CaptureIsAnswered
CHECK_DEADLOCK FALSE
