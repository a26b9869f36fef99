SPECIFICATION FairSpec
CONSTANTS
    Key = {k1}
    NoKey = NoKey
    Proc = {p1, p2}
    Nobody = Nobody
    Amount = 2
    MaxCrashes = 2
PROPERTIES
    AcceptedRefundSettles
CHECK_DEADLOCK FALSE
