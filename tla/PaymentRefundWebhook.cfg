SPECIFICATION Spec
CONSTANTS
    Key = {k1}
    NoKey = NoKey
    Proc = {p1, p2}
    Nobody = Nobody
    Amount = 2
    MaxCrashes = 0
INVARIANTS
    WebhookResolvesRefund
CHECK_DEADLOCK FALSE
