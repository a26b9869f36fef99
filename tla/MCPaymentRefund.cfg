SPECIFICATION Spec
CONSTANTS
    Key = {k1, k2}
    NoKey = NoKey
    Proc = {p1, p2}
    Nobody = Nobody
    Amount = 3
    MaxCrashes = 1
INVARIANTS
    TypeOK
    NeverOverReserved
    LedgerMatchesPayment
    FinalizeNeverRefused
PROPERTIES
    ImplementsRefundLedger
CHECK_DEADLOCK FALSE
