SPECIFICATION Spec
CONSTANTS
    Proc = {p1, p2}
    None = None
    VerificationAttempts = 2
    VerificationCodes = 2
    LostMails = 1
    Password = {"old", "new"}
    First = "old"
    Statuses = {"ACTIVE", "SUSPENDED"}
    ResetAttempts = 1
    ResetCodes = 1
    MaxSessions = 2
    Subject = {"s1", "s2"}
    Email = {"e1", "e2"}
    Payload <- MCPayload
    Issuers = {"google"}
    Key = {"ip", "email"}
    Window <- MCWindow
    Requests <- MCRequest
    Second = 2
    MaxTime = 7
    Keys = {1, 2}
    Booking = {1}
    Stored <- MCStored
    EnvDefault <- MCDefault
    Values = {7}
    Valid = {5, 7, 10}
    MaxVersion = 3
SYMMETRY Symmetry
INVARIANTS
    CodesAreSingleUse
    OneUserPerAccount
    LimitIsExact
PROPERTIES
    ChangesAreAccountedFor
CHECK_DEADLOCK FALSE
