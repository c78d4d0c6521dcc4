SPECIFICATION AccessSpec
CONSTANTS
    Address = {home, work}
    Worker = {w1, w2}
    Kinds = {"signup", "put", "resend", "verify", "rotate", "delete", "forgot", "reset"}
    NoRow = NoRow
    Idle = Idle
    NoArg = NoArg
    MaxRequests = 2
    MaxFaults = 1
    Lookup = {q1, q2}
INVARIANTS StaleAnswersExplained ActiveIsVerified ResetLinksWorkOnce RevokedStayRevoked
PROPERTIES AnswersConverge
CHECK_DEADLOCK FALSE
