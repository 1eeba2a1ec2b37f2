\* All pairs of endorsement windows, every failing check, and user data in every
\* place, while the clock runs.
CONSTANTS
    good = good
    bad = bad
    op1 = op1
    op2 = op2
    Requests <- AllRequests
    Payloads <- UserData
    Operators <- BothOperators
    Fallback = 3
    CertValidity = 4
    MaxTime = 2
    Horizon <- Times
    NoTime = NoTime
    NoPayload = NoPayload
    EmptyPayload = EmptyPayload
CHECK_DEADLOCK FALSE
SPECIFICATION LifetimeSpec
INVARIANTS TypeOK WindowIsIntersection RefusedOnlyIfEmpty AcceptedWindowLive AcceptedIsBound LeafWithinIssuer
