\* Endorsements that outlast the fallback validity.
CONSTANTS
    good = good
    bad = bad
    op1 = op1
    op2 = op2
    Requests <- WindowRequests
    Payloads <- UserData
    Operators <- BothOperators
    Fallback = 2
    CertValidity = 4
    MaxTime = 0
    Horizon <- Times
    NoTime = NoTime
    NoPayload = NoPayload
    EmptyPayload = EmptyPayload
CHECK_DEADLOCK FALSE
SPECIFICATION LifetimeSpec
INVARIANTS FallbackOnlyWithoutWindows
