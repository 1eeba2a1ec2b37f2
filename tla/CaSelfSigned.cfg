\* A unary call and a session contend for the mutexes of a self-signed authority.
CONSTANTS
    Unary = {u1}
    Streams = {s1}
    Rotations = {r1}
    SelfSigned = TRUE
    NoCA = NoCA
SPECIFICATION FairSpec
INVARIANTS PointersUsedExclusively NothingLeaks
PROPERTIES CertificationReturns
