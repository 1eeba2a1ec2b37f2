\* A unary call and two sessions use authorities that two rotations replace.
CONSTANTS
    Unary = {u1}
    Streams = {s1, s2}
    Rotations = {r1, r2}
    SelfSigned = FALSE
    NoCA = NoCA
SPECIFICATION Spec
SYMMETRY Symmetry
INVARIANTS NothingDangles NothingLeaks HolderNeverWaits
