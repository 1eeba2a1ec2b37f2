\* A session opened before a rotation signs after it.
CONSTANTS
    Unary = {u1}
    Streams = {s1}
    Rotations = {r1, r2}
    Keys = {k1}
    Nonces = {n1}
    Flaws = {}
    SelfSigned = FALSE
    NoCA = NoCA
    NoNonce = NoNonce
SPECIFICATION Spec
PROPERTIES NewKeyUsedHenceforth
