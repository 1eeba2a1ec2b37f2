\* Two concurrent sessions and a unary call, with evidence replayed between them.
CONSTANTS
    Unary = {u1}
    Streams = {s1, s2}
    Rotations = {r1}
    Keys = {k1}
    Nonces = {n1, n2}
    Flaws = {"validation", "signing"}
    SelfSigned = TRUE
    NoCA = NoCA
    NoNonce = NoNonce
SPECIFICATION Spec
SYMMETRY Symmetry
INVARIANTS CertifiedAfterChallenge EvidenceNotReplayed SessionTranscript
