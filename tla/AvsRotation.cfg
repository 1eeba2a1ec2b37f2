\* Two rotations race with unary calls and one session; the TCA may never answer
\* and the client may go away.
CONSTANTS
    Unary = {u1, u2}
    Streams = {s1}
    Rotations = {r1, r2}
    Keys = {k1}
    Nonces = {n1}
    Flaws = {"validation"}
    SelfSigned = FALSE
    NoCA = NoCA
    NoNonce = NoNonce
SPECIFICATION FairSpec
INVARIANTS TypeOK LeafChainsToItsIssuer
PROPERTIES UnaryUsesActiveKey IssuanceSpec CertifyAnswered InstallNotStarved AbandonedSessionReleased
