\* Every user data of up to 13 one-bit bytes.
CONSTANTS
    Base = 2
    Tag = 1
    NonceLength = 2
    MaxLength = 13
    UserData <- AllUserData
    Nonces <- AllNonces
    NoNonce = NoNonce
    NoKey = NoKey
SPECIFICATION BindingSpec
INVARIANTS BindsOneChallenge FramingExact
