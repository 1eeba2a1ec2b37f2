SPECIFICATION Spec
CONSTANTS
    Lookups = {l1}
    Roles = {"pa-frontend"}
    Bundle <- WithIntelTdx
    CertDirs <- Directories
    NoRegistry = NoRegistry
    NoPolicy = NoPolicy
INVARIANTS
    InjectedEverywhere
