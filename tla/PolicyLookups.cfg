SPECIFICATION Spec
CONSTANTS
    Lookups = {l1, l2}
    Roles = {"prober", "pa-frontend-nonprod", "pa-frontend"}
    Bundle <- Embedded
    CertDirs <- Directories
    NoRegistry = NoRegistry
    NoPolicy = NoPolicy
SYMMETRY Symmetric
INVARIANTS
    LookupIsolated
    RegistryPristine
    DevelopmentGated
    HintsNamePolicies
