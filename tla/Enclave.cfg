SPECIFICATION FairSpec
CONSTANTS
  Rotations = {r1, r2, r3}
  NoCA = NoCA
  Files <- MCFiles
  DEFAULT_TCA_ENDPOINT = "default"
CHECK_DEADLOCK FALSE
INVARIANTS
  TypeOK
  AttesterGuarded
  ReadyAsConfigured
PROPERTIES
  ImplementsServer
  StartupCompletes
  AttesterNotStarved
