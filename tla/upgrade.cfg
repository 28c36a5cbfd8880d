SPECIFICATION FairSpec
CONSTANTS
  MaxMembers = 3
  Versions = {v1, v2}
  NoVersion = NoVersion
  UserSpecs <- MCUserSpecs
  MemberCounts = {3}
  ArbiterCounts = {0}
  TLSValues = {FALSE, TRUE}
  OverrideValues = {FALSE}
  EditsInFlight = FALSE
  JointEdits = TRUE
  MaxEdits = 1
  MaxCrashes = 1
  MaxFaults = 0
  MaxStaleReads = 0
INVARIANTS
  NoNativeRollingUpgrade
PROPERTIES
  CertsBeforeTLSConfig
  ImageBeforeConfig
  Converges
CHECK_DEADLOCK FALSE
