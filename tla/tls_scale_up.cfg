SPECIFICATION FairSpec
CONSTANTS
  MaxMembers = 3
  Versions = {v1}
  NoVersion = NoVersion
  UserSpecs <- MCUserSpecs
  MemberCounts = {2, 3}
  ArbiterCounts = {0}
  TLSValues = {TRUE}
  OverrideValues = {FALSE}
  EditsInFlight = FALSE
  JointEdits = TRUE
  MaxEdits = 1
  MaxCrashes = 0
  MaxFaults = 0
  MaxStaleReads = 0
PROPERTIES
  Converges
CHECK_DEADLOCK FALSE
