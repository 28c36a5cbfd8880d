SPECIFICATION Spec
CONSTANTS
  MaxMembers = 3
  Versions = {v1}
  NoVersion = NoVersion
  UserSpecs <- InFlightSpecs
  MemberCounts = {1, 3}
  ArbiterCounts = {0, 1}
  TLSValues = {FALSE, TRUE}
  OverrideValues = {FALSE, TRUE}
  EditsInFlight = TRUE
  JointEdits = TRUE
  MaxEdits = 1
  MaxCrashes = 0
  MaxFaults = 1
  MaxStaleReads = 1
INVARIANTS
  TypeOK
  StatusTellsTheTruth
  RunningMeansDeployed
  GoalStateIsOfThisConfig
PROPERTIES
  RunningReportsCurrentSpec
CHECK_DEADLOCK FALSE
