SPECIFICATION FairSpec
CONSTANTS
  MaxMembers = 3
  Versions = {v1}
  NoVersion = NoVersion
  UserSpecs <- MCUserSpecs
  MemberCounts = {1, 2, 3}
  ArbiterCounts = {0, 1, 2}
  TLSValues = {FALSE}
  OverrideValues = {FALSE}
  EditsInFlight = FALSE
  JointEdits = FALSE
  MaxEdits = 2
  MaxCrashes = 1
  MaxFaults = 0
  MaxStaleReads = 0
INVARIANTS
  RunningMeansArbitersDeployed
  ArbiterReplicaForEveryArbiter
PROPERTIES
  ConfigDropsMemberBeforePod
  PodBeforeConfigAddsMember
  MembersScaleOneByOne
  Converges
CHECK_DEADLOCK FALSE
