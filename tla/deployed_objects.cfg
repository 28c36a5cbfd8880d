SPECIFICATION Spec
CONSTANTS
  MaxVotingMembers = 3
  ArbitersStartingIndex = 5
  UserSpecs <- AllSpecs
  MaxEdits = 2
  MaxLosses = 1
INVARIANTS
  ReconcileIsIdempotent
  VotesWithinLimit
  OverrideRemovalRestores
  MountsHaveVolumes
  NamedFilesMounted
PROPERTIES
  MemberIdsKept
  FCVFollowsUser
CHECK_DEADLOCK FALSE
