SPECIFICATION Spec
CONSTANTS
  MaxVotingMembers = 7
  ArbitersStartingIndex = 100
  UserSpecs <- MemberConfigSpecs
  MaxEdits = 1
  MaxLosses = 0
INVARIANT ArbitersVote
CHECK_DEADLOCK FALSE
