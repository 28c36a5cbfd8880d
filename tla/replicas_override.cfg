SPECIFICATION Spec
CONSTANTS
  MaxVotingMembers = 7
  ArbitersStartingIndex = 100
  UserSpecs <- ReplicasSpecs
  MaxEdits = 1
  MaxLosses = 0
INVARIANT ReplicasWithinOneStep
CHECK_DEADLOCK FALSE
