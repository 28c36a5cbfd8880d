SPECIFICATION FairSpec
CONSTANTS
  Images = {v1, v2}
  FirstImage = v1
  DumpInterval = 1
  WaitThreshold = 2
  PollLimit = 2
  MaxVersion = 2
  MaxDisturbances = 1
INVARIANTS
  AnnotationIsAchieved
PROPERTIES
  NoPlanTimedOut
  WaitStepHasLasted
  ConfigReached
