SPECIFICATION FairSpec
CONSTANTS
  r1 = r1
  r2 = r2
  s1 = s1
  s2 = s2
  Resources = {r1, r2}
  Secrets = {s1, s2}
  TLSSecret <- OwnSecrets
  MaxConcurrentReconciles = 3
  MaxRotations = 3
  MaxCrashes = 1
  MaxFaults = 1
INVARIANTS
  NoRotationMissed
  WatchedWhenUsed
PROPERTIES
  RotationsReachConfig
CHECK_DEADLOCK FALSE
