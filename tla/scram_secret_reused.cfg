SPECIFICATION FairSpec
CONSTANTS
  alice = alice
  bob = bob
  carol = carol
  s1 = s1
  s2 = s2
  s3 = s3
  c1 = c1
  c2 = c2
  mdb = mdb
  None = None
  Foreign = Foreign
  Users = {alice, bob, carol}
  External = {carol}
  p1 = p1
  p2 = p2
  Passwords = {p1, p2}
  FirstPassword = p1
  SecretNames = {s1, s2, s3}
  ConnNames = {c1, c2}
  ForeignSecrets = {}
  UserLists <- ReusedName
  EditsInFlight = FALSE
  MaxChanges = 1
  MaxDisturbances = 0
INVARIANTS
  StoredCredentialsKept
CHECK_DEADLOCK FALSE
