SPECIFICATION FairSpec
CONSTANTS
  Members = 2
  Arbiters = 1
  Ports = {27017, 40333}
  EditsInFlight = TRUE
  MaxEdits = 2
  MaxRestarts = 1
  MaxFaults = 1
INVARIANTS
  TypeOK
  OnePortInFlight
  ServiceExposesConfigPorts
PROPERTIES
  PortChangeCompletes
