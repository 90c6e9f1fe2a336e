SPECIFICATION Spec
CONSTANTS
  Reconciles = {"r1", "r2"}
  Workers <- MCWorkers
  GivenMaps <- MCGiven
  Unit = 8
  IntMax = 256
  Int32Max = 32
  MaxNodes = 4
  Asked <- MCAsked
  NameServices = {"nineinfra", "ns1"}
  Domains = {"cluster.local", "corp"}
INVARIANT TypeOK
INVARIANT MapsSafe
INVARIANT SitesAgree
PROPERTY CapacityHolds
CHECK_DEADLOCK FALSE
