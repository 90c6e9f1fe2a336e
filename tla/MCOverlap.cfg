SPECIFICATION Spec
CONSTANTS
  Keys <- MCOneKey
  NamespaceOf <- MCOneNamespace
  Specs <- MCSample
  Overlaps <- MCOverlaps
  MaxReconciles = 2
  MaxEntries = 5
  MaxUpdates = 0
  MaxResyncs = 1
  MaxFails = 1
  MaxCrashes = 0
  None = None
INVARIANTS ProvisionOrder CredentialsAgree SomeoneSurvives
PROPERTIES CreateOnly
ACTION_CONSTRAINT Focused
CHECK_DEADLOCK FALSE
