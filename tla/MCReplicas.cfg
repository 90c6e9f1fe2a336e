SPECIFICATION Spec
CONSTANTS
  Keys <- MCTwoKeys
  NamespaceOf <- MCTwoNamespace
  Specs <- MCTwo
  Overlaps <- MCOverlapMetastore
  MaxReconciles = 2
  MaxEntries = 5
  MaxUpdates = 0
  MaxResyncs = 0
  MaxFails = 0
  MaxCrashes = 0
  None = None
INVARIANTS MetastoreReplicasAsAsked
ACTION_CONSTRAINT Focused
CHECK_DEADLOCK FALSE
