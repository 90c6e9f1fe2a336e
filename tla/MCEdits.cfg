SPECIFICATION Spec
CONSTANTS
  Keys <- MCOneKey
  NamespaceOf <- MCOneNamespace
  Specs <- MCEdited
  Overlaps <- MCOverlapEdits
  MaxReconciles = 2
  MaxEntries = 9
  MaxUpdates = 1
  MaxResyncs = 0
  MaxFails = 0
  MaxCrashes = 0
  None = None
INVARIANTS TypeOK ProvisionOrder
ACTION_CONSTRAINT Focused
CHECK_DEADLOCK FALSE
