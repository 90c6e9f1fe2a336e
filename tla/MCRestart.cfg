SPECIFICATION Spec
CONSTANTS
  Keys <- MCOneKey
  NamespaceOf <- MCOneNamespace
  Specs <- MCSample
  MaxReconciles = 2
  MaxEntries = 5
  MaxUpdates = 0
  MaxResyncs = 0
  MaxFails = 1
  MaxCrashes = 1
  None = None
PROPERTIES EventuallyProvisioned
ACTION_CONSTRAINT FailsBeforeRestart
CHECK_DEADLOCK FALSE
