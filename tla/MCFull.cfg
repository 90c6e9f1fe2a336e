SPECIFICATION Spec
CONSTANTS
  Keys <- MCOneKey
  NamespaceOf <- MCOneNamespace
  Specs <- MCFull
  MaxReconciles = 1
  MaxEntries = 12
  MaxUpdates = 0
  MaxResyncs = 0
  MaxFails = 1
  MaxCrashes = 0
  None = None
PROPERTIES ImplementsProvisioning EventuallyProvisioned EveryWorkerEnds
CHECK_DEADLOCK FALSE
