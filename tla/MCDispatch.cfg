SPECIFICATION Spec
CONSTANTS
  Clusters <- MCClusters
  ClusterSet <- MCOneType
  MaxReconciles = 3
  None = None
INVARIANTS TypeOK LockExclusive
PROPERTIES SkippedOnlyForSelf NoTypeStarves LockReleased ImplementsContract
