SPECIFICATION Spec
CONSTANTS
  Clusters <- MCOneCluster
  ClusterSet <- MCOneType
  MaxReconciles = 2
  None = None
INVARIANTS OneWorkerAtATime
