SPECIFICATION Spec
CONSTANTS
  ConfigValues = {"v", "w"}
  MaxLines = 3
  Users = {"u1", "u2"}
  Buckets = {"b1", "b2", "B_"}
  BadNames = {"B_"}
  Deadline = 4
  MaxSecrets = 2
  MaxBuckets = 2
  MaxFaults = 2
  FileNames = {"minio", "sig", "old/sig"}
  Base <- MCBase
  MaxEntries = 3
  MaxWanted = 2
  Letters = {1, 2}
  MaxLetters = 3
  MaxDomains = 3
  TenantsNames <- MCTenantsNames
  TenantsNamespaces <- MCTenantsNamespaces
  PoolNames <- MCPoolNames
  MaxTenants = 2
  UserNames <- MCUserNames
  MaxServers = 2
  MaxVolumes = 2
  MaxPools = 3
  Containers = {"minio"}
  Sidecar = "hook"
  Vars = {"A", "B"}
  EnvValues = {"1", "2"}
  Refs = {"r"}
  MaxVars = 2
  MaxReplicas = 2
  Callers = {"c1", "c2"}
  Volumes = {"v1", "v2"}
  Claims = {"", "claim"}
  MaxVersion = 6
  MaxSeconds = 3
  Ticks = 2
  Alnum = {"x"}
  Punct = {"-"}
  Other = {"/"}
  MaxLabel = 3
  MaxName = 4
  ObjectNames = {"x", "y"}
  Namespaces = {"n1", "n2"}
  Selected = {"x"}
  MaxObjects = 2
INVARIANT TypeOK
INVARIANT TenantServes
INVARIANT DoneMeansDone
INVARIANT NilMeansExtracted
INVARIANT TenantPartsApart
INVARIANT ReadBackAsSet
PROPERTY SetUpInTheEnd
PROPERTY EnvironmentsCurrent
PROPERTY KeepsContract
 
CHECK_DEADLOCK FALSE
