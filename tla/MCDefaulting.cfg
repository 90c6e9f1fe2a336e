SPECIFICATION Spec
CONSTANTS
  UserTypes <- MCUserTypes
  UserFeatures <- MCUserFeatures
  UserEntries <- MCUserEntries
  MaxUserEntries = 3
INVARIANTS TypeOK UserEntriesWin WaitsServed SparkFound FillIdempotent
