SPECIFICATION Spec
CONSTANTS
  Managers = {m1}
  Types = {"minio"}
  MaxOverlap = 2
  MaxUid = 2
  MaxCrashes = 1
INVARIANT TypeOK
PROPERTY NothingLeft
PROPERTY OwnObjectsInTheEnd
CHECK_DEADLOCK FALSE
