SPECIFICATION Spec
CONSTANTS
  Managers = {m1, m2}
  Types = {"database"}
  MaxOverlap = 1
  MaxUid = 1
  MaxCrashes = 1
PROPERTY NothingLeft
PROPERTY OwnObjectsInTheEnd
CHECK_DEADLOCK FALSE
