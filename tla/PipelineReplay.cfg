\* Two keys on one partition, several restarts.
SPECIFICATION Spec
CONSTANTS
  NULL = NULL
  Blank = Blank
  k1 = k1
  k2 = k2
  p1 = p1
  Partitions = {p1}
  Keys = {k1, k2}
  Owner <- OwnerShared
  EventIDs = {e1, e2}
  TagSets <- TagsBlank
  Times = {0, 1}
  SessionIDs = {1, 2}
  MaxLog = 3
  MaxRestarts = 2
  MinNanos = 0
  MaxNanos = 2
SYMMETRY EventIDSymmetry
CHECK_DEADLOCK FALSE
INVARIANTS
  TypeOK
  TablesMeanTheLog
  ReplayFromTheStartIsSafe
  RepeatsChangeNothing
