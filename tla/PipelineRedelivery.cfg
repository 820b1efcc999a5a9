\* A restart after a committed login.
SPECIFICATION Spec
CONSTANTS
  NULL = NULL
  Blank = Blank
  k1 = k1
  k2 = k2
  p1 = p1
  Partitions = {p1}
  Keys = {k1}
  Owner <- OwnerSingle
  EventIDs = {e1, e2}
  TagSets <- TagsNone
  Times = {0, 1}
  SessionIDs = {1, 2}
  MaxLog = 2
  MaxRestarts = 1
  MinNanos = 0
  MaxNanos = 2
SYMMETRY EventIDSymmetry
CHECK_DEADLOCK FALSE
INVARIANTS
  RedeliveryIsSafe
