\* A timestamp that does not fit in an int64 of nanoseconds.
SPECIFICATION Spec
CONSTANTS
  NULL = NULL
  Blank = Blank
  k1 = k1
  k2 = k2
  p1 = p1
  p2 = p2
  a = a
  Partitions = {p1}
  Keys = {k1}
  Owners <- OwnersSingle
  EventIDs = {e1, e2}
  TagSets <- TagsNone
  Times = {1, 3}
  SessionIDs = {1, 2}
  RetryAttempts = 1
  StorageFaults = FALSE
  MaxRows = 2
  MinNanos = 0
  MaxNanos = 2
INVARIANTS
  OnlyFaultsStopWorkers
