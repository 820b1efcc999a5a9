\* Both workers receive events of the same key; the timestamp 3 wraps to 0.
SPECIFICATION Spec
CONSTANTS
  NULL = NULL
  Blank = Blank
  k1 = k1
  k2 = k2
  p1 = p1
  p2 = p2
  a = a
  Partitions = {p1, p2}
  Keys = {k1}
  Owners <- OwnersShared
  EventIDs = {e1, e2}
  TagSets <- TagsNone
  Times = {0, 1, 3}
  SessionIDs = {1, 2, 3}
  RetryAttempts = 1
  StorageFaults = FALSE
  MaxRows = 3
  MinNanos = 0
  MaxNanos = 2
SYMMETRY PartitionSymmetry
INVARIANTS
  StatesTileSession
  HistoryLoads
