\* Two keys, each with its own worker, storage faults, retries, a shutdown.
SPECIFICATION Spec
CONSTANTS
  NULL = NULL
  Blank = Blank
  k1 = k1
  k2 = k2
  p1 = p1
  p2 = p2
  a = a
  Partitions = {p1, p2}
  Keys = {k1, k2}
  Owners <- OwnersExclusive
  EventIDs = {e1, e2}
  TagSets <- TagsNone
  Times = {0}
  SessionIDs = {1, 2}
  RetryAttempts = 2
  StorageFaults = TRUE
  MaxRows = 2
  MinNanos = 0
  MaxNanos = 0
INVARIANTS
  TypeOK
  SnapshotIsCurrent
PROPERTIES
  EventsTakeEffectAtomically
  EventsSettle
