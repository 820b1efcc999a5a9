\* Sessions of one key that log in at the same instant.
SPECIFICATION Spec
CONSTANTS
  NULL = NULL
  Blank = Blank
  k1 = k1
  k2 = k2
  p1 = p1
  p2 = p2
  a = a
  Partitions = {p1}
  Keys = {k1}
  Owners <- OwnersSingle
  EventIDs = {1, 2, 3, 4}
  TagSets <- TagsNone
  Times = {0}
  SessionIDs = {1, 2, 3, 4}
  RetryAttempts = 1
  StorageFaults = FALSE
  MaxRows = 4
  MinNanos = 0
  MaxNanos = 0
PROPERTIES
  ReplayIsNoop
ACTION_CONSTRAINT IDsAreFresh
