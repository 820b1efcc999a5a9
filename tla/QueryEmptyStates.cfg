\* States that ended at the instant they began.
SPECIFICATION Spec
CONSTANTS
  NULL = NULL
  Blank = Blank
  Keys <- KeysOne
  EventIDs = {e1, e2}
  TagSets <- TagsNone
  Times = {0, 1}
  SessionIDs = {1}
  Queries <- NoQueries
  Limits = {0, 3}
  DefaultLimit = 1
  MaxLimit = 2
  Canonical <- MCCanonical
  Storage = Storage
  Absent = Absent
  Invalid = Invalid
  ZeroTime = 99
  MaxClock = 0
  MaxRows = 2
  MinNanos = 0
  MaxNanos = 2
SYMMETRY EventIDSymmetry
CHECK_DEADLOCK FALSE
INVARIANTS
  OverlapsAgree
