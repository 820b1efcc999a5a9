\* Scans of the sessions of two keys, page by page, with filters.
SPECIFICATION Spec
CONSTANTS
  NULL = NULL
  Blank = Blank
  Keys <- KeysTwo
  EventIDs = {e1, e2}
  TagSets <- TagsOne
  Times = {0, 1}
  SessionIDs = {1, 2}
  Queries <- FilteredQueries
  Limits = {0, 3}
  DefaultLimit = 1
  MaxLimit = 2
  Canonical <- MCCanonical
  Storage = Storage
  Absent = Absent
  Invalid = Invalid
  ZeroTime = 99
  MaxClock = 1
  MaxRows = 3
  MinNanos = 0
  MaxNanos = 2
SYMMETRY EventIDSymmetry
CHECK_DEADLOCK FALSE
INVARIANTS
  PagesAscend
  NothingIsSkipped
  PagesAreASnapshot
  ActivityAgrees
  CursorsBindTheirQuery
  SpellingsDoNotMatter
  HistoriesReadInOrder
