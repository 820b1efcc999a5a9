\* One key and its worker: deep histories, tags, no storage faults.
SPECIFICATION Spec
CONSTANTS
  NULL = NULL
  Blank = Blank
  k1 = k1
  k2 = k2
  p1 = p1
  p2 = p2
  a = a
  Partitions = {p1}
  Keys = {k1}
  Owners <- OwnersSingle
  EventIDs = {e1, e2}
  TagSets <- TagsMixed
  Times = {0, 1, 2}
  SessionIDs = {1, 2, 3}
  RetryAttempts = 1
  StorageFaults = FALSE
  MaxRows = 3
  MinNanos = 0
  MaxNanos = 2
SYMMETRY EventIDSymmetry
INVARIANTS
  LifecyclesDisjoint
  StatesTileSession
  MutationsMeetConstraints
  OnlyFarTimesStopWorkers
PROPERTIES
  HistoryIsImmutable
  ReplayIsNoopUnlessLoginsTie
  ImplementsLifecycle
