\* Two processes and two partitions: failures, shutdowns, kills, evictions.
SPECIFICATION Spec
CONSTANTS
  NoMember = NoMember
  Members = {m1, m2}
  Partitions = {p1, p2}
  MaxPoll = 2
  Failures = TRUE
  Interruptions = TRUE
  MaxOffset = 2
  MaxStarts = 2
  MaxMoves = 1
SYMMETRY Symmetry
CHECK_DEADLOCK FALSE
INVARIANTS
  TypeOK
  CommittedWereHandled
  HandledInOrder
  OneHandlerPerPartition
PROPERTIES
  ImplementsDelivery
