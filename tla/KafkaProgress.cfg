\* Liveness: two processes and two partitions, and anything may fail.
SPECIFICATION Spec
CONSTANTS
  NoMember = NoMember
  Members = {m1, m2}
  Partitions = {p1, p2}
  MaxPoll = 2
  Failures = TRUE
  Interruptions = FALSE
  MaxOffset = 2
  MaxStarts = 2
  MaxMoves = 1
CHECK_DEADLOCK FALSE
PROPERTIES
  BatchesEnd
  EveryRecordIsHandled
