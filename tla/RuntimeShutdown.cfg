\* One process from its environment to its exit, with two partitions and a query.
CONSTANTS
  Partitions = {p1, p2}
  Requests = {r1}
  Failures = TRUE
  Unset = Unset
  Malformed = Malformed
  Text = Text
  NoConfig = NoConfig
  Environments <- MCEnvironments
SPECIFICATION Spec
INVARIANTS
  TypeOK
  CloseWaitsForOperations
  ClosedOnlyWhenIdle
  NothingLeaks
  ExitStatusIsTruthful
  AnswersAreHonest
  ConfigurationSuffices
PROPERTIES
  ShutdownEnds
  SignalStopsSource
