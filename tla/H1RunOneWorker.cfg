\* One worker with two connections: every interleaving of two tasks, their
\* errors and reconnects with the tick, the stop flag and the clock.
CONSTANTS
  Threads = 1
  Connections = 2
  Timeout = 1
  Statuses = {200, 500}
  ResponseSize = 2
  MaxIssued = 3
  MaxConnectErrors = 1
SPECIFICATION Spec
INVARIANTS
  TypeOK
  RequestsConserved
  EveryResponseCounted
  SampledOrTimedOut
  RateDrained
  CleanRunReportsAll
PROPERTIES
  NoIssueAfterStop
  ReturnsOnlyOnStop
