\* One worker with two connections of two streams each: streams that end at
\* different times, reconnects, and the stop flag at every await.
CONSTANTS
  Threads = 1
  Connections = 2
  Streams = 2
  Timeout = 0
  Statuses = {200}
  ResponseSize = 2
  MaxIssued = 3
  MaxConnectErrors = 1
SPECIFICATION H3Spec
INVARIANTS
  RequestsConserved
  EveryResponseCounted
  SampledOrTimedOut
PROPERTIES
  StreamEndsOnStopOrError
  Implements
