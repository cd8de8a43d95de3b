\* A name that cannot be resolved at the start.
CONSTANTS
  Threads = 1
  Connections = 2
  Streams = 2
  Timeout = 0
  Statuses = {200}
  ResponseSize = 2
  MaxIssued = 3
  MaxConnectErrors = 1
SPECIFICATION H3Spec
PROPERTIES
  ConnReturnsOnlyOnStop
