\* Two workers of one connection each and a connection that is never opened:
\* snapshots and joins of several workers, runtime failures, termination.
CONSTANTS
  Threads = 2
  Connections = 3
  Timeout = 0
  Statuses = {200}
  ResponseSize = 2
  MaxIssued = 2
  MaxConnectErrors = 1
SPECIFICATION Spec
PROPERTIES
  Termination
  Implements
