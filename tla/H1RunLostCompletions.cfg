\* Responses held by a task that is dropped with its runtime.
CONSTANTS
  Threads = 1
  Connections = 2
  Timeout = 1
  Statuses = {200}
  ResponseSize = 2
  MaxIssued = 3
  MaxConnectErrors = 1
SPECIFICATION Spec
INVARIANTS
  ReportsEveryResponse
