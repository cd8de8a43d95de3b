\* One worker with one connection of three streams: the streams find out that
\* the connection is lost one after the other, in every order.
CONSTANTS
  Threads = 1
  Connections = 1
  Streams = 3
  Timeout = 0
  Statuses = {200}
  ResponseSize = 1
  MaxIssued = 4
  MaxConnectErrors = 1
SPECIFICATION RecoverySpec
PROPERTIES
  Recovers
