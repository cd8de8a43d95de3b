\* A body given to an HTTP/3 run.
CONSTANTS
  U64Max = 2100000
  F64Exact = 8192
  MetricScale = 10
  HeaderRoom = 6
  CommandLines <- MCCommandLines
  Servers <- MCServers
SPECIFICATION Spec
INVARIANTS
  BodySent
