\* HTTP/1: every slot is a connection.  Latencies from 0 to 5 and late ones;
\* intervals from 1 up, and samples of several intervals.  With a SpawnTime of
\* 4, one more, a run can have samples added below its smallest latency.
SPECIFICATION Spec
CONSTANTS
  Connections = 2
  Streams = 1
  Timeout = 5
  Runtime = 5
  SpawnTime = 3
  MaxAnswered = 8
INVARIANTS
  WindowHoldsAll
  PercentilesAreNearestRank
  ReportAddsUp
PROPERTY
  CorrectionIsSinglePass
