\* Two streams on one connection: the interval is half of a latency.
SPECIFICATION Spec
CONSTANTS
  Connections = 1
  Streams = 2
  Timeout = 6
  Runtime = 10
  SpawnTime = 0
  MaxAnswered = 4
INVARIANTS
  PercentilesAreNearestRank
