\* Every command line of MCStartup against every server: the checks of
\* parse_args, the probes and the TLS configuration, and the first request.
CONSTANTS
  U64Max = 2100000
  F64Exact = 8192
  MetricScale = 10
  HeaderRoom = 6
  CommandLines <- MCCommandLines
  Servers <- MCServers
SPECIFICATION Spec
INVARIANTS
  TypeOK
  RunnableConfig
  HistogramCoversTimeout
  NegotiationConnects
  AbortsExplained
  RequestsCarryOptions
  HeaderTellsDuration
PROPERTY
  StartupEnds
