CONSTANTS
  b1 = b1
  m1 = m1
  NoModelV = NoModelV
  Concurrency <- MCConcurrency
  MaxReq <- MCMaxReq
  Backends <- MCBackends
  Models <- MCModels
  Latencies <- MCLatencies
  Affinity = TRUE
  NoModel <- NoModelV

SPECIFICATION Spec

INVARIANTS
  TypeOK
  ReportExact
  PercentilesExact

PROPERTIES
  Terminates
