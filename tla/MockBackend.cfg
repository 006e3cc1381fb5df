\* Three handler threads sharing one BackendState, also checked against the
\* atomic BackendState specification.
CONSTANTS
  r1 = r1
  r2 = r2
  r3 = r3
  m1 = m1
  NoThreadV = NoThreadV
  NoModelV = NoModelV
  Req <- MCReq
  Models <- MCModels
  NoThread <- NoThreadV
  NoModel <- NoModelV
SPECIFICATION Spec
INVARIANTS
  TypeOK
  CountersExact
PROPERTIES
  Quiesce
  ImplementsBackendState
