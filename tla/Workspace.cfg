CONSTANTS
  Caller = {c1, c2}
  Monitor = {c1, c2}
  Server = {s1, s2}
  MaxRestarts = 1
SPECIFICATION Spec
INVARIANTS
  TypeOK
  EvidenceOfActiveServer
  RunPinsConnection
  OperationsExcludeRun
  RequestsReachActiveServer
SYMMETRY ServerSymmetry
