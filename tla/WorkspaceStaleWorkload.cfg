CONSTANTS
  Caller = {c1, c2}
  Monitor = {c1}
  Server = {s1, s2}
  MaxRestarts = 0
SPECIFICATION Spec
INVARIANTS
  WorkloadOfActiveServer
SYMMETRY ServerSymmetry
