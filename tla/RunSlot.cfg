CONSTANTS
  Starter = {s1, s2}
  MaxRuns = 2
  MaxResults = 3
  MaxFrontendResults = 2
SPECIFICATION Spec
INVARIANTS
  TypeOK
  OneRunAtATime
  ExportsClosedFile
  ShowsLatestResults
  ShutdownWaitsForConsumer
SYMMETRY StarterSymmetry
