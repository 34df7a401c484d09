CONSTANTS
  Worker = {w1, w2}
  Planned = 2
  MaxJobEvents = 0
SPECIFICATION Spec
INVARIANTS
  TypeOK
  ReportedOnce
  CompletedReportsAll
  TerminalIsLast
  TerminalCountsResults
  StoredOrReported
SYMMETRY WorkerSymmetry
