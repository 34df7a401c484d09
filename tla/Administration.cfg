CONSTANTS
  Job = {j1, j2, j3}
  PageLimit = 2
SPECIFICATION Spec
INVARIANTS
  TypeOK
  
  ReportsWhatHappened
PROPERTY
  CallsEnd
