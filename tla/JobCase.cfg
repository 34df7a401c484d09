SPECIFICATION Spec
INVARIANTS
  TypeOK
  PassMeansModeHappened
  PassMeansSettingsTook
  PassMeansRejection
  FailHasCause
  DisposableJobsAreDeleted
PROPERTY CaseEnds
CHECK_DEADLOCK FALSE
