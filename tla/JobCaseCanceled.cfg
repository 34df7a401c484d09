SPECIFICATION Spec
INVARIANT PassedJobIsNotCanceled
CHECK_DEADLOCK FALSE
