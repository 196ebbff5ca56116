SPECIFICATION RestoreSpec
INVARIANT FailureRetains
CHECK_DEADLOCK FALSE
