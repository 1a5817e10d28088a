SPECIFICATION Spec
INVARIANT PlayerNeverDies
CHECK_DEADLOCK FALSE
