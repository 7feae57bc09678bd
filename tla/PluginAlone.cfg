SPECIFICATION Spec
CONSTANTS
    MaxRegistered = 2
    CallbacksCount = FALSE
    MaxCrashes = 0
INVARIANT GoesWhenTold
CHECK_DEADLOCK FALSE
