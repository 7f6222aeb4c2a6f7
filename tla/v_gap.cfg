SPECIFICATION Spec
CONSTANTS
    MaxLsn = 3
    PerSegment = 2
    BufferSize = 2
    MaxOvertake = 0
    MaxFailures = 1
    MaxCrashes = 1
INVARIANTS RebuiltByRecovery
CHECK_DEADLOCK FALSE
