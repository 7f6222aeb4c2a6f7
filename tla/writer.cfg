SPECIFICATION FairSpec
CONSTANTS
    MaxLsn = 5
    PerSegment = 4
    BufferSize = 3
    MaxOvertake = 1
    MaxFailures = 3
    MaxCrashes = 2
INVARIANTS TypeOK BufferHasFile AcceptedKept FlushedAtTop AscendingUnlessCut
PROPERTIES ImplementsMonotoneLog BufferDrains
CHECK_DEADLOCK FALSE
