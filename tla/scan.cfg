SPECIFICATION Spec
CONSTANTS
    MaxSeg = 3
    MaxRec = 4
    MaxFiles = 3
INVARIANTS TypeOK LastLinearizable VerifyNoFalseAlarm DumpComplete CountBounded
