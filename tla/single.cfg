SPECIFICATION Spec
CONSTANTS
    Backend = {b1}
    Partition = {p1, p2, p3}
    NoPart = NoPart
    SegSize = 2
    MaxWal = 7
    MaxLsn = 0
    MaxRestart = 2
    MaxEntries = 2
    MaxWriters = 3
    SaveEvery = 2
    Env = {"crash", "multi", "sql", "xact", "nowal"}
SYMMETRY Symmetry
INVARIANTS VerifyHolds LsnNeverReused RebuiltByRecovery
PROPERTIES DemuxFlushComplete ImplementsPartitionLog
