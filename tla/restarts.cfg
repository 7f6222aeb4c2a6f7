SPECIFICATION Spec
CONSTANTS
    Backend = {b1}
    Partition = {p1}
    NoPart = NoPart
    SegSize = 2
    MaxWal = 6
    MaxLsn = 0
    MaxRestart = 2
    MaxEntries = 1
    MaxWriters = 1
    SaveEvery = 1
    Env = {"sql", "reset", "cleanup", "checkpoint", "crash", "stop", "timeout"}
INVARIANTS TypeOK SortedOnDisk
