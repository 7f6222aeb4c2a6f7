SPECIFICATION Spec
CONSTANTS
    Backend = {b1}
    Partition = {p1}
    NoPart = NoPart
    SegSize = 8
    MaxWal = 11
    MaxLsn = 0
    MaxRestart = 1
    MaxEntries = 1
    MaxWriters = 1
    SaveEvery = 16
    Env = {"sql", "stop", "timeout"}
INVARIANTS LsnNeverReused
