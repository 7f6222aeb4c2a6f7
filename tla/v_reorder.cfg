SPECIFICATION Spec
CONSTANTS
    Backend = {b1, b2}
    Partition = {p1}
    NoPart = NoPart
    SegSize = 8
    MaxWal = 12
    MaxLsn = 0
    MaxRestart = 0
    MaxEntries = 1
    MaxWriters = 1
    SaveEvery = 16
    Env = {}
PROPERTIES DemuxFlushComplete
