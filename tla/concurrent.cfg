SPECIFICATION Spec
CONSTANTS
    Backend = {b1, b2}
    Partition = {p1, p2}
    NoPart = NoPart
    SegSize = 2
    MaxWal = 5
    MaxLsn = 0
    MaxRestart = 2
    MaxEntries = 2
    MaxWriters = 1
    SaveEvery = 1
    Env = {"crash", "xact", "nowal", "sql"}
SYMMETRY Symmetry
INVARIANTS LsnUnique SortedOnDisk PublishedIsRouted RebuiltUnlessOvertaken
