SPECIFICATION Spec
CONSTANTS
    Rel = {r1, s1}
    Shard = {s1}
    MaxDepth = 2
INVARIANTS TypeOK CommittedHasHeader DistributedHasHeader
