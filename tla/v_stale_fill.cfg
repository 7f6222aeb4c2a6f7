SPECIFICATION Spec
CONSTANTS
    Backend = {b1, b2}
    Partition = {p1}
    Node = {n1, n2}
    NoNode = NoNode
    NoPart = NoPart
    Local = n1
    InitialParts <- AllLocal
    InitialNodes <- OthersDown
    MaxGen = 1
    MaxWrites = 1
SYMMETRY Symmetry
INVARIANTS InvalidateRefreshes
