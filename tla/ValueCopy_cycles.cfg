SPECIFICATION Safety
CONSTANTS
    Node = {n1, n2, n3}
    Root = n1
    NoNode = NoNode
    MaxChildren = 2
    MaxNesting = 3
SYMMETRY Symmetry
INVARIANTS
    PathMatchesStack
    CycleIsReal
    RefusalIsJustified
