SPECIFICATION Spec
CONSTANTS
    Node = {n1, n2, n3}
    Root = n1
    NoNode = NoNode
    MaxChildren = 2
    MaxNesting = 2
INVARIANTS
    NothingTooDeepGetsThrough
PROPERTIES
    CopyEnds
