SPECIFICATION MainSpec
CONSTANTS
    Name = {n1, n2}
    MaxDepth = 3
    MaxResets = 2
SYMMETRY Symmetry
INVARIANTS
    FlagHoldsUntilNestedEvalEnds
    ResettableBetweenCalls
    EnvHoldsWhatWasDefined
