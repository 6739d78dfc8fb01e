SPECIFICATION MainSpec
CONSTANTS
    Name = {n1}
    MaxDepth = 2
    MaxResets = 1
INVARIANT NoResetUnderEval
