SPECIFICATION FairSpec
CONSTANTS
  Translate <- Compiled
  Intended <- Meant
  BasicNames <- FunctionNames
  FirstReserved = 12
  LastOperand = 17
  LastNear = 17
  Programs <- AllPrograms
INVARIANTS Means Accepted EnvFollowsFrame
PROPERTY Ends
