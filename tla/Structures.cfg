SPECIFICATION SpecAny
CONSTANTS
  keyA = keyA
  keyB = keyB
  keyC = keyC
  keyD = keyD
  keyE = keyE
  valX = valX
  valY = valY
  gcA = gcA
  gcB = gcB
  gcWeak = gcWeak
  genA = genA
  genB = genB
  Items = {valX, valY}
  Junk = Junk
  MaxCapacity = 9
  MaxWhen = 2
  MaxTimeouts = 6
  Obj <- Blocks
  Kind <- KindOf
  Guard = 1
  MaxEntries = 1
  MaxRoots = 1
  NoProto = NoProto
  Protos <- Parents
  Keys <- FourKeys
  Values <- OneValue
  None = None
  Hash <- TableHash
  StructKeys <- FiveKeys
  StructValues <- TwoValues
  Nil = Nil
  KeyHash <- StructHash
  Rank <- Order
  MaxLength = 6
  Names <- SymbolNames
  Core <- CoreName
  StringHash <- SymbolHash
  Generated <- Generate
  Capacity0 = 4
  MaxSymbols = 6
CHECK_DEADLOCK FALSE
INVARIANTS StructsCompare SymbolsAreUnique
PROPERTIES QueueSound TimersInOrder CollectsTheDead TableIsDict
