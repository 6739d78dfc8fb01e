SPECIFICATION SpecAny
CONSTANTS
  Letters = {"a", "n", "x"}
  Digits = {"1"}
  MaxForms = 4
  MaxStrings = 4
CHECK_DEADLOCK FALSE
INVARIANTS ParserSound ReadsWhatWasWritten PegsMean
