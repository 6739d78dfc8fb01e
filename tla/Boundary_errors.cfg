SPECIFICATION SpecAny
CONSTANTS
  Thread = {t1, t2, t3}
  Handle = {h1, h2}
  VM = {vm1, vm2}
  Nothing = Nothing
  MaxBirths = 3
  MaxEvals = 3
  MaxNesting = 2
CHECK_DEADLOCK FALSE
INVARIANT ErrorsAreThrown
