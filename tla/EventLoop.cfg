SPECIFICATION SpecAny
CONSTANTS
  fMain = fMain
  fLeft = fLeft
  fRight = fRight
  chBuffered = chBuffered
  chBare = chBare
  tA = tA
  tB = tB
  tC = tC
  vmA = vmA
  vmB = vmB
  None = None
  Fibers = {fMain, fLeft, fRight}
  Main = fMain
  Channels = {chBuffered, chBare}
  Limit <- Limits
  Supervisor = chBuffered
  Mask <- Masks
  SelectMenu <- Menu
  MaxCalls = 4
  MaxTime = 1
  SharedTasks = {tA, tB, tC}
  SharedVMs = {vmA, vmB}
  Home <- Homes
  SharedLimit = 1
  MaxSharedCalls = 4
CHECK_DEADLOCK FALSE
INVARIANTS WaitsAreSound SharedSound
PROPERTIES WokenForItsWait EveryWaitEnds
