SPECIFICATION Spec
CONSTANTS
    Job = {j1, j2, j3}
    Holder = {h1, h2}
    Hook = {k1, k2}
    NoJob = NoJob
    NoHook = NoHook
INVARIANTS
    DeinitIsLast
    NoLostWakeup
    NothingDropped
    ExitHookIsLatest
PROPERTIES
    ImplementsSerialExecutor
    EveryJobRuns
    ThreadExits
