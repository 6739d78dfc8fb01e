SPECIFICATION Spec
CONSTANTS
    Client = {c1, c2}
    Name = {n1}
    Value = {v1, v2}
    TooDeep = TooDeep
    Unbound = Unbound
    CopyError = CopyError
    CompileError = CompileError
    Bound = Bound
    MaxCalls = 2
    Actor = Actor
    Deinit = Deinit
    NoJob = NoJob
    NoHook = NoHook
    NoThread = NoThread
    ExecThread = ExecThread
INVARIANTS
    NoTrap
    VMFreedBeforeExit
PROPERTIES
    ImplementsAtomicRuntime
    EveryCallReturns
    TornDown
