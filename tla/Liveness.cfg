SPECIFICATION FairSpec
CONSTANTS
    a = a
    b = b
    None = None
    Modules = {a, b}
    InProc = {b}
    Threads = {t1, t2}
    Main = t1
    Ops = {"loadDeps", "unload", "terminateAll"}
    LoadOrder <- MCLoadOrder
    TeardownOrder <- MCTeardownOrder
    BestEffort <- MCOptional
    MaxCalls = 2
    MaxSpawns = 3
PROPERTIES EveryCallReturns ImplementsContract ContractProgress
