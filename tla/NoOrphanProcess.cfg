SPECIFICATION Spec
CONSTANTS
    a = a
    b = b
    None = None
    Modules = {a}
    InProc = {}
    Threads = {t1}
    Main = t1
    Ops = {"load", "unload"}
    LoadOrder <- MCLoadOrder
    TeardownOrder <- MCTeardownOrder
    BestEffort <- MCBestEffort
    MaxCalls = 2
    MaxSpawns = 2
INVARIANT NoOrphanProcess
