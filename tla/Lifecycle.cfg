SPECIFICATION Spec
CONSTANTS
    a = a
    b = b
    None = None
    Modules = {a, b}
    InProc = {b}
    Threads = {t1, t2}
    Main = t1
    Ops = {"load", "loadDeps", "unload", "cascade", "terminateAll", "clear"}
    LoadOrder <- MCLoadOrder
    TeardownOrder <- MCTeardownOrder
    BestEffort <- MCBestEffort
    MaxCalls = 3
    MaxSpawns = 3
INVARIANTS TypeOK FleetExclusion OneLoadPerModule CascadeLeavesFirst CascadeComplete
    NoLostDeath MarksScoped AttemptsScoped FeedNotStuck
