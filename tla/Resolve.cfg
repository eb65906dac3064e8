SPECIFICATION Spec
CONSTANTS
    a = a
    b = b
    c = c
    Nodes = {a, b, c}
    Target = a
    Modes = {"orderOnly", "bestEffort", "teardown"}
    ReqGraphs <- AllGraphs
    OptGraphs <- Sparse
    KnownSets <- SomeKnown
INVARIANTS OrderSound VerdictExact BestEffortClosed TeardownExact
PROPERTY Terminates
