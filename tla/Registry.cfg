SPECIFICATION Spec
CONSTANTS
    a = a
    b = b
    Names = {a, b}
    Valid = {a, b}
    Manifests <- Shapes
    EmbeddedDeps = {a}
    MaxDisk = 2
    MaxLoads = 1
INVARIANTS DependentsExact KnownIsVisible
