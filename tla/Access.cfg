SPECIFICATION Spec
CONSTANTS
    a = a
    b = b
    c = c
    core = core
    None = None
    Open = Open
    Modules = {a, b, c}
    Capability = capability_module
    Trusted = {core}
    Exempt = {capability_module, core}
    Manifests <- MCManifests
    Documents <- MCDocuments
    Owner = main
    Workers = {w1, w2}
    MaxOps = 5
SYMMETRY MCSymmetry
INVARIANTS RestrictionsCurrent IdentityCurrent
