CONSTANTS
    app = app
    dep = dep
    cap = cap
    t1 = t1
    t2 = t2
    Modules = {app, dep, cap}
    Exempt = {cap}
    Threads = {t1, t2}
    Packages <- MCPackages
    Installed <- MCInstalled
    HostMajor = 1
    MaxInstalls = 2
    MaxPolicies = 1
SPECIFICATION GatesSpec
SYMMETRY MCSymmetry
INVARIANTS AdmittedOnly DependenciesInRange
