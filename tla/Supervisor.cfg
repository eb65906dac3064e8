SPECIFICATION Spec
CONSTANTS
    Names = {a, b}
    Policies <- MCPolicies
    Envs <- MCEnvs
    IntMax = 3
    MaxTime = 4
    MaxCalls = 3
INVARIANTS WindowBudget ExhaustionEarned
SYMMETRY MCSymmetry
