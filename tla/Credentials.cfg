SPECIFICATION MCSpec
CONSTANTS
    None = None
    s1 = s1
    s2 = s2
    k1 = k1
    k2 = k2
    Sessions = {s1, s2}
    Clients = {c1}
    Principals = {p1}
    BadPrincipal = p0
    Secrets = {k1, k2}
    ShortSecret = k0
    Configs <- MCConfigs
    Window = 1
    PruneThreshold = 4
    MaxTime = 3
    MaxRestarts = 0
SYMMETRY MCSymmetry
INVARIANTS AdminDecides RateBudget
PROPERTIES RecordsAdvance RefusedFairly
CHECK_DEADLOCK FALSE
