SPECIFICATION RehashSpec
CONSTANTS
    None = None
    s1 = s1
    s2 = s2
    k1 = k1
    k2 = k2
    Sessions = {s1, s2}
    Clients = {c1}
    Principals = {p1}
    BadPrincipal = p0
    Secrets = {k1}
    ShortSecret = k0
    Configs <- MCTwoCosts
    Window = 1
    PruneThreshold = 4
    MaxTime = 0
    MaxRestarts = 1
INVARIANT AdminDecides
CHECK_DEADLOCK FALSE
