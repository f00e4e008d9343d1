SPECIFICATION Spec
CONSTANTS
    g1 = g1
    g2 = g2
    g3 = g3
    n0 = n0
    n1 = n1
    n2 = n2
    Guests = {g1, g2}
    Nodes = {n0, n1, n2}
    Src = n0
    None = None
    Place <- TwoGuests
    Storages <- AnyStorage
    Loads <- AlwaysIdle
    Rank <- MCRank
    PendingWeight = 10
    Tagged = {}
    Sessions = {s1, s2}
    Actions = {"migrate"}
INVARIANTS ProgressAddsUp SuccessIsReal OneAtATime
CHECK_DEADLOCK FALSE
