SPECIFICATION FairSpec
CONSTANTS
    g1 = g1
    g2 = g2
    g3 = g3
    n0 = n0
    n1 = n1
    n2 = n2
    Guests = {g1, g2, g3}
    Nodes = {n0, n1, n2}
    Src = n0
    None = None
    Place <- ThreeGuests
    Storages <- StorageOrNot
    Loads <- Uneven
    Rank <- MCRank
    PendingWeight = 10
    Tagged = {}
    Sessions = {s1}
    Actions = {"migrate", "ignore", "poweroff"}
INVARIANTS CompleteMeansEmpty AssignmentsAreSpread PlanIsFollowed
PROPERTY SessionsEnd
CHECK_DEADLOCK FALSE
