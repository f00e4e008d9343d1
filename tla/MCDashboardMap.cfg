SPECIFICATION FairSpec
CONSTANTS
    Guests = {"g1"}
    Nodes = {"n1", "n2"}
    Tags = {"ignore"}
    None = None
    Error = Error
    Home <- MCHome
    Alike <- MCAlike
    Recs <- MCRecs
    Parts <- MapParts
    Workers = {"w1", "w2"}
    MaxCalls = 2
    MaxTasks = 2
    MaxTroubles = 1
    MaxPolls = 2
    MaxAttempts = 2
    MaxRuns = 2
    Missing = Missing
    Torn = Torn
    Rows = {1, 2, 3}
    Filters = {"", "web"}
    Finds <- MCFinds
    Fields = {"tags", "vmid"}
    SortKey <- MCSortKey
    PageSizes = {1, 2}
PROPERTIES
    MapCatchesUp
    ButtonsReturn
    RecommendationsCatchUp
CHECK_DEADLOCK FALSE
