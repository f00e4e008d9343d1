SPECIFICATION FairSpec
CONSTANTS
    Torn = Torn
    Null = Null
    Workers = 2
    MaxSaves = 2
    MaxTroubles = 0
    Nodes = {"n1"}
    Presets = {"balanced"}
    Numbers = {2}
    Names = {"b"}
    Days = {"Mon"}
    Times = {"day"}
    Tokens = {"", "t2"}
    Providers = {"none", "local"}
    Hosts = {"h2"}
    Penalties = {"custom", "uneven"}
    DefaultPenalty = "default"
    InvalidPenalties = {"uneven"}
    Imports <- MCImports
    Parts <- MCMaintenance
    InitialFile <- MCFile
INVARIANT MaintenanceReachesAutomation
CHECK_DEADLOCK FALSE
