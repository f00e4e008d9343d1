\* Two runs and more on a healthy cluster, a manual migration in between.
SPECIFICATION Spec
CONSTANTS
    Guests = {g1, g2}
    Nodes = {n1, n2}
    None = None
    Timestamp = Timestamp
    MaintenanceNodes = {}
    Protected = {}
    Apart = {}
    MaxPerRun = 2
    MaxConcurrent = 3
    Cooldown = 1
    RollbackWindow = 2
    AbortOnFailure = FALSE
    DryModes = {TRUE, FALSE}
    DistThreshold = 2
    KeepRuns = 1
    Distribution = FALSE
    TasksApiFails = TRUE
    HistoryFails = FALSE
    StartTimesOut = FALSE
    MaxRecords = 2
    MaxTime = 1
    MaxKills = 0
    MaxManual = 1
SYMMETRY Symmetry
INVARIANTS TypeOK RecordsMatchMoves RecordsAreSpaced
PROPERTY CooldownRespected
CHECK_DEADLOCK FALSE
