SPECIFICATION Spec
CONSTANTS
    Guests = {g1}
    Nodes = {n1, n2}
    None = None
    Timestamp = Timestamp
    MaintenanceNodes = {}
    Protected = {}
    Apart = {}
    MaxPerRun = 2
    MaxConcurrent = 1
    Cooldown = 0
    RollbackWindow = 2
    AbortOnFailure = FALSE
    DryModes = {FALSE}
    DistThreshold = 2
    KeepRuns = 1
    Distribution = FALSE
    TasksApiFails = FALSE
    HistoryFails = FALSE
    StartTimesOut = FALSE
    MaxRecords = 2
    MaxTime = 0
    MaxKills = 0
    MaxManual = 0
PROPERTY RollbacksAreBlocked
CHECK_DEADLOCK FALSE
