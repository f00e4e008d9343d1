\* Everything that can fail does: kills, timeouts, unwritable history.
SPECIFICATION FairSpec
CONSTANTS
    Guests = {g1, g2}
    Nodes = {n1, n2}
    None = None
    Timestamp = Timestamp
    MaintenanceNodes = {n1}
    Protected = {g1}
    Apart = {}
    MaxPerRun = 2
    MaxConcurrent = 1
    Cooldown = 0
    RollbackWindow = 2
    AbortOnFailure = FALSE
    DryModes = {FALSE}
    DistThreshold = 2
    KeepRuns = 1
    Distribution = TRUE
    TasksApiFails = FALSE
    HistoryFails = TRUE
    StartTimesOut = TRUE
    MaxRecords = 1
    MaxTime = 0
    MaxKills = 2
    MaxManual = 0
INVARIANTS OneMigrationAtATime SummariesAreHonest ConcurrencyRespected
PROPERTY RunsEnd
CHECK_DEADLOCK FALSE
