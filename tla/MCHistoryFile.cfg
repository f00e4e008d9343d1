\* Three interchangeable runs: a working one, its successor, and one that
\* either of them keeps out.
SPECIFICATION Spec
CONSTANTS
    Runs = {r1, r2, r3}
    None = None
    Torn = Torn
    MaxMoves = 2
SYMMETRY Symmetry
INVARIANTS LockedRunsKeepRecords TornNeedsACause AtMostOneMoveUnrecorded
PROPERTY NothingReplacesATornFile
CHECK_DEADLOCK FALSE
