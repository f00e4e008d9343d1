\* Three one-shot runs: the fewest for an overlap, which takes a run that
\* retires, one that keeps the old inode and one that makes a new file.
SPECIFICATION FairSpec
CONSTANTS
    Runs = {r1, r2, r3}
    None = None
INVARIANTS TypeOK OverlapNeedsARetiredRun
PROPERTIES RefusedOnlyByAWorkingRun CrashNeedsARetiredRun
    ImplementsExclusion EveryRunEnds
CHECK_DEADLOCK FALSE
