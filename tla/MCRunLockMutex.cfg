SPECIFICATION Spec
CONSTANTS
    Runs = {r1, r2, r3}
    None = None
INVARIANT MutualExclusion
CHECK_DEADLOCK FALSE
