SPECIFICATION AttachSpec
CHECK_DEADLOCK FALSE
CONSTANTS
    Monitor = {m1, m2}
    Mode = "TBS_SCHED_MODE"
    MaxRefs = 3
    None = None
INVARIANT RefsAreHolders
