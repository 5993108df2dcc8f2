SPECIFICATION FairSession
CONSTANTS
    Task = {c, t}
    EbsTask = {}
    Family = {c, t}
    c = c  t = t
    Child = c
    Capacity = 2
    MaxLeaks = 1
    BatchSize = 2
    NrExperiments = 2
    Junk = {0, 7}
    MaxTicks = 2
    ExpIdx <- McExpIdx
    Setups <- McSetups
INVARIANT SessionIsSound
PROPERTY SessionEnds
CHECK_DEADLOCK FALSE
