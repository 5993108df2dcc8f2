SPECIFICATION SessionSpec
CONSTANTS
    Task = {c, t}
    EbsTask = {c, t}
    Family = {c, t}
    c = c  t = t
    Child = c
    Capacity = 2
    MaxLeaks = 1
    BatchSize = 2
    NrExperiments = 2
    Junk = {0, 7}
    MaxTicks = 2
    ExpIdx <- McExpIdx
    Setups <- Aggregate
INVARIANT AggregateIsDisplayed
CHECK_DEADLOCK FALSE
