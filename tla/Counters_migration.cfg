SPECIFICATION CountersSpec
CONSTANTS
    NrFixed = 2
    NrGp = 2
    MaxLlExps = 4
    Modulus = 4
    PerfModulus = 8
    DefaultWindow = 2
    MaxOwed = 5
    MaxMissed = 1
    EventSetups <- McEventSetups
    Thread = {"t1", "t2"}
    First = "t1"
    CoreType = {0, 1}
    MaxExps = 2
    MaxLost = 2
    Caller = {"t1", "t2"}
    LoadSetups <- McLoadSetups
INVARIANTS
    MigrationSamplesTell
CHECK_DEADLOCK FALSE
