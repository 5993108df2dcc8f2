SPECIFICATION ProfilesSpec
CHECK_DEADLOCK FALSE
CONSTANTS
    Cpu = {0, 1}
    Setups <- Regular
    MaxSessions = 1
    MaxEvents = 2
    Monitor = {m1, m2, m3}
    Mode = "TBS_USER_MODE"
    MaxRefs = 3
    None = None
    Module = {dummy, rdt, rapl}
    Dummy = dummy
    ReadsAny = {rdt}
    Task = {t1, t2}
    NoModule = NoModule
    Repertoires <- Every
SYMMETRY TaskSymmetry
INVARIANTS
    SamplesAreFaithful
    Conservation
    BufferExists
    SessionIsConsistent
    SerialRefsAreHolders
    OwnerIsTaskMod
    CarefulModuleReadsOwnData
    ModulesAreBalanced
PROPERTY LiveMonitorKeepsTarget
