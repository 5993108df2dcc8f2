SPECIFICATION HardwareSpec
CONSTANTS
    Thread = {t1, t2, t3, t4}
    NrRmids = 3
    Policy <- Policies
    MaxActivations = 1
    App = {1, 2, 3}
    NrCos = 4
    NrWays = 5
    MaxStreaming = 2
    StreamPartSize = 1
    Collide = FALSE
    MaxClusters = 16
    Meter = {m1, m2}
    NoMeter = NoMeter
    Fd = {f1, f2}
    BufferSlots = 1
    MaxRefs = 3
    MeterSetups <- McMeterSetups
    Slots = 2
    Watt <- McWatts
    MaxTick = 3
    Package = {p1, p2}
    RaplModulus = 3
    MaxEnergy = 4
    Device = {d1, d2}
    NrSensors = 2
    Half = 3
    MaxMeter = 7
    SensorSetups <- McSensorSetups
    Capacity = 3
    Chunk = 2
    Value = {v1, v2}
INVARIANTS
    RmidsAreSound
    CacheIsDivided
    SmartPowerIsSound
    MeterEnergyIsSound
    EnergyCountersAreSound
    SensorsAreSound
    SamplesAreWhole
PROPERTY ImplementsFifo
CHECK_DEADLOCK FALSE
