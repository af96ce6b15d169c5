SPECIFICATION Spec
CONSTANTS
    NoTemp = NoTemp
    BiosMode = Bios
    NoSnapshot = NoSnapshot
    NoPct = NoPct
    MinRpm = 2
    MaxRpm = 5
    Grace = 1
    NumGpus = 2
    NumFans = 3
    GpuThreshold = 1
    FanThreshold = 1
    MaxPowerInterval = 2
    Timeout = 5
    Accepted = 3
    Temps = {40}
    Rpms = {1, 4}
    NoRpm = NoRpm
    Hazards = {"flaky_read", "power", "drift", "reload"}
    Configs <- SlowerOrNot
    GpuGroup <- TwoGroups
    FanGroup <- ThreeFans
INVARIANTS
    FaultPollMaxesAll
    HealthyNeverRebooted
    GroupMovesTogether
    ReadableFloor
