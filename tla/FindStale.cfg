SPECIFICATION Spec
CONSTANTS
    NoTemp = NoTemp
    BiosMode = Bios
    NoSnapshot = NoSnapshot
    NoPct = NoPct
    MinRpm = 2
    MaxRpm = 5
    Grace = 1
    NumGpus = 1
    NumFans = 1
    GpuThreshold = 2
    FanThreshold = 1
    MaxPowerInterval = 2
    Timeout = 5
    Accepted = 5
    Temps = {40}
    Rpms = {4}
    NoRpm = NoRpm
    Hazards = {"flaky_read", "reload"}
    Configs <- LaxerOrNot
    GpuGroup <- OneGroup
    FanGroup <- OneGroup
INVARIANTS
    ThresholdsInForce
