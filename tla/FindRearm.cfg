SPECIFICATION Spec
CONSTANTS
    NoTemp = NoTemp
    BiosMode = Bios
    NoSnapshot = NoSnapshot
    NoPct = NoPct
    MinRpm = 2
    MaxRpm = 5
    Grace = 1
    NumGpus = 1
    NumFans = 1
    GpuThreshold = 1
    FanThreshold = 1
    MaxPowerInterval = 2
    Timeout = 4
    Accepted = 4
    Temps = {40, 80}
    Rpms = {1, 4}
    NoRpm = NoRpm
    Hazards = {"drift"}
    Configs <- FixedNoPower
    GpuGroup <- OneGroup
    FanGroup <- OneGroup
PROPERTIES
    RearmGrantsGrace
