SPECIFICATION FairSpec
CONSTANTS
    NoTemp = NoTemp
    BiosMode = Bios
    NoSnapshot = NoSnapshot
    NoPct = NoPct
    MinRpm = 2
    MaxRpm = 5
    Grace = 2
    NumGpus = 1
    NumFans = 1
    GpuThreshold = 1
    FanThreshold = 1
    MaxPowerInterval = 2
    Timeout = 5
    Accepted = 5
    Temps = {40}
    Rpms = {1, 4, 6, NoRpm}
    NoRpm = NoRpm
    Hazards = {"blind", "seized", "deaf", "drift", "sigterm", "reload", "flaky_feed", "flaky_sysfs"}
    Configs <- UnpoweredSlowerOrNot
    GpuGroup <- OneGroup
    FanGroup <- OneGroup
INVARIANTS
    TypeOK
    CountersLatched
PROPERTIES
    FaultSilencesForGood
    FaultEndsInReboot
    BlindIsDetected
    SeizedIsDetected
