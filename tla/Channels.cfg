SPECIFICATION FairSpec
CONSTANTS
    NoTemp = NoTemp
    Malformed = Malformed
    None = None
    Rejected = Rejected
    BiosMode = Bios
    NoSnapshot = NoSnapshot
    NoPct = NoPct
    MinRpm = 2
    MaxRpm = 5
    Grace = 1
    Devices <- ThreeDevices
    ChipName <- OwnNames
    PwmChannels <- Headers
    Dirs <- Hwmon
    NoName = NoName
    Files <- OneEdit
    Hazards = {"crash", "drift", "flaky_sysfs"}
INVARIANTS
    TypeOK
    RunningIsValid
    EachFanItsChannel
    NobodyLeftBehind
PROPERTIES
    ReloadIsWhole
    CalibrationGivesBack
