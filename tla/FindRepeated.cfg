SPECIFICATION Spec
CONSTANTS
    NoTemp = NoTemp
    Malformed = Malformed
    None = None
    Rejected = Rejected
    BiosMode = Bios
    NoSnapshot = NoSnapshot
    NoPct = NoPct
    MinRpm = 2
    MaxRpm = 5
    Grace = 1
    Devices <- ThreeDevices
    ChipName <- OwnNames
    PwmChannels <- MoreHeaders
    Dirs <- Hwmon
    NoName = NoName
    Files <- SameIdTwice
    Hazards = {}
INVARIANTS
    NobodyLeftBehind
