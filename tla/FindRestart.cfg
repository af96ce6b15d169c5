SPECIFICATION Spec
CONSTANTS
    NoTemp = NoTemp
    BiosMode = Bios
    NoSnapshot = NoSnapshot
    NoPct = NoPct
    MinRpm = 2
    MaxRpm = 5
    Grace = 1
    NumFans = 2
    Timeouts = {6}
    DriverTimeout = 6
    SystemdTimeout = 6
    RestartDelay = 1
    Hazards = {"crash", "signal"}
INVARIANTS
    NoWindow
