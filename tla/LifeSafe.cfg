SPECIFICATION FairSpec
CONSTANTS
    NoTemp = NoTemp
    BiosMode = Bios
    NoSnapshot = NoSnapshot
    NoPct = NoPct
    MinRpm = 2
    MaxRpm = 5
    Grace = 1
    NumFans = 3
    Timeouts = {6, 8}
    DriverTimeout = 3
    SystemdTimeout = 6
    RestartDelay = 1
    Hazards = {"refused", "crash", "takeover_fails", "restore_fails", "disarm_fails", "fault", "signal", "drift"}
INVARIANTS
    TypeOK
    Guarded
    SnapshotsAreFirmware
PROPERTIES
    FailSafeSpec
    FaultStopsTheTimer
    
