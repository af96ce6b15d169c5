SPECIFICATION MCSpec
CONSTANTS
    NumGpus = 2
    GpuThreshold = 1
    Structures <- MCStructures
    Configs <- MCConfigs
    Rejected = Rejected
    MaxInterval = 2
    MinLimit = 100000
    MaxLimit = 250000
    DefaultLimit = 250000
    Foreign <- MCForeign
    Hazards = {"read_fails", "set_fails", "foreign", "crash", "reboot"}
INVARIANTS
    TypeOK
    ExposureBounded
PROPERTIES
    WritesOnlyWhatWasAsked
    UnmeetableIsDeclared
