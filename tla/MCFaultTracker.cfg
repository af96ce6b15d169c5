SPECIFICATION MCSpec
CONSTANTS
    Gpus = {g1}
    Fans = {f1}
    GpuThreshold = 1
    FanThreshold = 2
    MaxTicks = 5
INVARIANTS
    FaultExactlyOnRun
CHECK_DEADLOCK FALSE
