SPECIFICATION Spec
CONSTANTS
    NoTemp = NoTemp
    Temps = {0, 1, 2, 3, 4, 5, 6, 7, 8, 9, 10}
    Gpus <- TwoGpus
    ViewsOf <- SomeViews
INVARIANTS
    TargetWithinBands
    DutyKeepsTheEnds
    CurveFollowsItsPoints
PROPERTY WarmerNeverSlower
CHECK_DEADLOCK FALSE
