SPECIFICATION FairSpec
CONSTANTS
    Capacity = 16
    Warmup = 100
    Sustained = 4
    Cooldown = 50
    MaxUtterance = 250
    SilenceTail = 12
INVARIANTS
    TypeOK
    CommandInOneGo
PROPERTY
    CycleEnds
CHECK_DEADLOCK FALSE
