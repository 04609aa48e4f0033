CONSTANTS
    Dirs = {d1}
    Window = 7
    MaxInWindow = 4
    BackoffBase = 1
    BackoffCap = 3

SPECIFICATION Spec

INVARIANTS
    TypeOK
    DeadLetteredStaysDown
    RestartStormBounded

PROPERTIES
    DecisionMatchesContract
