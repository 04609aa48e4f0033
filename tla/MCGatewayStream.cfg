CONSTANTS
    Subjects = {s1, s2, s3}
    HardCap = 2
    BatchSize = 1
    Buffer = 2
    MaxPublishes = 5
    MaxPurges = 1

SPECIFICATION StreamFairSpec

INVARIANTS
    StreamTypeOK
    NothingMissed

PROPERTIES
    RewindIsRepaired
    GoesLive

CHECK_DEADLOCK FALSE
