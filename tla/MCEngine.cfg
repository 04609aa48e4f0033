CONSTANTS
    intent = intent
    lamp = lamp
    cmd = cmd
    quoting = quoting
    a = a
    b = b
    Log = Log
    Messages <- MCMessages
    RootOf <- MCRootOf
    RuleIds = {a, b}
    Rules <- MCRules
    Inputs = {intent, lamp, quoting}
    Endless <- MCEndless
    Absent = Absent
    MaxInt = 1
    MaxUint = 3
    MaxSource = 3
    Ttl = 2
    MaxNow = 4
    MaxInputs = 2

SPECIFICATION FairSpec

INVARIANTS
    TypeOK
    OneFiringPerWindow
    FiringAccounted

PROPERTY EngineMovesOn

CHECK_DEADLOCK FALSE
