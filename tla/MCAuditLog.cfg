CONSTANTS
    Garbled = Garbled
    Payloads = {a, b}
    Faults = {"io", "cancel", "crash"}
    MaxLines = 4

SPECIFICATION LogSpec

INVARIANTS
    LogTypeOK
    ChainIntact
    VerifiedMeansComplete

CHECK_DEADLOCK FALSE
