CONSTANTS
    Words = {"a", "b"}
    None = None
    DefaultLimit = 1
    MaxLimit = 2
    Devices <- MCDevices
    Payloads <- MCPayloads
    MaxReadings = 2
    MaxNow = 2

SPECIFICATION Spec

INVARIANT PrunedIsGone

CHECK_DEADLOCK FALSE
