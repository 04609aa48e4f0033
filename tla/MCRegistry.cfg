CONSTANTS
    Callers = {c1, c2}
    Watcher = W
    Natives = {n1, n2}
    None = None
    MaxWrites = 2
    MaxBus = 1
    Words = {"a", "b"}

SPECIFICATION Spec

INVARIANTS
    TypeOK
    OneDevicePerNative
    GhostOnlyAfterDelete
    PartsNotOlder
    NoPhantomDeletion

PROPERTIES
    MessageAccounted

CHECK_DEADLOCK FALSE
