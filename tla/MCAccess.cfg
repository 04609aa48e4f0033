CONSTANTS
    p1 = p1
    p2 = p2
    None = None
    Plugins = {p1, p2}
    Manifests <- MCManifests
    Topics <- MCTopics
    Filters <- MCFilters
    Urls <- MCUrls
    ReqCap = 1
    RespCap = 1
    MaxBytes = 2
    MaxRoutes = 1

SPECIFICATION Spec

INVARIANTS
    TypeOK
    HearsOnlyGranted
    AclServesPlugins

CHECK_DEADLOCK FALSE
