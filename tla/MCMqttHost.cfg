CONSTANTS
    p1 = p1
    p2 = p2
    f1 = f1
    bad = bad
    t1 = t1
    None = None
    Plugins = {p1, p2}
    Filters = {f1, bad}
    Topics = {t1}
    Matches <- MCMatches
    Granted <- MCGranted
    Malformed = {bad}
    Talkers = {p1}
    MailboxDepth = 1
    RequestDepth = 1
    MaxSpawns = 3
    MaxCalls = 1
    MaxInbound = 1

SPECIFICATION FairSpec

INVARIANTS
    TypeOK
    NoInheritedRoute
    RouteIsCounted

PROPERTIES
    ImplementsFilterWire
    NobodyHangs

CHECK_DEADLOCK FALSE
