CONSTANTS
    Requests = {r1, s1, s2}
    Streams = {s1, s2}
    Kids = {"k1", "k2"}
    Docs <- MCDocs
    Codes = {"Ok", "Unavailable"}
    JwksTtl = 1
    FetchTimeout = 1
    MaxNow = 3
    Kid = "k1"
    MaxErrors = 1

SPECIFICATION FairSpec

INVARIANTS
    TypeOK
    EachErrorAddsALine

PROPERTIES
    TrustEnds
    PanelComesBack

CHECK_DEADLOCK FALSE
