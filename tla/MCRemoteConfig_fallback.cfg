\* Both sources set: the first fetch fails.
CONSTANTS
    docA = docA
    docB = docB
    docC = docC
    broken = broken
    None = None
    Docs <- MCDocs
    GoodDocs <- MCGoodDocs
    Objects <- MCObjects
    RequireSignature = TRUE
    FileRules = docA
    Skew = 1
    MaxClock = 4
    MaxRestarts = 1
SPECIFICATION Spec
CHECK_DEADLOCK FALSE
INVARIANT NoFallback
