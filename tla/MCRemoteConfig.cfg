\* Signed configs, one restart and a local file; one config is newer than all
\* others.  The clock and the restarts are bounded, and the system stops there.
CONSTANTS
    docA = docA
    docB = docB
    docC = docC
    broken = broken
    None = None
    Docs <- MCDocs
    GoodDocs <- MCGoodDocs
    Objects <- MCObjects
    RequireSignature = TRUE
    FileRules = docB
    Skew = 1
    MaxClock = 4
    MaxRestarts = 1
SPECIFICATION LiveSpec
CHECK_DEADLOCK FALSE
INVARIANTS
    TunnelsNeedRules
    SuccessIsCurrent
    ReplayBounded
PROPERTIES
    NeverRollsBack
    NewestIsApplied
