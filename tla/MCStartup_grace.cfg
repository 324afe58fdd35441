\* The stop of a connector behind an egress proxy, against the pod's grace.
CONSTANTS
    Nothing = Nothing
    Fetched = Fetched
    Envs <- Bases
    Contents <- MCContents
    TestTicks = 2
    DrainTicks = 4
    ShutdownTicks = 1
SPECIFICATION StartupSpec
CHECK_DEADLOCK FALSE
INVARIANTS
    StopsWithinGrace
