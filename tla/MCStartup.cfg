\* Environments near four that start, every way the rules file can be, and the
\* limits the code sets, in ticks of 5 s.  The process may end.
CONSTANTS
    Nothing = Nothing
    Fetched = Fetched
    Envs <- NearBy
    Contents <- MCContents
    TestTicks = 2
    DrainTicks = 4
    ShutdownTicks = 1
SPECIFICATION FairStartup
CHECK_DEADLOCK FALSE
INVARIANTS
    RoutesAgree
    RulesOfOneSource
    FileExitsAfterThree
    DirectStopsInTime
PROPERTIES
    EditsTakeEffect
