\* Two pipes for one slot on one tunnel, so the cap is reached while a stop, a
\* lost tunnel, reset streams and stalled peers interleave.  Pipes are opened
\* once each, and a stopped connector stops.
CONSTANTS
    p1 = p1
    p2 = p2
    c1 = c1
    Stopper = Stopper
    NoConn = NoConn
    Pipes <- MCPipes
    Conns <- MCConns
    MaxPipes = 1
SPECIFICATION LiveSpec
INVARIANTS
    SlotPerPipe
    EarlyPipesGetGrace
PROPERTIES
    StopEnds
    StopEndsPipes
    ReadPipesLapse
CHECK_DEADLOCK FALSE
