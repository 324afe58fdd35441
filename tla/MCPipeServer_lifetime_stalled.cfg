\* As MCPipeServer, with the one property a peer that stops reading breaks.
CONSTANTS
    p1 = p1
    p2 = p2
    c1 = c1
    Stopper = Stopper
    NoConn = NoConn
    Pipes <- MCPipes
    Conns <- MCConns
    MaxPipes = 1
SPECIFICATION LiveSpec
PROPERTY
    LapsedPipesEnd
CHECK_DEADLOCK FALSE
