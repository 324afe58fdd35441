\* Two holders over three connections: replaced tunnels serve beside new ones,
\* and a stop comes at any moment.  A stopped connector stops.
CONSTANTS
    h1 = h1
    h2 = h2
    c1 = c1
    c2 = c2
    c3 = c3
    None = None
    Holders <- MCHolders
    Conns <- MCConns
SPECIFICATION LiveSpec
CHECK_DEADLOCK FALSE
INVARIANTS
    TunnelsAccounted
PROPERTIES
    StopClosesTunnels
    HoldersRedial
