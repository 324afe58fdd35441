\* Two callers, two capabilities, a clock that reaches both expiries.
CONSTANTS
    p1 = p1
    p2 = p2
    early = early
    late = late
    Idle = Idle
    None = None
    Callers <- MCCallers
    Jtis <- MCJtis
    Expires <- MCExpires
    Issued <- MCIssued
    Tokens <- MCTokens
    Trusts <- MCTrusts
    Home = "prod"
    Self = "self"
    Target = "target"
    Skew = 2
    MaxLifetime = 1
    MaxOpens = 2
    MaxClock = 7
SPECIFICATION TrustSpec
SYMMETRY Symmetry
INVARIANTS
    LimitWhileLive
    StaleOpensBounded
    EnvironmentBound
    MigrationAgrees
PROPERTIES
    InTimeAccepted
