\* Two requests for one slot; rules swapped at any point; callers need not read; capped streams.
CONSTANTS
    r1 = r1
    r2 = r2
    Requests <- MCRequests
    Rulesets <- MCRulesets
    Slots = 1
    StreamCap = TRUE
SPECIFICATION LiveSpec
INVARIANTS
    SlotsExact
    StandingRulesApplied
PROPERTIES
    StreamsUnderRulesEnd
    WaitsEnd
