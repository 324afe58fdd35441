SPECIFICATION Spec
CONSTANTS
    Addresses <- MCAddresses
    Literals <- MCLiterals
    Deny <- MCDeny
    MaxAnswers = 3
    NoPort = NoPort
    None = None
    Pipes <- MCPipes
    Inbound <- MCInbound
    Policies <- MCPolicies
    Lookups <- MCLookups
    RuleSets <- MCRuleSets
    Documents <- MCDocuments
CHECK_DEADLOCK FALSE
INVARIANTS
    NoDialReachesDenied
    OneConnection
    TunnelIsUsable
    FieldsAsDocumented
    NothingElseIsLost
PROPERTIES
    SilentHidesNothing
