SPECIFICATION Spec
CONSTANTS
    None = None
    Server = "postgres"
    Rules <- MCRules
    Tools <- MCTools
    Key = {k1, k2}
    MaxCalls = 3
INVARIANTS
    Mediated
    Accounted
PROPERTIES
    Decided
CHECK_DEADLOCK FALSE
