SPECIFICATION Spec
CONSTANTS
    None = None
    Undecodable = Undecodable
    Root = Root
    Agent = Agent
    MaxDay = 1
    MaxAdvance = 2
    MaxKey = 2
    MaxReceipts = 4
    MaxStarts = 2
INVARIANTS
    ResumedVerifies
CHECK_DEADLOCK FALSE
