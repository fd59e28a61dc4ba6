SPECIFICATION Spec
CONSTANTS
    None = None
    Undecodable = Undecodable
    Root = Root
    Agent = Agent
    MaxDay = 2
    MaxAdvance = 2
    MaxKey = 3
    MaxReceipts = 4
    MaxStarts = 2
INVARIANTS
    KeysAgree
    GenesisResolvable
    Witnessed
    HandoverVerdict
CHECK_DEADLOCK FALSE
