SPECIFICATION FairSpec
CONSTANTS
    Worker = {w1, w2}
    MaxFrames = 3
    a = a
    Agent = {a}
    Root = Root
    Gen = {1}
    old1 = old1
    old2 = old2
    Past = {old1, old2}
    Prior <- MCPrior
    Free = Free
    Nil = Nil
INVARIANTS
    ChainLinked
    HeadMatchesStore
    SlotFree
    DropAdjacent
    DelegationCarried
    AnswerMatchesStore
PROPERTIES
    ProcessReturns
