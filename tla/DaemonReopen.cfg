SPECIFICATION DSpec
CONSTANTS
    Worker = {w1, w2}
    MaxFrames = 2
    a = a
    Agent = {a}
    Root = Root
    MaxAdvance = 1
    MaxBoots = 3
    Gen <- MCGen
    Past = {t1, t2, t3, t4, t5, t6}
    Prior <- MCPrior
    Free = Free
    Nil = Nil
INVARIANT NoneAfterTerminal
