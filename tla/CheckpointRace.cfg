SPECIFICATION Spec
CONSTANTS
    Handler = {h1, h2}
    Root = Root
    c1 = c1
    Chain = {Root}
    Sink = {s1}
    Cadence = 1
    Depth = 2
    MaxSeq = 3
    MaxBoots = 1
    None = None
INVARIANT StrictlyIncreasing
