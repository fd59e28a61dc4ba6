SPECIFICATION FairSpec
CONSTANTS
    Handler = {h1, h2}
    Root = Root
    c1 = c1
    Chain = {Root, c1}
    Sink = {s1}
    Cadence = 2
    Depth = 1
    MaxSeq = 3
    MaxBoots = 2
    None = None
INVARIANTS
    AnchoredIsStored
    AnchoredOnce
    NothingSwallowed
    FinalHeadAnchored
PROPERTIES
    ShutdownEnds
