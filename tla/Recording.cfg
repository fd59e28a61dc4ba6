SPECIFICATION Spec
CONSTANTS
    None = None
    HookCap = 4
    MaxFrameSize = 20
    DefaultCap = 3
    MaxStarts = 2
    Calls = {"c1", "c2"}
    Sessions <- MCSessions
INVARIANTS
    AcceptedIsRecorded
    ToldAsItWas
    SealedForItsKey
    NothingInPlain
    FollowedOnce
CHECK_DEADLOCK FALSE
