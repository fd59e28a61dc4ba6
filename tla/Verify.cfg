SPECIFICATION Spec
CONSTANTS
    None = None
    Undecodable = Undecodable
    This = This
    Other = Other
    Stranger = Stranger
    MaxWritten = 3
    MaxDamage = 2
INVARIANTS
    FirstDefect
    OnlyHistory
    WitnessedWhole
    ConfirmedIsHistory
CHECK_DEADLOCK FALSE
