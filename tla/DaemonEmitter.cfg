SPECIFICATION Spec
CONSTANTS
    Caller = {c1, c2}
    MaxEmits = 3
    MaxOutages = 1
    None = None
INVARIANTS
    DropsConserved
    AnswerTrue
    NoLeak
    ConnOwned
