CONSTANTS
    NoFile = NoFile
    MaxVersion = 2
    MaxTxn = 1
    MaxMishaps = 1
    Keep = 3
    Downgrades = FALSE
    Orphans = "any"
SPECIFICATION Spec
INVARIANTS NoRollbackPastBarrier
CHECK_DEADLOCK FALSE
