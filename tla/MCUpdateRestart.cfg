CONSTANTS
    NoFile = NoFile
    MaxVersion = 2
    MaxTxn = 2
    MaxMishaps = 0
    Keep = 2
    Downgrades = FALSE
    Orphans = "none"
SPECIFICATION Spec
INVARIANTS RestartServes
CHECK_DEADLOCK FALSE
