CONSTANTS
    NoFile = NoFile
    MaxVersion = 2
    MaxTxn = 2
    MaxMishaps = 0
    Keep = 3
    Downgrades = TRUE
    Orphans = "none"
SPECIFICATION Spec
PROPERTIES OwnerByBarrier
CHECK_DEADLOCK FALSE
