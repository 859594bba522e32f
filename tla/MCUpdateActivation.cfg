CONSTANTS
    NoFile = NoFile
    MaxVersion = 3
    MaxTxn = 2
    MaxMishaps = 3
    Keep = 2
    Downgrades = FALSE
    Orphans = "serving"
SPECIFICATION FairSpec
INVARIANTS TypeOK PriorRetained JournalNeverRefuses
PROPERTIES SwitchesVersions
