CONSTANTS
    MaxInputs = 3
    MaxPending = 1
    Oversized = {2}
SPECIFICATION FairSpec
INVARIANTS TypeOK ToldInOrder SteerReachesModel
PROPERTIES RunEnds
CHECK_DEADLOCK FALSE
