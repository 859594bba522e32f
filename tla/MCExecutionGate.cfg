CONSTANTS
    w1 = w1
    w2 = w2
    c1 = c1
    j1 = j1
    j2 = j2
    Workers = {w1, w2}
    CowWorkers = {w2}
    Controls = {}
    Jobs = {j1}
    MaxLeases = 2
SPECIFICATION Spec
INVARIANTS
    GateTypeOK
    DrainedStaysIdle
    DrainLetsLeasesFinish
    PublishedPermitStands
    DrainHasHolder
