CONSTANTS
    w1 = w1
    w2 = w2
    c1 = c1
    j1 = j1
    j2 = j2
    Workers = {w1}
    CowWorkers = {}
    Controls = {c1}
    Jobs = {j1}
    MaxLeases = 2
SPECIFICATION LiveSpec
INVARIANTS
    OneLateCommit
PROPERTIES
    DrainSettles
