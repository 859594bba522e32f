CONSTANTS
    j1 = j1  j2 = j2  t1 = t1  w1 = w1  w2 = w2
    NoDeadline = NoDeadline  NoJob = NoJob  NoOwner = NoOwner
    Jobs = {j1, j2}
    Threads = {t1}
    ThreadOf <- OneThread
    Priority <- EqualPriority
    Deadline <- NoDeadlines
    Workers = {w1, w2}
    MaxAttempts = 2
    LeaseSeconds = 1
    RetryDelays = {0}
    MaxDelay = 0
    MaxTime = 1
    MaxInputs = 0
    MaxLeases = 3
SYMMETRY WorkerSymmetry
SPECIFICATION TurnSpec
INVARIANTS AuditorClean ThreadInOrder
CHECK_DEADLOCK FALSE
