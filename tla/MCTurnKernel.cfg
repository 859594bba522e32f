CONSTANTS
    j1 = j1  j2 = j2  t1 = t1  w1 = w1  w2 = w2
    NoDeadline = NoDeadline  NoJob = NoJob  NoOwner = NoOwner
    Jobs = {j1}
    Threads = {t1}
    ThreadOf <- OneThread
    Priority <- EqualPriority
    Deadline <- NoDeadlines
    Workers = {w1, w2}
    MaxAttempts = 2
    LeaseSeconds = 1
    RetryDelays = {0}
    MaxDelay = 1
    MaxTime = 3
    MaxInputs = 1
    MaxLeases = 3
SPECIFICATION TurnFairSpec
INVARIANTS TurnTypeOK AuditorClean TurnNotStranded SteerNotLost ReclaimKeyFresh OfferedWithinBudget
PROPERTIES TurnTransitionsLegal ResponseKept TerminalIsFinal FinalizingSettles
CHECK_DEADLOCK FALSE
