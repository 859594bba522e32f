CONSTANTS
    j1 = j1  j2 = j2  t1 = t1  w1 = w1  w2 = w2
    NoDeadline = NoDeadline  NoJob = NoJob  NoOwner = NoOwner
    Jobs = {j1, j2}
    Threads = {t1}
    ThreadOf <- OneThread
    Priority <- EqualPriority
    Deadline <- EarlyDeadline
    Workers = {w1, w2}
    MaxAttempts = 2
    LeaseSeconds = 2
    RetryDelays = {0, 1}
    MaxDelay = 1
    MaxTime = 3
SPECIFICATION JobFairSpec
INVARIANTS JobTypeOK LeaseShape ThreadInOrder
PROPERTIES LeaseFencing SpentOnlyByAnswer JobTransitionsLegal ExpiredLeaseReclaimed
CHECK_DEADLOCK FALSE
