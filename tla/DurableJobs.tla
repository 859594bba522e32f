---------------------------- MODULE DurableJobs ----------------------------
(***************************************************************************)
(* The durable job store of the local runtime, ecorex/runtime/jobs.py:     *)
(* jobs are rows of one SQLite table, workers lease them under a fencing   *)
(* token for a bounded time, and every operation is one serialised write   *)
(* transaction (BEGIN IMMEDIATE), hence one action.                        *)
(*                                                                         *)
(* Two things are not atomic and are modelled as they are:                 *)
(*   - a caller reads the wall clock BEFORE it waits for the write lock,   *)
(*     so a transaction runs with an instant that may lie up to MaxDelay   *)
(*     in the past (parameter "at", see Captured);                         *)
(*   - a worker remembers its job and token in memory and keeps using them *)
(*     after the row has moved on; only the transaction's own checks stop  *)
(*     it. A worker may also die at any moment (Crash).                    *)
(*                                                                         *)
(* This module has the operations of the store for jobs that are not bound *)
(* to a conversational turn. TurnKernel extends it with turns.             *)
(***************************************************************************)
EXTENDS Integers, FiniteSets

CONSTANTS
    Jobs,          \* the job identities
    Threads,       \* the conversation threads
    ThreadOf,      \* the thread_id column of each job
    Priority,      \* the priority column of each job
    Deadline,      \* the deadline column of each job, or NoDeadline
    Workers,       \* worker identities
    MaxAttempts,   \* the max_attempts column
    LeaseSeconds,  \* lease_seconds of lease_next and heartbeat
    RetryDelays,   \* the retry delays a failing worker may ask for
    MaxDelay,      \* bound: age of a captured "now" when its transaction runs
    MaxTime,       \* bound: the clock stops here
    NoDeadline, NoJob, NoOwner

ASSUME JobsAssumption ==
    /\ Threads # {}
    /\ ThreadOf \in [Jobs -> Threads]
    /\ Priority \in [Jobs -> Int]
    /\ NoDeadline \notin Nat
    /\ Deadline \in [Jobs -> Nat \cup {NoDeadline}]
    /\ MaxAttempts \in Nat \ {0}
    /\ LeaseSeconds \in Nat \ {0}
    /\ RetryDelays \subseteq Nat
    /\ MaxDelay \in Nat
    /\ MaxTime \in Nat
    /\ NoJob \notin Jobs
    /\ NoOwner \notin Workers

VARIABLES
    now,         \* the wall clock
    rows,        \* number of rows inserted so far (SQLite rowid)
    minted,      \* number of fencing tokens minted so far
    status,      \* jobs.status, or "absent" before the row exists
    rowid,       \* rowid of the job's row
    attempt,     \* jobs.attempt
    owner,       \* jobs.lease_owner
    token,       \* jobs.lease_token; 0 is NULL
    expires,     \* jobs.lease_expires_at (meaningless while token = 0)
    available,   \* jobs.available_at
    preserve,    \* the checkpoint's preserve-attempt flag
    lastLeased,  \* scheduler_threads.last_leased_at; -1 when there is no row
    heldJob,     \* worker memory: the job it works on
    heldToken    \* worker memory: the token it was given

rowVars == <<status, rowid, attempt, owner, token, expires, available, preserve>>
jobVars == <<now, rows, minted, rowVars, lastLeased, heldJob, heldToken>>

-----------------------------------------------------------------------------
(* The status graph of protocol/models.py. *)

ActiveJob == {"leased", "running"}
ReadyJob == {"queued", "retry_scheduled"}
TerminalJob == {"completed", "failed", "cancelled", "dead_letter"}
OpenJob == ActiveJob \cup ReadyJob \cup {"waiting_human"}
JobStatus == OpenJob \cup TerminalJob \cup {"absent"}

JobTransitions ==
    [s \in JobStatus |->
        CASE s = "queued" -> {"leased", "cancelled", "failed"}
          [] s = "leased" -> {"running", "queued", "cancelled", "failed",
                              "dead_letter"}
          [] s = "running" -> {"waiting_human", "retry_scheduled", "completed",
                               "failed", "cancelled", "queued", "dead_letter"}
          [] s = "waiting_human" -> {"queued", "cancelled", "failed"}
          [] s = "retry_scheduled" -> {"leased", "cancelled", "failed",
                                       "dead_letter"}
          [] OTHER -> {}]

-----------------------------------------------------------------------------
(* Reading the table. *)

\* The instants a transaction that commits now may have read from the clock.
Captured == {t \in 0..now : now <= t + MaxDelay}

Overdue(j, at) == /\ status[j] \in OpenJob
                  /\ Deadline[j] # NoDeadline
                  /\ Deadline[j] <= at

\* MUTANT: only running jobs are looked at.
RunningExpired(j, at) == status[j] = "running" /\ expires[j] <= at

LeaseExpired(j, at) == status[j] \in ActiveJob /\ expires[j] <= at

\* MUTANT: the worker is taken at its word, whoever has leased the job since.
OwnsByJob(w, at) ==
    LET j == heldJob[w] IN
    /\ j # NoJob
    /\ status[j] \in ActiveJob
    /\ expires[j] > at

\* What every owner operation checks inside its transaction.
OwnsLive(w, at) ==
    LET j == heldJob[w] IN
    /\ j # NoJob
    /\ status[j] \in ActiveJob
    /\ owner[j] = w
    /\ token[j] = heldToken[w]
    /\ expires[j] > at

-----------------------------------------------------------------------------
(* Writing the table. *)

\* Clear the four lease columns of the jobs in S.
ClearLeases(S) ==
    /\ owner' = [j \in Jobs |-> IF j \in S THEN NoOwner ELSE owner[j]]
    /\ token' = [j \in Jobs |-> IF j \in S THEN 0 ELSE token[j]]
    /\ expires' = [j \in Jobs |-> IF j \in S THEN 0 ELSE expires[j]]

\* Expired leases the sweep takes back: its first half has already failed the
\* overdue ones.
Reclaimable(at) == {j \in Jobs : LeaseExpired(j, at) /\ ~Overdue(j, at)}

\* MUTANT: a status that the protocol does not know.
SweptToUnknown(at, recovered) ==
    [j \in Jobs |-> IF j \in Reclaimable(at) THEN "expired" ELSE status[j]]

\* MUTANT: a reclaimed job is scheduled like a failed attempt.
SweptToRetry(at, recovered) ==
    [j \in Jobs |->
        CASE Overdue(j, at) -> "failed"
          [] j \in Reclaimable(at) -> IF attempt[j] >= MaxAttempts
                                     THEN "dead_letter" ELSE "retry_scheduled"
          [] OTHER -> status[j]]

\* MUTANT: a reclaimed job is requeued however often it was attempted.
SweptWithoutBudget(at, recovered) ==
    [j \in Jobs |->
        CASE Overdue(j, at) -> "failed"
          [] j \in Reclaimable(at) -> IF j \in recovered THEN "completed" ELSE "queued"
          [] OTHER -> status[j]]

\* The maintenance sweep that opens lease_next and is reclaim_expired: overdue
\* jobs fail, then every expired lease is taken back. The jobs in "recovered"
\* are completed instead (see TurnKernel, RecoverFinalizing).
Swept(at, recovered) ==
    [j \in Jobs |->
        CASE Overdue(j, at) -> "failed"
          [] j \in Reclaimable(at) ->
                IF j \in recovered THEN "completed"
                ELSE IF attempt[j] >= MaxAttempts THEN "dead_letter"
                ELSE "queued"
          [] OTHER -> status[j]]

SweptJobs(at) == {j \in Jobs : Overdue(j, at)} \cup Reclaimable(at)

SweptAvailable(at, recovered) ==
    [j \in Jobs |-> IF j \in Reclaimable(at) \ recovered
                    THEN at ELSE available[j]]

\* MUTANT: a job that waits for its user does not hold its thread.
CandidatesPastWaiting(s, a, at) ==
    {j \in Jobs :
        /\ s[j] \in ReadyJob
        /\ a[j] <= at
        /\ Deadline[j] = NoDeadline \/ Deadline[j] > at
        /\ \A i \in Jobs :
             ThreadOf[i] = ThreadOf[j] /\ rowid[i] < rowid[j]
             => s[i] \notin ActiveJob \cup ReadyJob}

\* The jobs the scheduling query selects from, given the swept statuses s and
\* availabilities a: due, and no earlier row of the thread is still open.
Candidates(s, a, at) ==
    {j \in Jobs :
        /\ s[j] \in ReadyJob
        /\ a[j] <= at
        /\ Deadline[j] = NoDeadline \/ Deadline[j] > at
        /\ \A i \in Jobs :
             ThreadOf[i] = ThreadOf[j] /\ rowid[i] < rowid[j] => s[i] \notin OpenJob}

\* ORDER BY priority DESC, never leased first, oldest last_leased_at. Ties
\* (broken by created_at, rowid) are left open.
First(S) ==
    {j \in S : \A i \in S :
        \/ Priority[j] > Priority[i]
        \/ /\ Priority[j] = Priority[i]
           /\ lastLeased[ThreadOf[j]] <= lastLeased[ThreadOf[i]]}

\* MUTANT: a requeued job goes on with the attempt it was in.
AttemptUnlessRequeued(j) ==
    IF preserve[j] \/ (status[j] = "queued" /\ attempt[j] > 0)
    THEN attempt[j] ELSE attempt[j] + 1

\* The attempt number of the next lease, written back without the flag.
AttemptAtLease(j) == IF preserve[j] THEN attempt[j] ELSE attempt[j] + 1

\* new_id("fence"): a token no lease has carried before.
NewToken == minted + 1

-----------------------------------------------------------------------------
JobInit ==
    /\ now = 0
    /\ rows = 0
    /\ minted = 0
    /\ status = [j \in Jobs |-> "absent"]
    /\ rowid = [j \in Jobs |-> 0]
    /\ attempt = [j \in Jobs |-> 0]
    /\ owner = [j \in Jobs |-> NoOwner]
    /\ token = [j \in Jobs |-> 0]
    /\ expires = [j \in Jobs |-> 0]
    /\ available = [j \in Jobs |-> 0]
    /\ preserve = [j \in Jobs |-> FALSE]
    /\ lastLeased = [t \in Threads |-> -1]
    /\ heldJob = [w \in Workers |-> NoJob]
    /\ heldToken = [w \in Workers |-> 0]

Tick ==
    /\ now < MaxTime
    /\ now' = now + 1
    /\ UNCHANGED <<rows, minted, rowVars, lastLeased, heldJob, heldToken>>

\* Insert a queued row. A second call with the same idempotency key finds the
\* row and changes nothing.
Enqueue(j, at) ==
    /\ status[j] = "absent"
    /\ rows' = rows + 1
    /\ rowid' = [rowid EXCEPT ![j] = rows + 1]
    /\ status' = [status EXCEPT ![j] = "queued"]
    /\ available' = [available EXCEPT ![j] = at]
    /\ UNCHANGED <<now, minted, attempt, owner, token, expires, preserve,
                   lastLeased, heldJob, heldToken>>

\* reclaim_expired, and a lease_next that finds nothing to lease.
ReclaimExpired(at, recovered) ==
    /\ SweptJobs(at) # {}
    /\ status' = Swept(at, recovered)
    /\ available' = SweptAvailable(at, recovered)
    /\ ClearLeases(SweptJobs(at))
    /\ UNCHANGED <<now, rows, minted, rowid, attempt, preserve, lastLeased,
                   heldJob, heldToken>>

\* expire_deadline of one job.
ExpireDeadline(j, at) ==
    /\ Overdue(j, at)
    /\ status' = [status EXCEPT ![j] = "failed"]
    /\ ClearLeases({j})
    /\ UNCHANGED <<now, rows, minted, rowid, attempt, available, preserve,
                   lastLeased, heldJob, heldToken>>

\* One lease_next that leases job j: sweep, select, mint a token, and hand the
\* pair to the worker.
LeaseNext(w, j, at, recovered) ==
    LET s == Swept(at, recovered)
        a == SweptAvailable(at, recovered)
    IN
    /\ heldJob[w] = NoJob
    /\ j \in First(Candidates(s, a, at))
    /\ AttemptAtLease(j) <= MaxAttempts
    /\ minted' = minted + 1
    /\ status' = [s EXCEPT ![j] = "leased"]
    /\ attempt' = [attempt EXCEPT ![j] = AttemptAtLease(j)]
    /\ preserve' = [preserve EXCEPT ![j] = FALSE]
    /\ available' = a
    /\ owner' = [i \in Jobs |-> IF i = j THEN w
                 ELSE IF i \in SweptJobs(at) THEN NoOwner ELSE owner[i]]
    /\ token' = [i \in Jobs |-> IF i = j THEN NewToken
                 ELSE IF i \in SweptJobs(at) THEN 0 ELSE token[i]]
    /\ expires' = [i \in Jobs |-> IF i = j THEN at + LeaseSeconds
                   ELSE IF i \in SweptJobs(at) THEN 0 ELSE expires[i]]
    /\ lastLeased' = [lastLeased EXCEPT ![ThreadOf[j]] = at]
    /\ heldJob' = [heldJob EXCEPT ![w] = j]
    /\ heldToken' = [heldToken EXCEPT ![w] = NewToken]
    /\ UNCHANGED <<now, rows, rowid>>

\* One lease_next that selects job j although its attempts are used up: the table's
\* lease trigger rejects the UPDATE, the transaction with its sweep is rolled back, and
\* j stays at the head of the queue (last_leased_at is part of what is rolled back).
LeaseAborted(w, j, at, recovered) ==
    /\ heldJob[w] = NoJob
    /\ j \in First(Candidates(Swept(at, recovered), SweptAvailable(at, recovered), at))
    /\ AttemptAtLease(j) > MaxAttempts
    /\ UNCHANGED jobVars

\* The worker forgets its job: it finished, it was told LeaseError, or its
\* process died and restarted.
Forget(w) ==
    /\ heldJob' = [heldJob EXCEPT ![w] = NoJob]
    /\ heldToken' = [heldToken EXCEPT ![w] = 0]

Crash(w) ==
    /\ heldJob[w] # NoJob
    /\ Forget(w)
    /\ UNCHANGED <<now, rows, minted, rowVars, lastLeased>>

\* start, heartbeat and _finish_owned all begin by converging the deadline of
\* their own job; the call then reports LeaseError.
OwnerDeadline(w, at) ==
    /\ OwnsLive(w, at)
    /\ Overdue(heldJob[w], at)
    /\ status' = [status EXCEPT ![heldJob[w]] = "failed"]
    /\ ClearLeases({heldJob[w]})
    /\ Forget(w)
    /\ UNCHANGED <<now, rows, minted, rowid, attempt, available, preserve,
                   lastLeased>>

Start(w, at) ==
    /\ OwnsLive(w, at)
    /\ ~Overdue(heldJob[w], at)
    /\ status[heldJob[w]] = "leased"
    /\ status' = [status EXCEPT ![heldJob[w]] = "running"]
    /\ UNCHANGED <<now, rows, minted, rowid, attempt, owner, token, expires,
                   available, preserve, lastLeased, heldJob, heldToken>>

\* A worker's heartbeats follow its lease_next and one another, so the instant
\* of one is not older than the instant of the last.
Heartbeat(w, at) ==
    /\ OwnsLive(w, at)
    /\ at + LeaseSeconds >= expires[heldJob[w]]
    /\ ~Overdue(heldJob[w], at)
    /\ expires' = [expires EXCEPT ![heldJob[w]] = at + LeaseSeconds]
    /\ UNCHANGED <<now, rows, minted, status, rowid, attempt, owner, token,
                   available, preserve, lastLeased, heldJob, heldToken>>

\* _finish_owned: leave the active statuses and give the lease back.
FinishOwned(w, at, target, due) ==
    /\ OwnsLive(w, at)
    /\ ~Overdue(heldJob[w], at)
    /\ target \in JobTransitions[status[heldJob[w]]]
    /\ status' = [status EXCEPT ![heldJob[w]] = target]
    /\ available' = [available EXCEPT ![heldJob[w]] = due]
    /\ ClearLeases({heldJob[w]})
    /\ Forget(w)
    /\ UNCHANGED <<now, rows, minted, rowid, attempt, preserve, lastLeased>>

Complete(w, at) == FinishOwned(w, at, "completed", at)

WaitForHuman(w, at) == FinishOwned(w, at, "waiting_human", at)

\* fail() reads the attempt before its transaction; the lease it then has to
\* prove pins that attempt, so reading it inside is the same.
Fail(w, at, retryable, delay) ==
    LET j == heldJob[w] IN
    \/ /\ retryable /\ j # NoJob /\ attempt[j] < MaxAttempts
       /\ FinishOwned(w, at, "retry_scheduled", at + delay)
    \/ /\ retryable /\ j # NoJob /\ attempt[j] >= MaxAttempts
       /\ FinishOwned(w, at, "dead_letter", at)
    \/ /\ ~retryable
       /\ FinishOwned(w, at, "failed", at)

\* resume_waiting. JOB_TRANSITIONS would also let it requeue an active row, but
\* it keeps the lease columns and the table's trigger rejects that row.
ResumeWaiting(j, at) ==
    /\ status[j] \in {"waiting_human", "queued"}
    /\ ~Overdue(j, at)
    /\ status' = [status EXCEPT ![j] = "queued"]
    /\ available' = [available EXCEPT ![j] = at]
    /\ UNCHANGED <<now, rows, minted, rowid, attempt, owner, token, expires,
                   preserve, lastLeased, heldJob, heldToken>>

\* MUTANT: the lease columns are left behind.
CancelKeepsLease(j) ==
    /\ "cancelled" \in JobTransitions[status[j]]
    /\ status' = [status EXCEPT ![j] = "cancelled"]
    /\ UNCHANGED <<now, rows, minted, rowid, attempt, owner, token, expires,
                   available, preserve, lastLeased, heldJob, heldToken>>

\* cancel: the row and its lease, whoever holds it.
Cancel(j) ==
    /\ "cancelled" \in JobTransitions[status[j]]
    /\ status' = [status EXCEPT ![j] = "cancelled"]
    /\ ClearLeases({j})
    /\ UNCHANGED <<now, rows, minted, rowid, attempt, available, preserve,
                   lastLeased, heldJob, heldToken>>

JobNext ==
    \/ Tick
    \/ \E at \in Captured :
         \/ \E j \in Jobs : \/ Enqueue(j, at)
                           \/ ExpireDeadline(j, at)
                           \/ ResumeWaiting(j, at)
         \/ ReclaimExpired(at, {})
         \/ \E w \in Workers :
              \/ \E j \in Jobs : \/ LeaseNext(w, j, at, {})
                                \/ LeaseAborted(w, j, at, {})
              \/ OwnerDeadline(w, at)
              \/ Start(w, at)
              \/ Heartbeat(w, at)
              \/ Complete(w, at)
              \/ WaitForHuman(w, at)
              \/ \E retryable \in BOOLEAN, delay \in RetryDelays :
                    Fail(w, at, retryable, delay)
    \/ \E j \in Jobs : Cancel(j)
    \/ \E w \in Workers : Crash(w)

JobSpec == JobInit /\ [][JobNext]_jobVars

\* The supervisors poll lease_next and the share worker calls reclaim_expired in a
\* loop, each with a fresh reading of the clock; the clock itself runs. A lease_next
\* that aborts sweeps nothing, but only the pool of that job's kind selects the job:
\* the other pools and the share worker go on sweeping.
JobFairness ==
    /\ WF_jobVars(Tick)
    /\ WF_jobVars(ReclaimExpired(now, {}))

JobFairSpec == JobSpec /\ JobFairness

-----------------------------------------------------------------------------
(* Properties. *)

\* Type invariant of the job table and of the workers' memory. The table's triggers
\* keep attempt within max_attempts.
JobTypeOK ==
    /\ now \in Nat
    /\ rows \in Nat
    /\ minted \in Nat
    /\ status \in [Jobs -> JobStatus]
    /\ rowid \in [Jobs -> Nat]
    /\ attempt \in [Jobs -> 0..MaxAttempts]
    /\ owner \in [Jobs -> Workers \cup {NoOwner}]
    /\ token \in [Jobs -> Nat]
    /\ expires \in [Jobs -> Nat]
    /\ available \in [Jobs -> Nat]
    /\ preserve \in [Jobs -> BOOLEAN]
    /\ lastLeased \in [Threads -> Int]
    /\ heldJob \in [Workers -> Jobs \cup {NoJob}]
    /\ heldToken \in [Workers -> Nat]

\* A row carries a lease (owner, token) exactly while it is leased or running: every way
\* out of these statuses, by its worker, a sweep, a deadline or a cancellation, clears
\* the columns, and none of the ways in leaves them empty (database.py rejects the rest).
LeaseShape ==
    \A j \in Jobs :
        /\ status[j] \in ActiveJob <=> token[j] # 0
        /\ status[j] \in ActiveJob <=> owner[j] # NoOwner

\* A thread executes in order: while one of its jobs is leased or running,
\* every earlier job of the thread has reached a terminal status. Reclaiming,
\* cancelling and resuming other jobs of the thread never lets a later one
\* overtake (the NOT EXISTS clause of the scheduling query).
ThreadInOrder ==
    \A i, j \in Jobs :
        /\ status[j] \in ActiveJob
        /\ ThreadOf[i] = ThreadOf[j]
        /\ status[i] # "absent"
        /\ rowid[i] < rowid[j]
        => status[i] \in TerminalJob

\* The lease of the job that worker w remembers is w's, by owner and by token.
HoldsLease(w) ==
    /\ heldJob[w] # NoJob
    /\ owner[heldJob[w]] = w
    /\ token[heldJob[w]] = heldToken[w]

\* While a worker's lease runs and its job is not overdue, no step but its own or a
\* cancellation takes the lease away: not a sweep, not another worker that still
\* remembers the job. A worker that lost its lease, or whose lease expired before any
\* clock reading its call can carry, ends its work without a trace in the row.
Fenced(w) ==
    LET j == heldJob[w] IN
    /\ /\ HoldsLease(w)
       /\ expires[j] > now
       /\ ~Overdue(j, now)
       /\ heldJob'[w] = j
       => \/ owner'[j] = w /\ token'[j] = token[j]
          \/ status'[j] = "cancelled"
    /\ /\ j # NoJob
       /\ heldJob'[w] # j
       /\ ~HoldsLease(w) \/ expires[j] + MaxDelay <= now
       => /\ status'[j] = status[j]
          /\ owner'[j] = owner[j]
          /\ token'[j] = token[j]
          /\ available'[j] = available[j]

\* A lease that a step starts or renews is remembered by its holder: nobody extends the
\* lease of a dead worker.
Renewed(j) ==
    /\ token[j] # 0
    /\ token'[j] = token[j]
    /\ status'[j] # status[j] \/ expires'[j] # expires[j]
    => \E w \in Workers : heldJob[w] = j /\ HoldsLease(w)

\* Fencing: the owner and token test of _owned_row, with clock readings from the past,
\* refuses every late commit of a worker whose job was reclaimed or leased again, and
\* protects a lease in force from all others.
LeaseFencing ==
    [][(\A w \in Workers : Fenced(w)) /\ (\A j \in Jobs : Renewed(j))]_jobVars

\* Whether the next lease of job j would exceed its attempts: the lease trigger refuses
\* it, and with it every lease_next of the pool until the job is cancelled.
Spent(j) == status[j] \in ReadyJob /\ AttemptAtLease(j) > MaxAttempts

\* Only the answer to a question asked on the last attempt queues a job whose attempts
\* are used up; sweeps, retries and repeated answers never do.
SpentOnlyByAnswer ==
    [][\A j \in Jobs : Spent(j)' => Spent(j) \/ status[j] = "waiting_human"]_jobVars

\* Every committed status change is an edge of JOB_TRANSITIONS, the graph that
\* replay (replay/service.py) enforces on the events, although sweeps write
\* statuses without consulting it. One lease_next may take two edges: an
\* expired row is requeued and leased again by the same transaction.
JobTransitionsLegal ==
    [][\A j \in Jobs :
        status'[j] # status[j] =>
            \/ status[j] = "absent" /\ status'[j] = "queued"
            \/ status'[j] \in JobTransitions[status[j]]
            \/ /\ status[j] = "running" /\ status'[j] = "leased"
               /\ token'[j] # token[j]]_jobVars

\* A lease nobody renews is taken back: the job of a dead worker is requeued,
\* dead-lettered or failed.
ExpiredLeaseReclaimed ==
    \A j \in Jobs : \A k \in 1..(Cardinality(Jobs) * MaxAttempts) :
        (token[j] = k /\ expires[j] <= now)
            ~> (token[j] # k \/ expires[j] > now)
=============================================================================
