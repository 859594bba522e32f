------------------------- MODULE DurableJobsProofs -------------------------
(***************************************************************************)
(* Theorems about DurableJobs, for every set of jobs, threads and workers  *)
(* and every lease time, attempt budget, delay and clock bound.            *)
(***************************************************************************)
EXTENDS DurableJobs, TLAPS

\* Row identities are handed out in order.
RowsInOrder == \A j \in Jobs : status[j] # "absent" => rowid[j] <= rows

\* Tokens in the table and in worker memories have been minted, and a worker
\* that remembers a job remembers a real token for it.
TokensMinted ==
    /\ \A j \in Jobs : token[j] <= minted
    /\ \A w \in Workers : heldToken[w] <= minted
    /\ \A w \in Workers : heldJob[w] # NoJob => heldToken[w] > 0

\* The inductive invariant.
JobInv ==
    /\ JobTypeOK
    /\ LeaseShape
    /\ RowsInOrder
    /\ ThreadInOrder
    /\ TokensMinted

-----------------------------------------------------------------------------
\* An instant a transaction works with is a reading of the clock.
LEMMA CapturedNat == ASSUME JobTypeOK, NEW at \in Captured PROVE at \in Nat
BY DEF JobTypeOK, Captured

\* No edge of JOB_TRANSITIONS leaves a terminal status or starts without a row.
LEMMA TransitionsType ==
    /\ \A s \in JobStatus : JobTransitions[s] \subseteq JobStatus \ {"absent"}
    /\ \A s \in TerminalJob \cup {"absent"} : JobTransitions[s] = {}
    /\ \A s \in JobStatus : JobTransitions[s] \cap ActiveJob \subseteq {"leased", "running"}
BY DEF JobTransitions, JobStatus, OpenJob, ActiveJob, ReadyJob, TerminalJob

\* What a sweep leaves behind: a job it does not touch keeps its status; one it
\* touches was open and is now queued or terminal.
LEMMA SweptStatus ==
    ASSUME JobTypeOK, NEW at \in Nat, NEW R, NEW j \in Jobs
    PROVE  /\ j \notin SweptJobs(at) => Swept(at, R)[j] = status[j]
           /\ j \in SweptJobs(at) =>
                /\ status[j] \in OpenJob
                /\ Swept(at, R)[j] \in {"queued"} \cup TerminalJob
           /\ status[j] \in ActiveJob /\ Swept(at, R)[j] = "queued" => attempt[j] < MaxAttempts
BY JobsAssumption
DEF JobTypeOK, SweptJobs, Swept, Overdue, Reclaimable, LeaseExpired, OpenJob,
    ActiveJob, ReadyJob, TerminalJob, JobStatus

-----------------------------------------------------------------------------
\* The types of the job table and of the workers' memories are preserved.
LEMMA TypeStep == ASSUME JobTypeOK, [JobNext]_jobVars PROVE JobTypeOK'
<1> USE JobsAssumption
<1> USE DEF JobTypeOK, JobStatus, OpenJob, ActiveJob, ReadyJob, TerminalJob
<1>1. CASE Tick
  BY <1>1 DEF Tick, rowVars
<1>2. ASSUME NEW at \in Captured, NEW j \in Jobs, Enqueue(j, at) PROVE JobTypeOK'
  BY <1>2, CapturedNat DEF Enqueue
<1>3. ASSUME NEW at \in Captured, NEW j \in Jobs, ExpireDeadline(j, at)
      PROVE  JobTypeOK'
  BY <1>3 DEF ExpireDeadline, ClearLeases
<1>4. ASSUME NEW at \in Captured, NEW j \in Jobs, ResumeWaiting(j, at)
      PROVE  JobTypeOK'
  BY <1>4, CapturedNat DEF ResumeWaiting
<1>5. ASSUME NEW at \in Captured, ReclaimExpired(at, {}) PROVE JobTypeOK'
  <2>1. at \in Nat
    BY CapturedNat
  <2>2. Swept(at, {}) \in [Jobs -> JobStatus]
    BY <2>1 DEF Swept
  <2>3. SweptAvailable(at, {}) \in [Jobs -> Nat]
    BY <2>1 DEF SweptAvailable
  <2> QED BY <1>5, <2>2, <2>3 DEF ReclaimExpired, ClearLeases
<1>6. ASSUME NEW at \in Captured, NEW w \in Workers, NEW j \in Jobs,
             LeaseNext(w, j, at, {})
      PROVE  JobTypeOK'
  <2>1. at \in Nat
    BY CapturedNat
  <2>2. Swept(at, {}) \in [Jobs -> JobStatus]
    BY <2>1 DEF Swept
  <2>3. SweptAvailable(at, {}) \in [Jobs -> Nat]
    BY <2>1 DEF SweptAvailable
  <2>4. AttemptAtLease(j) \in 0..MaxAttempts
    BY <1>6 DEF AttemptAtLease, LeaseNext
  <2> QED BY <1>6, <2>1, <2>2, <2>3, <2>4 DEF LeaseNext, NewToken
<1>7. ASSUME NEW at \in Captured, NEW w \in Workers, OwnerDeadline(w, at)
      PROVE  JobTypeOK'
  BY <1>7 DEF OwnerDeadline, ClearLeases, Forget, OwnsLive
<1>8. ASSUME NEW at \in Captured, NEW w \in Workers, Start(w, at)
      PROVE  JobTypeOK'
  BY <1>8 DEF Start
<1>9. ASSUME NEW at \in Captured, NEW w \in Workers, Heartbeat(w, at)
      PROVE  JobTypeOK'
  <2>1. at + LeaseSeconds \in Nat
    BY CapturedNat
  <2> QED BY <1>9, <2>1 DEF Heartbeat
<1>10. ASSUME NEW at \in Captured, NEW w \in Workers, NEW target, NEW due \in Nat,
              FinishOwned(w, at, target, due)
       PROVE  JobTypeOK'
  <2>1. heldJob[w] \in Jobs
    BY <1>10 DEF FinishOwned, OwnsLive
  <2>2. target \in JobStatus
    BY <1>10, <2>1, TransitionsType DEF FinishOwned
  <2> QED BY <1>10, <2>1, <2>2 DEF FinishOwned, ClearLeases, Forget
<1>11. ASSUME NEW at \in Captured, NEW w \in Workers, Complete(w, at)
       PROVE  JobTypeOK'
  BY <1>10, <1>11, CapturedNat DEF Complete
<1>12. ASSUME NEW at \in Captured, NEW w \in Workers, WaitForHuman(w, at)
       PROVE  JobTypeOK'
  BY <1>10, <1>12, CapturedNat DEF WaitForHuman
<1>13. ASSUME NEW at \in Captured, NEW w \in Workers, NEW retryable \in BOOLEAN,
              NEW delay \in RetryDelays, Fail(w, at, retryable, delay)
       PROVE  JobTypeOK'
  <2>1. at \in Nat /\ at + delay \in Nat
    BY CapturedNat
  <2> QED BY <1>10, <1>13, <2>1 DEF Fail
<1>14. ASSUME NEW j \in Jobs, Cancel(j) PROVE JobTypeOK'
  BY <1>14 DEF Cancel, ClearLeases
<1>15. ASSUME NEW w \in Workers, Crash(w) PROVE JobTypeOK'
  BY <1>15 DEF Crash, Forget, rowVars
<1>16. CASE UNCHANGED jobVars
  BY <1>16 DEF jobVars, rowVars
<1> QED
  BY <1>1, <1>2, <1>3, <1>4, <1>5, <1>6, <1>7, <1>8, <1>9, <1>11, <1>12, <1>13,
     <1>14, <1>15, <1>16 DEF JobNext, LeaseAborted

\* The job table and the workers' memories are well typed in every state.
THEOREM JobTypeCorrect == JobSpec => []JobTypeOK
<1>1. JobInit => JobTypeOK
  BY JobsAssumption DEF JobInit, JobTypeOK, JobStatus
<1>2. JobTypeOK /\ [JobNext]_jobVars => JobTypeOK'
  BY TypeStep
<1> QED BY <1>1, <1>2, PTL DEF JobSpec

-----------------------------------------------------------------------------
\* An operation that moves one open job out of the leased and running statuses,
\* gives its lease back and lets at most its worker forget it keeps every part
\* of the invariant: deadlines, cancellation and all ways to finish a job.
LEMMA CloseStep ==
    ASSUME JobInv, NEW j \in Jobs, status[j] \in OpenJob,
           NEW t \in JobStatus \ (ActiveJob \cup {"absent"}),
           status' = [status EXCEPT ![j] = t],
           ClearLeases({j}),
           UNCHANGED <<rows, minted, rowid>>,
           UNCHANGED <<heldJob, heldToken>> \/ \E w \in Workers : Forget(w)
    PROVE  LeaseShape' /\ RowsInOrder' /\ ThreadInOrder' /\ TokensMinted'
<1> USE JobsAssumption
<1> USE DEF JobInv, JobTypeOK
<1>1. LeaseShape'
  BY DEF LeaseShape, ClearLeases
<1>2. RowsInOrder'
  BY DEF RowsInOrder, OpenJob, ActiveJob, ReadyJob
<1>3. ThreadInOrder'
  BY DEF ThreadInOrder, OpenJob, ActiveJob, ReadyJob, TerminalJob
<1>4. TokensMinted'
  <2>1. \A i \in Jobs : token'[i] <= minted'
    BY DEF TokensMinted, ClearLeases
  <2>2. CASE UNCHANGED <<heldJob, heldToken>>
    BY <2>1, <2>2 DEF TokensMinted
  <2>3. ASSUME NEW w \in Workers, Forget(w) PROVE TokensMinted'
    BY <2>1, <2>3 DEF TokensMinted, Forget
  <2> QED BY <2>2, <2>3
<1> QED BY <1>1, <1>2, <1>3, <1>4

\* Inserting a row: it is the youngest, and it is not leased.
LEMMA EnqueueStep ==
    ASSUME JobInv, NEW at \in Nat, NEW j \in Jobs, Enqueue(j, at)
    PROVE  LeaseShape' /\ RowsInOrder' /\ ThreadInOrder' /\ TokensMinted'
<1> USE JobsAssumption
<1> USE DEF JobInv, JobTypeOK, Enqueue
<1>1. LeaseShape'
  BY DEF LeaseShape, ActiveJob
<1>2. RowsInOrder'
  BY DEF RowsInOrder
<1>3. ThreadInOrder'
  <2> SUFFICES ASSUME NEW i \in Jobs, NEW k \in Jobs, status'[k] \in ActiveJob,
                      ThreadOf[i] = ThreadOf[k], status'[i] # "absent",
                      rowid'[i] < rowid'[k]
               PROVE  status'[i] \in TerminalJob
    BY DEF ThreadInOrder
  <2>1. k # j /\ status[k] \in ActiveJob /\ rowid'[k] = rowid[k]
    BY DEF ActiveJob
  <2>2. rowid[k] <= rows
    BY <2>1 DEF RowsInOrder, ActiveJob
  <2>3. i # j
    BY <2>1, <2>2
  <2> QED BY <2>1, <2>3 DEF ThreadInOrder
<1>4. TokensMinted'
  BY DEF TokensMinted
<1> QED BY <1>1, <1>2, <1>3, <1>4

\* A sweep: what it takes back it leaves without a lease, and it reopens no
\* job behind which a later one of the thread is running.
LEMMA ReclaimStep ==
    ASSUME JobInv, NEW at \in Nat, NEW R, ReclaimExpired(at, R)
    PROVE  LeaseShape' /\ RowsInOrder' /\ ThreadInOrder' /\ TokensMinted'
<1> USE JobsAssumption
<1> USE DEF JobInv, ReclaimExpired
<1>1. \A i \in Jobs : /\ i \notin SweptJobs(at) => status'[i] = status[i]
                      /\ i \in SweptJobs(at) => status[i] \in OpenJob
                      /\ i \in SweptJobs(at) =>
                            status'[i] \in {"queued"} \cup TerminalJob
  BY SweptStatus
<1>2. LeaseShape'
  BY <1>1 DEF JobTypeOK, LeaseShape, ClearLeases, ActiveJob, TerminalJob
<1>3. RowsInOrder'
  BY <1>1 DEF RowsInOrder, OpenJob, ActiveJob, ReadyJob
<1>4. ThreadInOrder'
  BY <1>1 DEF ThreadInOrder, OpenJob, ActiveJob, ReadyJob, TerminalJob
<1>5. TokensMinted'
  BY DEF JobTypeOK, TokensMinted, ClearLeases
<1> QED BY <1>2, <1>3, <1>4, <1>5

\* A lease: the scheduling query selected a job whose predecessors are done,
\* and the token it gets is new.
LEMMA LeaseStep ==
    ASSUME JobInv, NEW at \in Nat, NEW R, NEW w \in Workers, NEW j \in Jobs,
           LeaseNext(w, j, at, R)
    PROVE  LeaseShape' /\ RowsInOrder' /\ ThreadInOrder' /\ TokensMinted'
<1> USE JobsAssumption
<1> DEFINE s == Swept(at, R)
<1>1. \A i \in Jobs : /\ i \notin SweptJobs(at) => s[i] = status[i]
                      /\ i \in SweptJobs(at) => status[i] \in OpenJob
                      /\ i \in SweptJobs(at) => s[i] \in {"queued"} \cup TerminalJob
  BY SweptStatus DEF JobInv
<1>2. /\ s[j] \in ReadyJob
      /\ \A i \in Jobs :
            ThreadOf[i] = ThreadOf[j] /\ rowid[i] < rowid[j] => s[i] \notin OpenJob
  BY DEF LeaseNext, First, Candidates
<1>3. /\ status'[j] = "leased"
      /\ \A i \in Jobs \ {j} : status'[i] = s[i]
  BY DEF LeaseNext, Swept
<1>4. LeaseShape'
  <2>1. ASSUME NEW i \in Jobs, i # j
        PROVE  /\ status'[i] \in ActiveJob <=> token'[i] # 0
               /\ status'[i] \in ActiveJob <=> owner'[i] # NoOwner
    BY <1>1, <1>3, <2>1
    DEF JobInv, JobTypeOK, LeaseShape, LeaseNext, ActiveJob, TerminalJob
  <2>2. /\ status'[j] \in ActiveJob
        /\ token'[j] # 0
        /\ owner'[j] # NoOwner
    BY <1>3 DEF JobInv, JobTypeOK, LeaseNext, NewToken, ActiveJob
  <2> QED BY <2>1, <2>2 DEF LeaseShape
<1>5. RowsInOrder'
  <2>1. \A i \in Jobs : status'[i] # "absent" => status[i] # "absent"
    BY <1>1, <1>2, <1>3 DEF OpenJob, ActiveJob, ReadyJob
  <2> QED BY <2>1 DEF JobInv, RowsInOrder, LeaseNext
<1>6. ThreadInOrder'
  <2> SUFFICES ASSUME NEW i \in Jobs, NEW k \in Jobs, status'[k] \in ActiveJob,
                      ThreadOf[i] = ThreadOf[k], status'[i] # "absent",
                      rowid'[i] < rowid'[k]
               PROVE  status'[i] \in TerminalJob
    BY DEF ThreadInOrder
  <2>1. rowid' = rowid
    BY DEF LeaseNext
  <2>2. CASE k = j
    <3>1. i # j
      BY <2>1, <2>2 DEF JobInv, JobTypeOK
    <3>2. s[i] \notin OpenJob /\ s[i] # "absent"
      BY <1>2, <1>3, <2>1, <2>2, <3>1
    <3>3. s[i] \in JobStatus
      BY <1>1 DEF JobInv, JobTypeOK, JobStatus, OpenJob, ReadyJob
    <3> QED BY <1>3, <3>1, <3>2, <3>3 DEF JobStatus
  <2>3. CASE k # j
    <3>1. k \notin SweptJobs(at) /\ status[k] \in ActiveJob
      BY <1>1, <1>3, <2>3 DEF ActiveJob, TerminalJob
    <3>2. status[i] # "absent"
      BY <1>1, <1>2, <1>3 DEF OpenJob, ActiveJob, ReadyJob
    <3>3. status[i] \in TerminalJob
      BY <2>1, <3>1, <3>2 DEF JobInv, ThreadInOrder
    <3>4. i \notin SweptJobs(at)
      BY <1>1, <3>3 DEF OpenJob, ActiveJob, ReadyJob, TerminalJob
    <3>5. i # j
      BY <1>1, <1>2, <3>3, <3>4 DEF ReadyJob, TerminalJob
    <3> QED BY <1>1, <1>3, <3>3, <3>4, <3>5
  <2> QED BY <2>2, <2>3
<1>7. TokensMinted'
  BY DEF JobInv, JobTypeOK, TokensMinted, LeaseNext, NewToken
<1> QED BY <1>4, <1>5, <1>6, <1>7

-----------------------------------------------------------------------------
\* The invariant is inductive.
LEMMA InvStep == ASSUME JobInv, [JobNext]_jobVars PROVE JobInv'
<1> USE JobsAssumption
<1> DEFINE Rest == LeaseShape /\ RowsInOrder /\ ThreadInOrder /\ TokensMinted
<1>1. ASSUME Tick PROVE Rest'
  BY <1>1 DEF Tick, rowVars, JobInv, LeaseShape, RowsInOrder, ThreadInOrder,
              TokensMinted
<1>2. ASSUME NEW at \in Captured, NEW j \in Jobs, Enqueue(j, at) PROVE Rest'
  <2>1. at \in Nat
    BY CapturedNat DEF JobInv
  <2> QED BY <1>2, <2>1, EnqueueStep
<1>3. ASSUME NEW at \in Captured, NEW j \in Jobs, ExpireDeadline(j, at) PROVE Rest'
  <2>1. "failed" \in JobStatus \ (ActiveJob \cup {"absent"})
    BY DEF JobStatus, TerminalJob, ActiveJob
  <2> QED BY <1>3, <2>1, CloseStep DEF ExpireDeadline, Overdue
<1>4. ASSUME NEW at \in Captured, NEW j \in Jobs, ResumeWaiting(j, at) PROVE Rest'
  BY <1>4 DEF ResumeWaiting, JobInv, JobTypeOK, LeaseShape, RowsInOrder,
              ThreadInOrder, TokensMinted, ActiveJob, TerminalJob
<1>5. ASSUME NEW at \in Captured, ReclaimExpired(at, {}) PROVE Rest'
  <2>1. at \in Nat
    BY CapturedNat DEF JobInv
  <2> QED BY <1>5, <2>1, ReclaimStep
<1>6. ASSUME NEW at \in Captured, NEW w \in Workers, NEW j \in Jobs,
             LeaseNext(w, j, at, {})
      PROVE  Rest'
  <2>1. at \in Nat
    BY CapturedNat DEF JobInv
  <2> QED BY <1>6, <2>1, LeaseStep
<1>7. ASSUME NEW at \in Captured, NEW w \in Workers, OwnerDeadline(w, at)
      PROVE  Rest'
  <2>1. "failed" \in JobStatus \ (ActiveJob \cup {"absent"})
    BY DEF JobStatus, TerminalJob, ActiveJob
  <2>2. heldJob[w] \in Jobs
    BY <1>7 DEF OwnerDeadline, OwnsLive, JobInv, JobTypeOK
  <2> QED BY <1>7, <2>1, <2>2, CloseStep DEF OwnerDeadline, Overdue
<1>8. ASSUME NEW at \in Captured, NEW w \in Workers, Start(w, at) PROVE Rest'
  <2>1. heldJob[w] \in Jobs
    BY <1>8 DEF Start, OwnsLive, JobInv, JobTypeOK
  <2> QED BY <1>8, <2>1 DEF Start, JobInv, JobTypeOK, LeaseShape, RowsInOrder,
             ThreadInOrder, TokensMinted, ActiveJob, TerminalJob
<1>9. ASSUME NEW at \in Captured, NEW w \in Workers, Heartbeat(w, at) PROVE Rest'
  BY <1>9 DEF Heartbeat, JobInv, LeaseShape, RowsInOrder, ThreadInOrder,
              TokensMinted
<1>10. ASSUME NEW at \in Captured, NEW w \in Workers, NEW due,
              NEW target \in {"completed", "waiting_human", "failed",
                              "retry_scheduled", "dead_letter"},
              FinishOwned(w, at, target, due)
       PROVE  Rest'
  <2>1. target \in JobStatus \ (ActiveJob \cup {"absent"})
    BY DEF JobStatus, OpenJob, ReadyJob, TerminalJob, ActiveJob
  <2>2. heldJob[w] \in Jobs /\ status[heldJob[w]] \in OpenJob
    BY <1>10 DEF FinishOwned, OwnsLive, OpenJob, JobInv, JobTypeOK
  <2> QED BY <1>10, <2>1, <2>2, CloseStep DEF FinishOwned
<1>11. ASSUME NEW at \in Captured, NEW w \in Workers,
              NEW retryable \in BOOLEAN, NEW delay \in RetryDelays,
              Complete(w, at) \/ WaitForHuman(w, at) \/ Fail(w, at, retryable, delay)
       PROVE  Rest'
  BY <1>10, <1>11 DEF Complete, WaitForHuman, Fail
<1>12. ASSUME NEW at \in Captured, NEW w \in Workers,
              Complete(w, at) \/ WaitForHuman(w, at)
       PROVE  Rest'
  BY <1>10, <1>12 DEF Complete, WaitForHuman
<1>13. ASSUME NEW j \in Jobs, Cancel(j) PROVE Rest'
  <2>1. "cancelled" \in JobStatus \ (ActiveJob \cup {"absent"})
    BY DEF JobStatus, TerminalJob, ActiveJob
  <2>2. status[j] \in OpenJob
    BY <1>13, TransitionsType DEF Cancel, JobInv, JobTypeOK, JobStatus
  <2> QED BY <1>13, <2>1, <2>2, CloseStep DEF Cancel
<1>14. ASSUME NEW w \in Workers, Crash(w) PROVE Rest'
  BY <1>14 DEF Crash, Forget, rowVars, JobInv, JobTypeOK, LeaseShape, RowsInOrder,
              ThreadInOrder, TokensMinted
<1>15. ASSUME UNCHANGED jobVars PROVE Rest'
  BY <1>15 DEF jobVars, rowVars, JobInv, LeaseShape, RowsInOrder, ThreadInOrder,
              TokensMinted
<1>16. JobTypeOK'
  BY TypeStep DEF JobInv
<1> QED
  BY <1>1, <1>2, <1>3, <1>4, <1>5, <1>6, <1>7, <1>8, <1>9, <1>11, <1>12, <1>13,
     <1>14, <1>15, <1>16 DEF JobNext, JobInv, LeaseAborted

\* JobInv holds in every reachable state of the store.
LEMMA InvCorrect == JobSpec => []JobInv
<1>1. JobInit => JobInv
  BY JobsAssumption
  DEF JobInit, JobInv, JobTypeOK, JobStatus, LeaseShape, RowsInOrder,
      ThreadInOrder, TokensMinted, ActiveJob
<1>2. JobInv /\ [JobNext]_jobVars => JobInv'
  BY InvStep
<1> QED BY <1>1, <1>2, PTL DEF JobSpec

\* A row of the jobs table carries a lease exactly while it is leased or running.
THEOREM LeaseShapeCorrect == JobSpec => []LeaseShape
<1>1. JobInv => LeaseShape
  BY DEF JobInv
<1> QED BY <1>1, InvCorrect, PTL

\* The jobs of a thread execute in the order of their rows, for any number of
\* threads, jobs and workers, however leases expire and workers die.
THEOREM ThreadInOrderCorrect == JobSpec => []ThreadInOrder
<1>1. JobInv => ThreadInOrder
  BY DEF JobInv
<1> QED BY <1>1, InvCorrect, PTL

-----------------------------------------------------------------------------
\* What a step may do to leases.
FencingStep == (\A w \in Workers : Fenced(w)) /\ (\A j \in Jobs : Renewed(j))

\* A transaction sees a lease that has expired for every instant it may carry, and none
\* that is in force.
LEMMA CapturedLease ==
    ASSUME JobTypeOK, NEW at \in Captured, NEW j \in Jobs
    PROVE  /\ at \in Nat
           /\ expires[j] > now => expires[j] > at
           /\ expires[j] + MaxDelay <= now => expires[j] <= at
           /\ Overdue(j, at) => Overdue(j, now)
BY JobsAssumption DEF JobTypeOK, Captured, Overdue

\* Steps that leave the leases and the memories alone.
LEMMA FencingFrame ==
    ASSUME JobInv, UNCHANGED <<owner, token, expires, heldJob>>,
           \A j \in Jobs : token[j] # 0 => status'[j] = status[j]
    PROVE  FencingStep
BY DEF FencingStep, Fenced, Renewed, HoldsLease

\* Steps that close the jobs in S, whose leases are not in force or are cancelled, and
\* are no worker's end of work.
LEMMA FencingClose ==
    ASSUME JobInv, NEW S \in SUBSET Jobs, ClearLeases(S), UNCHANGED heldJob,
           \A j \in Jobs \ S : status'[j] = status[j] \/ token[j] = 0,
           \A j \in S : \/ status'[j] = "cancelled" \/ token[j] = 0
                        \/ expires[j] <= now \/ Overdue(j, now)
    PROVE  FencingStep
<1> USE JobsAssumption
<1>1. ASSUME NEW j \in Jobs PROVE Renewed(j)
  BY DEF Renewed, ClearLeases, JobInv, JobTypeOK
<1>2. ASSUME NEW w \in Workers PROVE Fenced(w)
  <2>1. CASE heldJob[w] = NoJob
    BY <2>1 DEF Fenced, HoldsLease
  <2>2. CASE heldJob[w] # NoJob
    <3>1. heldJob[w] \in Jobs
      BY <2>2 DEF JobInv, JobTypeOK
    <3>2. HoldsLease(w) => token[heldJob[w]] # 0
      BY <2>2 DEF HoldsLease, JobInv, JobTypeOK, TokensMinted
    <3> QED
      BY <3>1, <3>2 DEF Fenced, HoldsLease, ClearLeases, JobInv, JobTypeOK
  <2> QED BY <2>1, <2>2
<1> QED BY <1>1, <1>2 DEF FencingStep

\* A worker that owns its lease gives it back and forgets it.
LEMMA FencingFinish ==
    ASSUME JobInv, NEW w \in Workers, NEW at \in Captured, OwnsLive(w, at), Forget(w),
           ClearLeases({heldJob[w]}),
           \A j \in Jobs \ {heldJob[w]} : status'[j] = status[j]
    PROVE  FencingStep
<1> USE JobsAssumption
<1> DEFINE k == heldJob[w]
<1>1. k \in Jobs /\ HoldsLease(w) /\ token[k] # 0 /\ ~(expires[k] + MaxDelay <= now)
  <2>1. k \in Jobs /\ HoldsLease(w) /\ expires[k] > at
    BY DEF OwnsLive, HoldsLease, JobInv, JobTypeOK
  <2>2. token[k] # 0
    BY <2>1 DEF HoldsLease, JobInv, JobTypeOK, TokensMinted
  <2>3. ~(expires[k] + MaxDelay <= now)
    BY <2>1, CapturedLease DEF JobInv, JobTypeOK
  <2> QED BY <2>1, <2>2, <2>3
<1>2. ASSUME NEW j \in Jobs PROVE Renewed(j)
  BY <1>1 DEF Renewed, ClearLeases, JobInv, JobTypeOK
<1>3. ASSUME NEW v \in Workers PROVE Fenced(v)
  <2>1. CASE v = w
    <3>1. heldJob'[w] # k
      BY <1>1 DEF Forget, JobInv, JobTypeOK
    <3> QED BY <1>1, <2>1, <3>1 DEF Fenced
  <2>2. CASE v # w
    <3>1. heldJob'[v] = heldJob[v]
      BY <2>2 DEF Forget, JobInv, JobTypeOK
    <3>2. HoldsLease(v) => heldJob[v] # k
      BY <1>1, <2>2 DEF HoldsLease
    <3>3. HoldsLease(v) => heldJob[v] \in Jobs
      BY DEF HoldsLease, JobInv, JobTypeOK
    <3>4. ASSUME HoldsLease(v)
          PROVE  owner'[heldJob[v]] = v /\ token'[heldJob[v]] = token[heldJob[v]]
      BY <3>2, <3>3, <3>4 DEF HoldsLease, ClearLeases
    <3> QED BY <3>1, <3>4 DEF Fenced
  <2> QED BY <2>1, <2>2
<1> QED BY <1>2, <1>3 DEF FencingStep

\* A worker that owns its lease starts its job or renews the lease.
LEMMA FencingRenew ==
    ASSUME JobInv, NEW w \in Workers, NEW at \in Captured, OwnsLive(w, at),
           UNCHANGED <<owner, token, heldJob>>,
           \A j \in Jobs \ {heldJob[w]} : status'[j] = status[j] /\ expires'[j] = expires[j]
    PROVE  FencingStep
<1>1. heldJob[w] \in Jobs /\ HoldsLease(w)
  BY JobsAssumption DEF OwnsLive, HoldsLease, JobInv, JobTypeOK
<1>2. ASSUME NEW j \in Jobs PROVE Renewed(j)
  BY <1>1 DEF Renewed
<1>3. ASSUME NEW v \in Workers PROVE Fenced(v)
  BY DEF Fenced, HoldsLease
<1> QED BY <1>2, <1>3 DEF FencingStep

\* A lease that is in force is neither reclaimed nor failed by the sweep.
LEMMA SweepSparesLease ==
    ASSUME JobInv, NEW at \in Captured, NEW j \in SweptJobs(at)
    PROVE  token[j] = 0 \/ expires[j] <= now \/ Overdue(j, now)
BY JobsAssumption, CapturedLease
DEF SweptJobs, Reclaimable, LeaseExpired, Captured, JobInv, JobTypeOK

\* lease_next, its sweep included.
LEMMA FencingLease ==
    ASSUME JobInv, NEW at \in Captured, NEW R, NEW w \in Workers, NEW j \in Jobs,
           LeaseNext(w, j, at, R)
    PROVE  FencingStep
<1> USE JobsAssumption
<1>1. at \in Nat
  BY CapturedNat DEF JobInv
<1>2. token[j] = 0 \/ j \in SweptJobs(at)
  <2>1. Swept(at, R)[j] \in ReadyJob
    BY DEF LeaseNext, First, Candidates
  <2>2. j \notin SweptJobs(at) => status[j] \in ReadyJob
    BY <1>1, <2>1, SweptStatus DEF JobInv
  <2> QED BY <2>2 DEF JobInv, LeaseShape, ActiveJob, ReadyJob
<1>3. ASSUME NEW i \in Jobs, i # j
      PROVE  /\ i \notin SweptJobs(at) =>
                  /\ status'[i] = status[i] /\ owner'[i] = owner[i]
                  /\ token'[i] = token[i] /\ expires'[i] = expires[i]
             /\ i \in SweptJobs(at) => token'[i] = 0
  BY <1>1, <1>3, SweptStatus DEF LeaseNext, Swept, JobInv
<1>4. token'[j] = minted + 1
  BY DEF LeaseNext, NewToken, JobInv, JobTypeOK
<1>5. ASSUME NEW i \in Jobs PROVE Renewed(i)
  BY <1>3, <1>4, <1>5 DEF Renewed, JobInv, JobTypeOK, TokensMinted
<1>6. ASSUME NEW v \in Workers PROVE Fenced(v)
  <2>1. CASE heldJob[v] = NoJob
    BY <2>1 DEF Fenced, HoldsLease
  <2>2. CASE heldJob[v] # NoJob
    <3>1. heldJob[v] \in Jobs /\ heldJob'[v] = heldJob[v]
      BY <2>2 DEF LeaseNext, JobInv, JobTypeOK
    <3>2. ASSUME HoldsLease(v), expires[heldJob[v]] > now, ~Overdue(heldJob[v], now)
          PROVE  owner'[heldJob[v]] = v /\ token'[heldJob[v]] = token[heldJob[v]]
      <4>1. token[heldJob[v]] # 0
        BY <3>1, <3>2 DEF HoldsLease, JobInv, JobTypeOK, TokensMinted
      <4>2. heldJob[v] \notin SweptJobs(at)
        BY <3>1, <3>2, <4>1, SweepSparesLease DEF JobInv, JobTypeOK
      <4> QED BY <1>2, <1>3, <3>1, <3>2, <4>1, <4>2 DEF HoldsLease
    <3> QED BY <3>1, <3>2 DEF Fenced
  <2> QED BY <2>1, <2>2
<1> QED BY <1>5, <1>6 DEF FencingStep

\* The sweep of reclaim_expired.
LEMMA FencingReclaim ==
    ASSUME JobInv, NEW at \in Captured, NEW R, ReclaimExpired(at, R)
    PROVE  FencingStep
<1>1. at \in Nat
  BY CapturedNat DEF JobInv
<1>2. SweptJobs(at) \in SUBSET Jobs
  BY DEF SweptJobs, Reclaimable
<1>3. \A j \in Jobs \ SweptJobs(at) : status'[j] = status[j]
  BY <1>1, SweptStatus DEF ReclaimExpired, JobInv
<1> QED BY <1>2, <1>3, SweepSparesLease, FencingClose DEF ReclaimExpired

\* Every step of the store respects the leases in force.
LEMMA FencingSteps == ASSUME JobInv, [JobNext]_jobVars PROVE FencingStep
<1> USE JobsAssumption
<1>1. ASSUME UNCHANGED <<status, owner, token, expires, heldJob>> PROVE FencingStep
  BY <1>1, FencingFrame
<1>2. ASSUME NEW at \in Captured, NEW i \in Jobs, Enqueue(i, at) \/ ResumeWaiting(i, at)
      PROVE  FencingStep
  <2>1. token[i] = 0
    BY <1>2 DEF Enqueue, ResumeWaiting, JobInv, LeaseShape, ActiveJob
  <2>2. \A j \in Jobs : token[j] # 0 => status'[j] = status[j]
    BY <1>2, <2>1 DEF Enqueue, ResumeWaiting, JobInv, JobTypeOK
  <2>3. UNCHANGED <<owner, token, expires, heldJob>>
    BY <1>2 DEF Enqueue, ResumeWaiting
  <2> QED BY <2>2, <2>3, FencingFrame
<1>3. ASSUME NEW at \in Captured, NEW i \in Jobs, ExpireDeadline(i, at)
      PROVE  FencingStep
  <2>1. Overdue(i, now)
    BY <1>3, CapturedLease DEF ExpireDeadline, JobInv
  <2>2. /\ {i} \in SUBSET Jobs /\ ClearLeases({i}) /\ UNCHANGED heldJob
        /\ \A j \in Jobs \ {i} : status'[j] = status[j]
    BY <1>3 DEF ExpireDeadline, JobInv, JobTypeOK
  <2> QED BY <2>1, <2>2, FencingClose
<1>4. ASSUME NEW at \in Captured, ReclaimExpired(at, {}) PROVE FencingStep
  BY <1>4, FencingReclaim
<1>5. ASSUME NEW at \in Captured, NEW w \in Workers, NEW i \in Jobs,
             LeaseNext(w, i, at, {})
      PROVE  FencingStep
  BY <1>5, FencingLease
<1>6. ASSUME NEW at \in Captured, NEW w \in Workers, OwnerDeadline(w, at)
      PROVE  FencingStep
  <2>1. \A j \in Jobs \ {heldJob[w]} : status'[j] = status[j]
    BY <1>6 DEF OwnerDeadline, JobInv, JobTypeOK
  <2> QED BY <1>6, <2>1, FencingFinish DEF OwnerDeadline
<1>7. ASSUME NEW at \in Captured, NEW w \in Workers, NEW target, NEW due,
             FinishOwned(w, at, target, due)
      PROVE  FencingStep
  <2>1. \A j \in Jobs \ {heldJob[w]} : status'[j] = status[j]
    BY <1>7 DEF FinishOwned, JobInv, JobTypeOK
  <2> QED BY <1>7, <2>1, FencingFinish DEF FinishOwned
<1>8. ASSUME NEW at \in Captured, NEW w \in Workers, Start(w, at) \/ Heartbeat(w, at)
      PROVE  FencingStep
  <2>1. \A j \in Jobs \ {heldJob[w]} :
            status'[j] = status[j] /\ expires'[j] = expires[j]
    BY <1>8 DEF Start, Heartbeat, JobInv, JobTypeOK
  <2> QED BY <1>8, <2>1, FencingRenew DEF Start, Heartbeat
<1>9. ASSUME NEW i \in Jobs, Cancel(i) PROVE FencingStep
  <2>1. /\ {i} \in SUBSET Jobs /\ ClearLeases({i}) /\ UNCHANGED heldJob
        /\ status'[i] = "cancelled"
        /\ \A j \in Jobs \ {i} : status'[j] = status[j]
    BY <1>9 DEF Cancel, JobInv, JobTypeOK
  <2> QED BY <2>1, FencingClose
<1>10. ASSUME NEW w \in Workers, Crash(w) PROVE FencingStep
  <2>1. UNCHANGED <<status, owner, token, expires, available>>
    BY <1>10 DEF Crash, rowVars
  <2> QED BY <2>1 DEF FencingStep, Fenced, Renewed, HoldsLease
<1>11. ASSUME NEW at \in Captured, NEW w \in Workers, NEW retryable \in BOOLEAN,
              NEW delay \in RetryDelays, Fail(w, at, retryable, delay)
       PROVE  FencingStep
  BY <1>7, <1>11 DEF Fail
<1> QED
  BY <1>1, <1>2, <1>3, <1>4, <1>5, <1>6, <1>7, <1>8, <1>9, <1>10, <1>11
  DEF JobNext, jobVars, rowVars, Tick, Complete, WaitForHuman, LeaseAborted

\* Fencing: nobody but its holder, a cancellation or the clock ends a lease in force,
\* and a worker whose lease is gone leaves no trace in the row, however late it wakes.
THEOREM LeaseFencingCorrect == JobSpec => LeaseFencing
<1>1. JobInv /\ [JobNext]_jobVars => [FencingStep]_jobVars
  BY FencingSteps
<1> QED BY <1>1, InvCorrect, PTL DEF JobSpec, LeaseFencing, FencingStep

-----------------------------------------------------------------------------
\* One job's step along the status graph.
LegalStep(j) ==
    status'[j] # status[j] =>
        \/ status[j] = "absent" /\ status'[j] = "queued"
        \/ status'[j] \in JobTransitions[status[j]]
        \/ /\ status[j] = "running" /\ status'[j] = "leased"
           /\ token'[j] # token[j]

\* The edges a sweep takes without consulting the graph.
LEMMA SweptLegal ==
    ASSUME JobTypeOK, NEW at \in Nat, NEW j \in Jobs, Swept(at, {})[j] # status[j]
    PROVE  /\ Swept(at, {})[j] \in JobTransitions[status[j]]
           /\ Swept(at, {})[j] = "queued" => status[j] \in ActiveJob
<1>1. CASE Overdue(j, at)
  <2>1. status[j] \in OpenJob /\ Swept(at, {})[j] = "failed"
    BY <1>1 DEF Swept, Overdue, Reclaimable
  <2>2. \A t \in OpenJob : "failed" \in JobTransitions[t]
    BY DEF JobTransitions, JobStatus, OpenJob, ActiveJob, ReadyJob, TerminalJob
  <2> QED BY <2>1, <2>2
<1>2. CASE ~Overdue(j, at)
  <2>1. status[j] \in ActiveJob /\ Swept(at, {})[j] \in {"dead_letter", "queued"}
    BY <1>2 DEF Swept, Reclaimable, LeaseExpired
  <2> QED BY <2>1 DEF JobTransitions, JobStatus, OpenJob, ActiveJob, ReadyJob,
             TerminalJob
<1> QED BY <1>1, <1>2

\* Every step of the store moves every job along the graph.
LEMMA LegalSteps ==
    ASSUME JobInv, [JobNext]_jobVars, NEW j \in Jobs PROVE LegalStep(j)
<1> USE JobsAssumption
<1> USE DEF JobInv, JobTypeOK, LegalStep
<1>1. ASSUME UNCHANGED status PROVE LegalStep(j)
  BY <1>1
<1>2. ASSUME NEW at \in Captured, NEW i \in Jobs,
             Enqueue(i, at) \/ ExpireDeadline(i, at) \/ ResumeWaiting(i, at)
      PROVE  LegalStep(j)
  BY <1>2 DEF Enqueue, ExpireDeadline, Overdue, ResumeWaiting, JobTransitions,
              JobStatus, OpenJob, ActiveJob, ReadyJob, TerminalJob
<1>3. ASSUME NEW at \in Captured, ReclaimExpired(at, {}) PROVE LegalStep(j)
  <2>1. at \in Nat
    BY CapturedNat
  <2> QED BY <1>3, <2>1, SweptLegal DEF ReclaimExpired
<1>4. ASSUME NEW at \in Captured, NEW w \in Workers, NEW i \in Jobs,
             LeaseNext(w, i, at, {})
      PROVE  LegalStep(j)
  <2>1. at \in Nat
    BY CapturedNat
  <2>2. CASE i # j
    <3>1. status'[j] = Swept(at, {})[j]
      BY <1>4, <2>2 DEF LeaseNext, Swept
    <3> QED BY <2>1, <3>1, SweptLegal
  <2>3. CASE i = j
    <3>1. status'[j] = "leased" /\ token'[j] = minted + 1
      BY <1>4, <2>3 DEF LeaseNext, NewToken, Swept
    <3>2. Swept(at, {})[j] \in ReadyJob
      BY <1>4, <2>3 DEF LeaseNext, First, Candidates
    <3>3. CASE Swept(at, {})[j] = status[j]
      BY <3>1, <3>2, <3>3 DEF JobTransitions, JobStatus, OpenJob, ReadyJob
    <3>4. CASE Swept(at, {})[j] # status[j]
      <4>1. Swept(at, {})[j] = "queued"
        BY <2>1, <3>2, <3>4, SweptStatus DEF ReadyJob, TerminalJob, SweptJobs
      <4>2. status[j] \in ActiveJob
        BY <2>1, <3>4, <4>1, SweptLegal
      <4>3. token'[j] # token[j]
        BY <3>1 DEF TokensMinted
      <4> QED BY <3>1, <4>2, <4>3 DEF ActiveJob
    <3> QED BY <3>3, <3>4
  <2> QED BY <2>2, <2>3
<1>5. ASSUME NEW at \in Captured, NEW w \in Workers,
             OwnerDeadline(w, at) \/ Start(w, at)
      PROVE  LegalStep(j)
  BY <1>5 DEF OwnerDeadline, Start, OwnsLive, JobTransitions, JobStatus, OpenJob,
              ActiveJob, ReadyJob, TerminalJob
<1>6. ASSUME NEW at, NEW w \in Workers, NEW target, NEW due,
             FinishOwned(w, at, target, due)
      PROVE  LegalStep(j)
  BY <1>6 DEF FinishOwned
<1>7. ASSUME NEW i \in Jobs, Cancel(i) PROVE LegalStep(j)
  BY <1>7 DEF Cancel
<1>8. ASSUME NEW at \in Captured, NEW w \in Workers, NEW retryable \in BOOLEAN,
             NEW delay \in RetryDelays, Fail(w, at, retryable, delay)
      PROVE  LegalStep(j)
  BY <1>6, <1>8 DEF Fail
<1> QED
  BY <1>1, <1>2, <1>3, <1>4, <1>5, <1>6, <1>7, <1>8
  DEF JobNext, jobVars, rowVars, Tick, Heartbeat, Complete, WaitForHuman, Crash,
      LeaseAborted

\* Every committed status change is an edge of JOB_TRANSITIONS, so that a replay
\* of the job events accepts the history of every run.
THEOREM JobTransitionsLegalCorrect == JobSpec => JobTransitionsLegal
<1> DEFINE Legal == \A j \in Jobs :
        status'[j] # status[j] =>
            \/ status[j] = "absent" /\ status'[j] = "queued"
            \/ status'[j] \in JobTransitions[status[j]]
            \/ /\ status[j] = "running" /\ status'[j] = "leased"
               /\ token'[j] # token[j]
<1>1. JobInv /\ [JobNext]_jobVars => [Legal]_jobVars
  BY LegalSteps DEF LegalStep
<1> QED BY <1>1, InvCorrect, PTL DEF JobSpec, JobTransitionsLegal

-----------------------------------------------------------------------------
\* A row that does not exist yet has made no attempt.
FreshRows == \A j \in Jobs : status[j] = "absent" => attempt[j] = 0

\* Attempts are only counted by leases.
LEMMA FreshStep == ASSUME JobInv, FreshRows, [JobNext]_jobVars PROVE FreshRows'
<1> USE JobsAssumption
<1> USE DEF FreshRows
<1>1. ASSUME UNCHANGED <<status, attempt>> PROVE FreshRows'
  BY <1>1
<1>2. ASSUME UNCHANGED attempt, NEW j \in Jobs, NEW t, t # "absent",
             status' = [status EXCEPT ![j] = t]
      PROVE  FreshRows'
  BY <1>2 DEF JobInv, JobTypeOK
<1>3. ASSUME NEW at \in Captured, ReclaimExpired(at, {}) PROVE FreshRows'
  <2>1. at \in Nat
    BY CapturedNat DEF JobInv
  <2> QED BY <1>3, <2>1, SweptStatus DEF ReclaimExpired, JobInv, TerminalJob
<1>4. ASSUME NEW at \in Captured, NEW w \in Workers, NEW j \in Jobs,
             LeaseNext(w, j, at, {})
      PROVE  FreshRows'
  <2>1. at \in Nat
    BY CapturedNat DEF JobInv
  <2>2. /\ status'[j] = "leased"
        /\ \A i \in Jobs \ {j} : status'[i] = Swept(at, {})[i] /\ attempt'[i] = attempt[i]
    BY <1>4 DEF LeaseNext, Swept, JobInv, JobTypeOK
  <2>3. \A i \in Jobs : Swept(at, {})[i] = "absent" => status[i] = "absent"
    BY <2>1, SweptStatus DEF JobInv, TerminalJob
  <2> QED BY <2>2, <2>3
<1>5. ASSUME NEW at \in Captured, NEW j \in Jobs,
             Enqueue(j, at) \/ ExpireDeadline(j, at) \/ ResumeWaiting(j, at)
      PROVE  FreshRows'
  BY <1>2, <1>5 DEF Enqueue, ExpireDeadline, ResumeWaiting
<1>6. ASSUME NEW at \in Captured, NEW w \in Workers, OwnerDeadline(w, at) \/ Start(w, at)
      PROVE  FreshRows'
  <2>1. heldJob[w] \in Jobs
    BY <1>6 DEF OwnerDeadline, Start, OwnsLive, JobInv, JobTypeOK
  <2> QED BY <1>2, <1>6, <2>1 DEF OwnerDeadline, Start
<1>7. ASSUME NEW at \in Captured, NEW w \in Workers, NEW target, NEW due,
             FinishOwned(w, at, target, due)
      PROVE  FreshRows'
  <2>1. heldJob[w] \in Jobs
    BY <1>7 DEF FinishOwned, OwnsLive, JobInv, JobTypeOK
  <2>2. target # "absent"
    BY <1>7, <2>1, TransitionsType DEF FinishOwned, JobInv, JobTypeOK
  <2> QED BY <1>2, <1>7, <2>1, <2>2 DEF FinishOwned
<1>8. ASSUME NEW at \in Captured, NEW w \in Workers, NEW retryable \in BOOLEAN,
             NEW delay \in RetryDelays, Fail(w, at, retryable, delay)
      PROVE  FreshRows'
  BY <1>7, <1>8 DEF Fail
<1>9. ASSUME NEW j \in Jobs, Cancel(j) PROVE FreshRows'
  BY <1>2, <1>9 DEF Cancel
<1> QED
  BY <1>1, <1>3, <1>4, <1>5, <1>6, <1>7, <1>8, <1>9
  DEF JobNext, jobVars, rowVars, Tick, Heartbeat, Complete, WaitForHuman, Crash,
      LeaseAborted

\* Every step that queues a job checks its attempts, except the answer to a question.
LEMMA SpentSteps ==
    ASSUME JobInv, FreshRows, [JobNext]_jobVars, NEW j \in Jobs, Spent(j)'
    PROVE  Spent(j) \/ status[j] = "waiting_human"
<1> USE JobsAssumption
<1> DEFINE Goal == Spent(j) \/ status[j] = "waiting_human"
<1>0. status'[j] \in ReadyJob /\ ~preserve'[j] /\ attempt'[j] + 1 > MaxAttempts
  <2>1. JobTypeOK'
    BY TypeStep DEF JobInv
  <2> QED BY <2>1 DEF Spent, AttemptAtLease, JobTypeOK
<1>1. ASSUME UNCHANGED <<attempt, preserve>>, status[j] \in ReadyJob PROVE Goal
  BY <1>0, <1>1 DEF Spent, AttemptAtLease
<1>2. ASSUME NEW at \in Captured, NEW i \in Jobs,
             Enqueue(i, at) \/ ExpireDeadline(i, at) \/ ResumeWaiting(i, at)
      PROVE  Goal
  <2>1. UNCHANGED <<attempt, preserve>>
    BY <1>2 DEF Enqueue, ExpireDeadline, ResumeWaiting
  <2>2. status[j] # "absent"
    BY <1>0, <2>1 DEF FreshRows
  <2>3. status[j] \in ReadyJob \cup {"waiting_human"}
    BY <1>0, <1>2, <2>2
    DEF Enqueue, ExpireDeadline, ResumeWaiting, JobInv, JobTypeOK, ReadyJob
  <2> QED BY <1>1, <2>1, <2>3
<1>3. ASSUME NEW at \in Captured, ReclaimExpired(at, {}) PROVE Goal
  <2>1. at \in Nat
    BY CapturedNat DEF JobInv
  <2>2. UNCHANGED <<attempt, preserve>> /\ Swept(at, {})[j] \in ReadyJob
    BY <1>0, <1>3 DEF ReclaimExpired
  <2>3. status[j] \in ActiveJob => Swept(at, {})[j] # "queued"
    BY <1>0, <2>1, <2>2, SweptStatus DEF JobInv, JobTypeOK
  <2>4. Swept(at, {})[j] = status[j] \/ status[j] \in ActiveJob
    BY <2>1, <2>2, SweptLegal DEF JobInv, ReadyJob, JobTransitions, JobStatus, OpenJob,
       ActiveJob, TerminalJob, JobTypeOK
  <2>5. Swept(at, {})[j] = "queued" \/ Swept(at, {})[j] = status[j]
    BY <2>1, <2>2, SweptStatus DEF JobInv, ReadyJob, TerminalJob
  <2> QED BY <1>1, <2>2, <2>3, <2>4, <2>5
<1>4. ASSUME NEW at \in Captured, NEW w \in Workers, NEW i \in Jobs,
             LeaseNext(w, i, at, {})
      PROVE  Goal
  <2>1. at \in Nat
    BY CapturedNat DEF JobInv
  <2>2. i # j
    BY <1>0, <1>4 DEF LeaseNext, Swept, ReadyJob
  <2>3. /\ attempt'[j] = attempt[j] /\ preserve'[j] = preserve[j]
        /\ Swept(at, {})[j] \in ReadyJob
    BY <1>0, <1>4, <2>2 DEF LeaseNext, Swept, JobInv, JobTypeOK
  <2>4. status[j] \in ActiveJob => Swept(at, {})[j] # "queued"
    BY <1>0, <2>1, <2>3, SweptStatus DEF JobInv, JobTypeOK
  <2>5. Swept(at, {})[j] = "queued" \/ Swept(at, {})[j] = status[j]
    BY <2>1, <2>3, SweptStatus DEF JobInv, ReadyJob, TerminalJob
  <2>6. Swept(at, {})[j] = status[j] \/ status[j] \in ActiveJob
    BY <2>1, <2>5, SweptLegal DEF JobInv
  <2> QED BY <1>0, <2>3, <2>4, <2>5, <2>6 DEF Spent, AttemptAtLease
<1>5. ASSUME NEW at \in Captured, NEW w \in Workers,
             OwnerDeadline(w, at) \/ Start(w, at)
      PROVE  Goal
  BY <1>0, <1>1, <1>5 DEF OwnerDeadline, Start, ReadyJob, JobInv, JobTypeOK
<1>6. ASSUME NEW at \in Captured, NEW w \in Workers, NEW due,
             NEW target, target \notin ReadyJob,
             FinishOwned(w, at, target, due)
      PROVE  Goal
  BY <1>0, <1>1, <1>6 DEF FinishOwned, JobInv, JobTypeOK
<1>7. ASSUME NEW at \in Captured, NEW w \in Workers, NEW retryable \in BOOLEAN,
             NEW delay \in RetryDelays, Fail(w, at, retryable, delay)
      PROVE  Goal
  <2>1. CASE attempt[heldJob[w]] < MaxAttempts /\ FinishOwned(w, at, "retry_scheduled", at + delay)
    <3>1. UNCHANGED <<attempt, preserve>> /\ heldJob[w] \in Jobs
      BY <2>1 DEF FinishOwned, OwnsLive, JobInv, JobTypeOK
    <3>2. heldJob[w] # j
      BY <1>0, <2>1, <3>1 DEF JobInv, JobTypeOK
    <3>3. status'[j] = status[j]
      BY <2>1, <3>2 DEF FinishOwned, JobInv, JobTypeOK
    <3> QED BY <1>0, <1>1, <3>1, <3>3
  <2>2. CASE FinishOwned(w, at, "dead_letter", at) \/ FinishOwned(w, at, "failed", at)
    BY <1>6, <2>2 DEF ReadyJob
  <2> QED BY <1>7, <2>1, <2>2 DEF Fail
<1>8. ASSUME NEW i \in Jobs, Cancel(i) PROVE Goal
  BY <1>0, <1>1, <1>8 DEF Cancel, ReadyJob, JobInv, JobTypeOK
<1>9. ASSUME UNCHANGED <<status, attempt, preserve>> PROVE Goal
  BY <1>0, <1>1, <1>9
<1>10. ASSUME NEW at \in Captured, NEW w \in Workers, Complete(w, at) \/ WaitForHuman(w, at)
       PROVE  Goal
  BY <1>6, <1>10 DEF Complete, WaitForHuman, ReadyJob
<1> QED
  BY <1>2, <1>3, <1>4, <1>5, <1>7, <1>8, <1>9, <1>10
  DEF JobNext, jobVars, rowVars, Tick, Heartbeat, Crash, LeaseAborted

\* Only the answer to a question asked on the last attempt queues a job that the lease
\* trigger will refuse.
THEOREM SpentOnlyByAnswerCorrect == JobSpec => SpentOnlyByAnswer
<1> DEFINE Step == \A j \in Jobs : Spent(j)' => Spent(j) \/ status[j] = "waiting_human"
<1>1. JobInit => FreshRows
  BY DEF JobInit, FreshRows
<1>2. JobInv /\ FreshRows /\ [JobNext]_jobVars => FreshRows'
  BY FreshStep
<1>3. JobInv /\ FreshRows /\ [JobNext]_jobVars => [Step]_jobVars
  BY SpentSteps
<1> QED BY <1>1, <1>2, <1>3, InvCorrect, PTL DEF JobSpec, SpentOnlyByAnswer
=============================================================================
