-------------------------- MODULE TurnKernelProofs --------------------------
(***************************************************************************)
(* Theorems about TurnKernel, for every set of jobs, threads and workers   *)
(* and every lease time, attempt budget, delay and bound. The job part of  *)
(* the argument is DurableJobsProofs'; here are the turns, questions,      *)
(* inputs and reclaim keys that ride on the job rows.                      *)
(***************************************************************************)
EXTENDS TurnKernel, DurableJobsProofs

-----------------------------------------------------------------------------
(* The inductive invariant, one row at a time. *)

\* The three projections of a turn agree. A question is pending exactly while
\* the job waits for its user; a job that is ready to be leased finds its turn
\* in a phase its next owner can resume, and no committed response behind it.
Agree(j) ==
    /\ turn[j] = "absent" <=> status[j] = "absent"
    /\ turn[j] \in TerminalTurn <=> status[j] \in TerminalJob
    /\ turn[j] = "waiting_human" <=> status[j] = "waiting_human"
    /\ ask[j] = "pending" <=> status[j] = "waiting_human"
    /\ status[j] = "retry_scheduled" => turn[j] = "retry_wait"
    /\ status[j] = "completed" => turn[j] \in {"completed", "partial"}
    /\ status[j] \in {"failed", "dead_letter"} => turn[j] = "failed"
    /\ status[j] \in ReadyJob =>
          turn[j] \in {"queued", "preparing", "retry_wait", "finalizing"}
    /\ turn[j] = "finalizing" /\ responded[j] => status[j] = "running"
    /\ turn[j] \in {"finalizing", "completed"} => covered[j] = inputs[j]

\* The attempt budget: an attempt is counted when a lease is given, and only a
\* retry with budget left may be resumed without counting.
Budget(j) ==
    /\ status[j] = "absent" => attempt[j] = 0
    /\ status[j] \in ActiveJob => attempt[j] >= 1 /\ ~preserve[j]
    /\ preserve[j] => status[j] \in {"retry_scheduled"} \cup TerminalJob
    /\ preserve[j] => attempt[j] >= 1
    /\ status[j] = "retry_scheduled" => attempt[j] < MaxAttempts
    /\ status[j] = "queued" /\ attempt[j] >= MaxAttempts =>
          ask[j] = "resolved" /\ turn[j] = "preparing"

\* The keys of the reclaim events: none is from a later attempt, and the
\* attempt that runs or will be resumed has none yet.
Keys(j) ==
    /\ \A a \in 1..MaxAttempts : <<j, a>> \in reclaims => a <= attempt[j]
    /\ status[j] \in ActiveJob \/ preserve[j] => <<j, attempt[j]>> \notin reclaims

Row(j) == Agree(j) /\ Budget(j) /\ Keys(j)

\* The inductive invariant of turns, on top of the one of jobs.
TurnInv == JobInv /\ TurnTypeOK /\ \A j \in Jobs : Row(j)
-----------------------------------------------------------------------------
\* The edges of TURN_TRANSITIONS that the argument needs: nothing leaves a
\* terminal turn, nothing re-enters the queue, a worker that finalizes can only
\* finish, fail or be stopped.
LEMMA TurnEdges ==
    ASSUME NEW s \in TurnStatus
    PROVE  /\ TurnTransitions[s] \subseteq TurnStatus \ {"absent", "queued"}
           /\ s \in TerminalTurn \cup {"absent"} => TurnTransitions[s] = {}
           /\ s = "finalizing" =>
                TurnTransitions[s] = {"completed", "partial", "failed"} \cup UserStop
           /\ s \in RetryPhase \cup {"preparing"} => "retry_wait" \in TurnTransitions[s]
           /\ s \notin TerminalTurn \cup {"absent", "queued"} => "failed" \in TurnTransitions[s]
           /\ s = "waiting_human" =>
                "preparing" \in TurnTransitions[s] /\ "cancelled" \in TurnTransitions[s]
BY DEF TurnTransitions, TurnStatus, TerminalTurn, RetryPhase, UserStop

\* No turn job has a deadline.
LEMMA NeverOverdue == ASSUME NEW j \in Jobs, NEW at PROVE ~Overdue(j, at)
BY TurnsAssumption DEF Overdue

\* A worker that commits owns a job that exists and is running.
LEMMA ExecutingJob ==
    ASSUME TurnInv, NEW w \in Workers, NEW at, Executing(w, at)
    PROVE  heldJob[w] \in Jobs /\ status[heldJob[w]] = "running"
BY DEF Executing, OwnsLive, TurnInv, JobInv, JobTypeOK

\* What a sweep does to one row, its turn and its question: nothing, or one of
\* three things to an expired lease.
LEMMA SweepCases ==
    ASSUME TurnInv, NEW at \in Nat, NEW j \in Jobs
    PROVE  /\ SweptAsk(at)[j] = ask[j]
           /\ \/ /\ j \notin SweptJobs(at) /\ j \notin Requeued(at)
                 /\ Swept(at, Recovered(at))[j] = status[j]
                 /\ SweptTurn(at)[j] = turn[j]
              \/ /\ j \in SweptJobs(at) /\ j \notin Requeued(at)
                 /\ status[j] = "running"
                 /\ turn[j] = "finalizing" /\ responded[j]
                 /\ Swept(at, Recovered(at))[j] = "completed"
                 /\ SweptTurn(at)[j] = "completed"
              \/ /\ j \in SweptJobs(at) /\ j \notin Requeued(at)
                 /\ status[j] \in ActiveJob
                 /\ ~(turn[j] = "finalizing" /\ responded[j])
                 /\ Swept(at, Recovered(at))[j] = "dead_letter"
                 /\ SweptTurn(at)[j] = "failed"
              \/ /\ j \in SweptJobs(at) /\ j \in Requeued(at)
                 /\ status[j] \in ActiveJob
                 /\ attempt[j] < MaxAttempts
                 /\ ~(turn[j] = "finalizing" /\ responded[j])
                 /\ Swept(at, Recovered(at))[j] = "queued"
                 /\ SweptTurn(at)[j] = MoveToRetryWait(j)
<1> USE JobsAssumption, NeverOverdue
<1>1. /\ Row(j) /\ attempt[j] \in Nat /\ responded[j] \in BOOLEAN
      /\ turn[j] \in TurnStatus
  BY DEF TurnInv, TurnTypeOK, JobTypeOK
<1>2. SweptJobs(at) \cap {j} = Reclaimable(at) \cap {j}
  BY DEF SweptJobs
<1>3. j \in Reclaimable(at) => status[j] \in ActiveJob
  BY DEF Reclaimable, LeaseExpired
<1>4. CASE j \notin Reclaimable(at)
  <2>1. j \notin Requeued(at) /\ j \notin Exhausted(at) /\ j \notin Recovered(at)
    BY <1>4 DEF Requeued, Exhausted, Recovered
  <2>2. Swept(at, Recovered(at))[j] = status[j]
    BY <1>4 DEF Swept
  <2>3. SweptTurn(at)[j] = turn[j] /\ SweptAsk(at)[j] = ask[j]
    BY <2>1 DEF SweptTurn, SweptAsk
  <2> QED BY <1>2, <1>4, <2>1, <2>2, <2>3
<1>5. CASE j \in Reclaimable(at)
  <2>1. status[j] \in ActiveJob /\ ask[j] # "pending"
        /\ turn[j] \notin TerminalTurn
    BY <1>1, <1>3, <1>5 DEF Row, Agree, ActiveJob, TerminalJob
  <2>2. SweptAsk(at)[j] = ask[j]
    BY <2>1 DEF SweptAsk
  <2>3. CASE turn[j] = "finalizing" /\ responded[j]
    <3>1. j \in Recovered(at) /\ j \notin Exhausted(at) /\ j \notin Requeued(at)
      BY <1>5, <2>3 DEF Recovered, Exhausted, Requeued
    <3>2. Swept(at, Recovered(at))[j] = "completed"
      BY <1>5, <3>1 DEF Swept
    <3>3. SweptTurn(at)[j] = "completed"
      BY <3>1 DEF SweptTurn
    <3>4. status[j] = "running"
      BY <1>1, <2>3 DEF Row, Agree
    <3> QED BY <1>2, <1>5, <2>2, <2>3, <3>1, <3>2, <3>3, <3>4
  <2>4. CASE ~(turn[j] = "finalizing" /\ responded[j]) /\ attempt[j] >= MaxAttempts
    <3>1. j \notin Recovered(at) /\ j \in Exhausted(at) /\ j \notin Requeued(at)
      BY <1>5, <2>4 DEF Recovered, Exhausted, Requeued
    <3>2. Swept(at, Recovered(at))[j] = "dead_letter"
      BY <1>5, <2>4, <3>1 DEF Swept
    <3>3. SweptTurn(at)[j] = "failed"
      BY <2>1, <3>1 DEF SweptTurn, FailLinkedTurn
    <3> QED BY <1>2, <1>5, <2>1, <2>2, <2>4, <3>1, <3>2, <3>3
  <2>5. CASE ~(turn[j] = "finalizing" /\ responded[j]) /\ ~(attempt[j] >= MaxAttempts)
    <3>1. j \notin Recovered(at) /\ j \notin Exhausted(at) /\ j \in Requeued(at)
      BY <1>5, <2>5 DEF Recovered, Exhausted, Requeued
    <3>2. Swept(at, Recovered(at))[j] = "queued"
      BY <1>5, <2>5, <3>1 DEF Swept
    <3>3. SweptTurn(at)[j] = MoveToRetryWait(j)
      BY <3>1 DEF SweptTurn
    <3> QED BY <1>1, <1>2, <1>5, <2>1, <2>2, <2>5, <3>1, <3>2, <3>3
  <2> QED BY <2>3, <2>4, <2>5
<1> QED BY <1>4, <1>5
-----------------------------------------------------------------------------
\* The types of turns, questions, inputs and reclaim keys are preserved.
LEMMA TurnTypeStep == ASSUME TurnInv, [TurnNext]_vars PROVE TurnTypeOK'
<1> USE JobsAssumption, TurnsAssumption
<1> DEFINE AskStatus == {"none", "pending", "resolved", "expired", "cancelled"}
           TurnsOK == /\ turn \in [Jobs -> TurnStatus]
                      /\ ask \in [Jobs -> AskStatus]
                      /\ inputs \in [Jobs -> 0..MaxInputs]
                      /\ responded \in [Jobs -> BOOLEAN]
                      /\ reclaims \subseteq Jobs \X (1..MaxAttempts)
                      /\ applied \in [Workers -> 0..MaxInputs]
                      /\ covered \in [Jobs -> -1..MaxInputs]
<1>0. JobTypeOK /\ TurnsOK
  BY DEF TurnInv, TurnTypeOK
<1>1. CASE TurnTick \/ UNCHANGED vars
  BY <1>0, <1>1, TypeStep
  DEF TurnTypeOK, TurnTick, vars, turnVars, JobNext
<1>2. ASSUME NEW at \in Captured, NEW j \in Jobs, CreateTurn(j, at) PROVE TurnTypeOK'
  <2>1. JobTypeOK'
    BY <1>0, <1>2, TypeStep DEF CreateTurn, JobNext
  <2>2. TurnsOK'
    BY <1>0, <1>2 DEF CreateTurn, TurnStatus
  <2> QED BY <2>1, <2>2 DEF TurnTypeOK
<1>3. ASSUME NEW at \in Nat, SweepTurns(at)
      PROVE  /\ turn' \in [Jobs -> TurnStatus] /\ ask' \in [Jobs -> AskStatus]
             /\ reclaims' \subseteq Jobs \X (1..MaxAttempts)
  <2>1. turn' \in [Jobs -> TurnStatus]
    <3>1. \A j \in Jobs : SweptTurn(at)[j] \in TurnStatus
      BY <1>0, SweepCases DEF MoveToRetryWait, TurnStatus, TerminalTurn
    <3> QED BY <1>3, <3>1 DEF SweepTurns, SweptTurn
  <2>2. ask' \in [Jobs -> AskStatus]
    <3>1. \A j \in Jobs : SweptAsk(at)[j] \in AskStatus
      BY <1>0, SweepCases
    <3> QED BY <1>3, <3>1 DEF SweepTurns, SweptAsk
  <2>3. \A j \in Requeued(at) : j \in Jobs /\ attempt[j] \in 1..MaxAttempts
    <3> SUFFICES ASSUME NEW j \in Requeued(at)
                 PROVE  j \in Jobs /\ attempt[j] \in 1..MaxAttempts
      OBVIOUS
    <3>1. j \in Jobs
      BY DEF Requeued, Reclaimable
    <3>2. status[j] \in ActiveJob /\ attempt[j] < MaxAttempts
      BY <3>1, SweepCases
    <3>3. attempt[j] >= 1 /\ attempt[j] \in Nat
      BY <1>0, <3>1, <3>2 DEF TurnInv, Row, Budget, JobTypeOK
    <3> QED BY <3>1, <3>2, <3>3
  <2>4. reclaims' \subseteq Jobs \X (1..MaxAttempts)
    BY <1>0, <1>3, <2>3 DEF SweepTurns
  <2> QED BY <2>1, <2>2, <2>4
<1>4. ASSUME NEW at \in Nat PROVE /\ Swept(at, Recovered(at)) \in [Jobs -> JobStatus]
                                  /\ SweptAvailable(at, Recovered(at)) \in [Jobs -> Nat]
  BY <1>0 DEF Swept, SweptAvailable, JobTypeOK, JobStatus, OpenJob, ReadyJob, TerminalJob
<1>5. ASSUME NEW at \in Captured, TurnReclaim(at) PROVE TurnTypeOK'
  <2>1. at \in Nat
    BY <1>0, CapturedNat
  <2>2. JobTypeOK'
    BY <1>0, <1>4, <1>5, <2>1 DEF TurnReclaim, ReclaimExpired, ClearLeases, JobTypeOK
  <2>3. TurnsOK'
    BY <1>0, <1>3, <1>5, <2>1 DEF TurnReclaim, SweepTurns
  <2> QED BY <2>2, <2>3 DEF TurnTypeOK
<1>6. ASSUME NEW at \in Captured, NEW w \in Workers, NEW j \in Jobs, TurnLease(w, j, at)
      PROVE  TurnTypeOK'
  <2>1. at \in Nat
    BY <1>0, CapturedNat
  <2>2. AttemptAtLease(j) \in 0..MaxAttempts /\ "leased" \in JobStatus
    BY <1>0, <1>6 DEF AttemptAtLease, TurnLease, LeaseNext, JobTypeOK, JobStatus, OpenJob,
                      ActiveJob
  <2>3. JobTypeOK'
    <3>1. LeaseNext(w, j, at, Recovered(at)) /\ JobTypeOK
      BY <1>0, <1>6 DEF TurnLease
    <3>2. Swept(at, Recovered(at)) \in [Jobs -> JobStatus]
          /\ SweptAvailable(at, Recovered(at)) \in [Jobs -> Nat]
      BY <1>4, <2>1
    <3> HIDE DEF TurnsOK
    <3>3. /\ now' \in Nat /\ rows' \in Nat /\ minted' \in Nat
          /\ status' \in [Jobs -> JobStatus] /\ rowid' \in [Jobs -> Nat]
          /\ attempt' \in [Jobs -> 0..MaxAttempts] /\ available' \in [Jobs -> Nat]
          /\ preserve' \in [Jobs -> BOOLEAN]
      BY <2>2, <3>1, <3>2 DEF LeaseNext, JobTypeOK
    <3>4. owner' \in [Jobs -> Workers \cup {NoOwner}]
      BY <3>1 DEF LeaseNext, JobTypeOK
    <3>5. token' \in [Jobs -> Nat] /\ heldToken' \in [Workers -> Nat]
      BY <3>1 DEF LeaseNext, NewToken, JobTypeOK
    <3>6. expires' \in [Jobs -> Nat]
      BY <2>1, <3>1 DEF LeaseNext, JobTypeOK
    <3>7. lastLeased' \in [Threads -> Int]
      BY <2>1, <3>1 DEF LeaseNext, JobTypeOK
    <3>8. heldJob' \in [Workers -> Jobs \cup {NoJob}]
      BY <3>1 DEF LeaseNext, JobTypeOK
    <3> QED BY <3>3, <3>4, <3>5, <3>6, <3>7, <3>8 DEF JobTypeOK
  <2>4. TurnsOK'
    BY <1>0, <1>3, <1>6, <2>1 DEF TurnLease, SweepTurns
  <2> QED BY <2>3, <2>4 DEF TurnTypeOK
<1>7. ASSUME NEW at \in Captured, NEW w \in Workers,
             WorkerStart(w, at) \/ WorkerHeartbeat(w, at) \/ WorkerCrash(w)
      PROVE  TurnTypeOK'
  BY <1>0, <1>7, TypeStep
  DEF TurnTypeOK, WorkerStart, WorkerHeartbeat, WorkerCrash, turnVars, JobNext
<1>8. ASSUME NEW w \in Workers, WorkerCrash(w) PROVE TurnTypeOK'
  BY <1>0, <1>8, TypeStep DEF TurnTypeOK, WorkerCrash, turnVars, JobNext
<1>9. ASSUME UNCHANGED jobVars, TurnsOK' PROVE TurnTypeOK'
  BY <1>0, <1>9 DEF TurnTypeOK, JobTypeOK, jobVars, rowVars
<1>10. ASSUME NEW at \in Captured, NEW w \in Workers,
              NEW target \in RetryPhase \cup {"preparing"},
              WorkerTransition(w, at, target)
       PROVE  TurnTypeOK'
  BY <1>0, <1>9, <1>10 DEF WorkerTransition, TurnStatus
<1>11. ASSUME NEW at \in Captured, NEW w \in Workers,
              RecordResponse(w, at) \/ BeginFinalizing(w, at)
       PROVE  TurnTypeOK'
  <2>1. CASE RecordResponse(w, at)
    BY <1>0, <1>9, <2>1 DEF RecordResponse
  <2>2. CASE BeginFinalizing(w, at)
    <3>1. applied[w] \in -1..MaxInputs /\ "finalizing" \in TurnStatus
      BY <1>0 DEF TurnStatus
    <3> QED BY <1>0, <1>9, <2>2, <3>1 DEF BeginFinalizing
  <2> QED BY <1>11, <2>1, <2>2
<1>12. ASSUME NEW w \in Workers, ApplyInputs(w) PROVE TurnTypeOK'
  <2>1. heldJob[w] \in Jobs
    BY <1>0, <1>12 DEF ApplyInputs, JobTypeOK
  <2> QED BY <1>0, <1>9, <1>12, <2>1 DEF ApplyInputs, turnVars
<1>13. ASSUME NEW j \in Jobs, Steer(j) PROVE TurnTypeOK'
  <2>1. inputs[j] + 1 \in 0..MaxInputs
    BY <1>0, <1>13 DEF Steer
  <2> QED BY <1>0, <1>9, <1>13, <2>1 DEF Steer
<1>14. ASSUME NEW j \in Jobs, NEW target \in TurnStatus, NEW jobTarget \in JobStatus,
              SettleTurn(j, target, jobTarget)
       PROVE  /\ turn' \in [Jobs -> TurnStatus] /\ ask' \in [Jobs -> AskStatus]
              /\ status' \in [Jobs -> JobStatus]
              /\ owner' \in [Jobs -> Workers \cup {NoOwner}]
              /\ token' \in [Jobs -> Nat] /\ expires' \in [Jobs -> Nat]
  BY <1>0, <1>14 DEF SettleTurn, ClearLeases, JobTypeOK
<1>15. {"completed", "failed", "dead_letter", "cancelled", "queued", "retry_scheduled",
        "waiting_human"} \subseteq JobStatus
  BY DEF JobStatus, OpenJob, ReadyJob, TerminalJob
<1>16. {"completed", "partial", "failed", "interrupted", "cancelled", "superseded",
        "queued", "preparing", "retry_wait", "waiting_human"} \subseteq TurnStatus
  BY DEF TurnStatus, TerminalTurn
<1>17. ASSUME NEW at \in Captured, NEW w \in Workers,
              NEW target \in {"completed", "partial", "failed"},
              FinishTurnJob(w, at, target)
       PROVE  TurnTypeOK'
  <2> DEFINE jt == IF target = "failed" THEN "failed" ELSE "completed"
  <2>1. heldJob[w] \in Jobs
    BY <1>17, ExecutingJob DEF FinishTurnJob
  <2>2. target \in TurnStatus /\ jt \in JobStatus
    BY <1>15, <1>16
  <2>3. SettleTurn(heldJob[w], target, jt)
    BY <1>17 DEF FinishTurnJob
  <2> HIDE DEF jt
  <2> QED BY <1>0, <1>14, <1>17, <2>1, <2>2, <2>3
          DEF FinishTurnJob, Forget, TurnTypeOK, JobTypeOK
<1>18. ASSUME NEW at \in Captured, NEW w \in Workers, NEW retryable \in BOOLEAN,
              FailTurnJob(w, at, retryable)
       PROVE  TurnTypeOK'
  <2> DEFINE jt == IF retryable THEN "dead_letter" ELSE "failed"
  <2>1. heldJob[w] \in Jobs
    BY <1>18, ExecutingJob DEF FailTurnJob
  <2>2. "failed" \in TurnStatus /\ jt \in JobStatus
    BY <1>15, <1>16
  <2>3. SettleTurn(heldJob[w], "failed", jt)
    BY <1>18 DEF FailTurnJob
  <2> HIDE DEF jt
  <2> QED BY <1>0, <1>14, <1>18, <2>1, <2>2, <2>3
          DEF FailTurnJob, Forget, TurnTypeOK, JobTypeOK
<1>19. ASSUME NEW at \in Captured, NEW w \in Workers, NEW preserveAttempt \in BOOLEAN,
              NEW delay \in RetryDelays, RetryTurnJob(w, at, preserveAttempt, delay)
       PROVE  TurnTypeOK'
  <2>1. heldJob[w] \in Jobs
    BY <1>19, ExecutingJob DEF RetryTurnJob
  <2>2. at + delay \in Nat
    BY <1>0, CapturedNat
  <2>3. JobTypeOK'
    BY <1>0, <1>15, <1>19, <2>1, <2>2 DEF RetryTurnJob, ClearLeases, Forget, JobTypeOK
  <2>4. TurnsOK'
    BY <1>0, <1>16, <1>19, <2>1 DEF RetryTurnJob
  <2> QED BY <2>3, <2>4 DEF TurnTypeOK
<1>20. ASSUME NEW at \in Captured, NEW w \in Workers, RequestInteraction(w, at)
       PROVE  TurnTypeOK'
  <2>1. heldJob[w] \in Jobs
    BY <1>20, ExecutingJob DEF RequestInteraction
  <2>2. JobTypeOK'
    BY <1>0, <1>15, <1>20, <2>1 DEF RequestInteraction, ClearLeases, Forget, JobTypeOK
  <2>3. TurnsOK'
    BY <1>0, <1>16, <1>20, <2>1 DEF RequestInteraction
  <2> QED BY <2>2, <2>3 DEF TurnTypeOK
<1>21. ASSUME NEW at \in Captured, NEW j \in Jobs, NEW refresh \in BOOLEAN,
              Respond(j, at, refresh)
       PROVE  TurnTypeOK'
  <2>1. at \in Nat
    BY <1>0, CapturedNat
  <2>2. refresh => inputs[j] + 1 \in 0..MaxInputs
    BY <1>0, <1>21 DEF Respond
  <2>3. JobTypeOK'
    BY <1>0, <1>15, <1>21, <2>1 DEF Respond, JobTypeOK
  <2>4. TurnsOK'
    BY <1>0, <1>16, <1>21, <2>2 DEF Respond
  <2> QED BY <2>3, <2>4 DEF TurnTypeOK
<1>22. ASSUME NEW j \in Jobs, NEW target \in {"expired", "cancelled"},
              CloseInteraction(j, target)
       PROVE  TurnTypeOK'
  <2>1. JobTypeOK'
    BY <1>0, <1>15, <1>22 DEF CloseInteraction, ClearLeases, JobTypeOK
  <2>2. TurnsOK'
    BY <1>0, <1>16, <1>22 DEF CloseInteraction
  <2> QED BY <2>1, <2>2 DEF TurnTypeOK
<1>23. ASSUME NEW j \in Jobs, Interrupt(j) PROVE TurnTypeOK'
  <2>1. SettleTurn(j, "interrupted", "cancelled")
    BY <1>23 DEF Interrupt
  <2> QED BY <1>0, <1>14, <1>15, <1>16, <1>23, <2>1 DEF Interrupt, TurnTypeOK, JobTypeOK
<1>24. ASSUME NEW at \in Captured, NEW j \in Jobs, NEW k \in Jobs, Replace(j, k, at)
       PROVE  TurnTypeOK'
  <2>1. at \in Nat
    BY <1>0, CapturedNat
  <2>2. JobTypeOK'
    BY <1>0, <1>15, <1>24, <2>1 DEF Replace, ClearLeases, JobTypeOK
  <2>3. TurnsOK'
    BY <1>0, <1>16, <1>24 DEF Replace
  <2> QED BY <2>2, <2>3 DEF TurnTypeOK
<1>25. ASSUME NEW at \in Captured, NEW w \in Workers, NEW j \in Jobs,
              TurnLeaseAborted(w, j, at)
       PROVE  TurnTypeOK'
  BY <1>1, <1>25 DEF TurnLeaseAborted, LeaseAborted, vars
<1> QED
  BY <1>1, <1>2, <1>5, <1>6, <1>7, <1>8, <1>10, <1>11, <1>12, <1>13, <1>17, <1>18,
     <1>19, <1>20, <1>21, <1>22, <1>23, <1>24, <1>25
  DEF TurnNext, WorkerFails
-----------------------------------------------------------------------------
\* Every operation of the kernel keeps the job part of the invariant: it is an
\* operation of the store, or closes, resumes or inserts rows as one would.
LEMMA TurnJobStep ==
    ASSUME TurnInv, [TurnNext]_vars
    PROVE  LeaseShape' /\ RowsInOrder' /\ ThreadInOrder' /\ TokensMinted'
<1> USE JobsAssumption
<1> DEFINE Rest == LeaseShape /\ RowsInOrder /\ ThreadInOrder /\ TokensMinted
<1>0. JobInv /\ JobTypeOK /\ \A j \in Jobs : Row(j) /\ turn[j] \in TurnStatus
  BY DEF TurnInv, TurnTypeOK
<1>1. ASSUME [JobNext]_jobVars PROVE Rest'
  BY <1>0, <1>1, InvStep DEF JobInv
<1>2. ASSUME UNCHANGED jobVars PROVE Rest'
  BY <1>1, <1>2
<1>3. ASSUME NEW at \in Captured, TurnReclaim(at) PROVE Rest'
  <2>1. at \in Nat
    BY <1>0, CapturedNat
  <2> QED BY <1>0, <1>3, <2>1, ReclaimStep DEF TurnReclaim
<1>4. ASSUME NEW at \in Captured, NEW w \in Workers, NEW j \in Jobs, TurnLease(w, j, at)
      PROVE  Rest'
  <2>1. at \in Nat
    BY <1>0, CapturedNat
  <2> QED BY <1>0, <1>4, <2>1, LeaseStep DEF TurnLease
<1>5. ASSUME NEW j \in Jobs, turn[j] \notin TerminalTurn \cup {"absent"}
      PROVE  status[j] \in OpenJob
  BY <1>0, <1>5 DEF Row, Agree, JobTypeOK, JobStatus
<1>6. ASSUME NEW j \in Jobs, NEW target,
             NEW jobTarget \in {"completed", "failed", "dead_letter", "cancelled"},
             SettleTurn(j, target, jobTarget),
             UNCHANGED <<rows, minted, rowid>>,
             UNCHANGED <<heldJob, heldToken>> \/ \E w \in Workers : Forget(w)
      PROVE  Rest'
  <2>1. status[j] \in OpenJob
    BY <1>0, <1>5, <1>6, TurnEdges DEF SettleTurn
  <2>2. jobTarget \in JobStatus \ (ActiveJob \cup {"absent"})
    BY DEF JobStatus, TerminalJob, ActiveJob
  <2> QED BY <1>0, <1>6, <2>1, <2>2, CloseStep DEF SettleTurn
<1>7. ASSUME NEW at \in Captured, NEW w \in Workers,
             NEW target \in {"completed", "partial", "failed"},
             FinishTurnJob(w, at, target)
      PROVE  Rest'
  <2> DEFINE jt == IF target = "failed" THEN "failed" ELSE "completed"
  <2>1. heldJob[w] \in Jobs /\ jt \in {"completed", "failed", "dead_letter", "cancelled"}
    BY <1>7, ExecutingJob DEF FinishTurnJob
  <2>2. SettleTurn(heldJob[w], target, jt)
    BY <1>7 DEF FinishTurnJob
  <2> HIDE DEF jt
  <2> QED BY <1>6, <1>7, <2>1, <2>2 DEF FinishTurnJob
<1>8. ASSUME NEW at \in Captured, NEW w \in Workers, NEW retryable \in BOOLEAN,
             FailTurnJob(w, at, retryable)
      PROVE  Rest'
  <2> DEFINE jt == IF retryable THEN "dead_letter" ELSE "failed"
  <2>1. heldJob[w] \in Jobs /\ jt \in {"completed", "failed", "dead_letter", "cancelled"}
    BY <1>8, ExecutingJob DEF FailTurnJob
  <2>2. SettleTurn(heldJob[w], "failed", jt)
    BY <1>8 DEF FailTurnJob
  <2> HIDE DEF jt
  <2> QED BY <1>6, <1>8, <2>1, <2>2 DEF FailTurnJob
<1>9. ASSUME NEW j \in Jobs, Interrupt(j) PROVE Rest'
  BY <1>6, <1>9 DEF Interrupt
<1>10. ASSUME NEW at \in Captured, NEW w \in Workers, NEW preserveAttempt \in BOOLEAN,
              NEW delay \in RetryDelays, RetryTurnJob(w, at, preserveAttempt, delay)
       PROVE  Rest'
  <2>1. heldJob[w] \in Jobs /\ status[heldJob[w]] \in OpenJob
    BY <1>10, ExecutingJob DEF RetryTurnJob, OpenJob, ActiveJob
  <2>2. "retry_scheduled" \in JobStatus \ (ActiveJob \cup {"absent"})
    BY DEF JobStatus, OpenJob, ReadyJob, ActiveJob
  <2> QED BY <1>0, <1>10, <2>1, <2>2, CloseStep DEF RetryTurnJob
<1>11. ASSUME NEW at \in Captured, NEW w \in Workers, RequestInteraction(w, at)
       PROVE  Rest'
  <2>1. heldJob[w] \in Jobs /\ status[heldJob[w]] \in OpenJob
    BY <1>11, ExecutingJob DEF RequestInteraction, OpenJob, ActiveJob
  <2>2. "waiting_human" \in JobStatus \ (ActiveJob \cup {"absent"})
    BY DEF JobStatus, OpenJob, ReadyJob, ActiveJob
  <2> QED BY <1>0, <1>11, <2>1, <2>2, CloseStep DEF RequestInteraction
<1>12. ASSUME NEW at \in Captured, NEW j \in Jobs, NEW refresh \in BOOLEAN,
              Respond(j, at, refresh)
       PROVE  Rest'
  <2>1. status[j] = "waiting_human" /\ status' = [status EXCEPT ![j] = "queued"]
    BY <1>0, <1>12 DEF Respond, Row, Agree
  <2>2. UNCHANGED <<rows, minted, rowid, attempt, owner, token, heldJob, heldToken>>
    BY <1>12 DEF Respond
  <2> QED BY <1>0, <2>1, <2>2 DEF JobInv, JobTypeOK, LeaseShape, RowsInOrder,
             ThreadInOrder, TokensMinted, ActiveJob, TerminalJob
<1>13. ASSUME NEW j \in Jobs, NEW target \in {"expired", "cancelled"},
              CloseInteraction(j, target)
       PROVE  Rest'
  <2> DEFINE outcome == IF target = "expired" THEN "failed" ELSE "cancelled"
  <2>1. status[j] = "waiting_human"
    BY <1>0, <1>13 DEF CloseInteraction, Row, Agree
  <2>2. {i \in {j} : \/ status[i] = "waiting_human"
                     \/ turn[i] = "waiting_human" /\ status[i] \in OpenJob} = {j}
    BY <2>1
  <2>3. ClearLeases({j})
    BY <1>13, <2>2 DEF CloseInteraction
  <2>4. status' = [i \in Jobs |-> IF i \in {j} THEN outcome ELSE status[i]]
    BY <1>13, <2>2 DEF CloseInteraction
  <2>5. status' = [status EXCEPT ![j] = outcome]
    BY <1>0, <2>4 DEF JobTypeOK
  <2>6. outcome \in JobStatus \ (ActiveJob \cup {"absent"}) /\ status[j] \in OpenJob
    BY <2>1 DEF JobStatus, OpenJob, TerminalJob, ActiveJob
  <2>7. UNCHANGED <<rows, minted, rowid, attempt, heldJob, heldToken>>
    BY <1>13 DEF CloseInteraction
  <2> HIDE DEF outcome
  <2> QED BY <1>0, <2>3, <2>5, <2>6, <2>7, CloseStep
<1>14. ASSUME NEW at \in Captured, NEW j \in Jobs, NEW k \in Jobs, Replace(j, k, at)
       PROVE  Rest'
  <2>1. status[j] \in OpenJob /\ status[k] = "absent" /\ j # k
    BY <1>0, <1>5, <1>14, TurnEdges DEF Replace, Row, Agree
  <2>2. /\ status' = [status EXCEPT ![j] = "cancelled", ![k] = "queued"]
        /\ rows' = rows + 1 /\ rowid' = [rowid EXCEPT ![k] = rows + 1]
        /\ owner' = [i \in Jobs |-> IF i \in {j} THEN NoOwner ELSE owner[i]]
        /\ token' = [i \in Jobs |-> IF i \in {j} THEN 0 ELSE token[i]]
        /\ UNCHANGED <<minted, attempt, heldJob, heldToken>>
    BY <1>14 DEF Replace, ClearLeases
  <2>3. LeaseShape'
    BY <1>0, <2>1, <2>2 DEF JobInv, JobTypeOK, LeaseShape, ActiveJob
  <2>4. RowsInOrder'
    BY <1>0, <2>1, <2>2 DEF JobInv, JobTypeOK, RowsInOrder, OpenJob, ActiveJob, ReadyJob
  <2>5. TokensMinted'
    BY <1>0, <2>2 DEF JobInv, JobTypeOK, TokensMinted
  <2>6. ThreadInOrder'
    <3> SUFFICES ASSUME NEW i \in Jobs, NEW l \in Jobs, status'[l] \in ActiveJob,
                        ThreadOf[i] = ThreadOf[l], status'[i] # "absent",
                        rowid'[i] < rowid'[l]
                 PROVE  status'[i] \in TerminalJob
      BY DEF ThreadInOrder
    <3>1. l # j /\ l # k /\ status[l] \in ActiveJob /\ rowid'[l] = rowid[l]
      BY <1>0, <2>2 DEF JobTypeOK, ActiveJob
    <3>2. rowid[l] <= rows
      BY <1>0, <3>1 DEF JobInv, RowsInOrder, ActiveJob
    <3>3. i # k
      BY <1>0, <2>2, <3>1, <3>2 DEF JobTypeOK
    <3>4. CASE i = j
      BY <1>0, <2>1, <2>2, <3>4 DEF JobTypeOK, TerminalJob
    <3>5. CASE i # j
      <4>1. status'[i] = status[i] /\ rowid'[i] = rowid[i]
        BY <1>0, <2>2, <3>3, <3>5 DEF JobTypeOK
      <4> QED BY <1>0, <3>1, <4>1 DEF JobInv, ThreadInOrder
    <3> QED BY <3>4, <3>5
  <2> QED BY <2>3, <2>4, <2>5, <2>6
<1>15. ASSUME NEW at \in Captured, NEW j \in Jobs, CreateTurn(j, at) PROVE Rest'
  BY <1>1, <1>15 DEF CreateTurn, JobNext
<1>16. ASSUME NEW at \in Captured, NEW w \in Workers, WorkerStart(w, at) PROVE Rest'
  BY <1>1, <1>16 DEF WorkerStart, JobNext
<1>17. ASSUME NEW at \in Captured, NEW w \in Workers, WorkerHeartbeat(w, at) PROVE Rest'
  BY <1>1, <1>17 DEF WorkerHeartbeat, JobNext
<1>18. ASSUME NEW w \in Workers, WorkerCrash(w) PROVE Rest'
  BY <1>1, <1>18 DEF WorkerCrash, JobNext
<1>19. ASSUME TurnTick PROVE Rest'
  BY <1>1, <1>19 DEF TurnTick, JobNext
<1> QED
  BY <1>2, <1>3, <1>4, <1>7, <1>8, <1>9, <1>10, <1>11, <1>12, <1>13, <1>14, <1>15,
     <1>16, <1>17, <1>18, <1>19
  DEF TurnNext, vars, WorkerTransition, RecordResponse, BeginFinalizing, ApplyInputs, Steer,
      WorkerFails, TurnLeaseAborted, LeaseAborted
-----------------------------------------------------------------------------
\* The row of a job, its turn and question, and the keys of its reclaims.
RowKept(j) ==
    /\ status'[j] = status[j] /\ attempt'[j] = attempt[j] /\ preserve'[j] = preserve[j]
    /\ turn'[j] = turn[j] /\ ask'[j] = ask[j] /\ inputs'[j] = inputs[j]
    /\ responded'[j] = responded[j] /\ covered'[j] = covered[j]
    /\ \A a \in Nat : <<j, a>> \in reclaims' <=> <<j, a>> \in reclaims

\* A row that a step does not touch keeps its part of the invariant.
LEMMA RowFrame ==
    ASSUME TurnInv, NEW j \in Jobs, RowKept(j)
    PROVE  Row(j)'
<1>1. Row(j) /\ attempt[j] \in Nat /\ attempt'[j] \in Nat
  BY DEF TurnInv, RowKept, TurnTypeOK, JobTypeOK
<1>2. Agree(j)'
  BY <1>1 DEF Row, RowKept, Agree
<1>3. Budget(j)'
  BY <1>1 DEF Row, RowKept, Budget
<1>4. Keys(j)'
  BY <1>1, JobsAssumption DEF Row, RowKept, Keys
<1> QED BY <1>2, <1>3, <1>4 DEF Row

\* A sweep leaves the row of every job in order: a requeued one has budget left
\* and a turn that can be resumed, and its key has been used up.
LEMMA SweptRow ==
    ASSUME TurnInv, NEW at \in Nat, NEW j \in Jobs, SweepTurns(at),
           status'[j] = Swept(at, Recovered(at))[j],
           attempt'[j] = attempt[j], preserve'[j] = preserve[j]
    PROVE  Row(j)'
<1> USE JobsAssumption
<1>1. /\ Row(j) /\ attempt[j] \in Nat /\ turn[j] \in TurnStatus
      /\ preserve[j] \in BOOLEAN /\ responded[j] \in BOOLEAN
  BY DEF TurnInv, TurnTypeOK, JobTypeOK
<1>2. /\ turn'[j] = SweptTurn(at)[j] /\ ask'[j] = SweptAsk(at)[j]
      /\ inputs' = inputs /\ responded' = responded /\ covered' = covered
      /\ reclaims' = reclaims \cup {<<i, attempt[i]>> : i \in Requeued(at)}
  BY DEF SweepTurns
<1>3. ASSUME NEW a PROVE <<j, a>> \in reclaims' <=>
                          <<j, a>> \in reclaims \/ (j \in Requeued(at) /\ a = attempt[j])
  BY <1>2
<1>4. ask'[j] = ask[j]
  BY <1>2, SweepCases
<1>5. CASE j \notin SweptJobs(at)
  <2>1. j \notin Requeued(at) /\ status'[j] = status[j] /\ turn'[j] = turn[j]
    BY <1>2, <1>5, SweepCases
  <2> QED BY <1>2, <1>3, <1>4, <2>1, RowFrame DEF RowKept
<1>6. CASE j \in SweptJobs(at)
  <2>1. status[j] \in ActiveJob
    BY <1>6, SweepCases DEF ActiveJob
  <2>2. ~preserve[j] /\ turn[j] \notin TerminalTurn \cup {"absent", "waiting_human"}
        /\ ask[j] # "pending"
    BY <1>1, <2>1 DEF Row, Agree, Budget, ActiveJob, TerminalJob
  <2>3. CASE j \in Requeued(at)
    <3>1. /\ status'[j] = "queued" /\ turn'[j] = MoveToRetryWait(j)
          /\ attempt[j] < MaxAttempts /\ ~(turn[j] = "finalizing" /\ responded[j])
      BY <1>2, <1>6, <2>3, SweepCases
    <3>2. turn'[j] \in {"queued", "preparing", "retry_wait", "finalizing"}
      BY <1>1, <2>2, <3>1 DEF MoveToRetryWait, TurnStatus
    <3>3. turn'[j] = "finalizing" => turn[j] = "finalizing"
      BY <3>1 DEF MoveToRetryWait
    <3>4. Agree(j)'
      BY <1>1, <1>2, <1>4, <2>2, <3>1, <3>2, <3>3
      DEF Row, Agree, ActiveJob, ReadyJob, TerminalJob, TerminalTurn
    <3>5. Budget(j)'
      BY <1>1, <2>2, <3>1 DEF Budget, ActiveJob
    <3>6. Keys(j)'
      BY <1>1, <1>3, <2>2, <3>1 DEF Row, Keys, ActiveJob
    <3> QED BY <3>4, <3>5, <3>6 DEF Row
  <2>4. CASE j \notin Requeued(at)
    <3>1. \/ /\ status'[j] = "completed" /\ turn'[j] = "completed"
             /\ turn[j] = "finalizing"
          \/ status'[j] = "dead_letter" /\ turn'[j] = "failed"
      BY <1>2, <1>6, <2>4, SweepCases
    <3>2. Agree(j)'
      BY <1>1, <1>2, <1>4, <2>2, <3>1
      DEF Row, Agree, ActiveJob, ReadyJob, TerminalJob, TerminalTurn
    <3>3. Budget(j)' /\ Keys(j)'
      BY <1>1, <1>3, <2>2, <2>4, <3>1 DEF Row, Budget, Keys, ActiveJob, TerminalJob
    <3> QED BY <3>2, <3>3 DEF Row
  <2> QED BY <2>3, <2>4
<1> QED BY <1>5, <1>6

\* A lease puts the row it selects, swept by the same transaction or not, under
\* an attempt that has never been reclaimed.
LEMMA LeasedRow ==
    ASSUME TurnInv, NEW at \in Nat, NEW w \in Workers, NEW j \in Jobs,
           TurnLease(w, j, at)
    PROVE  Row(j)'
<1> USE JobsAssumption
<1>1. /\ Row(j) /\ attempt[j] \in Nat /\ turn[j] \in TurnStatus
      /\ preserve[j] \in BOOLEAN /\ responded[j] \in BOOLEAN
      /\ attempt \in [Jobs -> Nat] /\ preserve \in [Jobs -> BOOLEAN]
      /\ status \in [Jobs -> JobStatus]
  BY DEF TurnInv, TurnTypeOK, JobTypeOK
<1>2. /\ status'[j] = "leased" /\ attempt'[j] = AttemptAtLease(j)
      /\ preserve'[j] = FALSE /\ AttemptAtLease(j) <= MaxAttempts
  BY <1>1 DEF TurnLease, LeaseNext, Swept
<1>3. Swept(at, Recovered(at))[j] \in ReadyJob
  BY DEF TurnLease, LeaseNext, First, Candidates
<1>4. /\ turn'[j] = SweptTurn(at)[j] /\ ask'[j] = SweptAsk(at)[j]
      /\ inputs' = inputs /\ responded' = responded /\ covered' = covered
      /\ reclaims' = reclaims \cup {<<i, attempt[i]>> : i \in Requeued(at)}
  BY DEF TurnLease, SweepTurns
<1>5. ASSUME NEW a PROVE <<j, a>> \in reclaims' <=>
                          <<j, a>> \in reclaims \/ (j \in Requeued(at) /\ a = attempt[j])
  BY <1>4
<1>6. /\ ask'[j] # "pending"
      /\ turn'[j] \in {"queued", "preparing", "retry_wait", "finalizing"}
      /\ turn'[j] = "finalizing" => turn[j] = "finalizing" /\ ~responded[j]
      /\ j \in Requeued(at) => ~preserve[j]
  <2>1. CASE j \notin SweptJobs(at)
    <3>1. status[j] \in ReadyJob /\ turn'[j] = turn[j] /\ j \notin Requeued(at)
          /\ ask'[j] = ask[j]
      BY <1>3, <1>4, <2>1, SweepCases
    <3> QED BY <1>1, <3>1 DEF Row, Agree, ReadyJob
  <2>2. CASE j \in SweptJobs(at)
    <3>1. /\ status[j] \in ActiveJob /\ turn'[j] = MoveToRetryWait(j)
          /\ ask'[j] = ask[j] /\ ~(turn[j] = "finalizing" /\ responded[j])
      BY <1>3, <1>4, <2>2, SweepCases DEF ReadyJob
    <3>2. ~preserve[j] /\ turn[j] \notin TerminalTurn \cup {"absent", "waiting_human"}
          /\ ask[j] # "pending"
      BY <1>1, <3>1 DEF Row, Agree, Budget, ActiveJob, TerminalJob
    <3> QED BY <1>1, <3>1, <3>2 DEF MoveToRetryWait, TurnStatus
  <2> QED BY <2>1, <2>2
<1>7. Agree(j)'
  BY <1>1, <1>2, <1>4, <1>6
  DEF Row, Agree, ActiveJob, ReadyJob, TerminalJob, TerminalTurn
<1>8. AttemptAtLease(j) \in Nat /\ AttemptAtLease(j) >= 1 /\ AttemptAtLease(j) >= attempt[j]
  BY <1>1 DEF AttemptAtLease, Row, Budget
<1>9. Budget(j)'
  BY <1>1, <1>2, <1>8 DEF Budget, ActiveJob
<1>10. Keys(j)'
  <2>1. \A a \in 1..MaxAttempts : <<j, a>> \in reclaims' => a <= attempt'[j]
    BY <1>1, <1>2, <1>5, <1>8 DEF Row, Keys
  <2>2. <<j, AttemptAtLease(j)>> \notin reclaims
    BY <1>1, <1>2, <1>8 DEF Row, Keys, AttemptAtLease
  <2>3. j \in Requeued(at) => AttemptAtLease(j) # attempt[j]
    BY <1>1, <1>6 DEF AttemptAtLease
  <2> QED BY <1>2, <1>5, <2>1, <2>2, <2>3 DEF Keys
<1> QED BY <1>7, <1>9, <1>10 DEF Row
\* Settling a turn closes row, turn and question together.
LEMMA SettledRow ==
    ASSUME TurnInv, NEW j \in Jobs, NEW target \in TerminalTurn, NEW jobTarget,
           SettleTurn(j, target, jobTarget),
           UNCHANGED <<attempt, preserve, inputs, responded, reclaims, covered>>,
           target = "completed" => turn[j] = "finalizing",
           \/ jobTarget = "completed" /\ target \in {"completed", "partial"}
           \/ jobTarget \in {"failed", "dead_letter"} /\ target = "failed"
           \/ jobTarget = "cancelled"
    PROVE  \A i \in Jobs : Row(i)'
<1> USE JobsAssumption
<1>0. TurnTypeOK /\ JobTypeOK /\ Row(j)
  BY DEF TurnInv, JobInv
<1>1. ASSUME NEW i \in Jobs, i # j PROVE Row(i)'
  BY <1>0, <1>1, RowFrame DEF SettleTurn, RowKept, TurnTypeOK, JobTypeOK
<1>2. /\ turn'[j] = target /\ status'[j] = jobTarget /\ ask'[j] # "pending"
      /\ attempt'[j] = attempt[j] /\ preserve'[j] = preserve[j] /\ attempt[j] \in Nat
      /\ covered'[j] = covered[j] /\ inputs'[j] = inputs[j]
  BY <1>0 DEF SettleTurn, TurnTypeOK, JobTypeOK
<1>3. jobTarget \in TerminalJob
  BY DEF TerminalJob
<1>4. Agree(j)'
  BY <1>0, <1>2, <1>3 DEF Row, Agree, TerminalJob, TerminalTurn, ReadyJob
<1>5. Budget(j)' /\ Keys(j)'
  BY <1>0, <1>2, <1>3 DEF Row, Budget, Keys, TerminalJob, ActiveJob
<1> QED BY <1>1, <1>4, <1>5 DEF Row

\* Every step keeps the row of every job in order.
LEMMA TurnRowStep ==
    ASSUME TurnInv, [TurnNext]_vars PROVE \A i \in Jobs : Row(i)'
<1> USE JobsAssumption
<1> DEFINE Rows == \A i \in Jobs : Row(i)
<1>0. TurnTypeOK /\ JobTypeOK /\ \A j \in Jobs : Row(j)
  BY DEF TurnInv, JobInv
<1>1. ASSUME \A i \in Jobs : RowKept(i) PROVE Rows'
  BY <1>1, RowFrame
<1>2. CASE TurnTick \/ UNCHANGED vars
  BY <1>1, <1>2 DEF TurnTick, Tick, vars, turnVars, jobVars, rowVars, RowKept
<1>3. ASSUME NEW at \in Captured, NEW w \in Workers, WorkerHeartbeat(w, at) PROVE Rows'
  BY <1>1, <1>3 DEF WorkerHeartbeat, Heartbeat, turnVars, RowKept
<1>4. ASSUME NEW w \in Workers, WorkerCrash(w) \/ ApplyInputs(w) PROVE Rows'
  BY <1>1, <1>4 DEF WorkerCrash, Crash, ApplyInputs, turnVars, jobVars, rowVars, RowKept
<1>5. ASSUME NEW at \in Captured, TurnReclaim(at) PROVE Rows'
  <2>1. at \in Nat
    BY <1>0, CapturedNat
  <2> QED BY <1>5, <2>1, SweptRow DEF TurnReclaim, ReclaimExpired
<1>6. ASSUME NEW at \in Captured, NEW w \in Workers, NEW j \in Jobs, TurnLease(w, j, at)
      PROVE  Rows'
  <2>1. at \in Nat
    BY <1>0, CapturedNat
  <2>2. ASSUME NEW i \in Jobs, i # j PROVE Row(i)'
    <3>1. /\ status'[i] = Swept(at, Recovered(at))[i]
          /\ attempt'[i] = attempt[i] /\ preserve'[i] = preserve[i]
      BY <1>0, <1>6, <2>2 DEF TurnLease, LeaseNext, JobTypeOK, Swept
    <3> QED BY <1>6, <2>1, <3>1, SweptRow DEF TurnLease
  <2> QED BY <1>6, <2>1, <2>2, LeasedRow
<1>7. ASSUME NEW at \in Captured, NEW j \in Jobs, CreateTurn(j, at) PROVE Rows'
  <2>1. ASSUME NEW i \in Jobs, i # j PROVE Row(i)'
    BY <1>0, <1>7, <2>1, RowFrame DEF CreateTurn, Enqueue, RowKept, TurnTypeOK, JobTypeOK
  <2>2. /\ turn'[j] = "queued" /\ status'[j] = "queued" /\ status[j] = "absent"
        /\ attempt'[j] = attempt[j] /\ preserve'[j] = preserve[j] /\ reclaims' = reclaims
        /\ ask'[j] = ask[j] /\ inputs' = inputs /\ covered' = covered
    BY <1>0, <1>7 DEF CreateTurn, Enqueue, TurnTypeOK, JobTypeOK
  <2>3. Agree(j)'
    BY <1>0, <2>2 DEF Row, Agree, TerminalJob, TerminalTurn, ReadyJob, ActiveJob
  <2>4. Budget(j)' /\ Keys(j)'
    BY <1>0, <2>2 DEF Row, Budget, Keys, ActiveJob, TerminalJob
  <2> QED BY <2>1, <2>3, <2>4 DEF Row
<1>8. ASSUME NEW at \in Captured, NEW w \in Workers, WorkerStart(w, at) PROVE Rows'
  <2>0. PICK j \in Jobs : j = heldJob[w]
    BY <1>0, <1>8 DEF WorkerStart, Start, OwnsLive, JobTypeOK
  <2>1. ASSUME NEW i \in Jobs, i # j PROVE Row(i)'
    BY <1>0, <1>8, <2>0, <2>1, RowFrame DEF WorkerStart, Start, RowKept, turnVars, JobTypeOK
  <2>2. /\ status[j] = "leased" /\ status'[j] = "running"
        /\ attempt' = attempt /\ preserve' = preserve
        /\ turn' = turn /\ ask' = ask /\ inputs' = inputs /\ covered' = covered
        /\ responded' = responded /\ reclaims' = reclaims
    BY <1>0, <1>8, <2>0 DEF WorkerStart, Start, turnVars, JobTypeOK
  <2>3. Agree(j)'
    BY <1>0, <2>0, <2>2 DEF Row, Agree, TerminalJob, TerminalTurn, ReadyJob, ActiveJob
  <2>4. Budget(j)' /\ Keys(j)'
    BY <1>0, <2>0, <2>2 DEF Row, Budget, Keys, ActiveJob, TerminalJob
  <2> QED BY <2>1, <2>3, <2>4 DEF Row
<1>9. ASSUME NEW at \in Captured, NEW w \in Workers,
             NEW target \in RetryPhase \cup {"preparing"}, WorkerTransition(w, at, target)
      PROVE  Rows'
  <2>0. PICK j \in Jobs : j = heldJob[w] /\ status[j] = "running"
    BY <1>9, ExecutingJob DEF WorkerTransition
  <2>1. ASSUME NEW i \in Jobs, i # j PROVE Row(i)'
    BY <1>0, <1>9, <2>0, <2>1, RowFrame DEF WorkerTransition, RowKept, jobVars, rowVars, TurnTypeOK
  <2>2. /\ status' = status /\ attempt' = attempt /\ preserve' = preserve
        /\ turn'[j] = target /\ ask' = ask /\ inputs' = inputs /\ covered' = covered
        /\ responded' = responded /\ reclaims' = reclaims
    BY <1>0, <1>9, <2>0 DEF WorkerTransition, jobVars, rowVars, TurnTypeOK
  <2>3. Agree(j)'
    BY <1>0, <2>0, <2>2
    DEF Row, Agree, TerminalJob, TerminalTurn, ReadyJob, ActiveJob, RetryPhase
  <2>4. Budget(j)' /\ Keys(j)'
    BY <1>0, <2>0, <2>2 DEF Row, Budget, Keys, ActiveJob, TerminalJob
  <2> QED BY <2>1, <2>3, <2>4 DEF Row
<1>10. ASSUME NEW at \in Captured, NEW w \in Workers,
              RecordResponse(w, at) \/ BeginFinalizing(w, at)
       PROVE  Rows'
  <2>0. PICK j \in Jobs : j = heldJob[w] /\ status[j] = "running"
    BY <1>10, ExecutingJob DEF RecordResponse, BeginFinalizing
  <2>1. ASSUME NEW i \in Jobs, i # j PROVE Row(i)'
    BY <1>0, <1>10, <2>0, <2>1, RowFrame
    DEF RecordResponse, BeginFinalizing, RowKept, jobVars, rowVars, TurnTypeOK
  <2>2. /\ status' = status /\ attempt' = attempt /\ preserve' = preserve
        /\ turn[j] = "streaming" /\ ask' = ask /\ reclaims' = reclaims
        /\ \/ turn' = turn
           \/ turn'[j] = "finalizing" /\ covered'[j] = inputs'[j]
    BY <1>0, <1>10, <2>0
    DEF RecordResponse, BeginFinalizing, jobVars, rowVars, TurnTypeOK
  <2>3. Agree(j)'
    BY <1>0, <2>0, <2>2 DEF Row, Agree, TerminalJob, TerminalTurn, ReadyJob, ActiveJob
  <2>4. Budget(j)' /\ Keys(j)'
    BY <1>0, <2>0, <2>2 DEF Row, Budget, Keys, ActiveJob, TerminalJob
  <2> QED BY <2>1, <2>3, <2>4 DEF Row
<1>11. ASSUME NEW at \in Captured, NEW w \in Workers,
              NEW target \in {"completed", "partial", "failed"},
              FinishTurnJob(w, at, target)
       PROVE  Rows'
  <2> DEFINE jt == IF target = "failed" THEN "failed" ELSE "completed"
  <2>1. heldJob[w] \in Jobs /\ target \in TerminalTurn
    BY <1>11, ExecutingJob DEF FinishTurnJob, TerminalTurn
  <2>2. SettleTurn(heldJob[w], target, jt)
    BY <1>11 DEF FinishTurnJob
  <2>3. /\ target = "completed" => turn[heldJob[w]] = "finalizing"
        /\ UNCHANGED <<attempt, preserve, inputs, responded, reclaims, covered>>
    BY <1>11 DEF FinishTurnJob
  <2>4. \/ jt = "completed" /\ target \in {"completed", "partial"}
        \/ jt \in {"failed", "dead_letter"} /\ target = "failed"
    OBVIOUS
  <2> HIDE DEF jt
  <2> QED BY <2>1, <2>2, <2>3, <2>4, SettledRow
<1>12. ASSUME NEW at \in Captured, NEW w \in Workers, NEW retryable \in BOOLEAN,
              FailTurnJob(w, at, retryable)
       PROVE  Rows'
  <2> DEFINE jt == IF retryable THEN "dead_letter" ELSE "failed"
  <2>1. heldJob[w] \in Jobs /\ "failed" \in TerminalTurn
    BY <1>12, ExecutingJob DEF FailTurnJob, TerminalTurn
  <2>2. SettleTurn(heldJob[w], "failed", jt)
    BY <1>12 DEF FailTurnJob
  <2>3. UNCHANGED <<attempt, preserve, inputs, responded, reclaims, covered>>
    BY <1>12 DEF FailTurnJob
  <2>4. jt \in {"failed", "dead_letter"}
    OBVIOUS
  <2> HIDE DEF jt
  <2> QED BY <2>1, <2>2, <2>3, <2>4, SettledRow
<1>13. ASSUME NEW j \in Jobs, Interrupt(j) PROVE Rows'
  <2>1. "interrupted" \in TerminalTurn
    BY DEF TerminalTurn
  <2> QED BY <1>13, <2>1, SettledRow DEF Interrupt
<1>14. ASSUME NEW at \in Captured, NEW w \in Workers, NEW preserveAttempt \in BOOLEAN,
              NEW delay \in RetryDelays, RetryTurnJob(w, at, preserveAttempt, delay)
       PROVE  Rows'
  <2>0. PICK j \in Jobs : j = heldJob[w] /\ status[j] = "running"
    BY <1>14, ExecutingJob DEF RetryTurnJob
  <2>1. ASSUME NEW i \in Jobs, i # j PROVE Row(i)'
    BY <1>0, <1>14, <2>0, <2>1, RowFrame DEF RetryTurnJob, RowKept, TurnTypeOK, JobTypeOK
  <2>2. /\ status'[j] = "retry_scheduled" /\ turn'[j] = "retry_wait"
        /\ attempt' = attempt /\ attempt[j] < MaxAttempts
        /\ ask' = ask /\ reclaims' = reclaims
    BY <1>0, <1>14, <2>0 DEF RetryTurnJob, TurnTypeOK, JobTypeOK
  <2>3. Agree(j)'
    BY <1>0, <2>0, <2>2 DEF Row, Agree, TerminalJob, TerminalTurn, ReadyJob, ActiveJob
  <2>4. Budget(j)' /\ Keys(j)'
    BY <1>0, <2>0, <2>2 DEF Row, Budget, Keys, ActiveJob, TerminalJob
  <2> QED BY <2>1, <2>3, <2>4 DEF Row
<1>15. ASSUME NEW at \in Captured, NEW w \in Workers, RequestInteraction(w, at)
       PROVE  Rows'
  <2>0. PICK j \in Jobs : j = heldJob[w] /\ status[j] = "running"
    BY <1>15, ExecutingJob DEF RequestInteraction
  <2>1. ASSUME NEW i \in Jobs, i # j PROVE Row(i)'
    BY <1>0, <1>15, <2>0, <2>1, RowFrame DEF RequestInteraction, RowKept, TurnTypeOK, JobTypeOK
  <2>2. /\ status'[j] = "waiting_human" /\ turn'[j] = "waiting_human"
        /\ ask'[j] = "pending" /\ attempt' = attempt /\ preserve' = preserve
        /\ reclaims' = reclaims
    BY <1>0, <1>15, <2>0 DEF RequestInteraction, TurnTypeOK, JobTypeOK
  <2>3. Agree(j)'
    BY <1>0, <2>0, <2>2 DEF Row, Agree, TerminalJob, TerminalTurn, ReadyJob, ActiveJob
  <2>4. Budget(j)' /\ Keys(j)'
    BY <1>0, <2>0, <2>2 DEF Row, Budget, Keys, ActiveJob, TerminalJob
  <2> QED BY <2>1, <2>3, <2>4 DEF Row
<1>16. ASSUME NEW at \in Captured, NEW j \in Jobs, NEW refresh \in BOOLEAN,
              Respond(j, at, refresh)
       PROVE  Rows'
  <2>0. status[j] = "waiting_human" /\ turn[j] = "waiting_human"
    BY <1>0, <1>16 DEF Respond, Row, Agree
  <2>1. ASSUME NEW i \in Jobs, i # j PROVE Row(i)'
    BY <1>0, <1>16, <2>1, RowFrame DEF Respond, RowKept, TurnTypeOK, JobTypeOK
  <2>2. /\ status'[j] = "queued" /\ turn'[j] = "preparing" /\ ask'[j] = "resolved"
        /\ attempt' = attempt /\ preserve' = preserve /\ reclaims' = reclaims
    BY <1>0, <1>16, <2>0 DEF Respond, TurnTypeOK, JobTypeOK
  <2>3. Agree(j)'
    BY <1>0, <2>0, <2>2 DEF Row, Agree, TerminalJob, TerminalTurn, ReadyJob, ActiveJob
  <2>4. Budget(j)' /\ Keys(j)'
    BY <1>0, <2>0, <2>2 DEF Row, Budget, Keys, ActiveJob, TerminalJob
  <2> QED BY <2>1, <2>3, <2>4 DEF Row
<1>17. ASSUME NEW j \in Jobs, NEW target \in {"expired", "cancelled"},
              CloseInteraction(j, target)
       PROVE  Rows'
  <2> DEFINE outcome == IF target = "expired" THEN "failed" ELSE "cancelled"
  <2>0. status[j] = "waiting_human" /\ turn[j] = "waiting_human"
    BY <1>0, <1>17 DEF CloseInteraction, Row, Agree
  <2>1. ASSUME NEW i \in Jobs, i # j PROVE Row(i)'
    BY <1>0, <1>17, <2>1, RowFrame DEF CloseInteraction, RowKept, TurnTypeOK, JobTypeOK
  <2>2. /\ status'[j] = outcome /\ turn'[j] = outcome /\ ask'[j] = target
        /\ attempt' = attempt /\ preserve' = preserve /\ reclaims' = reclaims
    BY <1>0, <1>17, <2>0 DEF CloseInteraction, TurnTypeOK, JobTypeOK
  <2>3. Agree(j)'
    BY <1>0, <2>0, <2>2 DEF Row, Agree, TerminalJob, TerminalTurn, ReadyJob, ActiveJob
  <2>4. Budget(j)' /\ Keys(j)'
    BY <1>0, <2>0, <2>2 DEF Row, Budget, Keys, ActiveJob, TerminalJob
  <2> QED BY <2>1, <2>3, <2>4 DEF Row
<1>18. ASSUME NEW j \in Jobs, Steer(j) PROVE Rows'
  <2>1. ASSUME NEW i \in Jobs, i # j PROVE Row(i)'
    BY <1>0, <1>18, <2>1, RowFrame DEF Steer, RowKept, jobVars, rowVars, TurnTypeOK
  <2>2. /\ status' = status /\ turn' = turn /\ ask' = ask /\ responded' = responded
        /\ attempt' = attempt /\ preserve' = preserve /\ reclaims' = reclaims
        /\ turn[j] \notin {"finalizing", "completed"}
    BY <1>18 DEF Steer, jobVars, rowVars, TerminalTurn
  <2>3. Agree(j)'
    BY <1>0, <2>2 DEF Row, Agree
  <2>4. Budget(j)' /\ Keys(j)'
    BY <1>0, <2>2 DEF Row, Budget, Keys
  <2> QED BY <2>1, <2>3, <2>4 DEF Row
<1>19. ASSUME NEW at \in Captured, NEW j \in Jobs, NEW k \in Jobs, Replace(j, k, at)
       PROVE  Rows'
  <2>0. turn[j] \notin TerminalTurn \cup {"absent"} /\ turn[k] = "absent"
    BY <1>0, <1>19, TurnEdges DEF Replace, TurnTypeOK
  <2>1. ASSUME NEW i \in Jobs, i # j, i # k PROVE Row(i)'
    BY <1>0, <1>19, <2>1, RowFrame DEF Replace, RowKept, TurnTypeOK, JobTypeOK
  <2>2. /\ status'[j] = "cancelled" /\ turn'[j] = "superseded" /\ ask'[j] # "pending"
        /\ status'[k] = "queued" /\ turn'[k] = "queued" /\ ask'[k] = ask[k]
        /\ attempt' = attempt /\ preserve' = preserve /\ reclaims' = reclaims
    BY <1>0, <1>19, <2>0 DEF Replace, TurnTypeOK, JobTypeOK
  <2>3. Agree(j)' /\ Agree(k)'
    BY <1>0, <2>0, <2>2 DEF Row, Agree, TerminalJob, TerminalTurn, ReadyJob, ActiveJob
  <2>4. Budget(j)' /\ Keys(j)'
    BY <1>0, <2>0, <2>2 DEF Row, Budget, Keys, ActiveJob, TerminalJob
  <2>5. Budget(k)' /\ Keys(k)'
    BY <1>0, <2>0, <2>2 DEF Row, Agree, Budget, Keys, ActiveJob, TerminalJob
  <2> QED BY <2>1, <2>3, <2>4, <2>5 DEF Row
<1>20. ASSUME NEW at \in Captured, NEW w \in Workers, NEW j \in Jobs,
              TurnLeaseAborted(w, j, at)
       PROVE  Rows'
  BY <1>0, <1>20, RowFrame
  DEF TurnLeaseAborted, LeaseAborted, RowKept, jobVars, rowVars, turnVars
<1> QED
  BY <1>2, <1>3, <1>4, <1>5, <1>6, <1>7, <1>8, <1>9, <1>10, <1>11, <1>12, <1>13, <1>14,
     <1>15, <1>16, <1>17, <1>18, <1>19, <1>20 DEF TurnNext, WorkerFails

\* The invariant holds in every reachable state of the kernel.
LEMMA TurnInvCorrect == TurnSpec => []TurnInv
<1>1. TurnInit => TurnInv
  <2> SUFFICES ASSUME TurnInit PROVE TurnInv
    OBVIOUS
  <2>1. JobInv
    BY JobsAssumption
    DEF TurnInit, JobInit, JobInv, JobTypeOK, JobStatus, LeaseShape, RowsInOrder,
        ThreadInOrder, TokensMinted, ActiveJob
  <2>2. TurnTypeOK
    BY <2>1, JobsAssumption, TurnsAssumption DEF TurnInit, JobInv, TurnTypeOK, TurnStatus
  <2>3. \A j \in Jobs : Agree(j)
    BY DEF TurnInit, JobInit, Agree, TerminalTurn, TerminalJob, ReadyJob
  <2>4. \A j \in Jobs : Budget(j) /\ Keys(j)
    BY JobsAssumption DEF TurnInit, JobInit, Budget, Keys, ActiveJob
  <2> QED BY <2>1, <2>2, <2>3, <2>4 DEF TurnInv, Row
<1>2. TurnInv /\ [TurnNext]_vars => TurnInv'
  <2> SUFFICES ASSUME TurnInv, [TurnNext]_vars PROVE TurnInv'
    OBVIOUS
  <2>1. TurnTypeOK'
    BY TurnTypeStep
  <2>2. JobTypeOK'
    BY <2>1 DEF TurnTypeOK
  <2>3. JobInv'
    BY <2>2, TurnJobStep DEF JobInv
  <2> QED BY <2>1, <2>3, TurnRowStep DEF TurnInv
<1> QED BY <1>1, <1>2, PTL DEF TurnSpec
-----------------------------------------------------------------------------
(* What follows from the invariant. *)

\* Turns, questions, inputs and reclaim keys are well typed; in particular every
\* reclaim key names an attempt within the budget.
THEOREM TurnTypeCorrect == TurnSpec => []TurnTypeOK
<1>1. TurnInv => TurnTypeOK
  BY DEF TurnInv
<1> QED BY <1>1, TurnInvCorrect, PTL

\* Nothing that workers, users and sweeps do in any order makes the invariant
\* auditor close the execution gate.
THEOREM AuditorCleanCorrect == TurnSpec => []AuditorClean
<1>1. TurnInv => AuditorClean
  <2> SUFFICES ASSUME TurnInv, NEW j \in Jobs
               PROVE  /\ turn[j] \in TerminalTurn =>
                            status[j] \in TerminalJob /\ ask[j] # "pending"
                      /\ turn[j] = "waiting_human" => ask[j] = "pending"
                      /\ status[j] = "waiting_human" =>
                            turn[j] = "waiting_human" /\ ask[j] = "pending"
                      /\ status[j] = "retry_scheduled" => turn[j] = "retry_wait"
                      /\ status[j] = "completed" => turn[j] \in {"completed", "partial"}
                      /\ status[j] \in {"failed", "dead_letter"} => turn[j] = "failed"
                      /\ status[j] \in ActiveJob <=> token[j] # 0
    BY DEF AuditorClean
  <2>1. Agree(j) /\ (status[j] \in ActiveJob <=> token[j] # 0)
    BY DEF TurnInv, Row, JobInv, LeaseShape
  <2> QED BY <2>1 DEF Agree, TerminalJob
<1> QED BY <1>1, TurnInvCorrect, PTL

\* A turn that is neither finished nor waiting for its user has a job that some
\* worker executes or will be offered in a phase it can resume.
THEOREM TurnNotStrandedCorrect == TurnSpec => []TurnNotStranded
<1>1. TurnInv => TurnNotStranded
  <2> SUFFICES ASSUME TurnInv, NEW j \in Jobs,
                      turn[j] \notin TerminalTurn \cup {"absent", "waiting_human"}
               PROVE  \/ status[j] \in ActiveJob
                      \/ /\ status[j] \in ReadyJob
                         /\ turn[j] \in {"queued", "preparing", "retry_wait", "finalizing"}
    BY DEF TurnNotStranded
  <2>1. Agree(j) /\ status[j] \in JobStatus
    BY DEF TurnInv, Row, TurnTypeOK, JobTypeOK
  <2> QED BY <2>1 DEF Agree, JobStatus, OpenJob
<1> QED BY <1>1, TurnInvCorrect, PTL

\* A turn is finalized, by a live worker, a stalled one or the recovery sweep, only
\* with its last accepted steer applied.
THEOREM SteerNotLostCorrect == TurnSpec => []SteerNotLost
<1>1. TurnInv => SteerNotLost
  BY DEF TurnInv, Row, Agree, SteerNotLost
<1> QED BY <1>1, TurnInvCorrect, PTL

\* The attempt that is running has no reclaim event yet, however often an attempt
\* number was leased again, so no sweep aborts on its own key.
THEOREM ReclaimKeyFreshCorrect == TurnSpec => []ReclaimKeyFresh
<1>1. TurnInv => ReclaimKeyFresh
  BY DEF TurnInv, Row, Keys, ReclaimKeyFresh
<1> QED BY <1>1, TurnInvCorrect, PTL

\* Only the answer to a question asked on the last attempt queues a job whose next
\* attempt exceeds the budget.
THEOREM OfferedWithinBudgetCorrect == TurnSpec => []OfferedWithinBudget
<1>1. TurnInv => OfferedWithinBudget
  <2> SUFFICES ASSUME TurnInv, NEW j \in Jobs, status[j] \in ReadyJob,
                      AttemptAtLease(j) > MaxAttempts
               PROVE  status[j] = "queued" /\ ask[j] = "resolved" /\ turn[j] = "preparing"
    BY DEF OfferedWithinBudget
  <2>1. Budget(j) /\ attempt[j] \in Nat /\ attempt[j] <= MaxAttempts
    BY JobsAssumption DEF TurnInv, Row, TurnTypeOK, JobTypeOK
  <2> QED BY <2>1, JobsAssumption DEF Budget, AttemptAtLease, ReadyJob
<1> QED BY <1>1, TurnInvCorrect, PTL

\* The jobs of a thread execute in order although turns are interrupted, replaced,
\* answered and recovered.
THEOREM TurnThreadInOrderCorrect == TurnSpec => []ThreadInOrder
<1>1. TurnInv => ThreadInOrder
  BY DEF TurnInv, JobInv
<1> QED BY <1>1, TurnInvCorrect, PTL

-----------------------------------------------------------------------------
(* What a step may never do. *)

\* The kinds of change a step can make to one turn and its job.
TurnMove(j) ==
    \/ /\ turn'[j] = turn[j] /\ status'[j] = status[j]
       /\ inputs'[j] # inputs[j] => turn[j] \notin TerminalTurn
    \/ /\ turn[j] = "absent" /\ turn'[j] = "queued" /\ inputs'[j] = inputs[j]
    \/ /\ status[j] \in OpenJob
       /\ turn'[j] # turn[j] =>
             \/ turn'[j] \in TurnTransitions[turn[j]]
             \/ turn[j] = "queued" /\ turn'[j] = "failed" /\ status'[j] = "dead_letter"
       /\ turn[j] = "finalizing" /\ responded[j] =>
             status'[j] \notin {"queued", "retry_scheduled", "dead_letter"}

\* What the sweep's share of a transaction does to one turn.
LEMMA SweptMove ==
    ASSUME TurnInv, NEW at \in Nat, NEW j \in Jobs, SweepTurns(at),
           \/ status'[j] = Swept(at, Recovered(at))[j]
           \/ status'[j] = "leased" /\ Swept(at, Recovered(at))[j] \in ReadyJob
    PROVE  TurnMove(j)
<1>1. /\ Agree(j) /\ turn[j] \in TurnStatus /\ responded[j] \in BOOLEAN
      /\ status[j] \in JobStatus
  BY DEF TurnInv, Row, TurnTypeOK, JobTypeOK
<1>2. turn'[j] = SweptTurn(at)[j] /\ inputs' = inputs
  BY DEF SweepTurns
<1>3. CASE j \notin SweptJobs(at)
  <2>1. turn'[j] = turn[j] /\ Swept(at, Recovered(at))[j] = status[j]
    BY <1>2, <1>3, SweepCases
  <2>2. CASE status'[j] = status[j]
    BY <1>2, <2>1, <2>2 DEF TurnMove
  <2>3. CASE status'[j] = "leased" /\ status[j] \in ReadyJob
    BY <2>1, <2>3 DEF TurnMove, OpenJob
  <2> QED BY <2>1, <2>2, <2>3
<1>4. CASE j \in SweptJobs(at)
  <2>1. status[j] \in ActiveJob
    BY <1>4, SweepCases DEF ActiveJob
  <2>2. turn[j] \notin TerminalTurn \cup {"absent", "waiting_human"}
    BY <1>1, <2>1 DEF Agree, ActiveJob, TerminalJob
  <2>3. \/ turn'[j] = turn[j]
        \/ turn'[j] \in TurnTransitions[turn[j]]
        \/ turn[j] = "queued" /\ turn'[j] = "failed" /\ status'[j] = "dead_letter"
    <3>1. CASE Swept(at, Recovered(at))[j] = "completed"
      <4>1. turn[j] = "finalizing" /\ turn'[j] = "completed"
        BY <1>2, <1>4, <3>1, SweepCases
      <4>2. "completed" \in TurnTransitions["finalizing"]
        BY DEF TurnTransitions, TurnStatus, TerminalTurn, RetryPhase
      <4> QED BY <4>1, <4>2
    <3>2. CASE Swept(at, Recovered(at))[j] = "dead_letter"
      <4>1. turn'[j] = "failed" /\ status'[j] = "dead_letter"
        BY <1>2, <1>4, <3>2, SweepCases DEF ReadyJob
      <4> QED BY <1>1, <2>2, <4>1, TurnEdges
    <3>3. CASE Swept(at, Recovered(at))[j] = "queued"
      <4>1. turn'[j] = MoveToRetryWait(j)
        BY <1>2, <1>4, <3>3, SweepCases
      <4>2. turn[j] \in RetryPhase => "retry_wait" \in TurnTransitions[turn[j]]
        BY <1>1, TurnEdges
      <4> QED BY <4>1, <4>2 DEF MoveToRetryWait
    <3> QED BY <1>4, <3>1, <3>2, <3>3, SweepCases
  <2>4. turn[j] = "finalizing" /\ responded[j] => status'[j] = "completed"
    BY <1>4, SweepCases DEF ReadyJob
  <2> QED BY <2>1, <2>3, <2>4 DEF TurnMove, OpenJob
<1> QED BY <1>3, <1>4

\* Settling a turn takes an edge of the graph.
LEMMA SettledMove ==
    ASSUME TurnInv, NEW j \in Jobs, NEW target, NEW jobTarget,
           SettleTurn(j, target, jobTarget), inputs' = inputs,
           jobTarget \in TerminalJob,
           jobTarget = "dead_letter" => turn[j] # "finalizing"
    PROVE  \A i \in Jobs : TurnMove(i)
<1>0. /\ TurnTypeOK /\ JobTypeOK /\ Agree(j)
  BY DEF TurnInv, Row, JobInv
<1>1. ASSUME NEW i \in Jobs, i # j PROVE TurnMove(i)
  BY <1>0, <1>1 DEF SettleTurn, TurnMove, TurnTypeOK, JobTypeOK
<1>2. turn'[j] = target /\ status'[j] = jobTarget /\ target \in TurnTransitions[turn[j]]
  BY <1>0 DEF SettleTurn, TurnTypeOK, JobTypeOK
<1>3. turn[j] \notin TerminalTurn \cup {"absent"}
  BY <1>0, <1>2, TurnEdges DEF TurnTypeOK
<1>4. status[j] \in OpenJob
  BY <1>0, <1>3 DEF Agree, JobTypeOK, JobStatus
<1>5. TurnMove(j)
  BY <1>2, <1>4 DEF TurnMove, TerminalJob
<1> QED BY <1>1, <1>5

\* Every step of the kernel is such a change for every turn.
LEMMA TurnMoves == ASSUME TurnInv, [TurnNext]_vars PROVE \A i \in Jobs : TurnMove(i)
<1> USE JobsAssumption
<1> DEFINE Moves == \A i \in Jobs : TurnMove(i)
<1>0. /\ TurnTypeOK /\ JobTypeOK
      /\ \A j \in Jobs : Agree(j) /\ turn[j] \in TurnStatus /\ status[j] \in JobStatus
  BY DEF TurnInv, Row, TurnTypeOK, JobTypeOK
<1>1. ASSUME UNCHANGED <<turn, status, inputs>> PROVE Moves
  BY <1>1 DEF TurnMove
<1>2. ASSUME NEW at \in Captured, TurnReclaim(at) PROVE Moves
  <2>1. at \in Nat
    BY <1>0, CapturedNat
  <2> QED BY <1>2, <2>1, SweptMove DEF TurnReclaim, ReclaimExpired
<1>3. ASSUME NEW at \in Captured, NEW w \in Workers, NEW j \in Jobs, TurnLease(w, j, at)
      PROVE  Moves
  <2>1. at \in Nat /\ SweepTurns(at)
    BY <1>0, <1>3, CapturedNat DEF TurnLease
  <2>2. ASSUME NEW i \in Jobs
        PROVE  \/ status'[i] = Swept(at, Recovered(at))[i]
               \/ status'[i] = "leased" /\ Swept(at, Recovered(at))[i] \in ReadyJob
    <3>1. Swept(at, Recovered(at))[j] \in ReadyJob
      BY <1>3 DEF TurnLease, LeaseNext, First, Candidates
    <3>2. status'[j] = "leased" /\ (i # j => status'[i] = Swept(at, Recovered(at))[i])
      BY <1>3 DEF TurnLease, LeaseNext, Swept
    <3> QED BY <3>1, <3>2
  <2> QED BY <2>1, <2>2, SweptMove
<1>4. ASSUME NEW at \in Captured, NEW j \in Jobs, CreateTurn(j, at) PROVE Moves
  BY <1>0, <1>4 DEF CreateTurn, Enqueue, TurnMove, Agree, TurnTypeOK, JobTypeOK
<1>5. ASSUME NEW at \in Captured, NEW w \in Workers, WorkerStart(w, at) PROVE Moves
  BY <1>0, <1>5
  DEF WorkerStart, Start, turnVars, TurnMove, JobTypeOK, OpenJob, ActiveJob
<1>6. ASSUME NEW at \in Captured, NEW w \in Workers, NEW target,
             WorkerTransition(w, at, target)
      PROVE  Moves
  <2>1. heldJob[w] \in Jobs /\ status[heldJob[w]] = "running"
    BY <1>6, ExecutingJob DEF WorkerTransition
  <2> QED BY <1>0, <1>6, <2>1
          DEF WorkerTransition, jobVars, rowVars, TurnMove, TurnTypeOK, OpenJob, ActiveJob
<1>7. ASSUME NEW at \in Captured, NEW w \in Workers, BeginFinalizing(w, at) PROVE Moves
  <2>1. heldJob[w] \in Jobs /\ status[heldJob[w]] = "running"
    BY <1>7, ExecutingJob DEF BeginFinalizing
  <2>2. "finalizing" \in TurnTransitions["streaming"]
    BY DEF TurnTransitions, TurnStatus, RetryPhase
  <2> QED BY <1>0, <1>7, <2>1, <2>2
          DEF BeginFinalizing, jobVars, rowVars, TurnMove, TurnTypeOK, OpenJob, ActiveJob
<1>8. ASSUME NEW at \in Captured, NEW w \in Workers,
             NEW target \in {"completed", "partial", "failed"},
             FinishTurnJob(w, at, target)
      PROVE  Moves
  <2> DEFINE jt == IF target = "failed" THEN "failed" ELSE "completed"
  <2>1. heldJob[w] \in Jobs
    BY <1>8, ExecutingJob DEF FinishTurnJob
  <2>2. SettleTurn(heldJob[w], target, jt) /\ inputs' = inputs
    BY <1>8 DEF FinishTurnJob
  <2>3. jt \in TerminalJob /\ jt # "dead_letter"
    BY DEF TerminalJob
  <2> HIDE DEF jt
  <2> QED BY <2>1, <2>2, <2>3, SettledMove
<1>9. ASSUME NEW at \in Captured, NEW w \in Workers, NEW retryable \in BOOLEAN,
             WorkerFails(w, at, retryable)
      PROVE  Moves
  <2> DEFINE jt == IF retryable THEN "dead_letter" ELSE "failed"
  <2>1. heldJob[w] \in Jobs
    BY <1>9, ExecutingJob DEF WorkerFails, FailTurnJob
  <2>2. SettleTurn(heldJob[w], "failed", jt) /\ inputs' = inputs
    BY <1>9 DEF WorkerFails, FailTurnJob
  <2>3. jt \in TerminalJob /\ (jt = "dead_letter" => turn[heldJob[w]] # "finalizing")
    BY <1>9 DEF TerminalJob, WorkerFails
  <2> HIDE DEF jt
  <2> QED BY <2>1, <2>2, <2>3, SettledMove
<1>10. ASSUME NEW j \in Jobs, Interrupt(j) PROVE Moves
  <2>1. "cancelled" \in TerminalJob
    BY DEF TerminalJob
  <2> QED BY <1>10, <2>1, SettledMove DEF Interrupt
<1>11. ASSUME NEW at \in Captured, NEW w \in Workers, NEW preserveAttempt \in BOOLEAN,
              NEW delay \in RetryDelays, RetryTurnJob(w, at, preserveAttempt, delay)
       PROVE  Moves
  <2>0. PICK j \in Jobs : j = heldJob[w] /\ status[j] = "running"
    BY <1>11, ExecutingJob DEF RetryTurnJob
  <2>1. ASSUME NEW i \in Jobs, i # j PROVE TurnMove(i)
    BY <1>0, <1>11, <2>0, <2>1 DEF RetryTurnJob, TurnMove, TurnTypeOK, JobTypeOK
  <2>2. turn'[j] = "retry_wait" /\ "retry_wait" \in TurnTransitions[turn[j]]
    BY <1>0, <1>11, <2>0 DEF RetryTurnJob, TurnTypeOK
  <2>3. turn[j] # "finalizing"
    BY <1>0, <2>2, TurnEdges DEF UserStop
  <2> QED BY <2>0, <2>1, <2>2, <2>3 DEF TurnMove, OpenJob, ActiveJob
<1>12. ASSUME NEW at \in Captured, NEW w \in Workers, RequestInteraction(w, at)
       PROVE  Moves
  <2>0. PICK j \in Jobs : j = heldJob[w] /\ status[j] = "running"
    BY <1>12, ExecutingJob DEF RequestInteraction
  <2>1. ASSUME NEW i \in Jobs, i # j PROVE TurnMove(i)
    BY <1>0, <1>12, <2>0, <2>1 DEF RequestInteraction, TurnMove, TurnTypeOK, JobTypeOK
  <2>2. /\ turn'[j] = "waiting_human" /\ "waiting_human" \in TurnTransitions[turn[j]]
        /\ status'[j] = "waiting_human"
    BY <1>0, <1>12, <2>0 DEF RequestInteraction, TurnTypeOK, JobTypeOK
  <2> QED BY <2>0, <2>1, <2>2 DEF TurnMove, OpenJob, ActiveJob
<1>13. ASSUME NEW at \in Captured, NEW j \in Jobs, NEW refresh \in BOOLEAN,
              Respond(j, at, refresh)
       PROVE  Moves
  <2>0. status[j] = "waiting_human" /\ turn[j] = "waiting_human"
    BY <1>0, <1>13 DEF Respond, Agree
  <2>1. ASSUME NEW i \in Jobs, i # j PROVE TurnMove(i)
    BY <1>0, <1>13, <2>1 DEF Respond, TurnMove, TurnTypeOK, JobTypeOK
  <2>2. turn'[j] = "preparing" /\ "preparing" \in TurnTransitions[turn[j]]
    BY <1>0, <1>13, <2>0, TurnEdges DEF Respond, TurnTypeOK
  <2> QED BY <2>0, <2>1, <2>2 DEF TurnMove, OpenJob
<1>14. ASSUME NEW j \in Jobs, NEW target \in {"expired", "cancelled"},
              CloseInteraction(j, target)
       PROVE  Moves
  <2>0. status[j] = "waiting_human" /\ turn[j] = "waiting_human"
    BY <1>0, <1>14 DEF CloseInteraction, Agree
  <2>1. ASSUME NEW i \in Jobs, i # j PROVE TurnMove(i)
    BY <1>0, <1>14, <2>1 DEF CloseInteraction, TurnMove, TurnTypeOK, JobTypeOK
  <2>2. turn'[j] \in {"failed", "cancelled"}
    BY <1>0, <1>14, <2>0 DEF CloseInteraction, TurnTypeOK
  <2>3. {"failed", "cancelled"} \subseteq TurnTransitions[turn[j]]
    BY <1>0, <2>0, TurnEdges DEF TerminalTurn
  <2> QED BY <2>0, <2>1, <2>2, <2>3 DEF TurnMove, OpenJob
<1>15. ASSUME NEW j \in Jobs, Steer(j) PROVE Moves
  BY <1>0, <1>15 DEF Steer, jobVars, rowVars, TurnMove, TurnTypeOK
<1>16. ASSUME NEW at \in Captured, NEW j \in Jobs, NEW k \in Jobs, Replace(j, k, at)
       PROVE  Moves
  <2>0. turn[j] \notin TerminalTurn \cup {"absent"} /\ turn[k] = "absent"
    BY <1>0, <1>16, TurnEdges DEF Replace
  <2>1. ASSUME NEW i \in Jobs, i # j, i # k PROVE TurnMove(i)
    BY <1>0, <1>16, <2>1 DEF Replace, TurnMove, TurnTypeOK, JobTypeOK
  <2>2. /\ turn'[j] = "superseded" /\ "superseded" \in TurnTransitions[turn[j]]
        /\ status'[j] = "cancelled" /\ turn'[k] = "queued" /\ inputs' = inputs
    BY <1>0, <1>16, <2>0 DEF Replace, TurnTypeOK, JobTypeOK
  <2>3. status[j] \in OpenJob
    BY <1>0, <2>0 DEF Agree, JobStatus
  <2> QED BY <2>0, <2>1, <2>2, <2>3 DEF TurnMove
<1> QED
  BY <1>1, <1>2, <1>3, <1>4, <1>5, <1>6, <1>7, <1>8, <1>9, <1>10, <1>11, <1>12, <1>13,
     <1>14, <1>15, <1>16
  DEF TurnNext, vars, turnVars, jobVars, rowVars, TurnTick, Tick, WorkerHeartbeat,
      Heartbeat, WorkerCrash, Crash, ApplyInputs, RecordResponse, TurnLeaseAborted,
      LeaseAborted

\* A turn that is finalizing with its response on record is never retried or
\* dead-lettered, not even by the sweep of its last attempt.
THEOREM ResponseKeptCorrect == TurnSpec => ResponseKept
<1>1. TurnInv /\ [TurnNext]_vars =>
        [\A j \in Jobs : turn[j] = "finalizing" /\ responded[j] =>
            status'[j] \notin {"queued", "retry_scheduled", "dead_letter"}]_vars
  <2> SUFFICES ASSUME TurnInv, [TurnNext]_vars, NEW j \in Jobs,
                      turn[j] = "finalizing" /\ responded[j]
               PROVE  status'[j] \notin {"queued", "retry_scheduled", "dead_letter"}
    OBVIOUS
  <2>1. TurnMove(j) /\ status[j] = "running"
    BY TurnMoves DEF TurnInv, Row, Agree
  <2> QED BY <2>1 DEF TurnMove
<1> QED BY <1>1, TurnInvCorrect, PTL DEF TurnSpec, ResponseKept

\* A terminal turn, its job and its inputs stay as they are.
THEOREM TerminalIsFinalCorrect == TurnSpec => TerminalIsFinal
<1>1. TurnInv /\ [TurnNext]_vars =>
        [\A j \in Jobs : turn[j] \in TerminalTurn =>
            turn'[j] = turn[j] /\ status'[j] = status[j] /\ inputs'[j] = inputs[j]]_vars
  <2> SUFFICES ASSUME TurnInv, [TurnNext]_vars, NEW j \in Jobs, turn[j] \in TerminalTurn
               PROVE  turn'[j] = turn[j] /\ status'[j] = status[j] /\ inputs'[j] = inputs[j]
    OBVIOUS
  <2>1. TurnMove(j) /\ status[j] \in TerminalJob
    BY TurnMoves DEF TurnInv, Row, Agree
  <2> QED BY <2>1 DEF TurnMove, TerminalJob, OpenJob, ActiveJob, ReadyJob, TerminalTurn
<1> QED BY <1>1, TurnInvCorrect, PTL DEF TurnSpec, TerminalIsFinal

\* Every change of a turn's status is an edge of TURN_TRANSITIONS, but for the
\* dead-lettered job whose turn no worker had moved.
THEOREM TurnTransitionsLegalCorrect == TurnSpec => TurnTransitionsLegal
<1>1. TurnInv /\ [TurnNext]_vars =>
        [\A j \in Jobs : turn'[j] # turn[j] /\ turn[j] # "absent" =>
            \/ turn'[j] \in TurnTransitions[turn[j]]
            \/ turn[j] = "queued" /\ turn'[j] = "failed"
               /\ status'[j] = "dead_letter"]_vars
  <2> SUFFICES ASSUME TurnInv, [TurnNext]_vars, NEW j \in Jobs,
                      turn'[j] # turn[j], turn[j] # "absent"
               PROVE  \/ turn'[j] \in TurnTransitions[turn[j]]
                      \/ turn[j] = "queued" /\ turn'[j] = "failed"
                         /\ status'[j] = "dead_letter"
    OBVIOUS
  <2>1. TurnMove(j)
    BY TurnMoves
  <2> QED BY <2>1 DEF TurnMove
<1> QED BY <1>1, TurnInvCorrect, PTL DEF TurnSpec, TurnTransitionsLegal
-----------------------------------------------------------------------------
(* The kernel writes job rows itself; fencing and the job graph survive that. *)

\* Every operation of the kernel respects the leases in force: it is one of the store,
\* ends its own worker's lease, cancels, or writes rows that carry none.
LEMMA TurnFencingSteps == ASSUME TurnInv, [TurnNext]_vars PROVE FencingStep
<1> USE JobsAssumption
<1>0. /\ JobInv /\ status \in [Jobs -> JobStatus]
      /\ \A j \in Jobs : Agree(j) /\ turn[j] \in TurnStatus
  BY DEF TurnInv, Row, TurnTypeOK, JobTypeOK
<1>1. ASSUME [JobNext]_jobVars PROVE FencingStep
  BY <1>0, <1>1, FencingSteps
<1>2. ASSUME NEW j \in Jobs, status[j] \notin ActiveJob PROVE token[j] = 0
  BY <1>0, <1>2 DEF JobInv, LeaseShape
<1>3. ASSUME NEW w \in Workers, NEW at \in Captured, Executing(w, at), Forget(w),
             ClearLeases({heldJob[w]}), NEW t, status' = [status EXCEPT ![heldJob[w]] = t]
      PROVE  FencingStep
  <2>1. \A j \in Jobs \ {heldJob[w]} : status'[j] = status[j]
    BY <1>0, <1>3
  <2> QED BY <1>0, <1>3, <2>1, FencingFinish DEF Executing
<1>4. ASSUME NEW at \in Captured, TurnReclaim(at) PROVE FencingStep
  BY <1>0, <1>4, FencingReclaim DEF TurnReclaim
<1>5. ASSUME NEW at \in Captured, NEW w \in Workers, NEW j \in Jobs, TurnLease(w, j, at)
      PROVE  FencingStep
  BY <1>0, <1>5, FencingLease DEF TurnLease
<1>6. ASSUME NEW at \in Captured, NEW w \in Workers,
             NEW target \in {"completed", "partial", "failed"},
             FinishTurnJob(w, at, target)
      PROVE  FencingStep
  BY <1>3, <1>6 DEF FinishTurnJob, SettleTurn
<1>7. ASSUME NEW at \in Captured, NEW w \in Workers, NEW retryable \in BOOLEAN,
             FailTurnJob(w, at, retryable)
      PROVE  FencingStep
  BY <1>3, <1>7 DEF FailTurnJob, SettleTurn
<1>8. ASSUME NEW at \in Captured, NEW w \in Workers, NEW preserveAttempt \in BOOLEAN,
             NEW delay \in RetryDelays, RetryTurnJob(w, at, preserveAttempt, delay)
      PROVE  FencingStep
  BY <1>3, <1>8 DEF RetryTurnJob
<1>9. ASSUME NEW at \in Captured, NEW w \in Workers, RequestInteraction(w, at)
      PROVE  FencingStep
  BY <1>3, <1>9 DEF RequestInteraction
<1>10. ASSUME NEW at \in Captured, NEW j \in Jobs, NEW refresh \in BOOLEAN,
              Respond(j, at, refresh)
       PROVE  FencingStep
  <2>1. token[j] = 0
    BY <1>0, <1>2, <1>10 DEF Respond, Agree, ActiveJob
  <2>2. \A i \in Jobs : token[i] # 0 => status'[i] = status[i]
    BY <1>0, <1>10, <2>1 DEF Respond
  <2>3. UNCHANGED <<owner, token, expires, heldJob>>
    BY <1>10 DEF Respond
  <2> QED BY <1>0, <2>2, <2>3, FencingFrame
<1>11. ASSUME NEW j \in Jobs, NEW target \in {"expired", "cancelled"},
              CloseInteraction(j, target)
       PROVE  FencingStep
  <2> DEFINE ends == {i \in {j} : \/ status[i] = "waiting_human"
                                  \/ turn[i] = "waiting_human" /\ status[i] \in OpenJob}
  <2>1. token[j] = 0
    BY <1>0, <1>2, <1>11 DEF CloseInteraction, Agree, ActiveJob
  <2>2. /\ ends \in SUBSET Jobs /\ \A i \in ends : token[i] = 0
        /\ \A i \in Jobs \ ends : status'[i] = status[i]
    BY <1>11, <2>1 DEF CloseInteraction
  <2>3. ClearLeases(ends) /\ UNCHANGED heldJob
    BY <1>11 DEF CloseInteraction
  <2> HIDE DEF ends
  <2> QED BY <1>0, <2>2, <2>3, FencingClose
<1>12. ASSUME NEW j \in Jobs, Interrupt(j) PROVE FencingStep
  <2>1. /\ {j} \in SUBSET Jobs /\ ClearLeases({j}) /\ UNCHANGED heldJob
        /\ status'[j] = "cancelled"
        /\ \A i \in Jobs \ {j} : status'[i] = status[i]
    BY <1>0, <1>12 DEF Interrupt, SettleTurn
  <2> QED BY <1>0, <2>1, FencingClose
<1>13. ASSUME NEW at \in Captured, NEW j \in Jobs, NEW k \in Jobs, Replace(j, k, at)
       PROVE  FencingStep
  <2>1. turn[j] # "absent" /\ status[k] = "absent"
    BY <1>0, <1>13, TurnEdges DEF Replace, Agree
  <2>2. j # k /\ token[k] = 0
    BY <1>0, <1>2, <2>1 DEF Agree, ActiveJob
  <2>3. /\ {j} \in SUBSET Jobs /\ ClearLeases({j}) /\ UNCHANGED heldJob
        /\ status'[j] = "cancelled"
        /\ \A i \in Jobs \ {j} : status'[i] = status[i] \/ token[i] = 0
    BY <1>0, <1>13, <2>2 DEF Replace
  <2> QED BY <1>0, <2>3, FencingClose
<1>14. ASSUME NEW at \in Captured, NEW j \in Jobs, CreateTurn(j, at) PROVE FencingStep
  BY <1>1, <1>14 DEF CreateTurn, JobNext
<1>15. ASSUME NEW at \in Captured, NEW w \in Workers,
              WorkerStart(w, at) \/ WorkerHeartbeat(w, at)
       PROVE  FencingStep
  BY <1>1, <1>15 DEF WorkerStart, WorkerHeartbeat, JobNext
<1>16. ASSUME NEW w \in Workers, WorkerCrash(w) PROVE FencingStep
  BY <1>1, <1>16 DEF WorkerCrash, JobNext
<1>17. ASSUME TurnTick PROVE FencingStep
  BY <1>1, <1>17 DEF TurnTick, JobNext
<1>18. ASSUME UNCHANGED jobVars PROVE FencingStep
  BY <1>1, <1>18
<1> QED
  BY <1>4, <1>5, <1>6, <1>7, <1>8, <1>9, <1>10, <1>11, <1>12, <1>13, <1>14, <1>15, <1>16,
     <1>17, <1>18
  DEF TurnNext, vars, WorkerTransition, RecordResponse, BeginFinalizing, ApplyInputs, Steer,
      WorkerFails, TurnLeaseAborted, LeaseAborted

\* Fencing holds for turns too: no answer, recovery, retry or lease takes the job from a
\* worker whose lease is in force, only a user's stop does, and a worker that lost its
\* lease settles nothing.
THEOREM TurnLeaseFencing == TurnSpec => LeaseFencing
<1>1. TurnInv /\ [TurnNext]_vars => [FencingStep]_jobVars
  BY TurnFencingSteps
<1> QED BY <1>1, TurnInvCorrect, PTL DEF TurnSpec, LeaseFencing, FencingStep

\* The edges of JOB_TRANSITIONS that the kernel takes.
LEMMA JobEdges ==
    /\ \A s \in OpenJob : {"cancelled", "failed"} \subseteq JobTransitions[s]
    /\ {"waiting_human", "retry_scheduled", "completed", "dead_letter"}
          \subseteq JobTransitions["running"]
    /\ \A s \in ActiveJob : {"queued", "dead_letter"} \subseteq JobTransitions[s]
    /\ \A s \in ReadyJob : "leased" \in JobTransitions[s]
    /\ "running" \in JobTransitions["leased"]
    /\ "queued" \in JobTransitions["waiting_human"]
BY DEF JobTransitions, JobStatus, OpenJob, ActiveJob, ReadyJob, TerminalJob

\* Every step of the kernel moves every job along the graph.
LEMMA TurnLegalSteps ==
    ASSUME TurnInv, [TurnNext]_vars PROVE \A j \in Jobs : LegalStep(j)
<1> USE JobsAssumption
<1> DEFINE Legal == \A j \in Jobs : LegalStep(j)
<1>0. /\ TurnTypeOK /\ JobTypeOK /\ status \in [Jobs -> JobStatus]
      /\ \A j \in Jobs : Agree(j) /\ turn[j] \in TurnStatus
  BY DEF TurnInv, Row, TurnTypeOK, JobTypeOK
<1>1. ASSUME UNCHANGED status PROVE Legal
  BY <1>1 DEF LegalStep
<1>2. ASSUME NEW i \in Jobs, NEW t, status' = [status EXCEPT ![i] = t],
             \/ t \in JobTransitions[status[i]]
             \/ status[i] = "absent" /\ t = "queued"
      PROVE  Legal
  BY <1>0, <1>2 DEF LegalStep
<1>3. ASSUME NEW at \in Nat, NEW j \in Jobs, Swept(at, Recovered(at))[j] # status[j]
      PROVE  /\ Swept(at, Recovered(at))[j] \in JobTransitions[status[j]]
             /\ Swept(at, Recovered(at))[j] = "queued" => status[j] \in ActiveJob
             /\ Swept(at, Recovered(at))[j] \in {"queued", "completed", "dead_letter"}
  BY <1>3, SweepCases, JobEdges
<1>4. ASSUME NEW at \in Captured, TurnReclaim(at) PROVE Legal
  <2>1. at \in Nat
    BY <1>0, CapturedNat
  <2> QED BY <1>3, <1>4, <2>1 DEF TurnReclaim, ReclaimExpired, LegalStep
<1>5. ASSUME NEW at \in Captured, NEW w \in Workers, NEW i \in Jobs, TurnLease(w, i, at)
      PROVE  Legal
  <2>1. at \in Nat
    BY <1>0, CapturedNat
  <2>2. ASSUME NEW j \in Jobs, i # j PROVE LegalStep(j)
    <3>1. status'[j] = Swept(at, Recovered(at))[j]
      BY <1>5, <2>2 DEF TurnLease, LeaseNext, Swept
    <3> QED BY <1>3, <2>1, <3>1 DEF LegalStep
  <2>3. LegalStep(i)
    <3>1. status'[i] = "leased" /\ token'[i] = minted + 1
      BY <1>5 DEF TurnLease, LeaseNext, NewToken, Swept
    <3>2. Swept(at, Recovered(at))[i] \in ReadyJob
      BY <1>5 DEF TurnLease, LeaseNext, First, Candidates
    <3>3. CASE Swept(at, Recovered(at))[i] = status[i]
      BY <3>1, <3>2, <3>3, JobEdges DEF LegalStep
    <3>4. CASE Swept(at, Recovered(at))[i] # status[i]
      <4>1. status[i] \in ActiveJob
        BY <1>3, <2>1, <3>2, <3>4 DEF ReadyJob
      <4>2. token'[i] # token[i]
        BY <3>1 DEF TurnInv, JobInv, JobTypeOK, TokensMinted
      <4> QED BY <3>1, <4>1, <4>2 DEF ActiveJob, LegalStep
    <3> QED BY <3>3, <3>4
  <2> QED BY <2>2, <2>3
<1>6. ASSUME NEW at \in Captured, NEW i \in Jobs, CreateTurn(i, at) PROVE Legal
  BY <1>2, <1>6 DEF CreateTurn, Enqueue
<1>7. ASSUME NEW at \in Captured, NEW w \in Workers, WorkerStart(w, at) PROVE Legal
  <2>1. heldJob[w] \in Jobs
    BY <1>0, <1>7 DEF WorkerStart, Start, OwnsLive, JobTypeOK
  <2> QED BY <1>2, <1>7, <2>1, JobEdges DEF WorkerStart, Start
<1>8. ASSUME NEW at \in Captured, NEW w \in Workers,
             NEW target \in {"completed", "partial", "failed"},
             FinishTurnJob(w, at, target)
      PROVE  Legal
  <2> DEFINE jt == IF target = "failed" THEN "failed" ELSE "completed"
  <2>1. heldJob[w] \in Jobs /\ status[heldJob[w]] = "running"
    BY <1>8, ExecutingJob DEF FinishTurnJob
  <2>2. status' = [status EXCEPT ![heldJob[w]] = jt]
    BY <1>8 DEF FinishTurnJob, SettleTurn
  <2>3. jt \in JobTransitions["running"]
    BY JobEdges DEF OpenJob, ActiveJob
  <2> HIDE DEF jt
  <2> QED BY <1>2, <2>1, <2>2, <2>3
<1>9. ASSUME NEW at \in Captured, NEW w \in Workers, NEW retryable \in BOOLEAN,
             FailTurnJob(w, at, retryable)
      PROVE  Legal
  <2> DEFINE jt == IF retryable THEN "dead_letter" ELSE "failed"
  <2>1. heldJob[w] \in Jobs /\ status[heldJob[w]] = "running"
    BY <1>9, ExecutingJob DEF FailTurnJob
  <2>2. status' = [status EXCEPT ![heldJob[w]] = jt]
    BY <1>9 DEF FailTurnJob, SettleTurn
  <2>3. jt \in JobTransitions["running"]
    BY JobEdges DEF OpenJob, ActiveJob
  <2> HIDE DEF jt
  <2> QED BY <1>2, <2>1, <2>2, <2>3
<1>10. ASSUME NEW at \in Captured, NEW w \in Workers, NEW preserveAttempt \in BOOLEAN,
              NEW delay \in RetryDelays, RetryTurnJob(w, at, preserveAttempt, delay)
       PROVE  Legal
  <2>1. heldJob[w] \in Jobs /\ status[heldJob[w]] = "running"
    BY <1>10, ExecutingJob DEF RetryTurnJob
  <2> QED BY <1>2, <1>10, <2>1, JobEdges DEF RetryTurnJob
<1>11. ASSUME NEW at \in Captured, NEW w \in Workers, RequestInteraction(w, at)
       PROVE  Legal
  <2>1. heldJob[w] \in Jobs /\ status[heldJob[w]] = "running"
    BY <1>11, ExecutingJob DEF RequestInteraction
  <2> QED BY <1>2, <1>11, <2>1, JobEdges DEF RequestInteraction
<1>12. ASSUME NEW at \in Captured, NEW j \in Jobs, NEW refresh \in BOOLEAN,
              Respond(j, at, refresh)
       PROVE  Legal
  <2>1. status[j] = "waiting_human" /\ status' = [status EXCEPT ![j] = "queued"]
    BY <1>0, <1>12 DEF Respond, Agree
  <2> QED BY <1>2, <2>1, JobEdges
<1>13. ASSUME NEW j \in Jobs, NEW target \in {"expired", "cancelled"},
              CloseInteraction(j, target)
       PROVE  Legal
  <2>1. status[j] = "waiting_human"
    BY <1>0, <1>13 DEF CloseInteraction, Agree
  <2>2. ASSUME NEW i \in Jobs, i # j PROVE status'[i] = status[i]
    BY <1>0, <1>13, <2>2 DEF CloseInteraction
  <2>3. status'[j] \in {"failed", "cancelled"}
    BY <1>0, <1>13, <2>1 DEF CloseInteraction
  <2> QED BY <2>1, <2>2, <2>3, JobEdges DEF LegalStep, OpenJob
<1>14. ASSUME NEW j \in Jobs, turn[j] \notin TerminalTurn \cup {"absent"}
       PROVE  status[j] \in OpenJob
  BY <1>0, <1>14 DEF Agree, JobStatus
<1>15. ASSUME NEW j \in Jobs, Interrupt(j) PROVE Legal
  <2>1. status[j] \in OpenJob
    BY <1>0, <1>14, <1>15, TurnEdges DEF Interrupt, SettleTurn
  <2> QED BY <1>2, <1>15, <2>1, JobEdges DEF Interrupt, SettleTurn
<1>16. ASSUME NEW at \in Captured, NEW j \in Jobs, NEW k \in Jobs, Replace(j, k, at)
       PROVE  Legal
  <2>1. status[j] \in OpenJob /\ status[k] = "absent"
    BY <1>0, <1>14, <1>16, TurnEdges DEF Replace, Agree
  <2>2. status' = [status EXCEPT ![j] = "cancelled", ![k] = "queued"]
    BY <1>16 DEF Replace
  <2>3. j # k
    BY <2>1 DEF OpenJob, ActiveJob, ReadyJob
  <2>4. /\ status'[j] = "cancelled" /\ status'[k] = "queued"
        /\ \A i \in Jobs \ {j, k} : status'[i] = status[i]
    BY <1>0, <2>2, <2>3
  <2> QED BY <2>1, <2>4, JobEdges DEF LegalStep
<1> QED
  BY <1>1, <1>4, <1>5, <1>6, <1>7, <1>8, <1>9, <1>10, <1>11, <1>12, <1>13, <1>15, <1>16
  DEF TurnNext, vars, jobVars, rowVars, TurnTick, Tick, WorkerHeartbeat, Heartbeat,
      WorkerCrash, Crash, WorkerTransition, RecordResponse, BeginFinalizing, ApplyInputs,
      Steer, WorkerFails, TurnLeaseAborted, LeaseAborted

\* The kernel takes only edges of JOB_TRANSITIONS, although settling, recovering and
\* closing questions write job rows past the store's own checks.
THEOREM TurnJobTransitionsLegal == TurnSpec => JobTransitionsLegal
<1> DEFINE Legal == \A j \in Jobs :
        status'[j] # status[j] =>
            \/ status[j] = "absent" /\ status'[j] = "queued"
            \/ status'[j] \in JobTransitions[status[j]]
            \/ /\ status[j] = "running" /\ status'[j] = "leased"
               /\ token'[j] # token[j]
<1>1. TurnInv /\ [TurnNext]_vars => [Legal]_jobVars
  BY TurnLegalSteps DEF LegalStep
<1> QED BY <1>1, TurnInvCorrect, PTL DEF TurnSpec, JobTransitionsLegal
=============================================================================
