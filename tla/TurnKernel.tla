----------------------------- MODULE TurnKernel -----------------------------
(***************************************************************************)
(* The conversational turns of ecorex/runtime/kernel.py and interactions.py*)
(* on top of the durable jobs. create_turn gives every turn exactly one    *)
(* agent_turn job, so a turn is identified with its job. Every operation   *)
(* writes turn, job and interaction in one transaction; the point of the   *)
(* module is that the three projections agree after every interleaving of  *)
(* workers (live, stalled or dead), users and maintenance sweeps.          *)
(*                                                                         *)
(* The worker is the one of worker.py seen from the store: it starts its   *)
(* job, moves the turn along TURN_TRANSITIONS under its fencing token,     *)
(* records the model's response, asks for finalization with the inputs it  *)
(* has applied, and settles. Both worker classes are orders of these steps.*)
(***************************************************************************)
EXTENDS DurableJobs

CONSTANTS
    MaxInputs,   \* bound: steering inputs per turn
    MaxLeases    \* bound: leases minted

\* create_turn enqueues its job without a deadline.
ASSUME TurnsAssumption ==
    /\ MaxInputs \in Nat
    /\ MaxLeases \in Nat
    /\ Deadline = [j \in Jobs |-> NoDeadline]

VARIABLES
    turn,       \* turns.status, or "absent"
    ask,        \* status of the turn's latest interaction, or "none"
    inputs,     \* ordinal of the latest turn_input_revisions row
    responded,  \* a model.response_completed event of the turn exists
    reclaims,   \* idempotency keys <<job, attempt>> of the reclaim events
    applied,    \* worker memory: ordinal through which it applied the inputs
    covered     \* history: ordinal with which the turn began finalizing

turnVars == <<turn, ask, inputs, responded, reclaims, covered>>
vars == <<jobVars, turnVars, applied>>

-----------------------------------------------------------------------------
(* The status graph of turns, protocol/models.py. *)

TerminalTurn == {"completed", "partial", "failed", "cancelled", "interrupted",
                 "superseded"}
UserStop == {"cancelled", "interrupted", "superseded"}
RetryPhase == {"model_requested", "streaming", "tool_pending", "tool_running"}
TurnStatus == TerminalTurn \cup RetryPhase
              \cup {"absent", "queued", "preparing", "waiting_human",
                    "retry_wait", "finalizing"}

TurnTransitions ==
    [s \in TurnStatus |->
        CASE s = "queued" -> {"preparing"} \cup UserStop
          [] s = "preparing" -> {"model_requested", "tool_pending",
                "waiting_human", "retry_wait", "partial", "failed"} \cup UserStop
          [] s = "model_requested" -> {"streaming", "tool_pending",
                "waiting_human", "retry_wait", "partial", "failed"} \cup UserStop
          [] s = "streaming" -> {"tool_pending", "retry_wait", "finalizing",
                "partial", "failed"} \cup UserStop
          [] s = "tool_pending" -> {"waiting_human", "tool_running",
                "retry_wait", "partial", "failed"} \cup UserStop
          [] s = "waiting_human" -> {"preparing", "tool_running", "failed"}
                \cup UserStop
          [] s = "tool_running" -> {"streaming", "tool_pending",
                "waiting_human", "retry_wait", "finalizing", "partial",
                "failed"} \cup UserStop
          [] s = "retry_wait" -> {"preparing", "model_requested",
                "tool_running", "partial", "failed"} \cup UserStop
          [] s = "finalizing" -> {"completed", "partial", "failed"} \cup UserStop
          [] OTHER -> {}]

-----------------------------------------------------------------------------
(* What the maintenance sweep does to turns. *)

\* MUTANT: the last attempt is dead-lettered, whatever it has committed.
RecoveredWithinBudget(at) ==
    {j \in Reclaimable(at) : /\ turn[j] = "finalizing" /\ responded[j]
                             /\ attempt[j] < MaxAttempts}

\* _recover_finalizing_turn: the response had been committed.
Recovered(at) ==
    {j \in Reclaimable(at) : turn[j] = "finalizing" /\ responded[j]}

Exhausted(at) ==
    {j \in Reclaimable(at) \ Recovered(at) : attempt[j] >= MaxAttempts}

Requeued(at) == Reclaimable(at) \ (Recovered(at) \cup Exhausted(at))

\* MUTANT: a dead-lettered job leaves its turn as it is.
LinkedTurnLeft(j) == turn[j]

\* _fail_linked_turn: the turn is failed from whatever status it has.
FailLinkedTurn(j) == IF turn[j] \in TerminalTurn THEN turn[j] ELSE "failed"

\* MUTANT: the job's retry status is written to the turn.
MoveToJobStatus(j) == IF turn[j] \in RetryPhase THEN "retry_scheduled" ELSE turn[j]

\* MUTANT: an unfinished phase is left to the next owner.
MoveToRetryWaitNothing(j) == turn[j]

\* MUTANT: every open turn is moved, whatever its phase.
MoveOpenTurn(j) == IF turn[j] \notin TerminalTurn THEN "retry_wait" ELSE turn[j]

\* _move_linked_turn_to_retry_wait.
MoveToRetryWait(j) == IF turn[j] \in RetryPhase THEN "retry_wait" ELSE turn[j]

\* MUTANT: recovery completes the job and leaves the turn finalizing.
SweptTurnJobOnly(at) ==
    [j \in Jobs |->
        CASE j \in Exhausted(at) -> FailLinkedTurn(j)
          [] j \in Requeued(at) -> MoveToRetryWait(j)
          [] OTHER -> turn[j]]

SweptTurn(at) ==
    [j \in Jobs |->
        CASE j \in Exhausted(at) -> FailLinkedTurn(j)
          [] j \in Recovered(at) -> "completed"
          [] j \in Requeued(at) -> MoveToRetryWait(j)
          [] OTHER -> turn[j]]

SweptAsk(at) ==
    [j \in Jobs |->
        IF ask[j] # "pending" THEN ask[j]
        ELSE IF j \in Exhausted(at) /\ turn[j] \notin TerminalTurn THEN "expired"
        ELSE IF j \in Recovered(at) THEN "cancelled"
        ELSE ask[j]]

\* The sweep's share of a transaction. Its reclaim events carry the key
\* <job>:job.reclaimed:<attempt>; the event store rejects a key that is used
\* again at another instant, and the transaction with it.
SweepTurns(at) ==
    /\ \A j \in Requeued(at) : <<j, attempt[j]>> \notin reclaims
    /\ turn' = SweptTurn(at)
    /\ ask' = SweptAsk(at)
    /\ reclaims' = reclaims \cup {<<j, attempt[j]>> : j \in Requeued(at)}
    /\ UNCHANGED <<inputs, responded, covered>>

-----------------------------------------------------------------------------
(* Job store operations, with their effect on turns. *)

TurnInit ==
    /\ JobInit
    /\ turn = [j \in Jobs |-> "absent"]
    /\ ask = [j \in Jobs |-> "none"]
    /\ inputs = [j \in Jobs |-> 0]
    /\ responded = [j \in Jobs |-> FALSE]
    /\ reclaims = {}
    /\ applied = [w \in Workers |-> 0]
    /\ covered = [j \in Jobs |-> -1]

TurnTick == Tick /\ UNCHANGED <<turnVars, applied>>

\* create_turn: turn row, input revision 0 and job in one transaction.
CreateTurn(j, at) ==
    /\ Enqueue(j, at)
    /\ turn' = [turn EXCEPT ![j] = "queued"]
    /\ UNCHANGED <<ask, inputs, responded, reclaims, covered, applied>>

TurnReclaim(at) ==
    /\ ReclaimExpired(at, Recovered(at))
    /\ SweepTurns(at)
    /\ UNCHANGED applied

TurnLease(w, j, at) ==
    /\ minted < MaxLeases
    /\ LeaseNext(w, j, at, Recovered(at))
    /\ SweepTurns(at)
    /\ applied' = [applied EXCEPT ![w] = 0]

\* The lease trigger aborts the transaction, with the sweep of the turns.
TurnLeaseAborted(w, j, at) ==
    /\ LeaseAborted(w, j, at, Recovered(at))
    /\ UNCHANGED <<turnVars, applied>>

WorkerStart(w, at) == Start(w, at) /\ UNCHANGED <<turnVars, applied>>

WorkerHeartbeat(w, at) == Heartbeat(w, at) /\ UNCHANGED <<turnVars, applied>>

WorkerCrash(w) == Crash(w) /\ UNCHANGED <<turnVars, applied>>

-----------------------------------------------------------------------------
(* The worker. Every write is an execution_transaction: it commits only while *)
(* the worker's token is the row's token and the lease has not expired.       *)

Executing(w, at) == OwnsLive(w, at) /\ status[heldJob[w]] = "running"

\* transition_turn, for the phases a worker names itself.
WorkerTransition(w, at, target) ==
    LET j == heldJob[w] IN
    /\ Executing(w, at)
    /\ target \in TurnTransitions[turn[j]]
    /\ turn' = [turn EXCEPT ![j] = target]
    /\ UNCHANGED <<jobVars, ask, inputs, responded, reclaims, covered, applied>>

\* The worker reads the input revisions and gives them to the model.
ApplyInputs(w) ==
    /\ heldJob[w] # NoJob
    /\ applied[w] # inputs[heldJob[w]]
    /\ applied' = [applied EXCEPT ![w] = inputs[heldJob[w]]]
    /\ UNCHANGED <<jobVars, turnVars>>

\* append_execution_event of model.response_completed.
RecordResponse(w, at) ==
    LET j == heldJob[w] IN
    /\ Executing(w, at)
    /\ turn[j] = "streaming"
    /\ ~responded[j]
    /\ responded' = [responded EXCEPT ![j] = TRUE]
    /\ UNCHANGED <<jobVars, turn, ask, inputs, reclaims, covered, applied>>

\* MUTANT: the applied ordinal is not compared with the durable head.
BeginFinalizingUnchecked(w, at) ==
    LET j == heldJob[w] IN
    /\ Executing(w, at)
    /\ turn[j] = "streaming"
    /\ turn' = [turn EXCEPT ![j] = "finalizing"]
    /\ covered' = [covered EXCEPT ![j] = applied[w]]
    /\ UNCHANGED <<jobVars, ask, inputs, responded, reclaims, applied>>

\* begin_finalizing_if_inputs_applied, when it returns True. When a newer input
\* has committed it returns False and changes nothing.
BeginFinalizing(w, at) ==
    LET j == heldJob[w] IN
    /\ Executing(w, at)
    /\ turn[j] = "streaming"
    /\ inputs[j] = applied[w]
    /\ turn' = [turn EXCEPT ![j] = "finalizing"]
    /\ covered' = [covered EXCEPT ![j] = applied[w]]
    /\ UNCHANGED <<jobVars, ask, inputs, responded, reclaims, applied>>

\* _transition_turn_in_transaction to a terminal status: the edge is checked,
\* the turn's open job and pending interaction are settled with it.
SettleTurn(j, target, jobTarget) ==
    /\ target \in TurnTransitions[turn[j]]
    /\ turn' = [turn EXCEPT ![j] = target]
    /\ status' = [status EXCEPT ![j] = jobTarget]
    /\ ClearLeases({j})
    /\ ask' = [ask EXCEPT ![j] = IF @ = "pending" THEN "cancelled" ELSE @]

\* finish_turn_job: a response, or a budget that ran out with or without a
\* usable partial result.
FinishTurnJob(w, at, target) ==
    /\ Executing(w, at)
    /\ turn[heldJob[w]] = "finalizing" <=> target = "completed"
    /\ SettleTurn(heldJob[w], target,
                  IF target = "failed" THEN "failed" ELSE "completed")
    /\ Forget(w)
    /\ UNCHANGED <<now, rows, minted, rowid, attempt, available, preserve,
                   lastLeased, inputs, responded, reclaims, covered, applied>>

\* fail_turn_job, final: the attempts are used up or the error is not
\* retryable. An edge that TURN_TRANSITIONS lacks aborts the transaction.
FailTurnJob(w, at, retryable) ==
    LET j == heldJob[w] IN
    /\ Executing(w, at)
    /\ retryable => attempt[j] >= MaxAttempts
    /\ SettleTurn(j, "failed", IF retryable THEN "dead_letter" ELSE "failed")
    /\ Forget(w)
    /\ UNCHANGED <<now, rows, minted, rowid, attempt, available, preserve,
                   lastLeased, inputs, responded, reclaims, covered, applied>>

\* The workers' calls of fail_turn_job. The kernel would also dead-letter a finalizing
\* turn, with its response on record; the workers do not ask for it. After
\* begin_finalizing they only call finish_turn_job, whose errors are not retryable, and
\* a successor that finds the turn finalizing raises ConflictError before it calls a
\* model or a tool; the copy-on-write worker never passes retryable=True.
WorkerFails(w, at, retryable) ==
    /\ FailTurnJob(w, at, retryable)
    /\ retryable => turn[heldJob[w]] # "finalizing"

\* MUTANT: the attempt is not compared with the budget.
RetryPastBudget(w, at, preserveAttempt, delay) ==
    LET j == heldJob[w] IN
    /\ Executing(w, at)
    /\ "retry_wait" \in TurnTransitions[turn[j]]
    /\ turn' = [turn EXCEPT ![j] = "retry_wait"]
    /\ status' = [status EXCEPT ![j] = "retry_scheduled"]
    /\ available' = [available EXCEPT ![j] = at + delay]
    /\ preserve' = [preserve EXCEPT ![j] = @ \/ preserveAttempt]
    /\ ClearLeases({j})
    /\ Forget(w)
    /\ UNCHANGED <<now, rows, minted, rowid, attempt, lastLeased, ask, inputs,
                   responded, reclaims, covered, applied>>

\* fail_turn_job of a retryable error with attempts left. preserveAttempt marks
\* the checkpoint: the next lease does not count as an attempt.
RetryTurnJob(w, at, preserveAttempt, delay) ==
    LET j == heldJob[w] IN
    /\ Executing(w, at)
    /\ attempt[j] < MaxAttempts
    /\ "retry_wait" \in TurnTransitions[turn[j]]
    /\ turn' = [turn EXCEPT ![j] = "retry_wait"]
    /\ status' = [status EXCEPT ![j] = "retry_scheduled"]
    /\ available' = [available EXCEPT ![j] = at + delay]
    /\ preserve' = [preserve EXCEPT ![j] = @ \/ preserveAttempt]
    /\ ClearLeases({j})
    /\ Forget(w)
    /\ UNCHANGED <<now, rows, minted, rowid, attempt, lastLeased, ask, inputs,
                   responded, reclaims, covered, applied>>

\* request_interaction: job and turn wait for the user, the lease is given up.
RequestInteraction(w, at) ==
    LET j == heldJob[w] IN
    /\ Executing(w, at)
    /\ "waiting_human" \in TurnTransitions[turn[j]]
    /\ turn' = [turn EXCEPT ![j] = "waiting_human"]
    /\ status' = [status EXCEPT ![j] = "waiting_human"]
    /\ ask' = [ask EXCEPT ![j] = "pending"]
    /\ ClearLeases({j})
    /\ Forget(w)
    /\ UNCHANGED <<now, rows, minted, rowid, attempt, available, preserve,
                   lastLeased, inputs, responded, reclaims, covered, applied>>

-----------------------------------------------------------------------------
(* The user and the interaction maintenance. *)

\* respond_interaction in time. A successful connector login also appends an
\* input revision (refresh), so that the resumed worker rebuilds its batch.
Respond(j, at, refresh) ==
    /\ ask[j] = "pending"
    /\ refresh => inputs[j] < MaxInputs
    /\ ask' = [ask EXCEPT ![j] = "resolved"]
    /\ status' = [status EXCEPT ![j] = IF @ = "waiting_human"
                                      THEN "queued" ELSE @]
    /\ available' = [available EXCEPT ![j] = IF status[j] = "waiting_human"
                                            THEN at ELSE @]
    /\ turn' = [turn EXCEPT ![j] = IF @ = "waiting_human" THEN "preparing" ELSE @]
    /\ inputs' = [inputs EXCEPT ![j] = IF refresh THEN @ + 1 ELSE @]
    /\ UNCHANGED <<now, rows, minted, rowid, attempt, owner, token, expires,
                   preserve, lastLeased, heldJob, heldToken, responded,
                   reclaims, covered, applied>>

\* _close_pending_in_transaction: expire_due, an answer after the expiry
\* ("expired"), or a withdrawn question ("cancelled").
CloseInteraction(j, target) ==
    LET outcome == IF target = "expired" THEN "failed" ELSE "cancelled"
        ends == {i \in {j} : \/ status[i] = "waiting_human"
                             \/ turn[i] = "waiting_human" /\ status[i] \in OpenJob}
    IN
    /\ ask[j] = "pending"
    /\ ask' = [ask EXCEPT ![j] = target]
    /\ status' = [i \in Jobs |-> IF i \in ends THEN outcome ELSE status[i]]
    /\ turn' = [turn EXCEPT ![j] = IF @ = "waiting_human" THEN outcome ELSE @]
    /\ ClearLeases(ends)
    /\ UNCHANGED <<now, rows, minted, rowid, attempt, available, preserve,
                   lastLeased, heldJob, heldToken, inputs, responded, reclaims,
                   covered, applied>>

\* steer_turn: one more input revision, unless the turn is being finalized.
Steer(j) ==
    /\ turn[j] \notin TerminalTurn \cup {"absent", "finalizing"}
    /\ inputs[j] < MaxInputs
    /\ inputs' = [inputs EXCEPT ![j] = @ + 1]
    /\ UNCHANGED <<jobVars, turn, ask, responded, reclaims, covered, applied>>

\* MUTANT: the turn's status graph is not consulted.
InterruptAny(j) ==
    /\ turn[j] # "absent"
    /\ turn' = [turn EXCEPT ![j] = "interrupted"]
    /\ status' = [status EXCEPT ![j] = "cancelled"]
    /\ ClearLeases({j})
    /\ ask' = [ask EXCEPT ![j] = IF @ = "pending" THEN "cancelled" ELSE @]
    /\ UNCHANGED <<now, rows, minted, rowid, attempt, available, preserve,
                   lastLeased, heldJob, heldToken, inputs, responded, reclaims,
                   covered, applied>>

\* interrupt_turn: cancel the job, whoever runs it, and settle.
Interrupt(j) ==
    /\ SettleTurn(j, "interrupted", "cancelled")
    /\ UNCHANGED <<now, rows, minted, rowid, attempt, available, preserve,
                   lastLeased, heldJob, heldToken, inputs, responded, reclaims,
                   covered, applied>>

\* MUTANT: the superseded turn's job keeps running.
ReplaceKeepsJob(j, k, at) ==
    /\ ThreadOf[k] = ThreadOf[j]
    /\ turn[k] = "absent"
    /\ "superseded" \in TurnTransitions[turn[j]]
    /\ turn' = [turn EXCEPT ![j] = "superseded", ![k] = "queued"]
    /\ status' = [status EXCEPT ![k] = "queued"]
    /\ ask' = [ask EXCEPT ![j] = IF @ = "pending" THEN "cancelled" ELSE @]
    /\ rows' = rows + 1
    /\ rowid' = [rowid EXCEPT ![k] = rows + 1]
    /\ available' = [available EXCEPT ![k] = at]
    /\ UNCHANGED <<now, minted, attempt, owner, token, expires, preserve,
                   lastLeased, heldJob, heldToken, inputs, responded, reclaims,
                   covered, applied>>

\* replace_turn: supersede turn j and create turn k in its thread.
Replace(j, k, at) ==
    /\ ThreadOf[k] = ThreadOf[j]
    /\ turn[k] = "absent"
    /\ "superseded" \in TurnTransitions[turn[j]]
    /\ turn' = [turn EXCEPT ![j] = "superseded", ![k] = "queued"]
    /\ status' = [status EXCEPT ![j] = "cancelled", ![k] = "queued"]
    /\ ask' = [ask EXCEPT ![j] = IF @ = "pending" THEN "cancelled" ELSE @]
    /\ rows' = rows + 1
    /\ rowid' = [rowid EXCEPT ![k] = rows + 1]
    /\ available' = [available EXCEPT ![k] = at]
    /\ ClearLeases({j})
    /\ UNCHANGED <<now, minted, attempt, preserve, lastLeased, heldJob,
                   heldToken, inputs, responded, reclaims, covered, applied>>

-----------------------------------------------------------------------------
TurnNext ==
    \/ TurnTick
    \/ \E at \in Captured :
         \/ TurnReclaim(at)
         \/ \E j \in Jobs :
              \/ CreateTurn(j, at)
              \/ \E refresh \in BOOLEAN : Respond(j, at, refresh)
              \/ \E k \in Jobs : Replace(j, k, at)
         \/ \E w \in Workers :
              \/ \E j \in Jobs : TurnLease(w, j, at) \/ TurnLeaseAborted(w, j, at)
              \/ WorkerStart(w, at)
              \/ WorkerHeartbeat(w, at)
              \/ \E target \in RetryPhase \cup {"preparing"} :
                    WorkerTransition(w, at, target)
              \/ RecordResponse(w, at)
              \/ BeginFinalizing(w, at)
              \/ \E target \in {"completed", "partial", "failed"} :
                    FinishTurnJob(w, at, target)
              \/ \E retryable \in BOOLEAN : WorkerFails(w, at, retryable)
              \/ \E preserveAttempt \in BOOLEAN, delay \in RetryDelays :
                    RetryTurnJob(w, at, preserveAttempt, delay)
              \/ RequestInteraction(w, at)
    \/ \E j \in Jobs :
         \/ \E target \in {"expired", "cancelled"} : CloseInteraction(j, target)
         \/ Steer(j)
         \/ Interrupt(j)
    \/ \E w \in Workers : ApplyInputs(w) \/ WorkerCrash(w)

TurnSpec == TurnInit /\ [][TurnNext]_vars

\* The clock runs and the supervisors keep polling lease_next, whose sweep
\* reads the clock afresh (see JobFairness for the ones that abort). Nothing is assumed
\* of workers or users.
TurnFairSpec ==
    TurnSpec /\ WF_vars(TurnTick) /\ WF_vars(TurnReclaim(now))

-----------------------------------------------------------------------------
(* Properties. *)

\* Type invariant of turns and interactions.
TurnTypeOK ==
    /\ JobTypeOK
    /\ turn \in [Jobs -> TurnStatus]
    /\ ask \in [Jobs -> {"none", "pending", "resolved", "expired", "cancelled"}]
    /\ inputs \in [Jobs -> 0..MaxInputs]
    /\ responded \in [Jobs -> BOOLEAN]
    /\ reclaims \subseteq Jobs \X (1..MaxAttempts)
    /\ applied \in [Workers -> 0..MaxInputs]
    /\ covered \in [Jobs -> -1..MaxInputs]

\* What the invariant auditor (invariants.py) recomputes over the tables, and
\* for which it would close the execution gate for good: a terminal turn has
\* no open job and no pending question; a turn or a job waits exactly for a
\* pending question; job and turn outcomes agree.
AuditorClean ==
    \A j \in Jobs :
        /\ turn[j] \in TerminalTurn =>
              status[j] \in TerminalJob /\ ask[j] # "pending"
        /\ turn[j] = "waiting_human" => ask[j] = "pending"
        /\ status[j] = "waiting_human" =>
              turn[j] = "waiting_human" /\ ask[j] = "pending"
        /\ status[j] = "retry_scheduled" => turn[j] = "retry_wait"
        /\ status[j] = "completed" => turn[j] \in {"completed", "partial"}
        /\ status[j] \in {"failed", "dead_letter"} => turn[j] = "failed"
        /\ status[j] \in ActiveJob <=> token[j] # 0

\* No turn is stranded: a turn that is neither finished nor waiting for its
\* user has a job that some worker executes or will be offered, and that job
\* can resume it (the phases only a live owner understands are gone from it).
TurnNotStranded ==
    \A j \in Jobs :
        turn[j] \notin TerminalTurn \cup {"absent", "waiting_human"} =>
            \/ status[j] \in ActiveJob
            \/ /\ status[j] \in ReadyJob
               /\ turn[j] \in {"queued", "preparing", "retry_wait", "finalizing"}

\* A steer that was accepted is never lost behind completion: a turn that is
\* being finalized or has completed was finalized with its last input applied,
\* also when the finalizing worker was a stalled one or completion was done by
\* the recovery sweep.
SteerNotLost ==
    \A j \in Jobs :
        turn[j] \in {"finalizing", "completed"} => covered[j] = inputs[j]

\* A committed response is never thrown away: once the turn is finalizing with
\* its response on record, its job is not retried and not dead-lettered, even
\* when the lease that expires was the last attempt. For fail_turn_job this rests on
\* the workers, which report no retryable error in that phase (WorkerFails).
ResponseKept ==
    [][\A j \in Jobs :
        turn[j] = "finalizing" /\ responded[j] =>
            status'[j] \notin {"queued", "retry_scheduled", "dead_letter"}]_vars

\* A terminal turn stays as it is, whatever late workers, answers and sweeps do.
TerminalIsFinal ==
    [][\A j \in Jobs :
        turn[j] \in TerminalTurn => turn'[j] = turn[j] /\ status'[j] = status[j]
            /\ inputs'[j] = inputs[j]]_vars

\* The sweep never trips over its own event keys: an active attempt has not
\* been reclaimed before, although an attempt number may be leased repeatedly.
\* Otherwise every lease_next would abort for as long as the row exists.
ReclaimKeyFresh ==
    \A j \in Jobs : status[j] \in ActiveJob => <<j, attempt[j]>> \notin reclaims

\* A worker that dies between begin_finalizing and finish_turn_job does not
\* strand the turn: once its lease has expired the turn is settled.
FinalizingSettles ==
    \A j \in Jobs :
        (turn[j] = "finalizing" /\ responded[j] /\ expires[j] <= now)
            ~> turn[j] \in TerminalTurn

\* The attempt budget and the queue agree: a job that is offered although its next
\* attempt would exceed max_attempts (which the table's trigger refuses, and with it
\* every lease_next that selects the job) was queued by the answer to a question asked
\* on the last attempt. Reclaims and retries never queue such a job.
OfferedWithinBudget ==
    \A j \in Jobs :
        status[j] \in ReadyJob /\ AttemptAtLease(j) > MaxAttempts =>
            status[j] = "queued" /\ ask[j] = "resolved" /\ turn[j] = "preparing"

\* Every change of a turn's status, by workers, users, answers and sweeps, is an edge
\* of TURN_TRANSITIONS, the graph that replay enforces on turn.status_changed events.
\* The one exception is a job given up before any worker moved its turn.
TurnTransitionsLegal ==
    [][\A j \in Jobs :
        turn'[j] # turn[j] /\ turn[j] # "absent" =>
            \/ turn'[j] \in TurnTransitions[turn[j]]
            \/ turn[j] = "queued" /\ turn'[j] = "failed" /\ status'[j] = "dead_letter"]_vars
=============================================================================
