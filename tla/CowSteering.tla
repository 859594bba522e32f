---------------------------- MODULE CowSteering ----------------------------
(***************************************************************************)
(* How a steering input reaches the model while AgentTurnWorker            *)
(* (ecorex/runtime/worker.py) executes one leased turn. These parties run  *)
(* concurrently and share no transaction:                                  *)
(*   - users, whose steer_turn commits input revisions (a 202 answer) and  *)
(*     who may interrupt the turn;                                         *)
(*   - the watcher task, which polls the revisions and submits them to the *)
(*     run's inbox (_watch_revisions);                                     *)
(*   - the agent thread, which drains the inbox between model calls and    *)
(*     closes it when it ends (agent_stream.py, SteerInbox);               *)
(*   - the worker task, which stops the watcher, runs the agent once more  *)
(*     for every revision the watcher did not submit, and asks the kernel  *)
(*     to finalize with the last ordinal it applied;                       *)
(*   - the heartbeat task, which sets the run's cancel event when a        *)
(*     heartbeat raises.                                                   *)
(*                                                                         *)
(* Revision 0 is the turn's initial input; steers are 1, 2, ...            *)
(***************************************************************************)
EXTENDS Integers, Sequences

CONSTANTS
    MaxInputs,    \* bound: number of steers
    MaxPending,   \* SteerInbox.max_pending
    Oversized     \* the revisions longer than SteerInbox.max_chars

ASSUME SteeringAssumption ==
    /\ MaxInputs \in Nat
    /\ MaxPending \in Nat \ {0}
    /\ Oversized \subseteq Nat

VARIABLES
    turn,       \* turns.status
    inputs,     \* ordinal of the latest committed revision
    inbox,      \* SteerInbox._pending
    accepting,  \* SteerInbox._accepting
    agent,      \* the agent thread: "running" or "returned"
    told,       \* the revisions given to the model, in order
    watcher,    \* the watcher task: "poll", "submit", "returned" or "raised"
    listed,     \* last ordinal of the revisions the watcher has read
    applied,    \* the applied ordinal, the watcher's and then the worker's
    worker,     \* the worker task's position
    revisions,  \* last ordinal of the revisions the worker has read
    stop,       \* the watch_stop event
    cancel,     \* the run's cancel_event
    disturbed   \* history: something other than steering happened to the run

store == <<turn, inputs>>
box == <<inbox, accepting>>
run == <<agent, told>>
watch == <<watcher, listed>>
work == <<worker, revisions>>
signals == <<stop, cancel, disturbed>>
vars == <<store, box, run, watch, applied, work, signals>>

Init ==
    /\ turn = "streaming" /\ inputs = 0
    /\ inbox = <<>> /\ accepting = TRUE
    /\ agent = "running" /\ told = <<0>>
    /\ watcher = "poll" /\ listed = 0
    /\ applied = 0
    /\ worker = "agent" /\ revisions = 0
    /\ stop = FALSE /\ cancel = FALSE /\ disturbed = FALSE

-----------------------------------------------------------------------------
(* Users and the heartbeat. *)

\* steer_turn: refused once the turn is finalizing or terminal.
Steer ==
    /\ turn = "streaming"
    /\ inputs < MaxInputs
    /\ inputs' = inputs + 1
    /\ UNCHANGED <<turn, box, run, watch, applied, work, signals>>

\* interrupt_turn, cancel or replace: the turn is terminal and its job's lease
\* is gone, so every later write of the worker raises LeaseError.
Interrupt ==
    /\ turn \in {"streaming", "finalizing"}
    /\ turn' = "interrupted"
    /\ disturbed' = TRUE
    /\ UNCHANGED <<inputs, box, run, watch, applied, work, stop, cancel>>

\* _heartbeat_loop: any exception, also one that leaves the lease alone (a busy
\* database), sets the cancel event. So does close() of the worker.
HeartbeatFails ==
    /\ worker # "done"
    /\ ~cancel
    /\ cancel' = TRUE
    /\ disturbed' = TRUE
    /\ UNCHANGED <<store, box, run, watch, applied, work, stop>>

-----------------------------------------------------------------------------
(* The watcher. *)

WatchRead ==
    /\ watcher = "poll"
    /\ ~stop /\ ~cancel
    /\ listed' = inputs
    /\ watcher' = "submit"
    /\ UNCHANGED <<store, box, run, applied, work, signals>>

\* MUTANT: a submission counts as applied even when the inbox refuses it.
SubmitIgnoringRefusal ==
    /\ watcher = "submit"
    /\ applied < listed
    /\ inbox' = IF accepting THEN Append(inbox, applied + 1) ELSE inbox
    /\ applied' = applied + 1
    /\ UNCHANGED <<store, accepting, run, watch, work, signals>>

\* SteerInbox.submit of the next revision, accepted.
WatchSubmit ==
    /\ watcher = "submit"
    /\ applied < listed
    /\ applied + 1 \notin Oversized
    /\ accepting
    /\ Len(inbox) < MaxPending
    /\ inbox' = Append(inbox, applied + 1)
    /\ applied' = applied + 1
    /\ UNCHANGED <<store, accepting, run, watch, work, signals>>

\* INVALID, CLOSING or FULL: the watcher leaves the rest to the worker.
WatchRefused ==
    /\ watcher = "submit"
    /\ applied < listed
    /\ applied + 1 \in Oversized \/ ~accepting \/ Len(inbox) >= MaxPending
    /\ watcher' = "returned"
    /\ UNCHANGED <<store, box, run, listed, applied, work, signals>>

\* After the last revision the watcher looks at the turn: a stopped one
\* cancels the run.
WatchAgain ==
    /\ watcher = "submit"
    /\ applied = listed
    /\ IF turn = "interrupted"
       THEN watcher' = "returned" /\ cancel' = TRUE
       ELSE watcher' = "poll" /\ cancel' = cancel
    /\ UNCHANGED <<store, box, run, listed, applied, work, stop, disturbed>>

\* MUTANT: only the cancel event ends the watcher.
WatchReturnOnCancel ==
    /\ watcher = "poll"
    /\ cancel
    /\ watcher' = "returned"
    /\ UNCHANGED <<store, box, run, listed, applied, work, signals>>

WatchReturn ==
    /\ watcher = "poll"
    /\ stop \/ cancel
    /\ watcher' = "returned"
    /\ UNCHANGED <<store, box, run, listed, applied, work, signals>>

\* A read of the database or an attachment raises. Nobody notices before the
\* worker awaits the task.
WatchRaises ==
    /\ watcher \in {"poll", "submit"}
    /\ watcher' = "raised"
    /\ disturbed' = TRUE
    /\ UNCHANGED <<store, box, run, listed, applied, work, stop, cancel>>

-----------------------------------------------------------------------------
(* The agent thread. *)

\* _drain_steering at one of its points; the next model call sees the updates.
AgentDrain ==
    /\ agent = "running"
    /\ inbox # <<>>
    /\ told' = told \o inbox
    /\ inbox' = <<>>
    /\ UNCHANGED <<store, accepting, agent, watch, applied, work, signals>>

\* MUTANT: the inbox is closed without looking into it.
AgentCloseBlindly ==
    /\ agent = "running"
    /\ accepting' = FALSE
    /\ agent' = "returned"
    /\ UNCHANGED <<store, inbox, told, watch, applied, work, signals>>

\* The run ends only through close_if_empty, which tests and closes under the
\* inbox's lock; otherwise it drains and goes on.
AgentClose ==
    /\ agent = "running"
    /\ inbox = <<>>
    /\ accepting' = FALSE
    /\ agent' = "returned"
    /\ UNCHANGED <<store, inbox, told, watch, applied, work, signals>>

\* AgentCancelledError: run_stream winds down and returns normally.
AgentCancelled ==
    /\ agent = "running"
    /\ cancel
    /\ accepting' = FALSE
    /\ agent' = "returned"
    /\ UNCHANGED <<store, inbox, told, watch, applied, work, signals>>

-----------------------------------------------------------------------------
(* The worker task. *)

StopWatcher ==
    /\ worker = "agent"
    /\ agent = "returned"
    /\ stop' = TRUE
    /\ worker' = "await_watcher"
    /\ UNCHANGED <<store, box, run, watch, applied, revisions, cancel, disturbed>>

\* MUTANT: the worker does not take the watcher's ordinal over.
ReadRevisionsFromStart ==
    /\ worker = "await_watcher"
    /\ watcher = "returned"
    /\ revisions' = inputs
    /\ applied' = 0
    /\ worker' = "followup"
    /\ UNCHANGED <<store, box, run, watch, signals>>

ReadRevisions ==
    /\ worker = "await_watcher"
    /\ watcher = "returned"
    /\ revisions' = inputs
    /\ worker' = "followup"
    /\ UNCHANGED <<store, box, run, watch, applied, signals>>

\* One more agent run for a revision the watcher did not submit. A run that is
\* cancelled before its first model call returns as if it had been made.
FollowUp ==
    /\ worker = "followup"
    /\ applied < revisions
    /\ \/ told' = Append(told, applied + 1)
       \/ cancel /\ told' = told
    /\ applied' = applied + 1
    /\ UNCHANGED <<store, box, agent, watch, work, signals>>

\* The finally clause of run_once.
CleanUp ==
    /\ worker' = "done"
    /\ stop' = TRUE
    /\ cancel' = TRUE
    /\ watcher' = "returned"
    /\ UNCHANGED <<inputs, told, inbox, listed, applied, revisions>>

\* The except clause: fail_turn_job, not retryable. It may raise itself (the
\* lease is gone, the database is busy), and then the turn is left alone.
FailTurn ==
    /\ turn' \in {turn} \cup (IF turn = "interrupted" THEN {} ELSE {"failed"})
    /\ CleanUp

\* begin_finalizing_if_inputs_applied. False raises ConflictError.
BeginFinalizing ==
    /\ worker = "followup"
    /\ applied = revisions
    /\ \/ /\ turn = "streaming" /\ inputs = applied
          /\ turn' = "finalizing"
          /\ worker' = "finish"
          /\ UNCHANGED <<inputs, told, inbox, watch, applied, revisions, stop,
                         cancel>>
       \/ /\ turn = "streaming" /\ inputs > applied
          /\ turn' = "failed"
          /\ CleanUp
    /\ UNCHANGED <<accepting, agent, disturbed>>

FinishTurnJob ==
    /\ worker = "finish"
    /\ turn = "finalizing"
    /\ turn' = "completed"
    /\ CleanUp
    /\ UNCHANGED <<accepting, agent, disturbed>>

\* A step of the worker raises: the watcher's exception when it is awaited,
\* LeaseError after an interrupt, or anything else. While the worker waits for
\* the agent thread only that thread can raise, and it closes the inbox.
WorkerRaises ==
    /\ worker # "done"
    /\ FailTurn
    /\ IF worker = "agent" THEN agent' = "returned" /\ accepting' = FALSE
                           ELSE UNCHANGED <<agent, accepting>>
    /\ disturbed' = TRUE

\* The supervisor cancels the task: no except clause runs, and the agent thread
\* goes on until it sees the cancel event.
WorkerCancelled ==
    /\ worker # "done"
    /\ CleanUp
    /\ disturbed' = TRUE
    /\ UNCHANGED <<turn, agent, accepting>>

-----------------------------------------------------------------------------
Watcher == WatchRead \/ WatchSubmit \/ WatchRefused \/ WatchAgain \/ WatchReturn
Agent == AgentDrain \/ AgentClose \/ AgentCancelled

\* What the worker does once it can: the two raises it cannot escape included.
Worker ==
    \/ StopWatcher \/ ReadRevisions \/ FollowUp \/ BeginFinalizing \/ FinishTurnJob
    \/ worker = "await_watcher" /\ watcher = "raised" /\ WorkerRaises
    \/ worker \in {"followup", "finish"} /\ turn = "interrupted" /\ WorkerRaises

Next ==
    \/ Steer \/ Interrupt \/ HeartbeatFails
    \/ WatchRead \/ WatchSubmit \/ WatchRefused \/ WatchAgain \/ WatchReturn
    \/ WatchRaises
    \/ AgentDrain \/ AgentClose \/ AgentCancelled
    \/ StopWatcher \/ ReadRevisions \/ FollowUp \/ BeginFinalizing \/ FinishTurnJob
    \/ WorkerRaises \/ WorkerCancelled

Spec == Init /\ [][Next]_vars

\* The event loop runs its tasks and the agent's model calls end.
FairSpec == Spec /\ WF_vars(Watcher) /\ WF_vars(Agent) /\ WF_vars(Worker)

-----------------------------------------------------------------------------
(* Properties. *)

\* Type invariant of the parties.
TypeOK ==
    /\ turn \in {"streaming", "finalizing", "completed", "failed", "interrupted"}
    /\ inputs \in 0..MaxInputs
    /\ inbox \in Seq(1..MaxInputs) /\ Len(inbox) <= MaxPending
    /\ agent \in {"running", "returned"}
    /\ told \in Seq(0..MaxInputs)
    /\ watcher \in {"poll", "submit", "returned", "raised"}
    /\ worker \in {"agent", "await_watcher", "followup", "finish", "done"}
    /\ {listed, applied, revisions} \subseteq 0..MaxInputs
    /\ {accepting, stop, cancel, disturbed} \subseteq BOOLEAN

\* The model is told every input at most once and in the order the user sent
\* them, whether it comes through the inbox or a follow-up run.
ToldInOrder == ~disturbed => \A i \in 1..Len(told) : told[i] = i - 1

\* An undisturbed run that completes has told the model every steer that was
\* accepted: none is left in a closed inbox or between two readings.
SteerReachesModel ==
    turn = "completed" /\ ~disturbed => Len(told) = inputs + 1

\* begin_finalizing's promise for every run, disturbed or not: "a 202 steer can
\* never disappear behind completion".
SteerNeverDisappears == turn = "completed" => Len(told) = inputs + 1

\* The hand-over between agent, watcher and worker never blocks, whoever stops,
\* raises or is cancelled first: the worker's slot and the agent thread become
\* free for the next turn.
RunEnds == <>(worker = "done" /\ agent = "returned")
=============================================================================
