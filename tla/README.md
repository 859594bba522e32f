# A TLA+ model of the EcoreX local runtime

EcoreX is a desktop agent. Its core, `src/ecorex/runtime`, is a local runtime that
keeps every conversation, every piece of work and every question to the user in one
SQLite database, and lets worker tasks execute that work under leases. This directory
models that core, and the updater that replaces the installed version under it
(`src/ecorex/update`, `src/ecorex/bootstrap`): what is durable, who may change it, in
which order, and what is left after a worker, a process or a message was late, lost or
dead.

## The system

| Component | State | Operations | Correct when |
|---|---|---|---|
| Durable job store (`runtime/jobs.py`) | table `jobs`, table `scheduler_threads`; each worker's memory of its job and fencing token | enqueue, lease_next (with its sweep), start, heartbeat, complete, fail, wait_for_human, resume_waiting, cancel, expire_deadline, reclaim_expired | a lease exists exactly for leased and running rows; threads run in order; a late worker commits nothing; a dead worker's job comes back |
| Turn kernel (`runtime/kernel.py`) | tables `threads`, `turns`, `items` | create, transition, begin_finalizing, finish, fail, steer, replace, interrupt, request/respond interaction | turn, job and question always agree; no turn is stranded; terminal is final |
| Interactions (`runtime/interactions.py`) | table `interactions` | create, respond, cancel, expire_due | a turn waits exactly for a pending question |
| Turn inputs (`runtime/turn_inputs.py`) | revisions with ordinals, execution batches | append initial/steer/refresh, list, create batch | no accepted steer is lost behind completion |
| COW executor (`runtime/worker.py`, AgentTurnWorker) | task-local: watcher, heartbeat, applied ordinal, cancel event | run_once | the model is told every input once and in order; the run ends |
| Agent loop (`agent/protocol/agent_stream.py`, `steer.py`) | SteerInbox | submit, drain, close_if_empty, close | nothing is left in a closed inbox |
| Execution gate (`runtime/invariant_guard.py`, `commit_guard.py`, `recovery_gate.py`) | health, epoch, latch, permits, drains | issue/assert permit, record report, mark/request critical | nothing commits after a critical closure |
| Activation drain (`runtime/activation_drain.py`) | the drain lease | acquire, release, assert_drained | no job is active while an update is activated |
| Event store (`runtime/event_store.py`) | events, sequences, notification hub | append, page, wait | append-only, keys unique, no missed wake-up |
| Auditor and replay (`runtime/invariants.py`, `replay/`) | none (readers) | check, replay | accept everything the runtime can write |
| Tool executions (`runtime/tool_executions.py`, tool path of `worker.py`) | ledger row, invocation admission, approval and conflict questions, checkpoint | begin, record_retry, admit, complete, fail, skip | a side effect is not repeated without consent; the policy in force is obeyed; an outcome stands |
| Install coordinator (`update/coordinator.py`, `journal.py`, `storage.py`) | install journal, active transaction, slot pointers, slots | prepare, activate, cancel, recover, prune | the journal only takes legal steps; what a rollback needs is kept |
| Provisional activation (`update/activation.py`) | activation intent, activation receipt | create_intent, ensure_pending_current, confirm, fail_pre_data, reconcile_confirmation, rollback_confirmed_pre_data, mark_data_barrier_crossed | one version owns the data, at most one is on trial, every trial is settled |
| Bootstrap supervisor (`bootstrap/supervisor.py`), product startup (`server/config.py`) | the child process, exit codes | select, probe, confirm, roll back, relaunch; verify slot, cross the data barrier | the pointed-at version can be started; nothing is rolled back past the barrier |
| Supervisors (`runtime/supervisor.py`, `interaction_maintenance.py`) | worker slots | start, stop, restart, poll | slots come back after failures |
| Image orchestrator, sharing | their own tables | jobs, publication | not modelled yet |
| API, server, agent tools, channels, models, desktop | adapters, I/O, rendering | | not modelled |

Interaction. All components of the runtime share one database and write to it in
serialised transactions (`BEGIN IMMEDIATE`), so one transaction is one atomic step.
Between transactions everything interleaves: several worker tasks, the HTTP handlers of
the user's requests, the maintenance loops. A worker talks to the store only with the
fencing token of its lease; the agent thread talks to its worker only through the inbox,
the cancel event and the callback. The updater shares no transaction with the runtime: it
works on six files, under a file lock that Bootstrap and the serving Runtime both take, and
learns from `ActivationDrain` that the runtime is idle. What makes this hard is listed under `hazards` in
`PROJECT.json`, each at its line.

## Modules

| Module | Models |
|---|---|
| `DurableJobs` | the job store; jobs without turns |
| `DurableJobsProofs`, `TurnKernelProofs`, `CowSteeringProofs`, `ExecutionGateProofs`, `ToolExecutionsProofs`, `UpdateActivationProofs` | theorems about the module of that name |
| `UpdateSafetyProofs` | what an update may undo, and that `UpdateActivation` implements `VersionSwitch` |
| `TurnKernel` (extends `DurableJobs`) | turns, their jobs, interactions and input ordinals |
| `CowSteering` | one execution of a turn by AgentTurnWorker, seen from inside |
| `ExecutionGate` | the execution gate, the permits of the job store and the update drain |
| `ToolExecutions` | one tool call: ledger, admission, questions and the workers that drive them |
| `UpdateActivation` | an update from preparation to the data barrier, file by file and process by process |
| `VersionSwitch` | what an update promises, implemented by `UpdateActivation` |
| `MCDurableJobs`, `MCTurnKernel`, `MCCowSteering`, `MCExecutionGate`, `MCToolExecutions`, `MCUpdateActivation` | instances for TLC |

### DurableJobs

One variable per column that matters (`status`, `attempt`, `owner`, `token`, `expires`,
`available`, `rowid`), one for the preserve-attempt mark in the checkpoint, one for
`scheduler_threads.last_leased_at`, and two for a worker's memory. One action per public
method. `lease_next` is the largest: it sweeps overdue and expired rows, runs the
scheduling query on the result and leases the first candidate, all in one transaction, so
`LeaseNext` computes the swept statuses and leases in the same step.

- *Clocks.* `now` is read before the write lock is waited for. A transaction therefore
  runs with an instant up to `MaxDelay` old (`Captured`). This is where a sweep or an
  ownership test may disagree with the present.
- *Workers.* A worker keeps its job and token until an operation ends it or it dies
  (`Crash`). It may stall for any time in between. A lease that is committed but whose
  permit cannot be published (`lease_next` then returns `None`) is a `LeaseNext`
  followed by `Crash`.
- *The lease trigger.* When the candidate's attempts are used up, the table's trigger
  aborts the transaction of `lease_next` and its sweep with it: `LeaseAborted`, a step that
  changes nothing. The bound on `attempt` is thus the trigger's (it is in `JobTypeOK`);
  what the code owes is that no job gets there, which is `SpentOnlyByAnswer`.
- *Fencing tokens* are random ids; the model counts them (`minted`).
- *Heartbeats* of one worker follow one another, so their instants do not go back.
- *Left out:* checkpoint contents, error texts, events (`JobTransitionsLegal` says what
  their replay needs), jobs without a thread (they have no order to keep), `kinds`
  filters, and the tie-breaking by creation time (left nondeterministic).

### TurnKernel

`create_turn` gives every turn exactly one `agent_turn` job without deadline and with a
budget of attempts, so turns are identified with jobs and the module extends
`DurableJobs`. The sweep's effect on turns is a set of functions (`Recovered`,
`Exhausted`, `Requeued`, `SweptTurn`, `SweptAsk`), used by both `TurnReclaim` and
`TurnLease` because the code shares the sweep. `SettleTurn` is
`_transition_turn_in_transaction` with its dependents. Workers take the phase transitions
in any order TURN_TRANSITIONS allows, which includes the orders of both worker classes.
`reclaims` keeps the idempotency keys of the reclaim events, because the event store
rejects a reused key with a different time and the whole transaction with it. `covered`
is a history variable.

- *Left out:* items of a turn (messages, tool items), reasoning archives, operation
  turns, threads' own life cycle, forks. A question's expiry time is abstracted: it may
  expire at any moment. `resume_waiting` is the interaction store's own update here.
- *Callers.* `FailTurnJob` is the kernel's method, which takes a retryable error in any
  phase. `WorkerFails` is the workers' call of it: none of them reports a retryable error
  after `begin_finalizing`. `ResponseKept` rests on that, not on a test in the kernel.

### CowSteering

The parties are the user, watcher task, agent thread, worker task and heartbeat task.
`applied` is one variable because the watcher returns its value to the worker and does
not touch it afterwards. `told` is the sequence of revisions given to the model.
`disturbed` is a history variable: something other than steering happened (a heartbeat
or a task raised, the user interrupted, the supervisor cancelled the worker). A run
starts in `streaming`; leases are only visible as errors (`WorkerRaises`).

### ExecutionGate

The other modules treat a transaction as one step. Here it is several, because the
question is what falls between them: a call asks the gate for a permit, waits for the
database's write lock, writes, has the permit validated, commits, and afterwards updates
the permit map of the job store. The lock from `BEGIN IMMEDIATE` to `COMMIT` is the
variable `writer`, and `draft` is what the open transaction will commit. Gate operations
are single steps (each holds the gate's lock for its whole body), except that a closure
first sets its signal and only later gets the lock (`ViolationReport` or
`RequestCritical`, then `ApplyClosure`). The calls of one thread are a record `act[a]`,
and the update service's activation is the record `upd`: `_begin` under the write lock
(`DrainLock`, `DrainSnapshot`, `BeginDrain`), the counting loop (`CheckDrain`,
`ReadActive`, `Decide`; `round` 1 is acquire, 2 and 3 are the two `assert_drained` calls
of `service.py`), the activation itself and `release`.

- *Rows.* Of a job only the token of its lease matters. A sweep or a control transaction
  may take back any set of leases: expiry is the environment's choice.
- *COW turns* run under `bind_cow_turn_execution`, which skips the permit while no drain
  is active. Their commits after a closure are intended by the code and are not counted
  in `late`.
- *Restart* replaces the gate and the permit map and keeps the rows.
- *History variables:* `late` (permitted commits after the closure signal) and `orphaned`
  (an activation was cancelled inside `_begin`).
- *Left out:* the recovery gate, commit guards nested in one another, the control
  transactions of a COW turn that skip the gate, texts and ids of reports, and the period
  and timeout of the invariant supervisor (a report or a closure may come at any moment).

### ToolExecutions

A tool acts outside the database, so no transaction can cover it. The repository
(`tool_executions.py`) keeps a ledger row per call and an *admission*, the durable point
after which the handler may have run. The model follows one call of one job: `row` and
`admission` are the two tables, `ckpt` the job's checkpoint (which carries an approval
from the question to the admission), `approval` and `conflict` the interactions under
their idempotency keys, `policy` the permission ledger that another process may change,
and `w[p]` what a worker is about to do and remembers. Every write of a worker is guarded
by `Fenced`, and so is the start of the handler; `HandlerSucceeds` and `HandlerUncertain`,
where the effect happens, are not, because the tool does not know about leases. A lease may expire and a
worker stop at any moment, and any number of workers may go on with an old lease.

- `Idle`, `Lease`, `Settle`: a lease and its end. `HandleToolEvent`, `ResumeRunning`,
  `ResumeInteraction`, `ForgetRetry`: the branches by which `run_once` comes to the call.
- `MarkRunning`, `Begin`, `Check`, `ResumeUncertain`, `Govern`, `Admit`, `Invoke`: the
  body of `_execute_tool`, one action per transaction. `Govern` reads the policy and
  `Admit` checks it again (`PolicyCurrent`), at most three times, as the code does.
- `effects` is a history variable. In the code only `LegacyAgentTurnWorker` writes these
  tables; `api.py` composes `AgentTurnWorker`, whose tools run inside the agent.
- *Left out:* the contents of calls and results, cached and batch results, image
  submissions, connector reconciliation, the circuit breaker.

### UpdateActivation and VersionSwitch

An update is prepared by the serving Runtime, switched to by the same Runtime, probed
and confirmed by Bootstrap, and adopted when the restarted Runtime crosses its *data
barrier*, after which live storage is migrated and there is no way back. Each process
may die at any moment. What survives are six files, one variable each: `journal`,
`active`, `ptr`, `slots`, `intent`, `receipt`.

- *Writes one by one.* An operation under `install-update.lock` reads the files and turns
  into a sequence of durable writes (`job.writes`), which `Write` performs one at a time.
  Between two of them the machine may lose power or Bootstrap be killed (`PowerLoss`,
  `BootKilled`), and each may fail (`Except`): then the operation's exception handler
  runs, which may fail in turn (`Abort`, then `Converge`). A write the journal or the
  slot store refuses raises too (`Accepted`).
- *Operations.* A method of `ProvisionalActivationController` is two definitions: when it
  raises before it writes (`EnsureRaises`, `FailRaises`, `FinishRaises`, ...) and what it
  writes (`EnsureWrites`, ...). Bootstrap and the coordinator call the same ones, as in the
  code.
- *Processes.* `boot.pc` follows `BootstrapSupervisor.run`; `rt` holds the Runtime it
  watches and one that outlived an earlier Bootstrap (a full Runtime runs in a session of
  its own). `ReadBarrier` and `CrossBarrier` take no lock, as in `config.py`.
- *Refinement.* `VersionSwitch` has two variables: the version that owns the data and
  the one on trial. `UpdateActivation` defines both from the files: a trial exists
  when an intent names the current slot, or a confirmed receipt names it and its barrier is
  not crossed; the owner is then the current slot of the prior pointers kept in intent or
  receipt, otherwise the slot the pointers name. `SwitchesVersions` is the abstract
  specification under this mapping, with its fairness: every trial ends.
- *History variable:* `opened`, the transactions whose Runtime opened live storage.
- *Left out:* downloads, signatures and digests (an attempt succeeds or fails), pack sets,
  the first install, corruption of a file, the activation path without Bootstrap, the limit
  on requested restarts, which slots pruning takes by age (any choice), and what the
  activation companion does (it may refuse).

## Runs

| Run | Instance | Shows |
|---|---|---|
| `jobs` | 2 jobs in 1 thread, the first with deadline 2; 2 workers; 2 attempts; lease 2; clock to 3; delay 1 | types, `LeaseShape`, `ThreadInOrder`, `LeaseFencing`, `SpentOnlyByAnswer`, `JobTransitionsLegal`, `ExpiredLeaseReclaimed` |
| `turns` | 1 turn, 2 workers, 2 attempts, 1 steer, 3 leases | `AuditorClean`, `TurnNotStranded`, `SteerNotLost`, `ReclaimKeyFresh`, `OfferedWithinBudget`, `TurnTransitionsLegal`, `ResponseKept`, `TerminalIsFinal`, `FinalizingSettles` |
| `turns_pair` | 2 turns of a thread, replacement, no steer, clock to 1 | `AuditorClean`, `ThreadInOrder` |
| `steering` | 3 steers, inbox of 1, revision 2 too long for the inbox | `ToldInOrder`, `SteerReachesModel`, `RunEnds` |
| `gate` | 2 workers, one of them on the COW path, 1 job, 2 leases | types, `DrainedStaysIdle`, `DrainLetsLeasesFinish`, `PublishedPermitStands`, `DrainHasHolder` |
| `gate_control` | 1 worker, 1 control thread, 1 job, 2 leases | `OneLateCommit`, `DrainSettles` |
| `tools` | 1 call, 2 workers, 4 leases, 3 policy changes, 2 tries per handler | types, `EffectsConsented`, `LedgerNeverRefuses`, `AdmittedAsPermitted`, `OutcomeStands` |
| `update` | 3 releases, 2 updates, 3 mishaps (power losses, killed Bootstraps, failed writes), 2 retained slots, serving Runtimes may outlive Bootstrap | types, `PriorRetained`, `JournalNeverRefuses`, `SwitchesVersions` (refinement, with liveness) |
| `steer_lost` | as `steering` | violated, see Findings |
| `update_orphan` | 2 releases, 1 update, 1 mishap, 3 retained slots, any full Runtime may outlive Bootstrap | `NoRollbackPastBarrier`: violated, see Findings |
| `update_restart`, `update_downgrade` | 2 releases, 2 updates, no crash | violated, see Findings |

*Bounds.* Two attempts are enough for "first, last and beyond"; in `jobs` a lease of two
ticks and a clock of three let a lease expire and be handed on, with a caller whose clock is
one tick late, and let a deadline pass while the lease still runs (`OwnerDeadline`); in
`turns` a lease of one tick also expires twice. Two jobs are enough to overtake, two workers to be stale.
`turns` bounds the leases (`MaxLeases`) because a preserved attempt can be leased any
number of times. In `steering` three steers meet an inbox that holds one, so all three
verdicts of the inbox and the hand-over to the worker occur. In `gate` two workers and two
leases of one job are enough for a late publisher to meet the lease that replaced its own,
and for a drain to begin between one worker's permit and another's commit. In `tools` four
leases let a call be asked about, retried, lost and asked about again, and three policy
changes exhaust the three reads of `_admit_tool_execution`. In `update` the code's three
retained slots are two, so that three releases make pruning take one; three
mishaps let a crash hit the recovery from a crash or the handler of a failed write, and a
write of that handler fail as well (`Converge`). Deadlock is
checked in `gate`, `gate_control` and `update`: a report can always reach the gate, and a
Bootstrap can always be started again. It is not checked in the other runs: when the clock
or the number of leases has reached its bound, or the run has ended, nothing is left to do.

*Fairness.* `jobs` and `turns` assume that the clock advances and that a sweep
with a fresh clock eventually runs: every supervisor slot polls `lease_next` in a loop
(`supervisor.py`, `_worker_loop`), whose transaction begins with the sweep. A `lease_next`
that aborts on a spent job undoes its sweep; then the pools of the other kinds and the share
worker, which never select that job, go on sweeping. Nothing is
assumed of workers, which may stall or die, or of users. `steering` assumes that the
event loop runs its tasks and that the agent's model calls end (they have timeouts).
`gate_control` assumes that the activation's own steps run (they belong to one task and its
threads, and wait only for the write lock, before `DrainLock`) and that the deadline of
`acquire` arrives; nothing is assumed of the workers it waits for. `update` assumes that
whoever holds the install lock goes on (the operations are sequential code), that
Bootstrap is started again and its loop runs, that no Runtime serves for ever without a
restart, and, strongly, that a Runtime which is started over and over gets past its
barrier once (`ReadBarrier`, `CrossBarrier`): otherwise a user who stops the process
each time during startup keeps a candidate on trial for ever. Crashes are bounded by
`MaxMishaps`. Nothing is assumed of probes, which may always fail.

## Findings

- `steer_lost`: a heartbeat that raises without losing the lease cancels the agent but
  not the worker; the turn completes and an accepted steer was never given to the model.
- `update_orphan`: the data barrier is crossed without the install lock, by a Runtime
  that runs in a session of its own. When Bootstrap is killed while its Runtime is starting,
  the next Bootstrap cannot launch a second one, rolls the confirmed version back, and the
  first Runtime, having read the receipt before, writes it back with the barrier crossed and
  migrates live storage while the pointers return to the old version. `config.py` says
  that no rollback is permitted beyond that point.
- `update_restart`: the receipt of a rollback that has been finished is replayed by every
  start of Bootstrap that finds no intent. When the next update is journaled, even one
  whose download fails, the replay raises "activation rollback journal is missing", and
  from then on no start of Bootstrap brings up a Runtime.
- `update_downgrade`: a signed rollback to the release that is still retained as
  known-good moves the pointers, is then refused because its candidate is "not an isolated
  provisional slot", and is closed as FAILED without moving them back: the pointers name a
  version that was not probed and whose Runtime refuses to start.

### Observations

What the models show beside the runs that expect a violation:

- A question answered on the last attempt queues a job whose next lease would exceed
  `max_attempts`; the trigger aborts every `lease_next` that selects it, the job stays at
  the head of its pool, and the pool leases nothing until the job is cancelled
  (`LeaseAborted`), although `_worker_loop` means to "fail one loop, never the whole pool".
  `SpentOnlyByAnswer` and `OfferedWithinBudget` say that this is the only way to
  such a job. An agent turn has three attempts (`kernel.py`), so it takes three questions,
  each of which costs one; only LegacyAgentTurnWorker asks questions in this tree.
- `acquire` starts `_begin` in a thread outside its `try`. If the activation is cancelled
  there, the thread still begins the drain and its permit is dropped: admission stays shut,
  and no activation can begin, until the process restarts. `DrainHasHolder` exempts these
  activations (`orphaned`); without the exemption TLC violates it.
- `finish_turn_job` and `fail_turn_job` first run `expire_deadline`, a control transaction.
  For a COW turn it takes no permit and, as turns have no deadline, changes nothing. A turn of
  LegacyAgentTurnWorker, which `api.py` does not compose, would be refused there while the gate
  drains, although its lease permit is still valid: `DrainLetsLeasesFinish` speaks of the
  permit, and `ExecutionOpen` of the jobs that settle through `_finish_owned` and of COW turns.
- A turn whose job is given up before any worker moved the turn out of `queued` goes to
  `failed`, an edge replay does not accept: the exception in `TurnTransitionsLegal`.
- A steer that commits between the worker's last read of the revisions and
  `begin_finalizing` makes `run_once` fail the turn, while the kernel's docstring promises
  it another model batch (`BeginFinalizing` of `CowSteering`).
- A conflict question is keyed by the attempt. When a worker dies after the user's
  "retry" and before `resume_uncertain`, its successor asks under the same key, gets the
  answered question back and reports that it waits, over a job that still runs; the job
  is leased again when the lease expires, without a question (`AskConflict`).
- The checkpoint phase `tool_retry_wait` has no branch of its own in `run_once`; a
  successor drops it (`ForgetRetry`).
- Two failed writes, one in `create_intent` and `ensure_pending_current` and one in the
  `fail_pre_data` that handles it, leave an intent whose transaction is journaled as failed.
  If the Runtime prepares another update before it is restarted, no operation removes that
  intent any more: `ensure_pending_current` and `fail_pre_data` raise because the intent is
  not of the latest transaction, `reconcile_confirmation` finds nothing to do, and Bootstrap
  cannot start a Runtime. The data is not touched; `UpdateSafetyProofs` allows for such an
  intent (`ForeignDeep`).

## Proofs

`DurableJobsProofs` proves, for all sets of jobs, threads and workers and all lease times,
budgets, delays and clock bounds that satisfy `JobsAssumption`:

- `JobTypeCorrect`: `JobSpec => []JobTypeOK`;
- `LeaseShapeCorrect`: a row carries a lease exactly while it is leased or running;
- `ThreadInOrderCorrect`: the jobs of a thread execute in order;
- `LeaseFencingCorrect`: a worker that lost its lease writes nothing, and a lease in force
  is taken from its holder by nobody but a cancellation;
- `SpentOnlyByAnswerCorrect`: only an answered question queues a job without attempts left;
- `JobTransitionsLegalCorrect`: every status change is an edge of JOB_TRANSITIONS.

The inductive invariant `JobInv` adds two facts to the properties. `RowsInOrder`: a row's
id is at most the number of rows, so a new row is the youngest of its thread and cannot
be an earlier, open predecessor of a running job. `TokensMinted`: tokens in the table and
in memories were minted before, so a new token differs from all of them. The step that
needs an argument is a lease (`LeaseStep`): the selected job has no open predecessor, and
were a later job of its thread active, the selected job would have to be terminal and
could not be ready after the sweep. All operations that close or release one job share
`CloseStep`; `SweptStatus` says what a sweep does to one job.
`LeaseFencing` rests on `CapturedLease` (a transaction's clock sees every lease as expired
that ran out before it could have been read, and none that is in force) and on the tokens
being minted: a worker that passes the test of `_owned_row` is the one holder of the lease.

`ExecutionGateProofs` proves, for all sets of workers and control threads, every finite set
of jobs and every number of leases (`GateAssumption`):

- `GateTypeCorrect`: `Spec => []GateTypeOK`, from `TypeInv`, which adds how far a gate's
  epoch has moved (`EpochInv`): a healthy report is only effective before the first one,
  and only the first closure that gets the lock opens a new epoch;
- `DrainedStaysIdleCorrect`: a drained runtime stays idle. The invariant `SafeInv` adds
  `Locked` (who is between `BEGIN` and `COMMIT` holds the write lock) and `DrainInv`. Its
  core is `NoNewLease`: while an activation holds its drain, the transaction that is open
  hands out no lease. It holds when the drain begins, because `_begin` has the write lock
  and so nobody else is in a transaction, and it is kept because `prepare_permit`, which
  `lease_next` calls inside its transaction, meets a drained or closed gate from then on;
- `OneLateCommitCorrect`: `LateInv` adds that after the late commit no permitted call is
  sealed: by `Locked` the one that committed was the only one, and a closed gate seals none;
- `DrainHasHolderCorrect`: `HolderInv` adds that a drain belongs to the current epoch until
  a closure is applied, which is why `release` always finds its own permit valid on a gate
  that is not closed;
- `PublishedPermitStandsCorrect`: `PermitInv` says what each call knows of leases
  (`Traced`). The tokens a call still has to retire are in no row and, being older than
  `minted`, will never be in one again, so a late retirement hits no live lease. A token
  that an open transaction is about to put into a row is known to that call alone;
- `DrainLetsLeasesFinishCorrect`: `AdmitInv` says that the subjects a drain admits include
  every lease in the table: they were read under the write lock (`_begin`), and while the
  drain lasts no transaction adds one.

`TurnKernelProofs` proves, for all jobs, threads, workers and bounds (`JobsAssumption`,
`TurnsAssumption`), everything the runs `turns` and `turns_pair` check but liveness:
`AuditorClean`, `TurnNotStranded`, `SteerNotLost`, `ReclaimKeyFresh`,
`OfferedWithinBudget`, `ThreadInOrder`, the type invariant, and the action properties
`ResponseKept`, `TerminalIsFinal`, `TurnTransitionsLegal`; and that `LeaseFencing` and
`JobTransitionsLegal` of the job store survive what the kernel does to job rows. The
inductive invariant `TurnInv` is `JobInv`, types and, for each row:

- `Agree`: what turn, job and question say of each other. It is much stronger than what the
  auditor looks for: a question is pending exactly while the job waits, a job ready to be leased has a turn
  its next owner can resume, a committed response has a job that still runs;
- `Budget`: an active job has counted its attempt, a preserved attempt and a scheduled retry
  have budget left, and only an answer queues a job without budget;
- `Keys`: no reclaim key is of a later attempt, and an attempt that runs or will be
  resumed has none. This is why a preserved attempt, which is leased twice under one number,
  does not meet its own key: it left by a retry, not by a reclaim.

The argument about one row is the same for nine operations of a worker or user
and for a swept row (`SweepCases`: an expired lease is recovered, given up or requeued); the
others are untouched.

`CowSteeringProofs` proves `TypeOK`, `ToldInOrder` and `SteerReachesModel` for any number of
inputs, any inbox size and any set of revisions too long for the inbox
(`SteeringAssumption`). In `SteerInv`, `NothingSkipped` is the heart: as long as
nothing has disturbed the run, what the model was told followed by what waits in the inbox
are the revisions 0 to `applied`. It needs `Handover` (the inbox accepts exactly while the
agent runs and is empty when it has returned; the worker only takes over `applied` after the watcher
has returned) and `OrdinalsBehind` (nobody has read more than the store holds).

`ToolExecutionsProofs` proves `TypeOK`, `EffectsConsented`, `LedgerNeverRefuses`,
`AdmittedAsPermitted` and `OutcomeStands` for any set of workers, any number of leases and
policy changes and any retry limit (`ToolBoundsAssumption`, which also says that
`NoAdmission` is not an admission). In `ToolInv`,

- `Leases`: at most one worker is *current* (`Cur`), and none while the job waits or is over; it
  alone passes the fence;
- `Current`: what the current worker may rely on at each of its steps (row, admission, checkpoint
  and questions); `Governed`: what holds of every worker, late ones included;
- `Questions`, `Ledger`, `Checkpoint`: the durable records agree with each other;
- `Counted`: effects so far, plus the workers that may still act, plus the consents not yet taken up,
  are at most the admission plus the consents given. A worker inside the call is
  counted whatever became of its lease. Effects alone cannot be bounded by
  induction: a step that acts uses up a licence that was counted before.

`UpdateActivationProofs` proves `TypeOK` and `JournalNeverRefuses` for any number of
releases, updates, mishaps and retained slots (at least 2), with and without signed
downgrades and whichever Runtimes outlive Bootstrap (`BoundsAssumption`;
`NoFileAssumption` says that a missing file is none of the others). The argument is about
*plans*. An operation's remaining writes are a plan when they take the files (`Image`) from
what they are, write by write, through files that are all in `Nodes`, to files that the next
part of the operation can go on with; a write that raises ends a plan. `Nodes(t, err)` is
what a crash may leave (`Ready`: a transaction past its drain remembers its prior pointers)
and what the operation's exception handler relies on (`AtPC`). In `Inv`, `PlanOK` says that
the rest of every operation is a plan, `LockOK` who may be in one. Each operation is
shown to start with a plan (`EnsurePlan`, `ConfirmPlan`, `FailPlan`, `ReconcilePlan`,
`SwitchPlan`, ...); then a write, a failed write and the end of an operation need one
argument each (`WriteInv`, `ExceptInv`, `DoneInv`), a crash leaves a node, and a barrier
crossed without the lock replaces the receipt under a plan that stands (`PlanRebase`).

`UpdateSafetyProofs` proves `PriorRetained`, `NoRollbackPastBarrier` and that
`UpdateActivation` implements `VersionSwitch` but for its fairness
(`Spec => VS!Init /\ [][VS!Next]_(VS!switchVars)`), for any number of releases, updates,
mishaps and retained slots, of the behaviours that satisfy two conditions:

- `[]Attended`: no Runtime that outlives its Bootstrap is still short of its data barrier,
  that is, Bootstrap is not killed between `Launch` and `CrossBarrier`. The code does not
  ensure this (`start_new_session`), and without it all three are violated: the run
  `update_orphan` shows `NoRollbackPastBarrier`;
- `[][Upgrading]_vars`: no release older than the current one is prepared. Signed rollbacks
  make it false. The proofs of all three use it; TLC violates only the refinement without it
  (3 updates, 3 retained slots: a switch that starts while the receipt of another
  can still be undone) and finds the other two unbroken there.

They are conditions on behaviours, not on constants, so the theorems hold of an installation
as long as neither has happened. The run `update` checks `PriorRetained` and the
refinement with the constants that imply them.

- *What the files say.* `Deep` relates the six files between any two writes. While the latest
  transaction has an intent, the pointers are its prior ones, on trial (`Trying`) or kept
  (`Kept`), each in the journal states that allow it, and the active file agrees; while it has
  none, the current slot is known good and its switch has not begun or is over. A receipt that
  can be undone belongs to the latest transaction and to its intent, if that is still there.
  Every candidate is newer than all that its prior pointers retain (`Candidate`), which is
  where downgrades would break the argument.
- *Courses.* A course is a plan whose files are all `Deep` and whose writes `Fit`: a restore
  while there is an intent in a switching state or a rollback is pending, a receipt only for
  the candidate on trial, a discard only of the candidate. Each operation is shown to
  begin with one (`EnsureCourse`, `ConfirmCourse`, `FailCourse`, `FinishCourse`,
  `ReconcileCourse`, `SwitchCourse`, ...), as for plans.
- *Calm.* Bootstrap and a Runtime past its barrier never undo each other. While someone who is
  past the barrier lives or holds the lock (`Watched`), nothing is left to undo but a
  candidate that is not known good (`Calm`), and the courses keep it so (`Gentle`: they
  write no receipt and mark nothing known good). This is what lets a Runtime write back the
  receipt it read without the lock (`BarrierOK`): nobody has changed it in between.
- *The invariant* `Safe` adds what has been opened (`OpenedOK`) and the slots on disk
  (`SlotsOK`). A write of a course keeps it (`WriteSafe`), the first crossing of a barrier
  finds no intent, no job and no other Runtime (`CrossFirst`), and all other steps leave the
  files alone.
- *The refinement* follows write by write: the pointers move between the prior ones and the
  candidate (`OwnSwitches`, `UndoSwitches`), an intent appears before its trial and goes
  after it (`IntentSwitches`), a receipt is for the candidate on trial (`ReceiptSwitches`),
  and the first crossing adopts it (`CrossSwitches`).

Every inductive invariant was checked with TLC, on instances of the size of the runs, before
it was proved, but for `Inv` of `UpdateActivationProofs`, which quantifies over plans: there
TLC checked the two properties and what it says of the files. The courses of `Safe` were
checked as a recursive definition over `job.writes`, with up to 4 releases, 3 updates and 5
mishaps.

Only model-checked: liveness (`ExpiredLeaseReclaimed`, `FinalizingSettles`, `RunEnds`,
`DrainSettles`, and the fairness in `SwitchesVersions`), which is outside the prover's reach.
Every invariant and action property of the passing runs is proved.

## Not modelled

The components marked `not_modelled` in `PROJECT.json`. API, server, channels, model
adapters and tools are I/O around the modelled operations. The execution gate is left
out of `DurableJobs`: a denied permit makes an operation do nothing, which every action
may do anyway. What the gate adds is the subject of `ExecutionGate`, which keeps of the job
table what the gate depends on.

The models assume that a file or a database page, once written, can be read back:
corruption, which the updater detects by digests and signatures, is not modelled. Of the
repository's 940 implementation files the modelled ones are the few that hold the durable
state of conversations and updates; most of the others (connectors, the `tongxin` tools,
staging, the control plane of releases, media and office tools) are adapters, data
definitions and batch tools that have no concurrent state of their own here, or belong to
services that are deployed elsewhere.

## Plan

1. `EventLog`: append with idempotency keys, pages and the notification hub (missed
   wake-ups), and an abstract append-only log that it implements.
2. The recovery gate (`recovery_gate.py`) beside the execution gate.
3. Execution batches of turn inputs, in the order LegacyAgentTurnWorker uses them.
4. Supervisors: slots, restart back-off, stop.
5. Sharing and the image orchestrator.
