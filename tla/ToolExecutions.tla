--------------------------- MODULE ToolExecutions ---------------------------
(***************************************************************************)
(* One tool call of one durable job: the ledger row and the invocation     *)
(* admission that ToolExecutionRepository keeps, and the worker code that  *)
(* drives them (run_once, _execute_tool, _resume_interaction_tool,         *)
(* _resume_running_tool, _call_tool_with_retry of LegacyAgentTurnWorker).  *)
(*                                                                         *)
(* The tool's side effect happens outside the database, so a worker that   *)
(* dies or loses its lease around it leaves its successor in doubt.  The   *)
(* admission is the dispatch point: before it a replay is safe; after it a *)
(* tool that is not idempotent is replayed only on a person's word.        *)
(*                                                                         *)
(* Every write of a worker is fenced by its lease (execution_admission and *)
(* the commit guard); the side effect itself is not.  A lease may expire   *)
(* at any moment, and any number of workers may still run on an old one.   *)
(***************************************************************************)
EXTENDS Naturals, FiniteSets

CONSTANTS
    Workers,       \* worker threads of one or several processes
    MaxLeases,     \* bound: how often the job is leased
    MaxPolicy,     \* bound: how often another process changes the policy
    RetryLimit,    \* tool_retry_max_attempts
    NoAdmission

ASSUME ToolBoundsAssumption ==
    /\ MaxLeases \in Nat \ {0}
    /\ MaxPolicy \in Nat
    /\ RetryLimit \in Nat \ {0}
    /\ NoAdmission \notin [rev : 0..MaxPolicy, approved : BOOLEAN]

VARIABLES
    idempotent,    \* the tool's IdempotencyClass, fixed by its ToolSpec
    job,           \* status of the job and generation of its lease token
    ckpt,          \* the job's checkpoint
    row,           \* the tool_executions row
    admission,     \* the invocation_admissions row
    policy,        \* the permission ledger: revision and what it says of the tool
    approval,      \* the permission_approval interaction, key "...:approval"
    conflict,      \* the conflict interactions, key "...:uncertain:<attempt>"
    w,             \* what each worker is about to do and what it remembers
    effects        \* history: how often the tool's side effect happened

vars == <<idempotent, job, ckpt, row, admission, policy, approval, conflict,
          w, effects>>

Statuses == {"none", "started", "completed", "skipped", "failed"}
Attempts == 1..(MaxLeases + RetryLimit)
Modes == {"allow", "ask", "deny"}
Policies == [rev : 0..MaxPolicy, mode : Modes]

\* A worker between two run_once calls.
Idle == [pc |-> "idle", tok |-> 0, approved |-> FALSE, bound |-> FALSE,
         retry |-> FALSE, created |-> FALSE, attempt |-> 0,
         gov |-> [rev |-> 0, mode |-> "allow"], tries |-> 0]

Init ==
    /\ idempotent \in BOOLEAN
    /\ job = [status |-> "queued", gen |-> 0]
    /\ ckpt = [phase |-> "model", approved |-> FALSE, bound |-> FALSE, about |-> 0]
    /\ row = [status |-> "none", attempt |-> 0]
    /\ admission = NoAdmission
    /\ policy \in [rev : {0}, mode : Modes]
    /\ approval = "unasked"
    /\ conflict = [a \in Attempts |-> "unasked"]
    /\ w = [p \in Workers |-> Idle]
    /\ effects = 0

-----------------------------------------------------------------------------
(* Leases *)

\* The permit of p's lease is still the job's: checked when a fenced
\* operation begins and again at its commit.
Fenced(p) == job.status = "running" /\ job.gen = w[p].tok

\* p is at step pc and goes on to step next.
At(p, pc) == w[p].pc = pc
Goto(p, next) == w' = [w EXCEPT ![p].pc = next]

\* lease_next and start.
Lease(p) ==
    /\ At(p, "idle")
    /\ job.status = "queued"
    /\ job.gen < MaxLeases
    /\ job' = [status |-> "running", gen |-> job.gen + 1]
    /\ w' = [w EXCEPT ![p] = [Idle EXCEPT !.pc = "dispatch", !.tok = job.gen + 1]]
    /\ UNCHANGED <<idempotent, ckpt, row, admission, policy, approval, conflict,
                   effects>>

\* The lease ran out; the job is offered again.  The worker does not know.
LeaseExpires ==
    /\ job.status = "running"
    /\ job' = [job EXCEPT !.status = "queued"]
    /\ UNCHANGED <<idempotent, ckpt, row, admission, policy, approval, conflict,
                   w, effects>>

\* The process dies, or a fenced operation raises LeaseError and run_once
\* gives the job up.
WorkerStops(p) ==
    /\ ~At(p, "idle")
    /\ w' = [w EXCEPT ![p] = Idle]
    /\ UNCHANGED <<idempotent, job, ckpt, row, admission, policy, approval,
                   conflict, effects>>

\* The call is over: the model is told its result or its failure, or the job
\* failed (fail_turn_job), which reschedules it when the error is retryable.
Settle(p) ==
    /\ w[p].pc \in {"settle", "requeue", "rejected"}
    /\ Fenced(p)
    /\ job' = [job EXCEPT !.status = IF At(p, "requeue") THEN "queued" ELSE "settled"]
    /\ w' = [w EXCEPT ![p] = Idle]
    /\ UNCHANGED <<idempotent, ckpt, row, admission, policy, approval, conflict,
                   effects>>

-----------------------------------------------------------------------------
(* Questions to the person *)

\* request_interaction: the question, the checkpoint and the job's wait are
\* one transaction.  When the idempotency key was used before, the old
\* interaction is returned, nothing is written, and run_once reports
\* WAITING_HUMAN over a job that still runs.
AskApproval(p) ==
    /\ At(p, "askApproval")
    /\ Fenced(p)
    /\ IF approval = "unasked"
       THEN /\ approval' = "pending"
            /\ ckpt' = [phase |-> "waiting_tool_approval", approved |-> FALSE,
                        bound |-> FALSE, about |-> 0]
            /\ job' = [job EXCEPT !.status = "waiting"]
       ELSE UNCHANGED <<approval, ckpt, job>>
    /\ w' = [w EXCEPT ![p] = Idle]
    /\ UNCHANGED <<idempotent, row, admission, policy, conflict, effects>>

\* A faulty variant: the question is put but the job keeps running.
AskConflictRunning(p) ==
    /\ At(p, "askConflict")
    /\ Fenced(p)
    /\ conflict' = [conflict EXCEPT ![w[p].attempt] = "pending"]
    /\ w' = [w EXCEPT ![p] = Idle]
    /\ UNCHANGED <<idempotent, job, ckpt, row, admission, policy, approval, effects>>

\* The conflict's key is built from the attempt the worker read.
AskConflict(p) ==
    /\ At(p, "askConflict")
    /\ Fenced(p)
    /\ LET key == w[p].attempt
       IN  IF conflict[key] = "unasked"
           THEN /\ conflict' = [conflict EXCEPT ![key] = "pending"]
                /\ ckpt' = [phase |-> "uncertain_tool_execution",
                            approved |-> w[p].approved, bound |-> w[p].bound,
                            about |-> key]
                /\ job' = [job EXCEPT !.status = "waiting"]
           ELSE UNCHANGED <<conflict, ckpt, job>>
    /\ w' = [w EXCEPT ![p] = Idle]
    /\ UNCHANGED <<idempotent, row, admission, policy, approval, effects>>

\* The person answers ("cancel" is treated as "skip" by the worker); the job
\* is offered again.
AnswerApproval ==
    /\ approval = "pending"
    /\ approval' \in {"allow", "deny"}
    /\ job' = [job EXCEPT !.status = "queued"]
    /\ UNCHANGED <<idempotent, ckpt, row, admission, policy, conflict, w, effects>>

AnswerConflict ==
    /\ \E a \in Attempts, answer \in {"skip", "retry"} :
          /\ conflict[a] = "pending"
          /\ conflict' = [conflict EXCEPT ![a] = answer]
    /\ job' = [job EXCEPT !.status = "queued"]
    /\ UNCHANGED <<idempotent, ckpt, row, admission, policy, approval, w, effects>>

\* Another Runtime process commits a permission change.
ChangePolicy ==
    /\ policy.rev < MaxPolicy
    /\ \E mode \in Modes \ {policy.mode} :
          policy' = [rev |-> policy.rev + 1, mode |-> mode]
    /\ UNCHANGED <<idempotent, job, ckpt, row, admission, approval, conflict, w,
                   effects>>

-----------------------------------------------------------------------------
(* run_once: what the checkpoint asks for *)

\* The model stream delivers the tool call: preflight, then a question or the
\* execution.
HandleToolEvent(p) ==
    /\ At(p, "dispatch")
    /\ ckpt.phase = "model"
    /\ Goto(p, CASE policy.mode = "deny" -> "settle"
                 [] policy.mode = "ask" -> "askApproval"
                 [] policy.mode = "allow" -> "execute")
    /\ UNCHANGED <<idempotent, job, ckpt, row, admission, policy, approval,
                   conflict, effects>>

\* _resume_running_tool: whoever ran the tool is gone; it is entered again
\* without leave to repeat it.
ResumeRunning(p) ==
    /\ At(p, "dispatch")
    /\ ckpt.phase = "tool_running"
    /\ w' = [w EXCEPT ![p].pc = "execute", ![p].approved = ckpt.approved,
                      ![p].bound = ckpt.bound]
    /\ UNCHANGED <<idempotent, job, ckpt, row, admission, policy, approval,
                   conflict, effects>>

Answer == IF ckpt.phase = "waiting_tool_approval" THEN approval
          ELSE conflict[ckpt.about]

\* _resume_interaction_tool: act on the answer the checkpoint waited for.
ResumeInteraction(p) ==
    /\ At(p, "dispatch")
    /\ ckpt.phase \in {"waiting_tool_approval", "uncertain_tool_execution"}
    /\ w' = IF Answer \in {"deny", "skip"}
            THEN [w EXCEPT ![p].pc = "skip"]
            ELSE [w EXCEPT ![p].pc = "execute", ![p].approved = TRUE,
                           ![p].bound = \/ ckpt.phase = "waiting_tool_approval"
                                        \/ ckpt.bound,
                           ![p].retry = (Answer = "retry")]
    /\ UNCHANGED <<idempotent, job, ckpt, row, admission, policy, approval,
                   conflict, effects>>

\* run_once has no branch for a checkpoint left in the retry back-off: the
\* model is asked again and this call is never taken up.
ForgetRetry(p) ==
    /\ At(p, "dispatch")
    /\ ckpt.phase = "tool_retry_wait"
    /\ Goto(p, "settle")
    /\ UNCHANGED <<idempotent, job, ckpt, row, admission, policy, approval,
                   conflict, effects>>

\* A write that takes the row from one of the statuses in from to status, and
\* the worker to next; from any other it raises ToolExecutionConflict and the
\* job fails.
Record(p, from, status, next) ==
    IF row.status \in from
    THEN row' = [row EXCEPT !.status = status] /\ Goto(p, next)
    ELSE row' = row /\ Goto(p, "rejected")

\* A call the person declined is begun if it never was, then recorded as skipped; each is
\* a transaction.
Skip(p) ==
    /\ At(p, "skip")
    /\ Fenced(p)
    /\ IF row.status = "none"
       THEN row' = [status |-> "started", attempt |-> 1] /\ UNCHANGED w
       ELSE Record(p, {"started", "skipped"}, "skipped", "settle")
    /\ UNCHANGED <<idempotent, job, ckpt, admission, policy, approval, conflict,
                   effects>>

-----------------------------------------------------------------------------
(* _execute_tool *)

\* A faulty variant: the checkpoint forgets which answer approved the call.
RunningCheckpointUnbound(p) == [phase |-> "tool_running",
                                approved |-> w[p].approved,
                                bound |-> FALSE, about |-> 0]

RunningCheckpoint(p) == [phase |-> "tool_running", approved |-> w[p].approved,
                         bound |-> w[p].bound, about |-> 0]

\* The heartbeat that stores the running checkpoint.
MarkRunning(p) ==
    /\ At(p, "execute")
    /\ Fenced(p)
    /\ ckpt' = RunningCheckpoint(p)
    /\ Goto(p, "begin")
    /\ UNCHANGED <<idempotent, job, row, admission, policy, approval, conflict,
                   effects>>

\* begin: insert the row or return the one that is there.
Begin(p) ==
    /\ At(p, "begin")
    /\ Fenced(p)
    /\ IF row.status = "none"
       THEN /\ row' = [status |-> "started", attempt |-> 1]
            /\ w' = [w EXCEPT ![p].pc = "check", ![p].created = TRUE,
                              ![p].attempt = 1]
       ELSE /\ row' = row
            /\ w' = [w EXCEPT ![p].pc = IF row.status = "started" THEN "check"
                                        ELSE "settle",
                              ![p].attempt = row.attempt]
    /\ UNCHANGED <<idempotent, job, ckpt, admission, policy, approval, conflict,
                   effects>>

\* The call in doubt: it was begun by another worker and admitted.
InDoubt(p) == ~w[p].created /\ admission # NoAdmission

\* A faulty variant: an approval is taken for leave to repeat the call.
MustAskUnapproved(p) == InDoubt(p) /\ ~idempotent /\ ~w[p].retry /\ ~w[p].approved

\* A person must decide before a tool that is not idempotent runs again.
MustAsk(p) == InDoubt(p) /\ ~idempotent /\ ~w[p].retry

Check(p) ==
    /\ At(p, "check")
    /\ w' = [w EXCEPT ![p].pc = CASE MustAsk(p) -> "askConflict"
                                  [] InDoubt(p) /\ ~MustAsk(p) -> "resume"
                                  [] OTHER -> "govern",
                      ![p].approved = IF MustAsk(p) THEN admission.approved
                                      ELSE w[p].approved]
    /\ UNCHANGED <<idempotent, job, ckpt, row, admission, policy, approval,
                   conflict, effects>>

\* resume_uncertain: count the new attempt; the admission stands.
ResumeUncertain(p) ==
    /\ At(p, "resume")
    /\ Fenced(p)
    /\ row' = IF row.status = "started" THEN [row EXCEPT !.attempt = @ + 1] ELSE row
    /\ w' = [w EXCEPT ![p].pc = "invoke", ![p].attempt = row'.attempt]
    /\ UNCHANGED <<idempotent, job, ckpt, admission, policy, approval, conflict,
                   effects>>

\* _admit_tool_execution, under the permission lock of its own process, reads
\* the policy in force, at most three times.
Govern(p) ==
    /\ At(p, "govern")
    /\ w' = [w EXCEPT
               ![p].gov = policy,
               ![p].tries = @ + 1,
               ![p].pc = CASE w[p].tries = 3 \/ policy.mode = "deny" -> "fail"
                           [] w[p].tries < 3 /\ policy.mode = "ask"
                                /\ ~w[p].approved -> "askApproval"
                           [] OTHER -> "admit"]
    /\ UNCHANGED <<idempotent, job, ckpt, row, admission, policy, approval,
                   conflict, effects>>

\* What admit demands of an approved call: the allowing answer, bound by the
\* job's own checkpoint.
ApprovalBinds(p) ==
    /\ w[p].bound
    /\ approval = "allow"
    /\ ckpt.phase \in {"waiting_tool_approval", "tool_running"}
    /\ ckpt.approved
    /\ ckpt.bound

\* A faulty variant: any policy read once is trusted.
PolicyTrusted(p) == w[p].gov.rev <= policy.rev

\* The policy read is the one the ledger still holds.
PolicyCurrent(p) == w[p].gov = policy

\* admit: the dispatch point.  A policy changed meanwhile sends the worker
\* back to read it; an approval that does not bind fails the job.
Admit(p) ==
    /\ At(p, "admit")
    /\ Fenced(p)
    /\ IF ~PolicyCurrent(p)
       THEN Goto(p, "govern") /\ UNCHANGED admission
       ELSE LET permit == [rev |-> policy.rev, approved |-> w[p].approved]
            IN  IF \/ row.status # "started"
                   \/ w[p].approved /\ ~ApprovalBinds(p)
                   \/ admission \notin {NoAdmission, permit}
                THEN Goto(p, "rejected") /\ UNCHANGED admission
                ELSE Goto(p, "invoke") /\ admission' = permit
    /\ UNCHANGED <<idempotent, job, ckpt, row, policy, approval, conflict, effects>>

-----------------------------------------------------------------------------
(* The call *)

\* _await_with_lease captures the permit and starts the handler.
Invoke(p) ==
    /\ At(p, "invoke")
    /\ Fenced(p)
    /\ Goto(p, "calling")
    /\ UNCHANGED <<idempotent, job, ckpt, row, admission, policy, approval,
                   conflict, effects>>

\* The heartbeat during a long call stores the running checkpoint again.
Pulse(p) ==
    /\ At(p, "calling")
    /\ Fenced(p)
    /\ ckpt' = RunningCheckpoint(p)
    /\ UNCHANGED <<idempotent, job, row, admission, policy, approval, conflict, w,
                   effects>>

\* The handler acts on the world, with no fence, and answers; an answer over
\* the durable size limit is recorded as a failure.
HandlerSucceeds(p) ==
    /\ At(p, "calling")
    /\ effects' = effects + 1
    /\ \/ Goto(p, "complete")
       \/ Goto(p, "fail")
    /\ UNCHANGED <<idempotent, job, ckpt, row, admission, policy, approval, conflict>>

\* The handler's answer is lost: it may have acted or not.
HandlerUncertain(p) ==
    /\ At(p, "calling")
    /\ effects' \in {effects, effects + 1}
    /\ Goto(p, IF idempotent THEN "fail" ELSE "askConflict")
    /\ UNCHANGED <<idempotent, job, ckpt, row, admission, policy, approval, conflict>>

\* The error says that the handler did not act; a retryable one of an
\* idempotent tool is retried up to the limit.
HandlerRejects(p) ==
    /\ At(p, "calling")
    /\ \/ Goto(p, "fail")
       \/ /\ idempotent
          /\ w[p].attempt < RetryLimit
          /\ Goto(p, "retryWait")
    /\ UNCHANGED <<idempotent, job, ckpt, row, admission, policy, approval,
                   conflict, effects>>

\* Back off under a checkpoint of its own, then count the attempt.
RetryWait(p) ==
    /\ At(p, "retryWait")
    /\ Fenced(p)
    /\ ckpt' = [RunningCheckpoint(p) EXCEPT !.phase = "tool_retry_wait"]
    /\ Goto(p, "resume")
    /\ UNCHANGED <<idempotent, job, row, admission, policy, approval, conflict,
                   effects>>

\* complete: the result is recorded, then told to the model.
Complete(p) ==
    /\ At(p, "complete")
    /\ Fenced(p)
    /\ Record(p, {"started", "completed"}, "completed", "settle")
    /\ UNCHANGED <<idempotent, job, ckpt, admission, policy, approval, conflict,
                   effects>>

\* A faulty variant: the failure is written without the lease's fence.
FailUnfenced(p) ==
    /\ At(p, "fail")
    /\ Record(p, Statuses \ {"completed"}, "failed", "settle")
    /\ UNCHANGED <<idempotent, job, ckpt, admission, policy, approval, conflict,
                   effects>>

\* fail: from every status but completed.  A handler's retryable error
\* reschedules the job; a denial at admission does not.
Fail(p) ==
    /\ At(p, "fail")
    /\ Fenced(p)
    /\ \E next \in {"settle"} \cup (IF admission = NoAdmission THEN {}
                                    ELSE {"requeue"}) :
          Record(p, Statuses \ {"completed"}, "failed", next)
    /\ UNCHANGED <<idempotent, job, ckpt, admission, policy, approval, conflict,
                   effects>>

-----------------------------------------------------------------------------
Step(p) ==
    \/ Lease(p) \/ WorkerStops(p) \/ Settle(p)
    \/ AskApproval(p) \/ AskConflict(p)
    \/ HandleToolEvent(p) \/ ResumeRunning(p) \/ ResumeInteraction(p)
    \/ ForgetRetry(p) \/ Skip(p)
    \/ MarkRunning(p) \/ Begin(p) \/ Check(p) \/ ResumeUncertain(p)
    \/ Govern(p) \/ Admit(p)
    \/ Invoke(p) \/ Pulse(p)
    \/ HandlerSucceeds(p) \/ HandlerUncertain(p) \/ HandlerRejects(p)
    \/ RetryWait(p) \/ Complete(p) \/ Fail(p)

Next ==
    \/ \E p \in Workers : Step(p)
    \/ LeaseExpires
    \/ AnswerApproval
    \/ AnswerConflict
    \/ ChangePolicy

Spec == Init /\ [][Next]_vars

-----------------------------------------------------------------------------
(* Properties *)

Steps == {"idle", "dispatch", "settle", "requeue", "rejected", "askApproval",
          "askConflict", "execute", "skip", "begin", "check", "resume", "govern",
          "admit", "invoke", "calling", "retryWait", "complete", "fail"}

Phases == {"model", "tool_running", "waiting_tool_approval",
           "uncertain_tool_execution", "tool_retry_wait"}

\* Types, and: the job waits exactly while the question its checkpoint names
\* (or the approval) is open.  request_interaction and the answer change the
\* job, its checkpoint and the question together.
TypeOK ==
    /\ idempotent \in BOOLEAN
    /\ job \in [status : {"queued", "running", "waiting", "settled"}, gen : 0..MaxLeases]
    /\ ckpt \in [phase : Phases, approved : BOOLEAN, bound : BOOLEAN,
                 about : Attempts \cup {0}]
    /\ row \in [status : Statuses, attempt : Attempts \cup {0}]
    /\ admission \in [rev : 0..MaxPolicy, approved : BOOLEAN] \cup {NoAdmission}
    /\ policy \in Policies
    /\ approval \in {"unasked", "pending", "allow", "deny"}
    /\ conflict \in [Attempts -> {"unasked", "pending", "skip", "retry"}]
    /\ w \in [Workers -> [pc : Steps, tok : 0..MaxLeases, approved : BOOLEAN,
                          bound : BOOLEAN, retry : BOOLEAN, created : BOOLEAN,
                          attempt : Attempts \cup {0}, gov : Policies, tries : 0..4]]
    /\ effects \in Nat
    /\ job.status = "waiting" <=>
          \/ approval = "pending"
          \/ \E a \in Attempts : conflict[a] = "pending"

\* How often a person said "retry anyway".
Consents == Cardinality({a \in Attempts : conflict[a] = "retry"})

\* A tool that is not idempotent acts at most once, plus once for every
\* "retry" a person answered: whatever crashes, expired leases and late workers
\* there are between the admission, the side effect and its completion.
EffectsConsented ==
    ~idempotent => effects <= (IF admission = NoAdmission THEN 0 ELSE 1) + Consents

\* A worker that holds the lease is never refused by the ledger: admit finds
\* the approval it wants bound in the checkpoint, complete, fail and skip find
\* the row open.  A crash after any of the writes before must not lead there.
LedgerNeverRefuses == \A p \in Workers : ~At(p, "rejected")

\* The policy in force when the admission commits permits it: it is not "deny",
\* and where it asks for approval a person allowed this call, although the
\* policy was read earlier and another process may change it in between.
AdmittedAsPermitted ==
    [][admission' # admission =>
          /\ policy.mode # "deny"
          /\ policy.mode = "ask" => approval = "allow"]_vars

\* Once the call is completed, skipped or failed, that stands, and no worker
\* starts the handler any more; a worker on an old lease that comes back late
\* neither rewrites the outcome nor calls the tool again.
OutcomeStands ==
    [][row.status \in {"completed", "skipped", "failed"} =>
          /\ row' = row
          /\ \A p \in Workers : w'[p].pc = "calling" => w[p].pc = "calling"]_vars
=============================================================================
