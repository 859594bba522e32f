--------------------------- MODULE ExecutionGate ---------------------------
(***************************************************************************)
(* The execution gate of the runtime (runtime/invariant_guard.py), the     *)
(* permits it issues to the durable job store (runtime/jobs.py), and the   *)
(* update drain built on both (runtime/activation_drain.py, as used by     *)
(* update/service.py).                                                     *)
(*                                                                         *)
(* Three locks are involved and none is held across another's critical     *)
(* section: the gate's own lock (held for one validation, so a gate        *)
(* operation is one step here), the lock of the permit map (one step), and *)
(* the write lock of the database, held from BEGIN IMMEDIATE to COMMIT,    *)
(* which is the variable "writer".  A transaction therefore takes several  *)
(* steps, and closures, drains and publications fall between them.         *)
(*                                                                         *)
(* Of a job row only the lease matters: the token of a leased or running   *)
(* job, 0 for any other.  Time is not modelled: whether a lease has        *)
(* expired is a choice made where the code compares it with the clock.     *)
(***************************************************************************)
EXTENDS Naturals, FiniteSets

CONSTANTS
    Workers,        \* the worker tasks that lease jobs
    CowWorkers,     \* those that run a turn under bind_cow_turn_execution
    Controls,       \* threads that run control transactions (requests, sweeps)
    Jobs,           \* rows of the jobs table
    MaxLeases       \* bound on the lease tokens minted

ASSUME GateAssumption ==
    /\ CowWorkers \subseteq Workers
    /\ IsFiniteSet(Jobs)
    /\ MaxLeases \in Nat
    /\ Workers \cap Controls = {}
    /\ {"updater", "none"} \cap (Workers \cup Controls) = {}

VARIABLES
    status,     \* _status
    latched,    \* _latched
    closure,    \* _closure_requested
    published,  \* _critical_request is not None
    closing,    \* closers that signalled and have not yet taken the gate lock
    epoch,      \* _epoch
    drain,      \* _drain_permit: the epoch it was issued in, 0 for None
    allowed,    \* _drain_allowed_durable_subjects
    lease,      \* committed jobs.lease_token of leased and running rows
    draft,      \* what the open write transaction will commit
    writer,     \* who holds the database write lock
    minted,     \* tokens drawn so far (every token is new)
    permits,    \* _execution_permits of the job store
    act,        \* the call each worker and control thread is in
    upd,        \* the update service's activation
    late,       \* history: permitted commits made after the closure signal
    orphaned    \* history: an activation was cancelled inside _begin

gateVars == <<status, latched, closure, published, closing, epoch>>
drainVars == <<drain, allowed>>
rowVars == <<lease, draft, writer, minted>>
vars == <<gateVars, drainVars, rowVars, permits, act, upd, late, orphaned>>

Actors == Workers \cup Controls

\* _permit_subject: a job together with the lease token it was granted
NoSubject == <<>>
Subjects == Jobs \X (1 .. MaxLeases)
ActiveIn(rows) == {s \in Subjects : rows[s[1]] = s[2]}
Free(gone) == [j \in Jobs |-> IF j \in gone THEN 0 ELSE lease[j]]

-----------------------------------------------------------------------------
(* The gate's tests, each made under its lock. *)

\* _require_open_locked
Open ==
    /\ status = "healthy"
    /\ ~latched
    /\ ~closure
    /\ drain = 0

\* _require_permit_locked; only durable_job permits have a job as subject
PermitValid(permit) ==
    /\ permit.epoch = epoch
    /\ status = "healthy"
    /\ ~latched
    /\ ~closure
    /\ drain # 0 => permit.subject \in allowed

\* snapshot().status = "critical"
Critical == closure \/ status = "critical"

(* The calls of workers and control threads. *)

Idle == [pc |-> "idle", kind |-> "none", epoch |-> 0, subject |-> NoSubject,
         retire |-> {}]

NoDrainLease == [pc |-> "idle", permit |-> 0, allowed |-> {}, count |-> 0,
                 round |-> 0, expired |-> FALSE, cancelled |-> FALSE]

Init ==
    /\ status = "critical"
    /\ latched = FALSE
    /\ closure = FALSE
    /\ published = FALSE
    /\ closing = {}
    /\ epoch = 0
    /\ drain = 0
    /\ allowed = {}
    /\ lease = [j \in Jobs |-> 0]
    /\ draft = [j \in Jobs |-> 0]
    /\ writer = "none"
    /\ minted = 0
    /\ permits = {}
    /\ act = [a \in Actors |-> Idle]
    /\ upd = NoDrainLease
    /\ late = 0
    /\ orphaned = FALSE

-----------------------------------------------------------------------------
(* Audits and closures. *)

\* record_report of a report without violations; the first is the startup audit
HealthyReport ==
    /\ ~latched
    /\ ~closure
    /\ status # "healthy"
    /\ status' = "healthy"
    /\ epoch' = epoch + 1
    /\ UNCHANGED <<latched, closure, published, closing, drainVars, rowVars,
                   permits, act, upd, late, orphaned>>

\* record_report with violations signals before it waits for the gate lock
ViolationReport ==
    /\ ~latched
    /\ "report" \notin closing
    /\ closure' = TRUE
    /\ closing' = closing \cup {"report"}
    /\ UNCHANGED <<status, latched, published, epoch, drainVars, rowVars,
                   permits, act, upd, late, orphaned>>

\* _publish_critical_request: the first request wins and signals
Publish ==
    /\ published' = TRUE
    /\ closure' = TRUE
    /\ closing' = IF published THEN closing ELSE closing \cup {"request"}

\* mark_critical and request_critical: timeouts, failed audits, shutdown
RequestCritical ==
    /\ ~published
    /\ Publish
    /\ UNCHANGED <<status, latched, epoch, drainVars, rowVars, permits, act,
                   upd, late, orphaned>>

\* Mutant of ApplyClosure: every closer opens a new epoch
ApplyClosureAgain ==
    /\ \E closer \in closing : closing' = closing \ {closer}
    /\ epoch' = epoch + 1
    /\ status' = "critical"
    /\ latched' = TRUE
    /\ UNCHANGED <<closure, published, drainVars, rowVars, permits, act, upd,
                   late, orphaned>>

\* The closer gets the gate lock: _apply_requested_critical, or record_report
ApplyClosure ==
    /\ \E closer \in closing : closing' = closing \ {closer}
    /\ epoch' = IF latched THEN epoch ELSE epoch + 1
    /\ status' = "critical"
    /\ latched' = TRUE
    /\ UNCHANGED <<closure, published, drainVars, rowVars, permits, act, upd,
                   late, orphaned>>

-----------------------------------------------------------------------------
(* Transactions.  A call asks for a permit, opens a write transaction,     *)
(* validates the permit, commits, and runs what follows the commit.        *)

Call(a, call) == act' = [act EXCEPT ![a] = call]

\* Rollback or refusal: the caller gives up what it was doing
Abandon(a) ==
    /\ Call(a, Idle)
    /\ writer' = IF writer = a THEN "none" ELSE writer
    /\ draft' = IF writer = a THEN lease ELSE draft

OpenWith(a, rows, pc) ==
    /\ writer' = a
    /\ draft' = rows
    /\ Call(a, [act[a] EXCEPT !.pc = pc])

\* issue_permit at the head of lease_next and of control_transaction
Ask(a) ==
    /\ act[a].pc = "idle"
    /\ Open
    /\ Call(a, [Idle EXCEPT !.pc = "asking", !.epoch = epoch,
                            !.kind = IF a \in Controls THEN "control" ELSE "lease"])
    /\ UNCHANGED <<gateVars, drainVars, rowVars, permits, upd, late, orphaned>>

\* BEGIN and the sweep of lease_next, with no job to hand out
LeaseNothing(w) ==
    /\ act[w].pc = "asking"
    /\ act[w].kind = "lease"
    /\ writer = "none"
    /\ \E gone \in SUBSET {s[1] : s \in ActiveIn(lease)} :
          OpenWith(w, Free(gone), "open")
    /\ UNCHANGED <<gateVars, drainVars, lease, minted, permits, upd, late, orphaned>>

\* BEGIN, sweep, the new lease, and prepare_permit before the commit
LeaseJob(w) ==
    /\ act[w].pc = "asking"
    /\ act[w].kind = "lease"
    /\ writer = "none"
    /\ minted < MaxLeases
    /\ minted' = minted + 1
    /\ \E gone \in SUBSET {s[1] : s \in ActiveIn(lease)}, j \in Jobs :
          /\ Free(gone)[j] = 0
          /\ \/ /\ Open
                /\ writer' = w
                /\ draft' = [Free(gone) EXCEPT ![j] = minted + 1]
                /\ Call(w, [act[w] EXCEPT !.pc = "open", !.epoch = epoch,
                                          !.subject = <<j, minted + 1>>])
             \/ /\ ~Open
                /\ Abandon(w)
    /\ UNCHANGED <<gateVars, drainVars, lease, permits, upd, late, orphaned>>

\* A control transaction: cancel, reclaim_expired, or a change of another table
ControlOpen(c) ==
    /\ act[c].pc = "asking"
    /\ writer = "none"
    /\ \E gone \in SUBSET {s[1] : s \in ActiveIn(lease)} :
          OpenWith(c, Free(gone), "open")
    /\ UNCHANGED <<gateVars, drainVars, lease, minted, permits, upd, late, orphaned>>

\* execution_transaction up to its first assert_permit, or past it for COW turns
EnterExecution(w) ==
    /\ act[w].pc = "owning"
    /\ \E p \in permits :
          /\ p.subject = act[w].subject
          /\ \/ /\ w \in CowWorkers /\ drain = 0
                /\ Call(w, [act[w] EXCEPT !.pc = "asking", !.kind = "cow"])
             \/ /\ ~(w \in CowWorkers /\ drain = 0)
                /\ PermitValid(p)
                /\ Call(w, [act[w] EXCEPT !.pc = "asking", !.kind = "job",
                                          !.epoch = p.epoch])
    /\ UNCHANGED <<gateVars, drainVars, rowVars, permits, upd, late, orphaned>>

\* A worker that is refused (LeaseError), cancelled or fails leaves its job
LeaveJob(w) ==
    /\ act[w].pc \in {"owning", "asking"}
    /\ Abandon(w)
    /\ UNCHANGED <<gateVars, drainVars, lease, minted, permits, upd, late,
                   orphaned>>

\* BEGIN IMMEDIATE and _assert_live_execution_binding_in_transaction; the
\* transaction keeps the lease (progress, heartbeat) or gives it up (finish). That is
\* _finish_owned, as the jobs without turns and every COW turn settle.  finish_turn_job
\* and fail_turn_job of the kernel run expire_deadline first: for a COW turn that takes
\* no permit and, a turn having no deadline, changes nothing.  Of the turn workers only
\* LegacyAgentTurnWorker, which the product does not compose, would have that control
\* transaction refused by a drain.
ExecutionOpen(w) ==
    /\ act[w].pc = "asking"
    /\ act[w].kind \in {"job", "cow"}
    /\ writer = "none"
    /\ act[w].subject \in ActiveIn(lease)
    /\ \E gone \in SUBSET {act[w].subject[1]} :
          OpenWith(w, Free(gone), IF act[w].kind = "cow" THEN "sealed" ELSE "open")
    /\ UNCHANGED <<gateVars, drainVars, lease, minted, permits, upd, late, orphaned>>

\* Mutant of Seal: the permit is not validated again before the commit
SealUnchecked(a) ==
    /\ act[a].pc = "open"
    /\ Call(a, [act[a] EXCEPT !.pc = "sealed"])
    /\ UNCHANGED <<gateVars, drainVars, rowVars, permits, upd, late, orphaned>>

\* assert_permit immediately before the commit
Seal(a) ==
    /\ act[a].pc = "open"
    /\ PermitValid(act[a])
    /\ Call(a, [act[a] EXCEPT !.pc = "sealed"])
    /\ UNCHANGED <<gateVars, drainVars, rowVars, permits, upd, late, orphaned>>

Refuse(a) ==
    /\ act[a].pc = "open"
    /\ ~PermitValid(act[a])
    /\ Abandon(a)
    /\ UNCHANGED <<gateVars, drainVars, lease, minted, permits, upd, late,
                   orphaned>>

\* super().commit() of the connection; the retirement callbacks follow later
Commit(a) ==
    /\ act[a].pc = "sealed"
    /\ lease' = draft
    /\ writer' = "none"
    /\ late' = IF closure /\ act[a].kind # "cow" THEN late + 1 ELSE late
    /\ Call(a, [act[a] EXCEPT !.pc = "committed",
                              !.retire = ActiveIn(lease) \ ActiveIn(draft)])
    /\ UNCHANGED <<gateVars, drainVars, draft, minted, permits, upd, orphaned>>

Kept(a) == {p \in permits : p.subject \notin act[a].retire}

\* Mutant of Remember: publication does not read the row again
RememberBlindly(w) ==
    LET s == act[w].subject IN
    /\ act[w].pc = "committed"
    /\ act[w].kind = "lease"
    /\ s # NoSubject
    /\ permits' = {p \in Kept(w) : p.subject[1] # s[1]}
                    \cup {[subject |-> s, epoch |-> act[w].epoch]}
    /\ Call(w, [act[w] EXCEPT !.pc = "owning", !.retire = {}])
    /\ UNCHANGED <<gateVars, drainVars, rowVars, upd, late, orphaned>>

\* _remember_execution_permit: refused when the row carries another token
Remember(w) ==
    LET s == act[w].subject IN
    /\ act[w].pc = "committed"
    /\ act[w].kind = "lease"
    /\ s # NoSubject
    /\ \/ /\ s \in ActiveIn(lease)
          /\ permits' = {p \in Kept(w) : p.subject[1] # s[1]}
                          \cup {[subject |-> s, epoch |-> act[w].epoch]}
          /\ Call(w, [act[w] EXCEPT !.pc = "owning", !.retire = {}])
       \/ /\ s \notin ActiveIn(lease)
          /\ permits' = Kept(w)
          /\ Call(w, Idle)
    /\ UNCHANGED <<gateVars, drainVars, rowVars, upd, late, orphaned>>

\* The after-commit callbacks of every other transaction: retire_execution_permit
Retire(a) ==
    /\ act[a].pc = "committed"
    /\ act[a].kind # "lease" \/ act[a].subject = NoSubject
    /\ permits' = Kept(a)
    /\ Call(a, IF /\ act[a].kind \in {"job", "cow"}
                  /\ act[a].subject \notin act[a].retire
               THEN [act[a] EXCEPT !.pc = "owning", !.retire = {}]
               ELSE Idle)
    /\ UNCHANGED <<gateVars, drainVars, rowVars, upd, late, orphaned>>

-----------------------------------------------------------------------------
(* The update service: acquire a drain, check it, activate. *)

Move(pc) == upd' = [upd EXCEPT !.pc = pc]

\* Mutant of DrainLock: the active rows are read outside the write lock
DrainUnlocked ==
    /\ upd.pc = "idle"
    /\ epoch > 0
    /\ upd' = [NoDrainLease EXCEPT !.pc = "begun", !.round = 1,
                                   !.allowed = ActiveIn(lease)]
    /\ UNCHANGED <<gateVars, drainVars, rowVars, permits, act, late, orphaned>>

\* _begin: the write lock and the active rows.  The startup audit comes first
\* (api.py), so the gate has been healthy or critical for a reason by now
DrainLock ==
    /\ upd.pc = "idle"
    /\ epoch > 0
    /\ writer = "none"
    /\ writer' = "updater"
    /\ upd' = [NoDrainLease EXCEPT !.pc = "begun", !.round = 1,
                                   !.allowed = ActiveIn(lease)]
    /\ UNCHANGED <<gateVars, drainVars, lease, draft, minted, permits, act, late,
                   orphaned>>

\* The cancelled activation goes away; the thread running _begin does not
CancelBegin ==
    /\ upd.pc \in {"begun", "opening"}
    /\ ~upd.cancelled
    /\ upd' = [upd EXCEPT !.cancelled = TRUE]
    /\ orphaned' = TRUE
    /\ UNCHANGED <<gateVars, drainVars, rowVars, permits, act, late>>

\* The lease is handed to acquire(), if that is still waiting for it
Begun(permit) ==
    /\ writer' = "none"
    /\ upd' = IF upd.cancelled THEN NoDrainLease
              ELSE [upd EXCEPT !.pc = "checking", !.permit = permit]

\* gate.snapshot() inside _begin: a critical gate needs no drain permit
DrainSnapshot ==
    /\ upd.pc = "begun"
    /\ \/ /\ Critical
          /\ Begun(0)
       \/ /\ ~Critical
          /\ Move("opening")
          /\ UNCHANGED writer
    /\ UNCHANGED <<gateVars, drainVars, lease, draft, minted, permits, act, late,
                   orphaned>>

\* Mutant of BeginDrain: the leases already handed out are not admitted
BeginStrictDrain ==
    /\ upd.pc = "opening"
    /\ \/ /\ Open
          /\ drain' = epoch
          /\ allowed' = {}
          /\ Begun(epoch)
       \/ /\ ~Open
          /\ writer' = "none"
          /\ upd' = NoDrainLease
          /\ UNCHANGED drainVars
    /\ UNCHANGED <<gateVars, lease, draft, minted, permits, act, late, orphaned>>

\* begin_drain, still under the write lock; it raises when the gate closed
BeginDrain ==
    /\ upd.pc = "opening"
    /\ \/ /\ Open
          /\ drain' = epoch
          /\ allowed' = upd.allowed
          /\ Begun(epoch)
       \/ /\ ~Open
          /\ writer' = "none"
          /\ upd' = NoDrainLease
          /\ UNCHANGED drainVars
    /\ UNCHANGED <<gateVars, lease, draft, minted, permits, act, late, orphaned>>

\* assert_drain, or the snapshot test of a lease that found the gate critical
DrainValid ==
    IF upd.permit = 0 THEN Critical ELSE drain = upd.permit /\ upd.permit = epoch

\* The first test of _active_count (and the one of assert_drained before it)
CheckDrain ==
    /\ upd.pc = "checking"
    /\ Move(IF DrainValid THEN "reading" ELSE "releasing")
    /\ UNCHANGED <<gateVars, drainVars, rowVars, permits, act, late, orphaned>>

\* _active_count reads the rows; a lease it did not admit closes the gate
ReadActive ==
    /\ upd.pc = "reading"
    /\ \/ /\ ActiveIn(lease) \subseteq upd.allowed
          /\ upd' = [upd EXCEPT !.pc = "counted",
                                !.count = Cardinality(ActiveIn(lease))]
          /\ UNCHANGED <<published, closure, closing>>
       \/ /\ ~(ActiveIn(lease) \subseteq upd.allowed)
          /\ Move("releasing")
          /\ Publish
    /\ UNCHANGED <<status, latched, epoch, drainVars, rowVars, permits, act, late,
                   orphaned>>

\* Mutant of Decide: the loop of acquire has no deadline
DecidePatiently ==
    /\ upd.pc = "counted"
    /\ upd' = IF ~DrainValid THEN [upd EXCEPT !.pc = "releasing"]
              ELSE IF upd.count = 0 /\ upd.round = 3 THEN [upd EXCEPT !.pc = "activating"]
              ELSE IF upd.count = 0 THEN [upd EXCEPT !.pc = "checking", !.round = @ + 1]
              ELSE [upd EXCEPT !.pc = "checking"]
    /\ UNCHANGED <<gateVars, drainVars, rowVars, permits, act, late, orphaned>>

\* The last test of _active_count and what its caller makes of the count:
\* round 1 is the loop of acquire, 2 and 3 the calls of assert_drained
Decide ==
    /\ upd.pc = "counted"
    /\ upd' = IF ~DrainValid THEN [upd EXCEPT !.pc = "releasing"]
              ELSE IF upd.count = 0 /\ upd.round = 3 THEN [upd EXCEPT !.pc = "activating"]
              ELSE IF upd.count = 0 THEN [upd EXCEPT !.pc = "checking", !.round = @ + 1]
              ELSE IF upd.round = 1 /\ ~upd.expired THEN [upd EXCEPT !.pc = "checking"]
              ELSE [upd EXCEPT !.pc = "releasing"]
    /\ UNCHANGED <<gateVars, drainVars, rowVars, permits, act, late, orphaned>>

\* The deadline of acquire passes
DrainDeadline ==
    /\ upd.pc \in {"checking", "reading", "counted"}
    /\ ~upd.expired
    /\ upd' = [upd EXCEPT !.expired = TRUE]
    /\ UNCHANGED <<gateVars, drainVars, rowVars, permits, act, late, orphaned>>

\* The activation is cancelled outside _begin: the except clauses release
CancelDrain ==
    /\ upd.pc \in {"checking", "reading", "counted"}
    /\ Move("releasing")
    /\ UNCHANGED <<gateVars, drainVars, rowVars, permits, act, late, orphaned>>

\* coordinator.activate: the boundary is crossed, or it failed before it
Activate ==
    /\ upd.pc = "activating"
    /\ \E pc \in {"activated", "releasing"} : Move(pc)
    /\ UNCHANGED <<gateVars, drainVars, rowVars, permits, act, late, orphaned>>

\* Mutant of ReleaseDrain: a failed activation forgets its drain
ReleaseNothing ==
    /\ upd.pc = "releasing"
    /\ upd' = NoDrainLease
    /\ UNCHANGED <<gateVars, drainVars, rowVars, permits, act, late, orphaned>>

\* release: cancel_drain, or nothing when a closure made the permit stale
ReleaseDrain ==
    /\ upd.pc = "releasing"
    /\ \/ /\ upd.permit # 0 /\ DrainValid
          /\ drain' = 0
          /\ allowed' = {}
       \/ /\ ~(upd.permit # 0 /\ DrainValid)
          /\ UNCHANGED drainVars
    /\ upd' = NoDrainLease
    /\ UNCHANGED <<gateVars, rowVars, permits, act, late, orphaned>>

-----------------------------------------------------------------------------
\* The process ends and starts again: a new gate, a new permit map, the same rows
Restart ==
    /\ epoch > 0
    /\ status' = "critical"
    /\ latched' = FALSE
    /\ closure' = FALSE
    /\ published' = FALSE
    /\ closing' = {}
    /\ epoch' = 0
    /\ drain' = 0
    /\ allowed' = {}
    /\ draft' = lease
    /\ writer' = "none"
    /\ permits' = {}
    /\ act' = [a \in Actors |-> Idle]
    /\ upd' = NoDrainLease
    /\ late' = 0
    /\ orphaned' = FALSE
    /\ UNCHANGED <<lease, minted>>

Gate == HealthyReport \/ ViolationReport \/ RequestCritical \/ ApplyClosure

Transact(a) == Ask(a) \/ Seal(a) \/ Refuse(a) \/ Commit(a) \/ Retire(a)

Work(w) == LeaseNothing(w) \/ LeaseJob(w) \/ EnterExecution(w) \/ LeaveJob(w)
             \/ ExecutionOpen(w) \/ Remember(w)

UpdateStep == DrainSnapshot \/ BeginDrain \/ CheckDrain \/ ReadActive \/ Decide
                \/ Activate \/ ReleaseDrain

Next ==
    \/ Gate
    \/ \E a \in Actors : Transact(a)
    \/ \E w \in Workers : Work(w)
    \/ \E c \in Controls : ControlOpen(c)
    \/ DrainLock \/ CancelBegin \/ UpdateStep \/ DrainDeadline \/ CancelDrain
    \/ Restart

Spec == Init /\ [][Next]_vars

\* The activation's own steps run, and the deadline of acquire arrives
LiveSpec == Spec /\ WF_vars(UpdateStep) /\ WF_vars(DrainDeadline)

-----------------------------------------------------------------------------
(* Properties. *)

Calls ==
    [pc : {"idle", "asking", "open", "sealed", "committed", "owning"},
     kind : {"none", "lease", "control", "job", "cow"},
     epoch : 0 .. 2, subject : Subjects \cup {NoSubject},
     retire : SUBSET Subjects]

Activations ==
    [pc : {"idle", "begun", "opening", "checking", "reading", "counted",
           "activating", "activated", "releasing"},
     permit : 0 .. 2, allowed : SUBSET Subjects, count : Nat, round : 0 .. 3,
     expired : BOOLEAN, cancelled : BOOLEAN]

\* Everything is well typed, and the epoch of one gate moves at most twice: the
\* first healthy report, and the first closure that gets the gate lock.
GateTypeOK ==
    /\ status \in {"critical", "healthy"}
    /\ latched \in BOOLEAN /\ closure \in BOOLEAN /\ published \in BOOLEAN
    /\ closing \subseteq {"report", "request"}
    /\ epoch \in 0 .. 2
    /\ drain \in 0 .. 2
    /\ allowed \subseteq Subjects
    /\ lease \in [Jobs -> 0 .. MaxLeases] /\ draft \in [Jobs -> 0 .. MaxLeases]
    /\ writer \in Actors \cup {"updater", "none"}
    /\ minted \in 0 .. MaxLeases
    /\ permits \subseteq [subject : Subjects, epoch : 0 .. 2]
    /\ act \in [Actors -> Calls]
    /\ upd \in Activations
    /\ late \in Nat /\ orphaned \in BOOLEAN

\* Once acquire has counted no active job, no job is active until the activation
\* gives the drain back: "can never appear after a successful zero-active check"
\* (activation_drain.py), whether the gate was drained or found critical.
DrainedStaysIdle ==
    \/ upd.pc \in {"activating", "activated"}
    \/ upd.pc \in {"checking", "reading", "counted"} /\ upd.round > 1
    => ActiveIn(lease) = {}

\* request_critical lets "an already-admitted transaction" finish: the one that
\* has validated its permit and holds the write lock.  No second permitted
\* transaction commits after the closure is signalled.
OneLateCommit == late <= 1

\* A drain does not cut off the work it waits for: as long as the gate is not
\* closed, the permit of every lease that is still in its row stays valid.
DrainLetsLeasesFinish ==
    drain # 0 /\ ~closure =>
        \A p \in permits : p.subject \in ActiveIn(lease) => PermitValid(p)

\* A worker that was handed a lease finds its permit for as long as the row
\* carries the lease: a late publisher of an older lease does not remove it.
PublishedPermitStands ==
    \A w \in Workers :
        act[w].pc = "owning" /\ act[w].subject \in ActiveIn(lease) =>
            \E p \in permits : p.subject = act[w].subject

\* Admission reopens: an open gate that is draining belongs to an activation
\* that holds the permit and will release it or has crossed the boundary, unless
\* that activation was cancelled while its thread was inside _begin.
DrainHasHolder ==
    drain # 0 /\ ~closure /\ ~orphaned =>
        /\ upd.permit = drain
        /\ upd.pc \notin {"idle", "begun", "opening"}

\* An activation that has begun ends: it gives up or crosses the boundary.
DrainSettles == (upd.pc # "idle") ~> (upd.pc \in {"idle", "activated"})
=============================================================================
