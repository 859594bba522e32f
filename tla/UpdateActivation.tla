-------------------------- MODULE UpdateActivation --------------------------
(* Installing a new version: the coordinator stages and switches the slot    *)
(* pointers, Bootstrap restarts into the candidate, probes it, confirms it   *)
(* or restores the prior pointers, and the confirmed Runtime crosses the     *)
(* data barrier before it opens live storage.  All of it converges from six  *)
(* durable files after a crash at any write (src/ecorex/update/,             *)
(* src/ecorex/bootstrap/supervisor.py, src/ecorex/server/config.py).         *)
EXTENDS Naturals, Sequences, FiniteSets

CONSTANTS
    MaxVersion,     \* releases are 1..MaxVersion; a slot is named by its release
    MaxTxn,         \* bound: update transactions after the first install
    MaxMishaps,     \* bound: power losses, killed Bootstraps and failed writes together
    Keep,           \* known-good slots retained (3 in the code)
    Downgrades,     \* whether signed rollback authorizations are issued
    Orphans,        \* the full Runtimes that outlive a killed Bootstrap: no one,
                    \* those past their data barrier, or any, as the code lets them
    NoFile          \* the content of a file that does not exist

ASSUME BoundsAssumption ==
    /\ MaxVersion \in Nat \ {0} /\ MaxTxn \in Nat /\ Keep \in Nat \ {0, 1}
    /\ MaxMishaps \in Nat /\ Downgrades \in BOOLEAN
    /\ Orphans \in {"none", "serving", "any"}

None == 0
Versions == 1..MaxVersion
Txns == 0..MaxTxn
Runtimes == {"child", "orphan"}

Preparation == <<"resolving", "downloading", "verifying", "staging">>
PreparationStates == {Preparation[i] : i \in DOMAIN Preparation}
TerminalStates == {"completed", "rollback", "failed"}
InstallStates == PreparationStates \cup TerminalStates
    \cup {"awaiting_user", "draining", "activating", "healthchecking"}

VARIABLES
    journal,    \* install-journal.ndjson: the last state of each transaction
    active,     \* active-transaction.json
    ptr,        \* slot-pointers.json
    slots,      \* the slot directories on disk
    intent,     \* activation-intent.json
    receipt,    \* activation-receipt.json
    job,        \* holder of install-update.lock, its remaining durable writes,
                \* and where it goes on after them or after an exception
    boot,       \* the Bootstrap supervisor
    rt,         \* the Runtime Bootstrap watches, and one that outlived it
    mishaps,    \* how many of those there have been
    opened      \* history: the transactions whose Runtime has opened live storage

files == <<journal, active, ptr, slots, intent, receipt>>
vars == <<files, job, boot, rt, mishaps, opened>>

(***************************************************************************)
(* Files                                                                   *)
(***************************************************************************)
\* SlotPointers.from_dict: the known-good slots are bounded and not repeated.
SlotLists == {s \in UNION {[1..n -> Versions] : n \in 0..Keep} :
                \A i, j \in DOMAIN s : s[i] = s[j] => i = j}

SlotPointers == [current : Versions \cup {None}, previous : Versions \cup {None},
                 good : SlotLists]

ActiveFiles == [txn : Txns, slot : Versions, base : Versions, prior : SlotPointers \cup {NoFile}]
IntentFiles == [txn : Txns, slot : Versions, prior : SlotPointers]
ReceiptFiles ==
    [state : {"confirming", "confirmed", "rollback_pending", "rolled_back_pre_data"},
     txn : Txns, slot : Versions, prior : SlotPointers, barrier : BOOLEAN]

\* A file that does not exist is not one that does.
ASSUME NoFileAssumption ==
    NoFile \notin SlotPointers \cup ActiveFiles \cup IntentFiles \cup ReceiptFiles

NoPointers == [current |-> None, previous |-> None, good |-> <<>>]

Good(p) == {p.good[i] : i \in DOMAIN p.good}
Protected(p) == ({p.current, p.previous} \cup Good(p)) \ {None}

Take(s, n) == SubSeq(s, 1, IF n < Len(s) THEN n ELSE Len(s))

\* v moved or added to the front of s, in which nothing is repeated.
Front1(v, s) ==
    LET present == \E i \in DOMAIN s : s[i] = v
        at == IF present THEN CHOOSE i \in DOMAIN s : s[i] = v ELSE Len(s) + 1
    IN  [k \in 1..(IF present THEN Len(s) ELSE Len(s) + 1) |->
            IF k = 1 THEN v ELSE IF k <= at THEN s[k - 1] ELSE s[k]]

\* SlotStore.switch_to
SwitchTo(p, v) ==
    IF p.current = v THEN p
    ELSE [current |-> v, previous |-> p.current,
          good |-> Take(IF p.current = None THEN p.good
                        ELSE Front1(p.current, p.good), Keep - 1)]

\* SlotStore.mark_known_good
MarkKnownGood(p, v) ==
    LET ordered == Take(Front1(v, p.good), Keep)
    IN  [current |-> v, good |-> ordered,
         previous |-> IF Len(ordered) > 1 THEN ordered[2] ELSE None]

Latest == CHOOSE t \in Txns : journal[t] # "none"
                              /\ \A u \in Txns : u > t => journal[u] = "none"

\* _ALLOWED_TRANSITIONS and _validate_transition
Allowed == [resolving |-> {"downloading", "failed"},
            downloading |-> {"verifying", "failed"},
            verifying |-> {"downloading", "staging", "failed"},
            staging |-> {"awaiting_user", "failed"},
            awaiting_user |-> {"draining", "failed"},
            draining |-> {"activating", "failed"},
            activating |-> {"healthchecking", "rollback", "failed"},
            healthchecking |-> {"completed", "rollback", "failed"},
            completed |-> {"rollback"},
            rollback |-> {}, failed |-> {}]

ValidTransition(t, state) ==
    IF t = Latest
    THEN state = journal[t] \/ state \in Allowed[journal[t]]
    ELSE journal[Latest] \in TerminalStates /\ state = "resolving"

(***************************************************************************)
(* Durable writes.  An operation under the lock reads the files and then    *)
(* makes its writes one by one; a crash keeps the ones already made.        *)
(***************************************************************************)
Put(file, content) == [file |-> file, content |-> content]
Remove(file) == Put(file, NoFile)
JournalTo(t, state) == Put("journal", [txn |-> t, state |-> state])
Point(p) == Put("ptr", p)
Stage(v) == Put("stage", v)
Discard(v) == Put("discard", v)             \* SlotStore.discard
TryDiscard(v) == Put("try_discard", v)      \* the same, StorageError ignored
Raise == Put("raise", None)                 \* a check after the writes fails

If(condition, writes) == IF condition THEN writes ELSE <<>>

\* Whether the write goes through; otherwise the operation raises here.
Accepted(w) ==
    CASE w.file = "journal" -> ValidTransition(w.content.txn, w.content.state)
      [] w.file = "ptr"     -> Protected(w.content) \subseteq slots
      [] w.file = "discard" -> w.content \notin Protected(ptr)
      [] w.file = "raise"   -> FALSE
      [] OTHER              -> TRUE

Apply(w) ==
    /\ journal' = IF w.file = "journal"
                  THEN [journal EXCEPT ![w.content.txn] = w.content.state] ELSE journal
    /\ ptr' = IF w.file = "ptr" THEN w.content ELSE ptr
    /\ active' = IF w.file = "active" THEN w.content ELSE active
    /\ intent' = IF w.file = "intent" THEN w.content ELSE intent
    /\ receipt' = IF w.file = "receipt" THEN w.content ELSE receipt
    /\ slots' = CASE w.file = "stage" -> slots \cup {w.content}
                  [] w.file = "discard" -> slots \ {w.content}
                  [] w.file = "try_discard" -> slots \ ({w.content} \ Protected(ptr))
                  [] OTHER -> slots

(***************************************************************************)
(* ProvisionalActivationController: each operation as the check that makes  *)
(* it raise before it writes, and the writes it makes.                      *)
(***************************************************************************)
ActiveMatches(i) == active # NoFile /\ active.txn = i.txn
                    /\ active.slot = i.slot /\ active.prior = i.prior

PriorValid(p) == (({p.current} \cup Good(p)) \ {None}) \subseteq slots

Cleanup == <<Remove("intent"), Remove("active")>>

ReceiptFor(i, state) == [state |-> state, txn |-> i.txn, slot |-> i.slot,
                         prior |-> i.prior, barrier |-> FALSE]

\* ensure_pending_current for the intent i
EnsureRaises(i) ==
    \/ ~ActiveMatches(i)
    \/ Latest # i.txn
    \/ journal[i.txn] \notin {"activating", "healthchecking"}
    \/ i.slot \notin slots
    \/ journal[i.txn] = "activating" /\ ptr # i.prior /\ ptr.current # i.slot

EnsureWrites(i) ==
    LET starting == journal[i.txn] = "activating"
        after == IF starting /\ ptr = i.prior THEN SwitchTo(ptr, i.slot) ELSE ptr
    IN  If(after # ptr, <<Point(after)>>)
        \o If(starting, <<JournalTo(i.txn, "healthchecking")>>)
        \o If(after.current # i.slot \/ i.slot \in Good(after), <<Raise>>)

\* confirm, once ensure_pending_current has passed
ConfirmWrites(i) ==
    <<Put("receipt", ReceiptFor(i, "confirming")),
      Point(MarkKnownGood(ptr, i.slot)),
      JournalTo(i.txn, "completed"),
      Put("receipt", ReceiptFor(i, "confirmed"))>> \o Cleanup

\* Mutant of FailWrites: the intent is removed before the pointers are restored
FailCleansFirst(i) ==
    IF i.slot \in Good(ptr)
    THEN <<JournalTo(i.txn, "failed")>> \o Cleanup
    ELSE Cleanup \o <<Point(i.prior), JournalTo(i.txn, "rollback"), TryDiscard(i.slot)>>

\* fail_pre_data
FailRaises(i) ==
    \/ ~ActiveMatches(i)
    \/ Latest # i.txn
    \/ journal[i.txn] \notin {"activating", "healthchecking"}
    \/ ptr.current \notin {i.slot, i.prior.current}

FailWrites(i) ==
    IF \/ receipt # NoFile /\ receipt.txn = i.txn /\ receipt.slot = i.slot /\ receipt.barrier
       \/ i.slot \in Good(ptr)
    THEN <<JournalTo(i.txn, "failed")>> \o Cleanup
    ELSE If(~PriorValid(i.prior), <<Raise>>)
         \o <<Point(i.prior), JournalTo(i.txn, "rollback")>>
         \o Cleanup \o <<TryDiscard(i.slot)>>

\* _finish_confirmed_pre_data_rollback
FinishRaises(r) ==
    \/ r.barrier
    \/ ~PriorValid(r.prior)
    \/ Latest # r.txn
    \/ ptr.current = r.slot /\ journal[r.txn] # "completed"
    \/ ptr.current # r.slot /\ ptr # r.prior
    \/ journal[r.txn] \notin {"completed", "rollback"}

\* Mutant of FinishWrites: the replay journals the rollback again, then a failure
FinishAgain(r) ==
    If(ptr.current = r.slot, <<Point(r.prior)>>)
    \o <<JournalTo(r.txn, "rollback"), JournalTo(r.txn, "failed"),
         Put("receipt", [r EXCEPT !.state = "rolled_back_pre_data"])>>

FinishWrites(r) ==
    If(ptr.current = r.slot, <<Point(r.prior)>>)
    \o If(journal[r.txn] = "completed", <<JournalTo(r.txn, "rollback")>>)
    \o <<Put("receipt", [r EXCEPT !.state = "rolled_back_pre_data"]),
         TryDiscard(r.slot)>>

\* rollback_confirmed_pre_data: whether the receipt authorizes it at all
RollbackOffered ==
    receipt # NoFile /\ receipt.state = "confirmed" /\ receipt.slot = ptr.current
    /\ ~receipt.barrier

RollbackRaises(r) ==
    r.slot \notin Good(ptr) \/ ~PriorValid(r.prior)
    \/ Latest # r.txn \/ journal[r.txn] # "completed"

RollbackWrites(r) ==
    LET pending == [r EXCEPT !.state = "rollback_pending"]
    IN  <<Put("receipt", pending)>> \o FinishWrites(pending)

\* reconcile_confirmation: undone, rolled forward, or confirmed but not closed
Undone(i) == Latest = i.txn /\ journal[i.txn] \in {"rollback", "failed"} /\ ptr = i.prior
KeptGood(i) == ptr.current = i.slot /\ i.slot \in Good(ptr)
RolledForward(i) == Latest = i.txn /\ journal[i.txn] = "failed" /\ KeptGood(i)
ConfirmedInPart(i) == ~Undone(i) /\ ~RolledForward(i) /\ KeptGood(i)

RollbackUnfinished ==
    receipt # NoFile /\ receipt.state \in {"rollback_pending", "rolled_back_pre_data"}

ReconcileRaises ==
    IF intent = NoFile
    THEN RollbackUnfinished /\ FinishRaises(receipt)
    ELSE /\ ConfirmedInPart(intent)
         /\ Latest # intent.txn \/ journal[intent.txn] \notin {"healthchecking", "completed"}

ReconcileWrites ==
    IF intent = NoFile THEN If(RollbackUnfinished, FinishWrites(receipt))
    ELSE IF Undone(intent) THEN Cleanup \o <<TryDiscard(intent.slot)>>
    ELSE IF RolledForward(intent) THEN Cleanup
    ELSE If(ConfirmedInPart(intent),
            If(journal[intent.txn] = "healthchecking",
               <<JournalTo(intent.txn, "completed")>>)
            \o <<Put("receipt", ReceiptFor(intent, "confirmed"))>> \o Cleanup)

\* CurrentSlotVerifier.verify_current
CurrentTrusted == ptr.current # None /\ ptr.current \in Good(ptr)

\* mark_data_barrier_crossed by a Runtime of slot v
BarrierRaises(v) ==
    /\ receipt # NoFile
    /\ IF receipt.state = "rolled_back_pre_data"
       THEN ptr # receipt.prior \/ receipt.prior.current # v
       ELSE receipt.state # "confirmed" \/ receipt.slot # v
            \/ ptr.current # v \/ v \notin Good(ptr)

(***************************************************************************)
(* The install lock                                                        *)
(***************************************************************************)
Idle == [by |-> "nobody", writes |-> <<>>, ok |-> "", err |-> ""]

Work(who, writes, ok, err) ==
    [by |-> who, writes |-> writes, ok |-> ok, err |-> err]

\* Where an operation goes on while it still holds the lock.
Holding == {"ensure", "launch", "drop", "switch", "abort", "converge"}

\* Mutant of Resume: the lock is released between the parts of an operation
ResumeUnlocked(pc) ==
    /\ job' = Idle
    /\ IF job.by = "boot"
       THEN boot' = [boot EXCEPT !.pc = pc] /\ UNCHANGED rt
       ELSE rt' = [rt EXCEPT ![job.by].pc = pc] /\ UNCHANGED boot

\* The holder leaves its operation for pc, and the lock with it unless it goes on.
Resume(pc) ==
    /\ job' = IF pc \in Holding THEN [Idle EXCEPT !.by = job.by] ELSE Idle
    /\ IF job.by = "boot"
       THEN boot' = [boot EXCEPT !.pc = pc] /\ UNCHANGED rt
       ELSE rt' = [rt EXCEPT ![job.by].pc = pc] /\ UNCHANGED boot

Write ==
    /\ job.writes # <<>>
    /\ Accepted(Head(job.writes))
    /\ Apply(Head(job.writes))
    /\ job' = [job EXCEPT !.writes = Tail(@)]
    /\ UNCHANGED <<boot, rt, mishaps, opened>>

\* Every write is made.
Done ==
    /\ job.by # "nobody" /\ job.writes = <<>> /\ job.ok # ""
    /\ Resume(job.ok)
    /\ UNCHANGED <<files, mishaps, opened>>

\* The next write raises: it is refused, or the disk fails it.
Except ==
    /\ job.writes # <<>>
    /\ \/ ~Accepted(Head(job.writes)) /\ UNCHANGED mishaps
       \/ Accepted(Head(job.writes)) /\ mishaps < MaxMishaps
          /\ mishaps' = mishaps + 1
    /\ Resume(job.err)
    /\ UNCHANGED <<files, opened>>

NoRuntime == [kind |-> "none", slot |-> None, pc |-> "", saw |-> NoFile]

(***************************************************************************)
(* Bootstrap (BootstrapSupervisor.run)                                     *)
(***************************************************************************)
BootRuns(writes, ok, err) ==
    /\ job' = Work("boot", writes, ok, err)
    /\ boot' = [boot EXCEPT !.pc = "busy"]

BootGoes(pc) == boot' = [boot EXCEPT !.pc = pc]

BootStart ==
    /\ boot.pc = "down"
    /\ boot' = [pc |-> "select", avoid |-> None, exit |-> ""]
    /\ UNCHANGED <<files, job, rt, mishaps, opened>>

\* _select_and_start takes the lock and reconciles first.
Select ==
    /\ boot.pc = "select" /\ job = Idle
    /\ IF ReconcileRaises
       THEN BootGoes("launchFailed") /\ UNCHANGED job
       ELSE BootRuns(ReconcileWrites, "ensure", "launchFailed")
    /\ UNCHANGED <<files, rt, mishaps, opened>>

\* ... then finishes a pending switch, or verifies the current slot.
Ensure ==
    /\ boot.pc = "ensure"
    /\ IF IF intent = NoFile THEN ~CurrentTrusted ELSE EnsureRaises(intent)
       THEN BootGoes("launchFailed") /\ job' = Idle
       ELSE BootRuns(IF intent = NoFile THEN <<>> ELSE EnsureWrites(intent),
                     "launch", "launchFailed")
    /\ UNCHANGED <<files, rt, mishaps, opened>>

\* ... and starts the Runtime, as a probe while an intent is pending.  The slot a
\* Runtime asked to be restarted from is not started again; the start may fail,
\* and does when a surviving Runtime keeps the probe's port.
Launch ==
    /\ boot.pc = "launch"
    /\ job' = Idle
    /\ \/ /\ ptr.current = boot.avoid
          /\ BootGoes("down") /\ UNCHANGED rt
       \/ /\ ptr.current # boot.avoid
          /\ BootGoes("launchFailed") /\ UNCHANGED rt
       \/ /\ ptr.current # boot.avoid
          /\ intent = NoFile \/ rt["orphan"] = NoRuntime
          /\ BootGoes(IF intent = NoFile THEN "watch" ELSE "probe")
          /\ rt' = [rt EXCEPT !["child"] =
                [kind |-> IF intent = NoFile THEN "full" ELSE "probe", slot |-> ptr.current,
                 pc |-> IF intent = NoFile THEN "start" ELSE "probe", saw |-> NoFile]]
    /\ UNCHANGED <<files, mishaps, opened>>

\* The probe answers with the expected identity, or it does not.
ProbeAnswers(healthy) ==
    /\ boot.pc = "probe"
    /\ BootGoes(IF healthy THEN "confirm" ELSE "unhealthy")
    /\ rt' = IF healthy THEN rt ELSE [rt EXCEPT !["child"] = NoRuntime]
    /\ UNCHANGED <<files, job, mishaps, opened>>

\* confirm, after the companion has prepared (which may refuse).
Confirm(companionReady) ==
    /\ boot.pc = "confirm" /\ job = Idle
    /\ IF ~companionReady \/ intent = NoFile \/ EnsureRaises(intent)
       THEN BootGoes("reconfirm") /\ UNCHANGED job
       ELSE BootRuns(EnsureWrites(intent) \o ConfirmWrites(intent), "confirmed", "reconfirm")
    /\ UNCHANGED <<files, rt, mishaps, opened>>

\* The exception handler around confirm reconciles, and asks whether that confirmed.
Reconfirm ==
    /\ boot.pc = "reconfirm" /\ job = Idle
    /\ IF ReconcileRaises
       THEN BootGoes("unconfirmed") /\ UNCHANGED job
       ELSE BootRuns(ReconcileWrites,
                     IF intent # NoFile /\ ConfirmedInPart(intent)
                     THEN "confirmed" ELSE "unconfirmed",
                     "unconfirmed")
    /\ UNCHANGED <<files, rt, mishaps, opened>>

\* The probe is stopped either way.
StopCandidate ==
    /\ boot.pc \in {"confirmed", "unconfirmed"}
    /\ rt' = [rt EXCEPT !["child"] = NoRuntime]
    /\ boot' = IF boot.pc = "confirmed"
               THEN [boot EXCEPT !.pc = "select", !.avoid = None]
               ELSE [boot EXCEPT !.pc = "unhealthy"]
    /\ UNCHANGED <<files, job, mishaps, opened>>

\* _rollback_pending_activation
FailPending ==
    /\ boot.pc \in {"launchFailed", "unhealthy"} /\ job = Idle
    /\ LET otherwise == IF boot.pc = "launchFailed" THEN "unlaunched" ELSE "down"
       IN  IF intent = NoFile \/ FailRaises(intent)
           THEN BootGoes(otherwise) /\ UNCHANGED job
           ELSE /\ job' = Work("boot", FailWrites(intent), "select", otherwise)
                /\ boot' = [boot EXCEPT !.pc = "busy", !.avoid = None]
    /\ UNCHANGED <<files, rt, mishaps, opened>>

\* _rollback_confirmed_activation, after a failed launch or any exit; when it
\* does not apply the exit code decides.
RollbackConfirmed ==
    /\ boot.pc \in {"unlaunched", "exited"} /\ job = Idle
    /\ LET onward == boot.pc = "exited" /\ boot.exit \in {"restart", "reload"}
       IN  IF ~RollbackOffered \/ RollbackRaises(receipt)
           THEN BootGoes(IF onward THEN "select" ELSE "down") /\ UNCHANGED job
           ELSE /\ job' = Work("boot", RollbackWrites(receipt), "select",
                               IF onward THEN "select" ELSE "down")
                /\ boot' = [boot EXCEPT !.pc = "busy", !.avoid = None]
    /\ UNCHANGED <<files, rt, mishaps, opened>>

(***************************************************************************)
(* A full Runtime                                                          *)
(***************************************************************************)
Serving(r) == rt[r].kind = "full" /\ rt[r].pc = "open" /\ job = Idle

ExitCodes == {"restart", "reload", "stop", "signal"}

\* A Runtime stops.  Bootstrap sees its own child's exit code: "restart" after an
\* activation, "reload", "stop" for anything else; after a stop signal of its
\* own ("signal") it just returns.
Exits(r, code) ==
    /\ rt[r].kind = "full"
    /\ code = "restart" => rt[r].pc = "open" /\ job = Idle
                           /\ journal[Latest] = "healthchecking"
    /\ rt' = [rt EXCEPT ![r] = NoRuntime]
    /\ job' = IF job.by = r THEN Idle ELSE job
    /\ IF r = "child"
       THEN boot' = [pc |-> IF code = "signal" THEN "down" ELSE "exited", exit |-> code,
                     avoid |-> IF code = "restart" THEN rt[r].slot ELSE None]
       ELSE UNCHANGED boot
    /\ UNCHANGED <<files, mishaps, opened>>

\* Startup up to the point where mark_data_barrier_crossed has read the receipt.
\* None of it takes the lock.
ReadBarrier(r) ==
    /\ rt[r].kind = "full" /\ rt[r].pc = "start"
    /\ CurrentTrusted /\ ptr.current = rt[r].slot
    /\ ~BarrierRaises(rt[r].slot)
    /\ rt' = [rt EXCEPT ![r].pc = "barrier", ![r].saw = receipt]
    /\ UNCHANGED <<files, job, boot, mishaps, opened>>

\* Mutant of Pruned: only the current slot is protected
PrunedToCurrent == {{ptr.current}}

\* SlotStore.prune keeps what the pointers protect and the newest of the rest.
Pruned ==
    LET budget == IF Cardinality(Protected(ptr)) < Keep
                  THEN Keep - Cardinality(Protected(ptr)) ELSE 0
        rest == slots \ Protected(ptr)
    IN  {slots \ gone : gone \in
            {g \in SUBSET rest : Cardinality(rest \ g) <= budget
                                 /\ (g # {} => Cardinality(rest \ g) = budget)}}

\* It writes the receipt it read, with the barrier crossed, and opens live storage.
CrossBarrier(r) ==
    /\ rt[r].kind = "full" /\ rt[r].pc = "barrier"
    /\ LET saw == rt[r].saw
           first == saw # NoFile /\ saw.state = "confirmed" /\ ~saw.barrier
       IN  /\ receipt' = IF first THEN [saw EXCEPT !.barrier = TRUE] ELSE receipt
           /\ slots' \in IF first THEN Pruned \cup {slots} ELSE {slots}
           /\ opened' = IF saw # NoFile /\ saw.state = "confirmed"
                        THEN opened \cup {saw.txn} ELSE opened
    /\ rt' = [rt EXCEPT ![r].pc = "open", ![r].saw = NoFile]
    /\ UNCHANGED <<journal, active, ptr, intent, job, boot, mishaps>>

(***************************************************************************)
(* The coordinator, inside a serving Runtime                               *)
(***************************************************************************)
RuntimeRuns(r, writes, ok, err) ==
    /\ job' = Work(r, writes, ok, err)
    /\ rt' = [rt EXCEPT ![r].pc = "busy"]
    /\ UNCHANGED <<files, boot, mishaps, opened>>

Journaled(t, states) == [i \in DOMAIN states |-> JournalTo(t, states[i])]

Position(state) == CHOOSE i \in DOMAIN Preparation : Preparation[i] = state

\* The preparation states after from, up to and with until.
Between(from, until) ==
    SubSeq(Preparation, Position(from) + 1, Position(until))

Outcomes == {"ready", "mirror_rejected", "last_rejected", "exhausted", "unstaged"}

\* _prepare_locked from a journaled state on: every mirror may be rejected and
\* downloaded again, the last one may be rejected (or the cache refuse the package),
\* none may be left to download from, and staging may fail.
PrepareWrites(t, v, from, outcome) ==
    LET staged == <<Stage(v), JournalTo(t, "awaiting_user")>>
    IN  CASE outcome = "ready" ->
               Journaled(t, Between(from, "staging")) \o staged
          [] outcome = "mirror_rejected" ->
               Journaled(t, Between(from, "verifying")
                            \o <<"downloading", "verifying", "staging">>) \o staged
          [] outcome = "last_rejected" ->
               Journaled(t, Between(from, "verifying") \o <<"failed">>)
          [] outcome = "exhausted" ->
               Journaled(t, (IF from = "verifying" THEN <<"downloading">>
                             ELSE Between(from, "downloading")) \o <<"failed">>)
          [] outcome = "unstaged" ->
               Journaled(t, Between(from, "staging"))
               \o <<TryDiscard(v), JournalTo(t, "failed")>>

Possible(from, outcome) ==
    outcome \in {"mirror_rejected", "last_rejected", "exhausted"} => from # "staging"

\* prepare_update for a release the feed offers: a newer one, or an older one with
\* a signed rollback authorization.
Prepare(r, v, outcome) ==
    /\ Serving(r)
    /\ journal[Latest] \in TerminalStates /\ Latest < MaxTxn
    /\ v # ptr.current /\ (v < ptr.current => Downgrades)
    /\ LET t == Latest + 1
       IN  RuntimeRuns(r, <<Put("active", [txn |-> t, slot |-> v, base |-> ptr.current,
                                           prior |-> NoFile]),
                            JournalTo(t, "resolving")>>
                          \o PrepareWrites(t, v, "resolving", outcome),
                       "open", "drop")

\* Its handler: a transaction whose start could not be journaled is dropped.
Drop(r) ==
    /\ rt[r].pc = "drop"
    /\ RuntimeRuns(r, If(active # NoFile /\ active.txn # Latest, <<Remove("active")>>),
                   "open", "open")

\* recover: a preparation cut short goes on where the journal stands ...
ResumePrepare(r, outcome) ==
    /\ Serving(r)
    /\ journal[Latest] \in PreparationStates /\ Possible(journal[Latest], outcome)
    /\ active # NoFile /\ active.txn = Latest
    /\ RuntimeRuns(r, PrepareWrites(Latest, active.slot, journal[Latest], outcome),
                   "open", "open")

\* ... and a transaction that was never journaled is dropped.
DiscardOrphanActive(r) ==
    /\ Serving(r)
    /\ journal[Latest] \in TerminalStates
    /\ active # NoFile /\ active.txn # Latest
    /\ RuntimeRuns(r, <<Remove("active")>>, "open", "open")

Pending(states) == active # NoFile /\ active.txn = Latest /\ journal[Latest] \in states

\* activate, by the user or by recover: drain, remember the prior pointers, and go
\* on to the switch.  A target admitted against another current slot is stale.
Activate(r, drained) ==
    /\ Serving(r)
    /\ Pending({"awaiting_user", "draining", "activating"})
    /\ LET t == Latest
           reversible == journal[t] # "activating"
           stale == reversible /\ ptr.current # active.base
           drain == If(journal[t] = "awaiting_user", <<JournalTo(t, "draining")>>)
       IN  IF stale \/ active.slot \notin slots
           THEN RuntimeRuns(r, If(ptr.current # active.slot, <<Discard(active.slot)>>)
                               \o <<JournalTo(t, "failed")>>, "open", "open")
           ELSE IF reversible /\ ~drained
           THEN RuntimeRuns(r, drain \o <<Discard(active.slot), JournalTo(t, "failed")>>,
                            "open", "open")
           ELSE RuntimeRuns(r, If(reversible,
                    drain \o If(active.prior = NoFile,
                                <<Put("active", [active EXCEPT !.prior = ptr])>>)
                    \o <<JournalTo(t, "activating")>>), "switch", "open")

IntentOf(a) == [txn |-> a.txn, slot |-> a.slot, prior |-> a.prior]

\* create_intent and ensure_pending_current, under one try.
Switch(r) ==
    /\ rt[r].pc = "switch"
    /\ LET i == IntentOf(active)
       IN  RuntimeRuns(r,
               If(intent # NoFile /\ intent # i, <<Raise>>)
               \o If(intent = NoFile, <<Put("intent", i)>>)
               \o If(EnsureRaises(i), <<Raise>>)
               \o EnsureWrites(i)
               \o <<Put("active", active)>>, "open", "abort")

\* Its handler: fail_pre_data when the intent is its own, else give the target up.
Abort(r) ==
    /\ rt[r].pc = "abort"
    /\ LET own == intent # NoFile /\ intent.txn = active.txn
       IN  IF own
           THEN RuntimeRuns(r, If(FailRaises(intent), <<Raise>>) \o FailWrites(intent),
                            "open", "converge")
           ELSE RuntimeRuns(r, If(ptr = active.prior, <<TryDiscard(active.slot)>>)
                               \o <<JournalTo(active.txn, "failed")>>, "open", "open")

\* The handler of that handler.  fail_pre_data may already have removed the active
\* file; the transaction is then the latest one.
Converge(r) ==
    /\ rt[r].pc = "converge"
    /\ LET gone == active = NoFile
           undo == ~gone /\ ptr.current = active.slot /\ active.slot \notin Good(ptr)
       IN  RuntimeRuns(r, If(undo, <<Point(active.prior)>>)
                          \o If(journal[Latest] \notin TerminalStates,
                                <<JournalTo(Latest, "failed")>>), "open", "open")

\* cancel_pending_activation, when the rollout no longer authorizes the target.
Cancel(r) ==
    /\ Serving(r)
    /\ Pending({"awaiting_user", "draining", "activating"})
    /\ ptr.current # active.slot
    /\ ptr.current = IF active.prior = NoFile THEN active.base ELSE active.prior.current
    /\ RuntimeRuns(r, If(active.slot \notin Protected(ptr), <<Discard(active.slot)>>)
                      \o <<JournalTo(Latest, "failed")>>, "open", "open")

(***************************************************************************)
(* Crashes                                                                 *)
(***************************************************************************)
BootDown == [pc |-> "down", avoid |-> None, exit |-> ""]

\* Nothing but the files survives.
PowerLoss ==
    /\ mishaps < MaxMishaps
    /\ mishaps' = mishaps + 1
    /\ boot' = BootDown
    /\ rt' = [r \in Runtimes |-> NoRuntime]
    /\ job' = Idle
    /\ UNCHANGED <<files, opened>>

\* Bootstrap is killed.  A probe notices and exits; a full Runtime, started in its
\* own session (start_new_session), goes on without it.  The code does not stop one
\* that has yet to cross its data barrier: that is Orphans = "any".
BootKilled ==
    /\ mishaps < MaxMishaps /\ boot.pc # "down"
    /\ mishaps' = mishaps + 1
    /\ boot' = BootDown
    /\ LET survives == /\ rt["child"].kind = "full"
                       /\ \/ Orphans = "any"
                          \/ Orphans = "serving" /\ rt["child"].pc \notin {"start", "barrier"}
       IN  /\ survives => rt["orphan"] = NoRuntime
           /\ rt' = [rt EXCEPT !["child"] = NoRuntime,
                               !["orphan"] = IF survives THEN rt["child"] ELSE @]
           /\ job' = CASE job.by = "child" /\ survives -> [job EXCEPT !.by = "orphan"]
                       [] job.by = "orphan" -> job
                       [] OTHER -> Idle
    /\ UNCHANGED <<files, opened>>

(***************************************************************************)
(* The specification.  Initially release 1 has been installed and serves.  *)
(***************************************************************************)
Init ==
    /\ journal = [t \in Txns |-> IF t = 0 THEN "completed" ELSE "none"]
    /\ active = NoFile /\ intent = NoFile
    /\ ptr = [current |-> 1, previous |-> None, good |-> <<1>>]
    /\ slots = {1}
    /\ receipt = [state |-> "confirmed", txn |-> 0, slot |-> 1,
                  prior |-> NoPointers, barrier |-> TRUE]
    /\ job = Idle /\ boot = BootDown
    /\ rt = [r \in Runtimes |-> NoRuntime]
    /\ mishaps = 0
    /\ opened = {0}

Locked == Write \/ Done \/ Except

Bootstrap ==
    \/ BootStart \/ Select \/ Ensure \/ Launch \/ Reconfirm \/ StopCandidate
    \/ FailPending \/ RollbackConfirmed
    \/ \E answer \in BOOLEAN : ProbeAnswers(answer) \/ Confirm(answer)

\* A Runtime whose startup checks fail exits.
Refused(r) ==
    /\ rt[r].pc = "start"
    /\ (~CurrentTrusted \/ ptr.current # rt[r].slot \/ BarrierRaises(rt[r].slot))
    /\ Exits(r, "stop")

Handling(r) == Drop(r) \/ Switch(r) \/ Abort(r) \/ Converge(r)

Coordinator(r) ==
    \/ \E v \in Versions, outcome \in Outcomes : Prepare(r, v, outcome)
    \/ \E outcome \in Outcomes : ResumePrepare(r, outcome)
    \/ DiscardOrphanActive(r) \/ Cancel(r)
    \/ \E drained \in BOOLEAN : Activate(r, drained)

Next ==
    \/ Locked \/ Bootstrap \/ PowerLoss \/ BootKilled
    \/ \E r \in Runtimes :
          \/ ReadBarrier(r) \/ CrossBarrier(r) \/ Refused(r)
          \/ Handling(r) \/ Coordinator(r)
          \/ \E code \in ExitCodes : Exits(r, code)

Spec == Init /\ [][Next]_vars

\* Whoever holds the lock goes on, Bootstrap is started again and goes on, no Runtime
\* serves for ever, and one that is started over and over is not stopped each time
\* before it has crossed the barrier.
Fairness ==
    /\ WF_vars(Locked) /\ WF_vars(Bootstrap)
    /\ \A r \in Runtimes : WF_vars(Handling(r)) /\ WF_vars(Refused(r))
                           /\ SF_vars(ReadBarrier(r)) /\ SF_vars(CrossBarrier(r))
                           /\ WF_vars(\E code \in ExitCodes : Exits(r, code))

FairSpec == Spec /\ Fairness

(***************************************************************************)
(* Properties                                                              *)
(***************************************************************************)
\* The files are well formed, and the lock is held exactly by a busy process.
TypeOK ==
    /\ journal \in [Txns -> InstallStates \cup {"none"}]
    /\ active \in ActiveFiles \cup {NoFile}
    /\ intent \in IntentFiles \cup {NoFile}
    /\ receipt \in ReceiptFiles \cup {NoFile}
    /\ ptr \in SlotPointers /\ slots \subseteq Versions
    /\ job.by \in {"nobody", "boot"} \cup Runtimes
    /\ boot.pc = "busy" => job.by = "boot"
    /\ \A r \in Runtimes : rt[r].pc = "busy" => job.by = r
    /\ mishaps \in 0..MaxMishaps
    /\ opened \subseteq Txns

\* The candidate on trial: switched to by an intent, or confirmed by a receipt whose
\* data barrier is not crossed.
ByIntent == intent # NoFile /\ ptr.current = intent.slot
ByReceipt ==
    receipt # NoFile /\ ~receipt.barrier /\ ptr.current = receipt.slot
    /\ receipt.state \in {"confirmed", "rollback_pending"}

Trial == IF ByIntent \/ ByReceipt THEN ptr.current ELSE None
Owner == IF ByIntent THEN intent.prior.current
         ELSE IF ByReceipt THEN receipt.prior.current ELSE ptr.current

VS == INSTANCE VersionSwitch WITH Versions <- Versions, NoVersion <- None,
                                  owner <- Owner, trial <- Trial

\* Through every crash, restart, failed probe and failed write, the six files always
\* describe one owner of the data and at most one trial, a failed trial gives back
\* exactly the owner it started from, and every trial is settled.
SwitchesVersions == VS!Spec

\* While a candidate can still be undone, every slot its prior pointers need is on
\* disk: neither pruning nor a discard has taken one.
PriorRetained ==
    /\ ByIntent => PriorValid(intent.prior)
    /\ ByReceipt => PriorValid(receipt.prior)

\* No operation asks the journal for a transition it refuses, whatever the order of
\* crashes and recoveries: InvalidTransition is never raised.
JournalNeverRefuses ==
    job.writes # <<>> /\ Head(job.writes).file = "journal"
        => Accepted(Head(job.writes))

\* No transaction is rolled back once a Runtime has opened live storage under it.
\* The barrier is crossed without the install lock, so this rests on who can be at
\* the barrier while a Bootstrap rolls back: it fails with Orphans = "any".
NoRollbackPastBarrier == \A t \in opened : journal[t] # "rollback"

\* The version that owns the data changes only when a Runtime of the new one, probed
\* and confirmed, crosses its data barrier.
OwnerByBarrier == [][Owner' # Owner => \E r \in Runtimes : CrossBarrier(r)]_vars

\* When no operation is under way, Bootstrap can start the version the pointers name.
RestartServes ==
    job = Idle /\ boot.pc = "down" =>
        /\ ~ReconcileRaises
        /\ intent = NoFile /\ ~RollbackUnfinished =>
               CurrentTrusted /\ ~BarrierRaises(ptr.current)
=============================================================================
