------------------------ MODULE ExecutionGateProofs ------------------------
(***************************************************************************)
(* Proofs about ExecutionGate, for any number of workers, control threads, *)
(* jobs and leases.                                                        *)
(***************************************************************************)
EXTENDS ExecutionGate, FiniteSetTheorems, TLAPS

\* How far the epoch of a gate has moved: one healthy report, one closure
EpochInv ==
    /\ epoch > 0 /\ ~latched => status = "healthy"
    /\ ~latched => epoch <= 1
    /\ latched => closure
    /\ closing # {} => closure

TypeInv == GateTypeOK /\ EpochInv

\* A call is replaced by a well-typed call
LEMMA CallType ==
    ASSUME act \in [Actors -> Calls], NEW a \in Actors, NEW c \in Calls, Call(a, c)
    PROVE  act' \in [Actors -> Calls]
BY DEF Call

\* The leases of a table are subjects, and there are finitely many
LEMMA ActiveFinite ==
    ASSUME NEW rows
    PROVE  /\ ActiveIn(rows) \in SUBSET Subjects
           /\ IsFiniteSet(ActiveIn(rows))
           /\ Cardinality(ActiveIn(rows)) \in Nat
           /\ Cardinality(ActiveIn(rows)) = 0 => ActiveIn(rows) = {}
<1>1. IsFiniteSet(1 .. MaxLeases)
  BY GateAssumption, FS_Interval
<1>2. IsFiniteSet(Subjects)
  BY <1>1, GateAssumption, FS_Product DEF Subjects
<1>3. ActiveIn(rows) \subseteq Subjects
  BY DEF ActiveIn
<1>4. IsFiniteSet(ActiveIn(rows))
  BY <1>2, <1>3, FS_Subset
<1> QED BY <1>3, <1>4, FS_CardinalityType, FS_EmptySet

\* Giving up leases keeps a table a table, and adds no lease to it
LEMMA FreeShrinks ==
    ASSUME lease \in [Jobs -> 0 .. MaxLeases], NEW gone
    PROVE  /\ Free(gone) \in [Jobs -> 0 .. MaxLeases]
           /\ ActiveIn(Free(gone)) \subseteq ActiveIn(lease)
<1>1. Free(gone) \in [Jobs -> 0 .. MaxLeases]
  BY GateAssumption DEF Free
<1>2. ASSUME NEW s \in ActiveIn(Free(gone)) PROVE s \in ActiveIn(lease)
  BY <1>2, GateAssumption DEF Free, ActiveIn, Subjects
<1> QED BY <1>1, <1>2

\* The two records the calls start from
LEMMA StartTypes == Idle \in Calls /\ NoDrainLease \in Activations
BY DEF Idle, Calls, NoDrainLease, Activations, NoSubject

\* The fields of a call and of an activation that have not begun
LEMMA StartFields ==
    /\ Idle.pc = "idle" /\ Idle.kind = "none"
    /\ NoDrainLease.pc = "idle" /\ NoDrainLease.permit = 0
    /\ NoDrainLease.cancelled = FALSE
BY DEF Idle, NoDrainLease

\* The initial state is well typed
LEMMA TypeInit == Init => TypeInv
<1> SUFFICES ASSUME Init PROVE TypeInv
  OBVIOUS
<1>1. [a \in Actors |-> Idle] \in [Actors -> Calls]
  BY StartTypes
<1>2. lease \in [Jobs -> 0 .. MaxLeases] /\ draft \in [Jobs -> 0 .. MaxLeases]
  BY GateAssumption DEF Init
<1>3. act \in [Actors -> Calls] /\ upd \in Activations
  BY <1>1, StartTypes DEF Init
<1>4. permits \subseteq [subject : Subjects, epoch : 0 .. 2] /\ allowed \subseteq Subjects
  BY DEF Init
<1>5. EpochInv
  BY DEF Init, EpochInv
<1>7. minted \in 0 .. MaxLeases
  BY GateAssumption DEF Init
<1>6. /\ status \in {"critical", "healthy"} /\ epoch \in 0 .. 2 /\ drain \in 0 .. 2
      /\ closing \subseteq {"report", "request"} /\ late \in Nat
      /\ writer \in Actors \cup {"updater", "none"}
  BY DEF Init
<1>8. latched \in BOOLEAN /\ closure \in BOOLEAN /\ published \in BOOLEAN
        /\ orphaned \in BOOLEAN
  BY DEF Init
<1> QED BY <1>2, <1>3, <1>4, <1>5, <1>6, <1>7, <1>8 DEF TypeInv, GateTypeOK

\* ... and so is every state after a step of the gate,
LEMMA TypeGate == TypeInv /\ Gate => TypeInv'
<1> SUFFICES ASSUME TypeInv, Gate PROVE TypeInv'
  OBVIOUS
<1>1. CASE HealthyReport
  BY <1>1 DEF HealthyReport, TypeInv, GateTypeOK, EpochInv, drainVars, rowVars
<1>2. CASE ViolationReport
  BY <1>2 DEF ViolationReport, TypeInv, GateTypeOK, EpochInv, drainVars, rowVars
<1>3. CASE RequestCritical
  BY <1>3 DEF RequestCritical, Publish, TypeInv, GateTypeOK, EpochInv, drainVars, rowVars
<1>4. CASE ApplyClosure
  BY <1>4 DEF ApplyClosure, TypeInv, GateTypeOK, EpochInv, drainVars, rowVars
<1> QED BY <1>1, <1>2, <1>3, <1>4 DEF Gate

\* The rows, as the type invariant has them
RowType ==
    /\ lease \in [Jobs -> 0 .. MaxLeases]
    /\ draft \in [Jobs -> 0 .. MaxLeases]
    /\ writer \in Actors \cup {"updater", "none"}
    /\ minted \in 0 .. MaxLeases

\* A step of a call touches only the rows, the permits, the calls and the count
\* of late commits
LEMMA CallStep ==
    ASSUME TypeInv, RowType', act' \in [Actors -> Calls],
           permits' \subseteq [subject : Subjects, epoch : 0 .. 2], late' \in Nat,
           UNCHANGED <<gateVars, drainVars, upd, orphaned>>
    PROVE  TypeInv'
BY DEF TypeInv, GateTypeOK, EpochInv, RowType, gateVars, drainVars

\* Rolling back keeps the types
LEMMA AbandonType ==
    ASSUME TypeInv, NEW a \in Actors, Abandon(a), UNCHANGED <<lease, minted>>
    PROVE  RowType' /\ act' \in [Actors -> Calls]
<1>1. act' \in [Actors -> Calls]
  BY CallType, StartTypes DEF Abandon, TypeInv, GateTypeOK
<1>2. writer' \in Actors \cup {"updater", "none"}
  BY DEF Abandon, TypeInv, GateTypeOK
<1>3. draft' \in [Jobs -> 0 .. MaxLeases]
  BY DEF Abandon, TypeInv, GateTypeOK
<1> QED BY <1>1, <1>2, <1>3 DEF TypeInv, GateTypeOK, RowType

\* Opening a write transaction keeps the types
LEMMA OpenType ==
    ASSUME TypeInv, NEW a \in Actors, NEW gone, NEW pc \in {"open", "sealed"},
           OpenWith(a, Free(gone), pc), UNCHANGED <<lease, minted>>
    PROVE  RowType' /\ act' \in [Actors -> Calls]
<1>1. [act[a] EXCEPT !.pc = pc] \in Calls
  BY DEF TypeInv, GateTypeOK, Calls
<1>2. act' \in [Actors -> Calls]
  BY <1>1, CallType DEF OpenWith, TypeInv, GateTypeOK
<1>3. draft' \in [Jobs -> 0 .. MaxLeases]
  BY FreeShrinks DEF OpenWith, TypeInv, GateTypeOK
<1> QED BY <1>2, <1>3 DEF OpenWith, TypeInv, GateTypeOK, RowType

\* What the callbacks leave of the permit map
LEMMA KeptType ==
    ASSUME TypeInv, NEW a \in Actors
    PROVE  Kept(a) \subseteq [subject : Subjects, epoch : 0 .. 2]
BY DEF Kept, TypeInv, GateTypeOK

\* ... of a transaction,
LEMMA TypeTransact ==
    ASSUME TypeInv, NEW a \in Actors, Transact(a)
    PROVE  TypeInv'
<1>0. RowType /\ act[a] \in Calls /\ epoch \in 0 .. 2 /\ late \in Nat
      /\ permits \subseteq [subject : Subjects, epoch : 0 .. 2]
  BY DEF TypeInv, GateTypeOK, RowType
<1>1. CASE Ask(a)
  <2>1. [Idle EXCEPT !.pc = "asking", !.epoch = epoch,
                     !.kind = IF a \in Controls THEN "control" ELSE "lease"] \in Calls
    BY <1>0, StartTypes DEF Calls, Idle
  <2>2. act' \in [Actors -> Calls]
    BY <1>1, <2>1, CallType DEF Ask, TypeInv, GateTypeOK
  <2>3. RowType'
    BY <1>0, <1>1 DEF Ask, RowType, rowVars
  <2> QED BY <1>0, <1>1, <2>2, <2>3, CallStep DEF Ask
<1>2. CASE Seal(a)
  <2>1. [act[a] EXCEPT !.pc = "sealed"] \in Calls
    BY <1>0 DEF Calls
  <2>2. act' \in [Actors -> Calls]
    BY <1>2, <2>1, CallType DEF Seal, TypeInv, GateTypeOK
  <2>3. RowType'
    BY <1>0, <1>2 DEF Seal, RowType, rowVars
  <2> QED BY <1>0, <1>2, <2>2, <2>3, CallStep DEF Seal
<1>3. CASE Refuse(a)
  BY <1>0, <1>3, AbandonType, CallStep DEF Refuse
<1>4. CASE Commit(a)
  <2>1. [act[a] EXCEPT !.pc = "committed",
                       !.retire = ActiveIn(lease) \ ActiveIn(draft)] \in Calls
    BY <1>0, ActiveFinite DEF Calls
  <2>2. act' \in [Actors -> Calls]
    BY <1>4, <2>1, CallType DEF Commit, TypeInv, GateTypeOK
  <2>3. RowType'
    BY <1>0, <1>4 DEF Commit, RowType
  <2>4. late' \in Nat
    BY <1>0, <1>4 DEF Commit
  <2> QED BY <1>0, <1>4, <2>2, <2>3, <2>4, CallStep DEF Commit
<1>5. CASE Retire(a)
  <2>1. [act[a] EXCEPT !.pc = "owning", !.retire = {}] \in Calls
    BY <1>0 DEF Calls
  <2>2. act' \in [Actors -> Calls]
    BY <1>5, <2>1, StartTypes DEF Retire, Call, TypeInv, GateTypeOK
  <2>3. RowType'
    BY <1>0, <1>5 DEF Retire, RowType, rowVars
  <2> QED BY <1>0, <1>5, <2>2, <2>3, KeptType, CallStep DEF Retire
<1> QED BY <1>1, <1>2, <1>3, <1>4, <1>5 DEF Transact

\* ... of a worker,
LEMMA TypeWork ==
    ASSUME TypeInv, NEW w \in Workers, Work(w)
    PROVE  TypeInv'
<1>0. RowType /\ w \in Actors /\ act[w] \in Calls /\ epoch \in 0 .. 2 /\ late \in Nat
      /\ permits \subseteq [subject : Subjects, epoch : 0 .. 2]
  BY DEF TypeInv, GateTypeOK, RowType, Actors
<1>1. CASE LeaseNothing(w)
  BY <1>0, <1>1, OpenType, CallStep DEF LeaseNothing
<1>2. CASE LeaseJob(w)
  <2>0. minted + 1 \in 1 .. MaxLeases
    BY <1>0, <1>2, GateAssumption DEF LeaseJob, RowType
  <2>1. PICK gone \in SUBSET {s[1] : s \in ActiveIn(lease)}, j \in Jobs :
          \/ /\ writer' = w
             /\ draft' = [Free(gone) EXCEPT ![j] = minted + 1]
             /\ Call(w, [act[w] EXCEPT !.pc = "open", !.epoch = epoch,
                                       !.subject = <<j, minted + 1>>])
          \/ Abandon(w)
    BY <1>2 DEF LeaseJob
  <2>2. <<j, minted + 1>> \in Subjects
    BY <2>0 DEF Subjects
  <2>3. [act[w] EXCEPT !.pc = "open", !.epoch = epoch,
                       !.subject = <<j, minted + 1>>] \in Calls
    BY <1>0, <2>2 DEF Calls
  <2>4. act' \in [Actors -> Calls]
    BY <1>0, <2>1, <2>3, CallType, StartTypes DEF Abandon, TypeInv, GateTypeOK
  <2>5. draft' \in [Jobs -> 0 .. MaxLeases]
    BY <1>0, <2>0, <2>1, FreeShrinks DEF Abandon, RowType
  <2>6. writer' \in Actors \cup {"updater", "none"}
    BY <1>0, <2>1 DEF Abandon, RowType
  <2>7. RowType'
    BY <1>0, <1>2, <2>0, <2>5, <2>6 DEF LeaseJob, RowType
  <2> QED BY <1>0, <1>2, <2>4, <2>7, CallStep DEF LeaseJob
<1>3. CASE EnterExecution(w)
  <2>1. PICK p \in permits :
          \/ Call(w, [act[w] EXCEPT !.pc = "asking", !.kind = "cow"])
          \/ Call(w, [act[w] EXCEPT !.pc = "asking", !.kind = "job",
                                    !.epoch = p.epoch])
    BY <1>3 DEF EnterExecution
  <2>2. /\ [act[w] EXCEPT !.pc = "asking", !.kind = "cow"] \in Calls
        /\ [act[w] EXCEPT !.pc = "asking", !.kind = "job", !.epoch = p.epoch] \in Calls
    BY <1>0 DEF Calls
  <2>3. act' \in [Actors -> Calls]
    BY <1>0, <2>1, <2>2, CallType DEF TypeInv, GateTypeOK
  <2>4. RowType'
    BY <1>0, <1>3 DEF EnterExecution, RowType, rowVars
  <2> QED BY <1>0, <1>3, <2>3, <2>4, CallStep DEF EnterExecution
<1>4. CASE LeaveJob(w)
  BY <1>0, <1>4, AbandonType, CallStep DEF LeaveJob
<1>5. CASE ExecutionOpen(w)
  BY <1>0, <1>5, OpenType, CallStep DEF ExecutionOpen
<1>6. CASE Remember(w)
  <2>1. [act[w] EXCEPT !.pc = "owning", !.retire = {}] \in Calls
    BY <1>0 DEF Calls
  <2>2. act' \in [Actors -> Calls]
    BY <1>0, <1>6, <2>1, CallType, StartTypes DEF Remember, TypeInv, GateTypeOK
  <2>3. RowType'
    BY <1>0, <1>6 DEF Remember, RowType, rowVars
  <2>4. [subject |-> act[w].subject, epoch |-> act[w].epoch]
            \in [subject : Subjects, epoch : 0 .. 2]
    BY <1>0, <1>6 DEF Remember, Calls
  <2>5. permits' \subseteq [subject : Subjects, epoch : 0 .. 2]
    BY <1>0, <1>6, <2>4, KeptType DEF Remember
  <2> QED BY <1>0, <1>6, <2>2, <2>3, <2>5, CallStep DEF Remember
<1> QED BY <1>1, <1>2, <1>3, <1>4, <1>5, <1>6 DEF Work

\* ... of a control thread,
LEMMA TypeControl ==
    ASSUME TypeInv, NEW c \in Controls, ControlOpen(c)
    PROVE  TypeInv'
<1>1. RowType /\ c \in Actors /\ late \in Nat
      /\ permits \subseteq [subject : Subjects, epoch : 0 .. 2]
  BY DEF TypeInv, GateTypeOK, RowType, Actors
<1> QED BY <1>1, OpenType, CallStep DEF ControlOpen

\* The activation's steps leave the gate, the calls and the table alone, except
\* for the drain, the write lock and, once, the closure signal
UpdateAny == DrainLock \/ CancelBegin \/ UpdateStep \/ DrainDeadline \/ CancelDrain

\* What the steps of the activation leave alone
LEMMA UpdateFrame ==
    ASSUME TypeInv, UpdateAny
    PROVE  /\ UNCHANGED <<status, latched, epoch, lease, draft, minted, permits, act, late>>
           /\ \/ UNCHANGED <<published, closure, closing>>
              \/ Publish
BY DEF UpdateAny, UpdateStep, DrainLock, CancelBegin, DrainSnapshot, BeginDrain,
       CheckDrain, ReadActive, Decide, Activate, ReleaseDrain, DrainDeadline,
       CancelDrain, gateVars, rowVars

\* The activation goes on to another step
LEMMA MoveType ==
    ASSUME TypeInv,
           NEW pc \in {"begun", "opening", "checking", "reading", "counted",
                       "activating", "activated", "releasing"},
           Move(pc)
    PROVE  upd' \in Activations
BY DEF Move, TypeInv, GateTypeOK, Activations

\* Updates of the activation's record, field by field
LEMMA UpdateRecord ==
    ASSUME NEW u \in Activations,
           NEW pc \in {"begun", "checking"},
           NEW r \in 0 .. 3, NEW m \in 0 .. 2, NEW S \in SUBSET Subjects
    PROVE  /\ [u EXCEPT !.pc = pc, !.round = r] \in Activations
           /\ [u EXCEPT !.pc = pc, !.round = r, !.allowed = S] \in Activations
BY DEF Activations

\* The permit of a drain is typed
LEMMA UpdatePermit ==
    ASSUME NEW u \in Activations, NEW m \in 0 .. 2
    PROVE  [u EXCEPT !.pc = "checking", !.permit = m] \in Activations
BY DEF Activations

\* Types are kept by each step of the activation,
LEMMA UpdateType ==
    ASSUME TypeInv, UpdateAny
    PROVE  upd' \in Activations
<1>0. upd \in Activations /\ NoDrainLease \in Activations /\ epoch \in 0 .. 2
  BY StartTypes DEF TypeInv, GateTypeOK
<1>1. CASE DrainLock
  <2>1. [NoDrainLease EXCEPT !.pc = "begun", !.round = 1,
                             !.allowed = ActiveIn(lease)] \in Activations
    <3>1. 1 \in 0 .. 3 /\ ActiveIn(lease) \in SUBSET Subjects
      BY ActiveFinite
    <3> QED BY <1>0, <3>1, UpdateRecord
  <2> QED BY <1>1, <2>1 DEF DrainLock
<1>2. CASE CancelBegin
  BY <1>0, <1>2 DEF CancelBegin, Activations
<1>3. CASE DrainSnapshot
  <2>1. CASE Critical /\ Begun(0)
    <3>0. 0 \in 0 .. 2
      OBVIOUS
    <3>1. [upd EXCEPT !.pc = "checking", !.permit = 0] \in Activations
      BY <1>0, <3>0, UpdatePermit
    <3> QED BY <1>0, <2>1, <3>1 DEF Begun
  <2>2. CASE Move("opening")
    BY <2>2, MoveType
  <2> QED BY <1>3, <2>1, <2>2 DEF DrainSnapshot
<1>4. CASE BeginDrain
  <2>1. [upd EXCEPT !.pc = "checking", !.permit = epoch] \in Activations
    BY <1>0 DEF Activations
  <2> QED BY <1>0, <1>4, <2>1 DEF BeginDrain, Begun
<1>5. CASE CheckDrain
  BY <1>5, MoveType DEF CheckDrain
<1>6. CASE ReadActive
  <2>1. [upd EXCEPT !.pc = "counted", !.count = Cardinality(ActiveIn(lease))] \in Activations
    BY <1>0, ActiveFinite DEF Activations
  <2> QED BY <1>6, <2>1, MoveType DEF ReadActive
<1>7. CASE Decide
  <2>1. /\ [upd EXCEPT !.pc = "releasing"] \in Activations
        /\ [upd EXCEPT !.pc = "activating"] \in Activations
        /\ [upd EXCEPT !.pc = "checking"] \in Activations
    BY <1>0 DEF Activations
  <2>0. upd.round \in 0 .. 3
    BY <1>0 DEF Activations
  <2>2. ASSUME upd.round # 3
        PROVE  [upd EXCEPT !.pc = "checking", !.round = @ + 1] \in Activations
    <3>1. upd.round + 1 \in 0 .. 3
      BY <2>0, <2>2
    <3> QED BY <1>0, <3>1, UpdateRecord
  <2> QED BY <1>7, <2>1, <2>2 DEF Decide
<1>8. CASE Activate
  BY <1>8, MoveType DEF Activate
<1>9. CASE ReleaseDrain
  BY <1>0, <1>9 DEF ReleaseDrain
<1>10. CASE DrainDeadline
  BY <1>0, <1>10 DEF DrainDeadline, Activations
<1>11. CASE CancelDrain
  BY <1>11, MoveType DEF CancelDrain
<1> QED BY <1>1, <1>2, <1>3, <1>4, <1>5, <1>6, <1>7, <1>8, <1>9, <1>10, <1>11
        DEF UpdateAny, UpdateStep

\* ... by all of them,
LEMMA TypeUpdate ==
    ASSUME TypeInv, UpdateAny
    PROVE  TypeInv'
<1>1. UNCHANGED <<status, latched, epoch, lease, draft, minted, permits, act, late>>
  BY UpdateFrame
<1>2. published' \in BOOLEAN /\ closure' \in BOOLEAN
      /\ closing' \subseteq {"report", "request"}
      /\ (closure => closure') /\ (closing' # {} => closure')
  BY UpdateFrame DEF Publish, TypeInv, GateTypeOK, EpochInv
<1>3. drain' \in 0 .. 2 /\ allowed' \subseteq Subjects
  BY DEF UpdateAny, UpdateStep, DrainLock, CancelBegin, DrainSnapshot, BeginDrain,
         CheckDrain, ReadActive, Decide, Activate, ReleaseDrain, DrainDeadline,
         CancelDrain, drainVars, TypeInv, GateTypeOK, Activations
<1>4. writer' \in Actors \cup {"updater", "none"} /\ orphaned' \in BOOLEAN
  BY DEF UpdateAny, UpdateStep, DrainLock, CancelBegin, DrainSnapshot, BeginDrain,
         Begun, CheckDrain, ReadActive, Decide, Activate, ReleaseDrain,
         DrainDeadline, CancelDrain, rowVars, TypeInv, GateTypeOK
<1>5. upd' \in Activations
  BY UpdateType
<1>6. GateTypeOK'
  BY <1>1, <1>2, <1>3, <1>4, <1>5 DEF TypeInv, GateTypeOK
<1>7. EpochInv'
  BY <1>1, <1>2 DEF TypeInv, EpochInv
<1> QED BY <1>6, <1>7 DEF TypeInv

\* ... by a restart,
LEMMA TypeRestart == TypeInv /\ Restart => TypeInv'
<1> SUFFICES ASSUME TypeInv, Restart PROVE TypeInv'
  OBVIOUS
<1>1. act' \in [Actors -> Calls] /\ upd' \in Activations
  BY StartTypes DEF Restart
<1>2. lease' \in [Jobs -> 0 .. MaxLeases] /\ draft' \in [Jobs -> 0 .. MaxLeases]
      /\ minted' \in 0 .. MaxLeases
  BY DEF Restart, TypeInv, GateTypeOK
<1>3. permits' \subseteq [subject : Subjects, epoch : 0 .. 2] /\ allowed' \subseteq Subjects
  BY DEF Restart
<1>4. EpochInv'
  BY DEF Restart, EpochInv
<1>5. /\ status' \in {"critical", "healthy"} /\ epoch' \in 0 .. 2 /\ drain' \in 0 .. 2
      /\ closing' \subseteq {"report", "request"} /\ late' \in Nat
      /\ writer' \in Actors \cup {"updater", "none"}
  BY DEF Restart
<1>6. latched' \in BOOLEAN /\ closure' \in BOOLEAN /\ published' \in BOOLEAN
        /\ orphaned' \in BOOLEAN
  BY DEF Restart
<1> QED BY <1>1, <1>2, <1>3, <1>4, <1>5, <1>6 DEF TypeInv, GateTypeOK

\* ... and so by every step
LEMMA TypeStep == TypeInv /\ [Next]_vars => TypeInv'
<1> SUFFICES ASSUME TypeInv, [Next]_vars PROVE TypeInv'
  OBVIOUS
<1>1. CASE UNCHANGED vars
  BY <1>1 DEF vars, gateVars, drainVars, rowVars, TypeInv, GateTypeOK, EpochInv
<1> QED
  BY <1>1, TypeGate, TypeTransact, TypeWork, TypeControl, TypeUpdate, TypeRestart
  DEF Next, UpdateAny

\* The gate, the job table, the permit map and the activation stay well typed,
\* and the epoch moves only by the first healthy report and the first closure
\* (record_report, _apply_requested_critical).
THEOREM GateTypeCorrect == Spec => []GateTypeOK
<1>1. Spec => []TypeInv
  BY TypeInit, TypeStep, PTL DEF Spec
<1> QED BY <1>1, PTL DEF TypeInv

-----------------------------------------------------------------------------
(* One writer at a time. *)

Writing(a) == act[a].pc \in {"open", "sealed"}

\* Whoever is between BEGIN and COMMIT holds the write lock
Locked ==
    /\ \A a \in Actors : Writing(a) => writer = a
    /\ upd.pc \in {"begun", "opening"} => writer = "updater"

\* A step of one call leaves the other calls alone
LEMMA CallEffect ==
    ASSUME TypeInv, NEW a \in Actors, NEW c, Call(a, c)
    PROVE  /\ act'[a] = c
           /\ \A b \in Actors : b # a => act'[b] = act[b]
BY DEF Call, TypeInv, GateTypeOK

\* The owner of the write lock: kept when a transaction opens,
LEMMA LockedOpen ==
    ASSUME TypeInv, Locked, NEW a \in Actors, writer = "none", writer' = a,
           NEW c, Call(a, c), UNCHANGED upd
    PROVE  Locked'
<1>1. \A b \in Actors : b # a => act'[b] = act[b]
  BY CallEffect
<1>2. a # "none" /\ \A b \in Actors : b # "none" /\ b # "updater"
  BY GateAssumption DEF Actors
<1> QED BY <1>1, <1>2 DEF Locked, Writing

\* ... when a call gives up,
LEMMA LockedAbandon ==
    ASSUME TypeInv, Locked, NEW a \in Actors, Abandon(a), UNCHANGED upd
    PROVE  Locked'
<1>1. act'[a] = Idle /\ \A b \in Actors : b # a => act'[b] = act[b]
  BY CallEffect DEF Abandon
<1>2. ~Writing(a)'
  BY <1>1 DEF Writing, Idle
<1>3. writer' = (IF writer = a THEN "none" ELSE writer) /\ a # "updater"
  BY GateAssumption DEF Abandon, Actors
<1> QED BY <1>1, <1>2, <1>3 DEF Locked, Writing

\* ... inside a transaction,
LEMMA LockedTransact ==
    ASSUME TypeInv, Locked, NEW a \in Actors, Transact(a)
    PROVE  Locked'
<1>0. act[a] \in Calls /\ a # "updater"
  BY GateAssumption DEF TypeInv, GateTypeOK, Actors
<1>00. act \in [Actors -> Calls]
  BY DEF TypeInv, GateTypeOK
<1>1. CASE Ask(a)
  <2>1. act'[a].pc = "asking"
    BY <1>00, <1>1 DEF Ask, Call, Idle
  <2> QED BY <1>1, <2>1, CallEffect DEF Ask, Locked, Writing, rowVars
<1>2. CASE Seal(a)
  BY <1>2, CallEffect DEF Seal, Locked, Writing, rowVars
<1>3. CASE Refuse(a)
  BY <1>3, LockedAbandon DEF Refuse
<1>4. CASE Commit(a)
  <2>1. act'[a].pc = "committed"
    <3>1. act'[a] = [act[a] EXCEPT !.pc = "committed",
                                   !.retire = ActiveIn(lease) \ ActiveIn(draft)]
      BY <1>00, <1>4 DEF Commit, Call
    <3> QED BY <1>0, <3>1 DEF Calls
  <2> QED BY <1>0, <1>4, <2>1, CallEffect DEF Commit, Locked, Writing
<1>5. CASE Retire(a)
  <2>1. act'[a].pc \in {"owning", "idle"}
    <3>1. \/ act'[a] = [act[a] EXCEPT !.pc = "owning", !.retire = {}]
          \/ act'[a] = Idle
      BY <1>00, <1>5 DEF Retire, Call
    <3> QED BY <1>0, <3>1, StartFields DEF Calls
  <2> QED BY <1>5, <2>1, CallEffect DEF Retire, Locked, Writing, rowVars
<1> QED BY <1>1, <1>2, <1>3, <1>4, <1>5 DEF Transact

\* ... by a worker,
LEMMA LockedWork ==
    ASSUME TypeInv, Locked, NEW w \in Workers, Work(w)
    PROVE  Locked'
<1>0. w \in Actors /\ act[w] \in Calls
  BY DEF TypeInv, GateTypeOK, Actors
<1>00. act \in [Actors -> Calls]
  BY DEF TypeInv, GateTypeOK
<1>1. CASE LeaseNothing(w)
  BY <1>0, <1>1, LockedOpen DEF LeaseNothing, OpenWith
<1>2. CASE LeaseJob(w)
  BY <1>0, <1>2, LockedOpen, LockedAbandon DEF LeaseJob
<1>3. CASE EnterExecution(w)
  <2>0. PICK p \in permits :
          \/ Call(w, [act[w] EXCEPT !.pc = "asking", !.kind = "cow"])
          \/ Call(w, [act[w] EXCEPT !.pc = "asking", !.kind = "job",
                                    !.epoch = p.epoch])
    BY <1>3 DEF EnterExecution
  <2>1. act'[w].pc = "asking" /\ \A b \in Actors : b # w => act'[b] = act[b]
    <3>1. \/ act'[w] = [act[w] EXCEPT !.pc = "asking", !.kind = "cow"]
          \/ act'[w] = [act[w] EXCEPT !.pc = "asking", !.kind = "job",
                                      !.epoch = p.epoch]
      BY <1>0, <1>00, <2>0 DEF Call
    <3>2. \A b \in Actors : b # w => act'[b] = act[b]
      BY <1>0, <1>00, <2>0 DEF Call
    <3> QED BY <1>0, <3>1, <3>2 DEF Calls
  <2> QED BY <1>3, <2>1 DEF EnterExecution, Locked, Writing, rowVars
<1>4. CASE LeaveJob(w)
  BY <1>0, <1>4, LockedAbandon DEF LeaveJob
<1>5. CASE ExecutionOpen(w)
  BY <1>0, <1>5, LockedOpen DEF ExecutionOpen, OpenWith
<1>6. CASE Remember(w)
  <2>1. act'[w].pc \in {"owning", "idle"} /\ \A b \in Actors : b # w => act'[b] = act[b]
    <3>1. \/ act'[w] = [act[w] EXCEPT !.pc = "owning", !.retire = {}]
          \/ act'[w] = Idle
      BY <1>0, <1>00, <1>6 DEF Remember, Call
    <3>2. \A b \in Actors : b # w => act'[b] = act[b]
      BY <1>0, <1>00, <1>6 DEF Remember, Call
    <3> QED BY <1>0, <3>1, <3>2, StartFields DEF Calls
  <2> QED BY <1>6, <2>1 DEF Remember, Locked, Writing, rowVars
<1> QED BY <1>1, <1>2, <1>3, <1>4, <1>5, <1>6 DEF Work

\* ... by the activation,
LEMMA LockedUpdate ==
    ASSUME TypeInv, Locked, UpdateAny
    PROVE  Locked'
<1>1. UNCHANGED act /\ upd \in Activations
  BY UpdateFrame DEF TypeInv, GateTypeOK
<1>2. \A a \in Actors : a # "none" /\ a # "updater"
  BY GateAssumption DEF Actors
<1>3. CASE DrainLock
  BY <1>1, <1>2, <1>3 DEF DrainLock, Locked, Writing
<1>4. CASE DrainSnapshot
  <2>1. CASE Begun(0)
    <3>1. upd'.pc \in {"idle", "checking"}
      BY <1>1, <2>1 DEF Begun, NoDrainLease, Activations
    <3> QED BY <1>1, <1>2, <1>4, <3>1 DEF DrainSnapshot, Locked, Writing
  <2>2. CASE Move("opening") /\ UNCHANGED writer
    BY <1>1, <1>4, <2>2 DEF DrainSnapshot, Locked, Writing
  <2> QED BY <1>4, <2>1, <2>2 DEF DrainSnapshot
<1>5. CASE BeginDrain
  <2>1. upd'.pc \in {"idle", "checking"}
    <3>1. \/ upd' = [upd EXCEPT !.pc = "checking", !.permit = epoch]
          \/ upd' = NoDrainLease
      BY <1>5 DEF BeginDrain, Begun
    <3> QED BY <1>1, <3>1, StartFields DEF Activations
  <2> QED BY <1>1, <1>2, <1>5, <2>1 DEF BeginDrain, Locked, Writing
<1>6. CASE CancelBegin
  BY <1>1, <1>6 DEF CancelBegin, Locked, Writing, rowVars, Activations
<1>7. CASE CheckDrain \/ ReadActive \/ Decide \/ Activate \/ ReleaseDrain
             \/ DrainDeadline \/ CancelDrain
  <2>1. UNCHANGED writer
    BY <1>7 DEF CheckDrain, ReadActive, Decide, Activate, ReleaseDrain,
                DrainDeadline, CancelDrain, rowVars
  <2>2. upd'.pc \notin {"begun", "opening"}
    <3>1. CASE CheckDrain \/ Activate \/ CancelDrain
      BY <1>1, <3>1 DEF CheckDrain, Activate, CancelDrain, Move, Activations
    <3>2. CASE ReadActive
      <4>1. \/ upd' = [upd EXCEPT !.pc = "counted", !.count = Cardinality(ActiveIn(lease))]
            \/ upd' = [upd EXCEPT !.pc = "releasing"]
        BY <3>2 DEF ReadActive, Move
      <4> QED BY <1>1, <4>1 DEF Activations
    <3>3. CASE Decide
      <4>1. \/ \E x \in {"releasing", "activating", "checking"} : upd' = [upd EXCEPT !.pc = x]
            \/ upd' = [upd EXCEPT !.pc = "checking", !.round = @ + 1]
        BY <3>3 DEF Decide
      <4> QED BY <1>1, <4>1 DEF Activations
    <3>4. CASE ReleaseDrain
      BY <3>4 DEF ReleaseDrain, NoDrainLease
    <3>5. CASE DrainDeadline
      BY <1>1, <3>5 DEF DrainDeadline, Activations
    <3> QED BY <1>7, <3>1, <3>2, <3>3, <3>4, <3>5
  <2> QED BY <1>1, <2>1, <2>2 DEF Locked, Writing
<1> QED BY <1>3, <1>4, <1>5, <1>6, <1>7 DEF UpdateAny, UpdateStep

\* ... and so by every step
LEMMA LockedStep == TypeInv /\ Locked /\ [Next]_vars => Locked'
<1> SUFFICES ASSUME TypeInv, Locked, [Next]_vars PROVE Locked'
  OBVIOUS
<1>1. CASE UNCHANGED vars \/ Gate
  BY <1>1 DEF vars, gateVars, drainVars, rowVars, Locked, Writing, Gate,
              HealthyReport, ViolationReport, RequestCritical, ApplyClosure
<1>2. ASSUME NEW c \in Controls, ControlOpen(c) PROVE Locked'
  BY <1>2, LockedOpen DEF ControlOpen, OpenWith, Actors
<1>3. CASE Restart
  BY <1>3 DEF Restart, Locked, Writing, Idle, NoDrainLease
<1> QED BY <1>1, <1>2, <1>3, LockedTransact, LockedWork, LockedUpdate DEF Next, UpdateAny

-----------------------------------------------------------------------------
(* A drained runtime stays idle. *)

\* The activation holds its drain, or has found the gate closed
Holding == upd.pc \in {"checking", "reading", "counted", "activating", "activated"}

\* Open transactions hand out no lease: those that could were shut out when the
\* drain began under the write lock, and the gate refuses new ones since
NoNewLease ==
    Holding => \A a \in Actors : Writing(a) => ActiveIn(draft) \subseteq ActiveIn(lease)

DrainInv ==
    /\ upd.pc # "idle" => epoch > 0
    /\ upd.pc \in {"begun", "opening"} => upd.round = 1
    /\ Holding => IF upd.permit = 0 THEN closure ELSE drain = upd.permit
    /\ NoNewLease
    /\ upd.pc = "counted" /\ upd.count = 0 => ActiveIn(lease) = {}
    /\ DrainedStaysIdle

\* A call's step keeps the invariant if it adds no lease while a drain is held
LEMMA DrainCall ==
    ASSUME DrainInv, UNCHANGED <<gateVars, drainVars, upd>>,
           Holding => ActiveIn(lease') \subseteq ActiveIn(lease),
           Holding => \A a \in Actors : Writing(a)' => ActiveIn(draft') \subseteq ActiveIn(lease')
    PROVE  DrainInv'
<1>1. NoNewLease'
  BY DEF NoNewLease, Holding, ActiveIn
<1>2. DrainedStaysIdle'
  BY DEF DrainInv, DrainedStaysIdle, Holding, ActiveIn
<1>3. upd'.pc = "counted" /\ upd'.count = 0 => ActiveIn(lease)' = {}
  BY DEF DrainInv, Holding, ActiveIn
<1> QED BY <1>1, <1>2, <1>3 DEF DrainInv, Holding, gateVars, drainVars

\* Steps that leave the rows alone and start no transaction
LEMMA DrainQuiet ==
    ASSUME DrainInv, UNCHANGED <<gateVars, drainVars, upd, lease, draft>>,
           \A a \in Actors : Writing(a)' => Writing(a)
    PROVE  DrainInv'
<1>1. Holding => \A a \in Actors : Writing(a)' => ActiveIn(draft') \subseteq ActiveIn(lease')
  BY DEF DrainInv, NoNewLease
<1> QED BY <1>1, DrainCall

\* The drain: kept when a call gives up,
LEMMA DrainAbandon ==
    ASSUME TypeInv, Locked, DrainInv, NEW a \in Actors, Abandon(a),
           UNCHANGED <<gateVars, drainVars, upd, lease>>
    PROVE  DrainInv'
<1>1. act'[a] = Idle /\ \A b \in Actors : b # a => act'[b] = act[b]
  BY CallEffect DEF Abandon
<1>2. ASSUME NEW b \in Actors, Writing(b)'
      PROVE  Writing(b) /\ draft' = draft
  <2>1. b # a
    BY <1>1, <1>2, StartFields DEF Writing
  <2>2. Writing(b)
    BY <1>1, <1>2, <2>1 DEF Writing
  <2> QED BY <2>1, <2>2 DEF Locked, Abandon
<1>3. Holding => \A b \in Actors : Writing(b)' => ActiveIn(draft') \subseteq ActiveIn(lease')
  BY <1>2 DEF DrainInv, NoNewLease
<1> QED BY <1>3, DrainCall

\* ... when a transaction opens,
LEMMA DrainOpen ==
    ASSUME TypeInv, DrainInv, NEW a \in Actors, NEW gone, NEW pc,
           OpenWith(a, Free(gone), pc), UNCHANGED <<gateVars, drainVars, upd, lease>>
    PROVE  DrainInv'
<1>1. ActiveIn(draft') \subseteq ActiveIn(lease')
  BY FreeShrinks DEF OpenWith, TypeInv, GateTypeOK
<1> QED BY <1>1, DrainCall

\* ... inside a transaction,
LEMMA DrainTransact ==
    ASSUME TypeInv, Locked, DrainInv, NEW a \in Actors, Transact(a)
    PROVE  DrainInv'
<1>0. act \in [Actors -> Calls] /\ act[a] \in Calls
  BY DEF TypeInv, GateTypeOK
<1>1. CASE Ask(a)
  <2>1. act'[a].pc = "asking" /\ \A b \in Actors : b # a => act'[b] = act[b]
    BY <1>0, <1>1 DEF Ask, Call, Idle
  <2>2. \A b \in Actors : Writing(b)' => Writing(b)
    BY <2>1 DEF Writing
  <2> QED BY <1>1, <2>2, DrainQuiet DEF Ask, rowVars
<1>2. CASE Seal(a)
  <2>1. \A b \in Actors : b # a => act'[b] = act[b]
    BY <1>0, <1>2 DEF Seal, Call
  <2>2. \A b \in Actors : Writing(b)' => Writing(b)
    BY <1>2, <2>1 DEF Writing, Seal
  <2> QED BY <1>2, <2>2, DrainQuiet DEF Seal, rowVars
<1>3. CASE Refuse(a)
  BY <1>3, DrainAbandon DEF Refuse
<1>4. CASE Commit(a)
  <2>1. Holding => ActiveIn(lease') \subseteq ActiveIn(lease)
    BY <1>4 DEF Commit, DrainInv, NoNewLease, Writing
  <2>2. ActiveIn(draft') \subseteq ActiveIn(lease')
    BY <1>4 DEF Commit
  <2> QED BY <1>4, <2>1, <2>2, DrainCall DEF Commit
<1>5. CASE Retire(a)
  <2>1. \/ act'[a] = [act[a] EXCEPT !.pc = "owning", !.retire = {}]
        \/ act'[a] = Idle
    BY <1>0, <1>5 DEF Retire, Call
  <2>2. \A b \in Actors : b # a => act'[b] = act[b]
    BY <1>0, <1>5 DEF Retire, Call
  <2>3. act'[a].pc \in {"owning", "idle"}
    BY <1>0, <2>1, StartFields DEF Calls
  <2>4. \A b \in Actors : Writing(b)' => Writing(b)
    BY <2>2, <2>3 DEF Writing
  <2> QED BY <1>5, <2>4, DrainQuiet DEF Retire, rowVars
<1> QED BY <1>1, <1>2, <1>3, <1>4, <1>5 DEF Transact

\* Neither a drained nor a closed gate lets lease_next prepare a permit
LEMMA DrainClosesGate ==
    ASSUME TypeInv, DrainInv, Holding PROVE ~Open
BY DEF DrainInv, Open, TypeInv, EpochInv

\* ... by a worker
LEMMA DrainWork ==
    ASSUME TypeInv, Locked, DrainInv, NEW w \in Workers, Work(w)
    PROVE  DrainInv'
<1>0. w \in Actors /\ act \in [Actors -> Calls] /\ act[w] \in Calls
  BY DEF TypeInv, GateTypeOK, Actors
<1>1. CASE LeaseNothing(w)
  BY <1>0, <1>1, DrainOpen DEF LeaseNothing
<1>2. CASE LeaseJob(w)
  <2>1. CASE Holding
    <3>1. Abandon(w)
      BY <1>2, <2>1, DrainClosesGate DEF LeaseJob
    <3> QED BY <1>0, <1>2, <3>1, DrainAbandon DEF LeaseJob
  <2>2. CASE ~Holding
    BY <1>2, <2>2, DrainCall DEF LeaseJob
  <2> QED BY <2>1, <2>2
<1>3. CASE EnterExecution(w)
  <2>0. PICK p \in permits :
          \/ Call(w, [act[w] EXCEPT !.pc = "asking", !.kind = "cow"])
          \/ Call(w, [act[w] EXCEPT !.pc = "asking", !.kind = "job",
                                    !.epoch = p.epoch])
    BY <1>3 DEF EnterExecution
  <2>1. \/ act'[w] = [act[w] EXCEPT !.pc = "asking", !.kind = "cow"]
        \/ act'[w] = [act[w] EXCEPT !.pc = "asking", !.kind = "job",
                                    !.epoch = p.epoch]
    BY <1>0, <2>0 DEF Call
  <2>2. \A b \in Actors : b # w => act'[b] = act[b]
    BY <1>0, <2>0 DEF Call
  <2>3. act'[w].pc = "asking"
    BY <1>0, <2>1 DEF Calls
  <2>4. \A b \in Actors : Writing(b)' => Writing(b)
    BY <2>2, <2>3 DEF Writing
  <2> QED BY <1>3, <2>4, DrainQuiet DEF EnterExecution, rowVars
<1>4. CASE LeaveJob(w)
  BY <1>0, <1>4, DrainAbandon DEF LeaveJob
<1>5. CASE ExecutionOpen(w)
  BY <1>0, <1>5, DrainOpen DEF ExecutionOpen
<1>6. CASE Remember(w)
  <2>1. \/ act'[w] = [act[w] EXCEPT !.pc = "owning", !.retire = {}]
        \/ act'[w] = Idle
    BY <1>0, <1>6 DEF Remember, Call
  <2>2. \A b \in Actors : b # w => act'[b] = act[b]
    BY <1>0, <1>6 DEF Remember, Call
  <2>3. act'[w].pc \in {"owning", "idle"}
    BY <1>0, <2>1, StartFields DEF Calls
  <2>4. \A b \in Actors : Writing(b)' => Writing(b)
    BY <2>2, <2>3 DEF Writing
  <2> QED BY <1>6, <2>4, DrainQuiet DEF Remember, rowVars
<1> QED BY <1>1, <1>2, <1>3, <1>4, <1>5, <1>6 DEF Work

\* The activation's own steps, by what they do to its record
LEMMA DrainUpdate ==
    ASSUME TypeInv, Locked, DrainInv, UpdateAny
    PROVE  DrainInv'
<1>0. /\ UNCHANGED <<status, latched, epoch, lease, draft, minted, permits, act, late>>
      /\ closure => closure'
      /\ upd \in Activations /\ epoch \in 0 .. 2
      /\ \A a \in Actors : a # "updater" /\ a # "none"
  BY UpdateFrame, GateAssumption DEF Publish, TypeInv, GateTypeOK, Actors
<1>1. \A a \in Actors : Writing(a)' <=> Writing(a)
  BY <1>0 DEF Writing
\* The move within a held drain that keeps permit, round and count
<1>2. ASSUME Holding, UNCHANGED drain,
             upd'.permit = upd.permit, upd'.round = upd.round,
             upd'.pc \in {"checking", "reading", "counted"},
             upd.pc \in {"checking", "reading", "counted"},
             upd'.pc = "counted" /\ upd'.count = 0 => ActiveIn(lease) = {}
      PROVE  DrainInv'
  BY <1>0, <1>1, <1>2 DEF DrainInv, NoNewLease, DrainedStaysIdle, Holding
\* The moves after which no drain is held
<1>3. ASSUME upd'.pc \in {"idle", "releasing"}, upd'.pc # "idle" => upd.pc # "idle"
      PROVE  DrainInv'
  BY <1>0, <1>3 DEF DrainInv, NoNewLease, DrainedStaysIdle, Holding
<1>4. CASE DrainLock
  <2>1. upd'.pc = "begun" /\ upd'.round = 1
    BY <1>4 DEF DrainLock, NoDrainLease
  <2> QED BY <1>0, <1>4, <2>1 DEF DrainLock, DrainInv, NoNewLease, DrainedStaysIdle, Holding
<1>5. CASE CancelBegin
  <2>1. upd'.pc = upd.pc /\ upd'.round = upd.round
    BY <1>0, <1>5 DEF CancelBegin, Activations
  <2> QED BY <1>0, <1>5, <2>1 DEF CancelBegin, DrainInv, NoNewLease, DrainedStaysIdle, Holding
<1>6. ASSUME upd.pc \in {"begun", "opening"},
             upd'.pc = "checking", upd'.round = upd.round,
             IF upd'.permit = 0 THEN closure' ELSE drain' = upd'.permit
      PROVE  DrainInv'
  <2>1. \A a \in Actors : ~Writing(a)
    BY <1>0, <1>6 DEF Locked
  <2> QED BY <1>0, <1>1, <1>6, <2>1 DEF DrainInv, NoNewLease, DrainedStaysIdle, Holding
<1>7. CASE DrainSnapshot
  <2>1. CASE Critical /\ Begun(0) /\ upd.cancelled
    BY <1>3, <2>1, StartFields DEF Begun
  <2>2. CASE Critical /\ Begun(0) /\ ~upd.cancelled
    <3>1. upd' = [upd EXCEPT !.pc = "checking", !.permit = 0]
      BY <2>2 DEF Begun
    <3>2. upd'.pc = "checking" /\ upd'.permit = 0 /\ upd'.round = upd.round
      BY <1>0, <3>1 DEF Activations
    <3>3. upd.pc = "begun"
      BY <1>7 DEF DrainSnapshot
    <3>4. closure
      BY <1>0, <2>2, <3>3 DEF Critical, DrainInv, TypeInv, EpochInv
    <3> QED BY <1>0, <1>6, <3>2, <3>3, <3>4
  <2>3. CASE Move("opening")
    <3>1. upd'.pc = "opening" /\ upd'.round = upd.round
      BY <1>0, <2>3 DEF Move, Activations
    <3> QED BY <1>0, <1>7, <3>1
            DEF DrainSnapshot, DrainInv, NoNewLease, DrainedStaysIdle, Holding
  <2> QED BY <1>7, <2>1, <2>2, <2>3 DEF DrainSnapshot
<1>8. CASE BeginDrain
  <2>0. upd.pc = "opening"
    BY <1>8 DEF BeginDrain
  <2>1. CASE upd' = NoDrainLease
    BY <1>3, <2>1, StartFields
  <2>2. CASE drain' = epoch /\ upd' = [upd EXCEPT !.pc = "checking", !.permit = epoch]
    <3>1. upd'.pc = "checking" /\ upd'.permit = epoch /\ upd'.round = upd.round
      BY <1>0, <2>2 DEF Activations
    <3>2. epoch # 0
      BY <1>0, <2>0 DEF DrainInv
    <3> QED BY <1>6, <2>0, <2>2, <3>1, <3>2
  <2> QED BY <1>8, <2>1, <2>2 DEF BeginDrain, Begun
<1>9. CASE CheckDrain
  <2>1. CASE upd' = [upd EXCEPT !.pc = "reading"]
    <3>1. upd'.pc = "reading" /\ upd'.permit = upd.permit /\ upd'.round = upd.round
      BY <1>0, <2>1 DEF Activations
    <3> QED BY <1>2, <1>9, <3>1 DEF CheckDrain, Holding, drainVars
  <2>2. CASE upd' = [upd EXCEPT !.pc = "releasing"]
    <3>1. upd'.pc = "releasing"
      BY <1>0, <2>2 DEF Activations
    <3> QED BY <1>3, <1>9, <3>1 DEF CheckDrain
  <2> QED BY <1>9, <2>1, <2>2 DEF CheckDrain, Move
<1>10. CASE ReadActive
  <2>1. CASE upd' = [upd EXCEPT !.pc = "counted", !.count = Cardinality(ActiveIn(lease))]
    <3>1. /\ upd'.pc = "counted" /\ upd'.permit = upd.permit /\ upd'.round = upd.round
          /\ upd'.count = Cardinality(ActiveIn(lease))
      BY <1>0, <2>1 DEF Activations
    <3> QED BY <1>2, <1>10, <3>1, ActiveFinite DEF ReadActive, Holding, drainVars
  <2>2. CASE upd' = [upd EXCEPT !.pc = "releasing"]
    <3>1. upd'.pc = "releasing"
      BY <1>0, <2>2 DEF Activations
    <3> QED BY <1>3, <1>10, <3>1 DEF ReadActive
  <2> QED BY <1>10, <2>1, <2>2 DEF ReadActive, Move
<1>11. CASE Decide
  <2>0. upd.pc = "counted" /\ UNCHANGED drain
    BY <1>11 DEF Decide, drainVars
  <2>1. CASE upd' = [upd EXCEPT !.pc = "releasing"]
    <3>1. upd'.pc = "releasing"
      BY <1>0, <2>1 DEF Activations
    <3> QED BY <1>3, <2>0, <3>1
  <2>2. CASE upd.count = 0 /\ upd' = [upd EXCEPT !.pc = "activating"]
    <3>1. upd'.pc = "activating" /\ upd'.permit = upd.permit
      BY <1>0, <2>2 DEF Activations
    <3> QED BY <1>0, <1>1, <2>0, <2>2, <3>1
            DEF DrainInv, NoNewLease, DrainedStaysIdle, Holding
  <2>3. CASE upd.count = 0 /\ upd' = [upd EXCEPT !.pc = "checking", !.round = @ + 1]
    <3>1. upd'.pc = "checking" /\ upd'.permit = upd.permit
      BY <1>0, <2>3 DEF Activations
    <3> QED BY <1>0, <1>1, <2>0, <2>3, <3>1
            DEF DrainInv, NoNewLease, DrainedStaysIdle, Holding
  <2>4. CASE upd' = [upd EXCEPT !.pc = "checking"]
    <3>1. upd'.pc = "checking" /\ upd'.permit = upd.permit /\ upd'.round = upd.round
      BY <1>0, <2>4 DEF Activations
    <3> QED BY <1>2, <2>0, <3>1 DEF Holding
  <2> QED BY <1>11, <2>1, <2>2, <2>3, <2>4 DEF Decide
<1>12. CASE Activate
  <2>1. PICK pc \in {"activated", "releasing"} : upd' = [upd EXCEPT !.pc = pc]
    BY <1>12 DEF Activate, Move
  <2>2. upd'.pc = pc /\ upd'.permit = upd.permit
    BY <1>0, <2>1 DEF Activations
  <2>3. CASE pc = "releasing"
    BY <1>3, <1>12, <2>2, <2>3 DEF Activate
  <2>4. CASE pc = "activated"
    BY <1>0, <1>1, <1>12, <2>2, <2>4
    DEF Activate, drainVars, DrainInv, NoNewLease, DrainedStaysIdle, Holding
  <2> QED BY <2>3, <2>4
<1>13. CASE ReleaseDrain
  BY <1>3, <1>13, StartFields DEF ReleaseDrain
<1>14. CASE DrainDeadline
  <2>1. upd'.pc = upd.pc /\ upd'.permit = upd.permit /\ upd'.round = upd.round
        /\ upd'.count = upd.count
    BY <1>0, <1>14 DEF DrainDeadline, Activations
  <2> QED BY <1>2, <1>14, <2>1 DEF DrainDeadline, Holding, drainVars, DrainInv
<1>15. CASE CancelDrain
  <2>1. upd'.pc = "releasing"
    BY <1>0, <1>15 DEF CancelDrain, Move, Activations
  <2> QED BY <1>3, <1>15, <2>1 DEF CancelDrain
<1> QED BY <1>4, <1>5, <1>7, <1>8, <1>9, <1>10, <1>11, <1>12, <1>13, <1>14, <1>15
        DEF UpdateAny, UpdateStep

\* A closure is never withdrawn and the epoch never moves back
LEMMA DrainGate == TypeInv /\ DrainInv /\ Gate => DrainInv'
<1> SUFFICES ASSUME TypeInv, DrainInv, Gate PROVE DrainInv'
  OBVIOUS
<1>1. /\ UNCHANGED <<drain, lease, draft, act, upd>>
      /\ closure => closure'
      /\ epoch > 0 => epoch' > 0
  BY DEF Gate, HealthyReport, ViolationReport, RequestCritical, Publish,
         ApplyClosure, drainVars, rowVars, TypeInv, GateTypeOK
<1> QED BY <1>1 DEF DrainInv, NoNewLease, DrainedStaysIdle, Holding, Writing

SafeInv == TypeInv /\ Locked /\ DrainInv

\* The invariant holds initially
LEMMA SafeInit == Init => SafeInv
<1> SUFFICES ASSUME Init PROVE SafeInv
  OBVIOUS
<1>1. upd.pc = "idle" /\ \A a \in Actors : act[a].pc = "idle"
  BY StartFields DEF Init
<1>2. Locked
  BY <1>1 DEF Locked, Writing
<1>3. DrainInv
  BY <1>1 DEF DrainInv, NoNewLease, DrainedStaysIdle, Holding
<1> QED BY <1>2, <1>3, TypeInit DEF SafeInv

\* ... and is kept by every step
LEMMA SafeStep == SafeInv /\ [Next]_vars => SafeInv'
<1> SUFFICES ASSUME SafeInv, [Next]_vars PROVE SafeInv'
  OBVIOUS
<1>0. TypeInv /\ Locked /\ DrainInv
  BY DEF SafeInv
<1>1. TypeInv' /\ Locked'
  BY <1>0, TypeStep, LockedStep
<1>2. ASSUME UNCHANGED vars PROVE DrainInv'
  BY <1>0, <1>2 DEF vars, gateVars, drainVars, rowVars, DrainInv, NoNewLease,
                    DrainedStaysIdle, Holding, Writing
<1>3. ASSUME NEW c \in Controls, ControlOpen(c) PROVE DrainInv'
  BY <1>0, <1>3, DrainOpen DEF ControlOpen, Actors
<1>4. ASSUME Restart PROVE DrainInv'
  <2>1. upd'.pc = "idle"
    BY <1>4, StartFields DEF Restart
  <2> QED BY <2>1 DEF DrainInv, NoNewLease, DrainedStaysIdle, Holding
<1>5. DrainInv'
  BY <1>0, <1>2, <1>3, <1>4, DrainGate, DrainTransact, DrainWork, DrainUpdate
  DEF Next, UpdateAny
<1> QED BY <1>1, <1>5 DEF SafeInv

\* No job is leased or running from the moment acquire has counted none until
\* the activation gives its drain back, for any number of workers and jobs: the
\* promise of RuntimeActivationDrainController.
THEOREM DrainedStaysIdleCorrect == Spec => []DrainedStaysIdle
<1>1. Spec => []SafeInv
  BY SafeInit, SafeStep, PTL DEF Spec
<1>2. SafeInv => DrainedStaysIdle
  BY DEF SafeInv, DrainInv
<1> QED BY <1>1, <1>2, PTL

-----------------------------------------------------------------------------
(* One permitted commit after the closure. *)

\* After the late commit nobody has a validated permit left, and the closed
\* gate validates none: only COW turns, which ask no permit, are still sealed
LateInv ==
    /\ OneLateCommit
    /\ late > 0 => /\ closure
                   /\ \A a \in Actors : act[a].pc = "sealed" => act[a].kind = "cow"

\* A call's step keeps the invariant if a call it seals is a COW turn's, or if
\* the gate is not closed
LEMMA LateCall ==
    ASSUME LateInv, TypeInv, NEW a \in Actors, NEW c, Call(a, c),
           UNCHANGED <<closure, late>>,
           c.pc = "sealed" => c.kind = "cow" \/ ~closure
    PROVE  LateInv'
<1>1. act'[a] = c /\ \A b \in Actors : b # a => act'[b] = act[b]
  BY CallEffect
<1> QED BY <1>1 DEF LateInv, OneLateCommit

\* A step of one of the other parts
LEMMA LateFrame ==
    ASSUME LateInv, UNCHANGED <<late, act>>, closure => closure'
    PROVE  LateInv'
BY DEF LateInv, OneLateCommit

\* Late commits: no new one when a call gives up,
LEMMA LateAbandon ==
    ASSUME LateInv, TypeInv, NEW a \in Actors, Abandon(a), UNCHANGED <<closure, late>>
    PROVE  LateInv'
<1>1. Call(a, Idle) /\ Idle.pc # "sealed"
  BY StartFields DEF Abandon
<1> QED BY <1>1, LateCall

\* ... at most one inside a transaction,
LEMMA LateTransact ==
    ASSUME TypeInv, Locked, LateInv, NEW a \in Actors, Transact(a)
    PROVE  LateInv'
<1>0. act \in [Actors -> Calls] /\ act[a] \in Calls /\ late \in Nat
  BY DEF TypeInv, GateTypeOK
<1>1. CASE Ask(a)
  <2>1. PICK k : Call(a, [Idle EXCEPT !.pc = "asking", !.epoch = epoch, !.kind = k])
    BY <1>1 DEF Ask
  <2>2. [Idle EXCEPT !.pc = "asking", !.epoch = epoch, !.kind = k].pc = "asking"
    BY DEF Idle
  <2> QED BY <1>1, <2>1, <2>2, LateCall DEF Ask, gateVars
<1>2. CASE Seal(a)
  BY <1>2, LateCall DEF Seal, PermitValid, gateVars
<1>3. CASE Refuse(a)
  BY <1>3, LateAbandon DEF Refuse, gateVars
<1>4. CASE Commit(a)
  <2> DEFINE c == [act[a] EXCEPT !.pc = "committed",
                                 !.retire = ActiveIn(lease) \ ActiveIn(draft)]
  <2>1. c.pc = "committed"
    BY <1>0 DEF Calls
  <2>2. act'[a] = c /\ \A b \in Actors : b # a => act'[b] = act[b]
    BY <1>4, CallEffect DEF Commit
  <2>3. \A b \in Actors : act'[b].pc # "sealed"
    BY <1>4, <2>1, <2>2 DEF Commit, Locked, Writing
  <2>4. closure /\ act[a].kind # "cow" => late = 0
    BY <1>0, <1>4 DEF Commit, LateInv
  <2>5. UNCHANGED closure /\ late' = IF closure /\ act[a].kind # "cow" THEN late + 1 ELSE late
    BY <1>4 DEF Commit, gateVars
  <2> QED BY <1>0, <2>3, <2>4, <2>5 DEF LateInv, OneLateCommit
<1>5. CASE Retire(a)
  <2>1. PICK c \in {[act[a] EXCEPT !.pc = "owning", !.retire = {}], Idle} : Call(a, c)
    BY <1>5 DEF Retire
  <2>2. c.pc \in {"owning", "idle"}
    BY <1>0, <2>1, StartFields DEF Calls
  <2> QED BY <1>5, <2>1, <2>2, LateCall DEF Retire, gateVars
<1> QED BY <1>1, <1>2, <1>3, <1>4, <1>5 DEF Transact

\* ... when a transaction opens,
LEMMA LateOpen ==
    ASSUME TypeInv, LateInv, NEW a \in Actors, NEW rows, NEW pc,
           OpenWith(a, rows, pc), UNCHANGED <<closure, late>>,
           pc = "sealed" => act[a].kind = "cow"
    PROVE  LateInv'
<1>1. Call(a, [act[a] EXCEPT !.pc = pc]) /\ act[a] \in Calls
  BY DEF OpenWith, TypeInv, GateTypeOK
<1>2. /\ [act[a] EXCEPT !.pc = pc].pc = pc
      /\ [act[a] EXCEPT !.pc = pc].kind = act[a].kind
  BY <1>1 DEF Calls
<1> QED BY <1>1, <1>2, LateCall

\* ... by a worker between its transactions,
LEMMA LateWork ==
    ASSUME TypeInv, LateInv, NEW w \in Workers, Work(w)
    PROVE  LateInv'
<1>0. w \in Actors /\ act[w] \in Calls
  BY DEF TypeInv, GateTypeOK, Actors
<1>1. UNCHANGED <<closure, late>>
  BY DEF Work, LeaseNothing, LeaseJob, EnterExecution, LeaveJob, ExecutionOpen,
         Remember, gateVars
<1>2. CASE LeaseNothing(w)
  BY <1>0, <1>1, <1>2, LateOpen DEF LeaseNothing
<1>3. CASE LeaseJob(w)
  <2>1. CASE Abandon(w)
    BY <1>0, <1>1, <2>1, LateAbandon
  <2>2. ASSUME NEW j, Call(w, [act[w] EXCEPT !.pc = "open", !.epoch = epoch,
                                             !.subject = <<j, minted + 1>>])
        PROVE  LateInv'
    <3>1. [act[w] EXCEPT !.pc = "open", !.epoch = epoch,
                         !.subject = <<j, minted + 1>>].pc = "open"
      BY <1>0 DEF Calls
    <3> QED BY <1>0, <1>1, <2>2, <3>1, LateCall
  <2> QED BY <1>3, <2>1, <2>2 DEF LeaseJob
<1>4. CASE EnterExecution(w)
  <2>0. PICK p \in permits :
          \/ Call(w, [act[w] EXCEPT !.pc = "asking", !.kind = "cow"])
          \/ Call(w, [act[w] EXCEPT !.pc = "asking", !.kind = "job",
                                    !.epoch = p.epoch])
    BY <1>4 DEF EnterExecution
  <2>1. /\ [act[w] EXCEPT !.pc = "asking", !.kind = "cow"].pc = "asking"
        /\ [act[w] EXCEPT !.pc = "asking", !.kind = "job", !.epoch = p.epoch].pc = "asking"
    BY <1>0 DEF Calls
  <2> QED BY <1>0, <1>1, <2>0, <2>1, LateCall
<1>5. CASE LeaveJob(w)
  BY <1>0, <1>1, <1>5, LateAbandon DEF LeaveJob
<1>6. CASE ExecutionOpen(w)
  BY <1>0, <1>1, <1>6, LateOpen DEF ExecutionOpen
<1>7. CASE Remember(w)
  <2>1. PICK c \in {[act[w] EXCEPT !.pc = "owning", !.retire = {}], Idle} : Call(w, c)
    BY <1>7 DEF Remember
  <2>2. c.pc \in {"owning", "idle"}
    BY <1>0, <2>1, StartFields DEF Calls
  <2> QED BY <1>0, <1>1, <2>1, <2>2, LateCall
<1> QED BY <1>2, <1>3, <1>4, <1>5, <1>6, <1>7 DEF Work

\* ... and so by every step
LEMMA LateStep == TypeInv /\ Locked /\ LateInv /\ [Next]_vars => LateInv'
<1> SUFFICES ASSUME TypeInv, Locked, LateInv, [Next]_vars PROVE LateInv'
  OBVIOUS
<1>1. CASE UNCHANGED vars \/ Gate
  <2>1. UNCHANGED <<late, act>> /\ (closure => closure')
    BY <1>1 DEF vars, gateVars, Gate, HealthyReport, ViolationReport,
                RequestCritical, Publish, ApplyClosure
  <2> QED BY <2>1, LateFrame
<1>2. ASSUME NEW c \in Controls, ControlOpen(c) PROVE LateInv'
  BY <1>2, LateOpen DEF ControlOpen, Actors, gateVars
<1>3. CASE Restart
  BY <1>3 DEF Restart, LateInv, OneLateCommit
<1>4. CASE UpdateAny
  <2>1. /\ UNCHANGED <<late, act>>
        /\ closure' = closure \/ Publish
    BY <1>4, UpdateFrame
  <2>2. closure => closure'
    BY <2>1 DEF Publish
  <2> QED BY <2>1, <2>2, LateFrame
<1> QED BY <1>1, <1>2, <1>3, <1>4, LateTransact, LateWork DEF Next, UpdateAny

\* After the closure is signalled, at most one permitted transaction still
\* commits, the one that holds the write lock with its permit validated,
\* whatever the number of threads that hold permits at that moment: the
\* cutoff that request_critical promises.
THEOREM OneLateCommitCorrect == Spec => []OneLateCommit
<1>1. Init => LateInv
  BY DEF Init, LateInv, OneLateCommit
<1>2. Spec => [](SafeInv /\ LateInv)
  <2>1. Init => SafeInv /\ LateInv
    BY <1>1, SafeInit
  <2>2. SafeInv /\ LateInv /\ [Next]_vars => (SafeInv /\ LateInv)'
    BY SafeStep, LateStep DEF SafeInv
  <2> QED BY <2>1, <2>2, PTL DEF Spec
<1>3. SafeInv /\ LateInv => OneLateCommit
  BY DEF LateInv
<1> QED BY <1>2, <1>3, PTL

-----------------------------------------------------------------------------
(* Every drain of an open gate has a holder. *)

\* A drain belongs to the current epoch until a closure is applied, which is why
\* release finds its own permit valid and can cancel it
HolderInv ==
    /\ drain # 0 /\ ~latched => drain = epoch
    /\ upd.cancelled => orphaned
    /\ DrainHasHolder

\* The holder of a drain: kept by the gate,
LEMMA HolderGate == TypeInv /\ HolderInv /\ Gate => HolderInv'
<1> SUFFICES ASSUME TypeInv, HolderInv, Gate PROVE HolderInv'
  OBVIOUS
<1>1. UNCHANGED <<drain, upd, orphaned>> /\ (closure => closure') /\ (latched => latched')
  BY DEF Gate, HealthyReport, ViolationReport, RequestCritical, Publish,
         ApplyClosure, drainVars
<1>2. drain # 0 /\ ~latched' => drain = epoch'
  BY DEF Gate, HealthyReport, ViolationReport, RequestCritical, Publish,
         ApplyClosure, drainVars, HolderInv, TypeInv, GateTypeOK, EpochInv
<1> QED BY <1>1, <1>2 DEF HolderInv, DrainHasHolder

\* Steps that leave the gate, the drain and the activation alone
LEMMA HolderFrame ==
    ASSUME HolderInv, UNCHANGED <<gateVars, drainVars, upd, orphaned>>
    PROVE  HolderInv'
BY DEF HolderInv, DrainHasHolder, gateVars, drainVars

\* Steps of an activation that keep its permit and its drain
LEMMA HolderKeeps ==
    ASSUME HolderInv, UNCHANGED <<drain, latched, epoch, orphaned>>,
           closure => closure', upd'.permit = upd.permit,
           upd'.cancelled = upd.cancelled,
           upd'.pc \in {"idle", "begun", "opening"}
               => upd.pc \in {"idle", "begun", "opening"}
    PROVE  HolderInv'
BY DEF HolderInv, DrainHasHolder

\* A step of an activation that no holder of a drain can be in
LEMMA HolderEarly ==
    ASSUME HolderInv, UNCHANGED <<drain, latched, closure, epoch, orphaned>>,
           upd.pc \in {"idle", "begun", "opening"}, upd'.cancelled => orphaned
    PROVE  HolderInv'
BY DEF HolderInv, DrainHasHolder

\* ... by the activation,
LEMMA HolderUpdate ==
    ASSUME TypeInv, HolderInv, UpdateAny
    PROVE  HolderInv'
<1>0. /\ UNCHANGED <<latched, epoch>> /\ upd \in Activations
      /\ closure' = closure \/ Publish
  BY UpdateFrame DEF TypeInv, GateTypeOK
<1>1. closure => closure'
  BY <1>0 DEF Publish
<1>2. CASE DrainLock
  <2>1. upd'.cancelled = FALSE
    BY <1>2 DEF DrainLock, NoDrainLease
  <2> QED BY <1>2, <2>1, HolderEarly DEF DrainLock, gateVars, drainVars
<1>3. CASE CancelBegin
  BY <1>0, <1>3 DEF CancelBegin, gateVars, drainVars, HolderInv, DrainHasHolder
<1>4. CASE DrainSnapshot
  <2>1. \/ upd' = NoDrainLease
        \/ ~upd.cancelled /\ upd' = [upd EXCEPT !.pc = "checking", !.permit = 0]
        \/ upd' = [upd EXCEPT !.pc = "opening"]
    BY <1>4 DEF DrainSnapshot, Begun, Move
  <2>2. upd'.cancelled => upd.cancelled
    BY <1>0, <2>1, StartFields DEF Activations
  <2> QED BY <1>4, <2>2, HolderEarly DEF DrainSnapshot, HolderInv, gateVars, drainVars
<1>5. CASE BeginDrain
  <2>1. CASE drain' = epoch /\ Begun(epoch)
    <3>1. CASE upd.cancelled
      BY <1>0, <1>5, <2>1, <3>1, StartFields
      DEF BeginDrain, Begun, gateVars, HolderInv, DrainHasHolder
    <3>2. CASE ~upd.cancelled
      <4>1. upd' = [upd EXCEPT !.pc = "checking", !.permit = epoch]
        BY <2>1, <3>2 DEF Begun
      <4>2. upd'.pc = "checking" /\ upd'.permit = epoch /\ upd'.cancelled = upd.cancelled
        BY <1>0, <4>1 DEF Activations
      <4> QED BY <1>0, <1>5, <2>1, <3>2, <4>2 DEF BeginDrain, HolderInv, DrainHasHolder
    <3> QED BY <3>1, <3>2
  <2>2. CASE UNCHANGED drainVars /\ upd' = NoDrainLease
    BY <1>5, <2>2, StartFields, HolderEarly DEF BeginDrain, gateVars, drainVars
  <2> QED BY <1>5, <2>1, <2>2 DEF BeginDrain
<1>6. ASSUME NEW pc \in {"checking", "reading", "counted", "activating",
                         "activated", "releasing"},
             upd'.pc = pc, upd'.permit = upd.permit, upd'.cancelled = upd.cancelled,
             UNCHANGED <<drain, orphaned>>
      PROVE  HolderInv'
  BY <1>0, <1>1, <1>6, HolderKeeps
<1>7. CASE CheckDrain \/ Activate \/ CancelDrain
  <2>1. PICK pc \in {"reading", "releasing", "activated"} : upd' = [upd EXCEPT !.pc = pc]
    BY <1>7 DEF CheckDrain, Activate, CancelDrain, Move
  <2>2. upd'.pc = pc /\ upd'.permit = upd.permit /\ upd'.cancelled = upd.cancelled
    BY <1>0, <2>1 DEF Activations
  <2>3. UNCHANGED <<drain, orphaned>>
    BY <1>7 DEF CheckDrain, Activate, CancelDrain, drainVars
  <2> QED BY <1>6, <2>2, <2>3
<1>8. CASE ReadActive
  <2>1. \/ upd' = [upd EXCEPT !.pc = "counted", !.count = Cardinality(ActiveIn(lease))]
        \/ upd' = [upd EXCEPT !.pc = "releasing"]
    BY <1>8 DEF ReadActive, Move
  <2>2. /\ upd'.pc \in {"counted", "releasing"} /\ upd'.permit = upd.permit
        /\ upd'.cancelled = upd.cancelled
    BY <1>0, <2>1 DEF Activations
  <2>3. UNCHANGED <<drain, orphaned>>
    BY <1>8 DEF ReadActive, drainVars
  <2> QED BY <1>6, <2>2, <2>3
<1>9. CASE Decide
  <2>1. \/ \E x \in {"releasing", "activating", "checking"} : upd' = [upd EXCEPT !.pc = x]
        \/ upd' = [upd EXCEPT !.pc = "checking", !.round = @ + 1]
    BY <1>9 DEF Decide
  <2>2. /\ upd'.pc \in {"releasing", "activating", "checking"}
        /\ upd'.permit = upd.permit /\ upd'.cancelled = upd.cancelled
    BY <1>0, <2>1 DEF Activations
  <2>3. UNCHANGED <<drain, orphaned>>
    BY <1>9 DEF Decide, drainVars
  <2> QED BY <1>6, <2>2, <2>3
<1>10. CASE DrainDeadline
  <2>1. upd'.pc = upd.pc /\ upd'.permit = upd.permit /\ upd'.cancelled = upd.cancelled
    BY <1>0, <1>10 DEF DrainDeadline, Activations
  <2>2. UNCHANGED <<drain, orphaned>>
    BY <1>10 DEF DrainDeadline, drainVars
  <2> QED BY <1>0, <1>1, <2>1, <2>2, HolderKeeps
<1>11. CASE ReleaseDrain
  <2>1. upd'.cancelled = FALSE /\ UNCHANGED <<closure, orphaned>>
    BY <1>11, StartFields DEF ReleaseDrain, gateVars
  <2>2. drain' = 0 \/ drain' = drain
    BY <1>11 DEF ReleaseDrain, drainVars
  <2>3. ~closure /\ ~orphaned => drain' = 0
    <3> SUFFICES ASSUME ~closure, ~orphaned, drain # 0 PROVE drain' = 0
      BY <2>2
    <3>1. ~latched /\ drain = epoch /\ upd.permit = drain
      BY DEF HolderInv, DrainHasHolder, TypeInv, EpochInv
    <3> QED BY <1>11, <3>1 DEF ReleaseDrain, DrainValid
  <2> QED BY <1>0, <2>1, <2>2, <2>3 DEF HolderInv, DrainHasHolder
<1> QED BY <1>2, <1>3, <1>4, <1>5, <1>7, <1>8, <1>9, <1>10, <1>11
        DEF UpdateAny, UpdateStep

\* ... and so by every step
LEMMA HolderStep == TypeInv /\ HolderInv /\ [Next]_vars => HolderInv'
<1> SUFFICES ASSUME TypeInv, HolderInv, [Next]_vars PROVE HolderInv'
  OBVIOUS
<1>1. ASSUME NEW a \in Actors, Transact(a) PROVE HolderInv'
  BY <1>1, HolderFrame DEF Transact, Ask, Seal, Refuse, Commit, Retire
<1>2. ASSUME NEW w \in Workers, Work(w) PROVE HolderInv'
  BY <1>2, HolderFrame DEF Work, LeaseNothing, LeaseJob, EnterExecution, LeaveJob,
                           ExecutionOpen, Remember
<1>3. ASSUME NEW c \in Controls, ControlOpen(c) PROVE HolderInv'
  BY <1>3, HolderFrame DEF ControlOpen
<1>4. CASE Restart
  BY <1>4, StartFields DEF Restart, HolderInv, DrainHasHolder
<1>5. CASE UNCHANGED vars
  BY <1>5, HolderFrame DEF vars
<1> QED BY <1>1, <1>2, <1>3, <1>4, <1>5, HolderGate, HolderUpdate DEF Next, UpdateAny

\* A gate that drains without being closed is held by an activation that will
\* cancel the drain or has crossed the boundary, unless the activation was
\* cancelled inside _begin: admission cannot stay shut for want of an owner.
THEOREM DrainHasHolderCorrect == Spec => []DrainHasHolder
<1>1. Init => HolderInv
  BY StartFields DEF Init, HolderInv, DrainHasHolder
<1>2. Spec => [](TypeInv /\ HolderInv)
  <2>1. Init => TypeInv /\ HolderInv
    BY <1>1, TypeInit
  <2>2. TypeInv /\ HolderInv /\ [Next]_vars => (TypeInv /\ HolderInv)'
    BY TypeStep, HolderStep
  <2> QED BY <2>1, <2>2, PTL DEF Spec
<1>3. TypeInv /\ HolderInv => DrainHasHolder
  BY DEF HolderInv
<1> QED BY <1>2, <1>3, PTL

-----------------------------------------------------------------------------
(* Permits follow the rows. *)

\* A token of the past: nothing refers to a token that has not been minted
Known(s) == s[2] <= minted

\* The worker goes on under the lease it was handed
Owner(a) == act[a].pc = "owning" \/ act[a].kind \in {"job", "cow"}

HasPermit(s) == \E p \in permits : p.subject = s

\* No call but a's speaks of s
OnlyCall(a, s) ==
    \A b \in Actors : s \notin act[b].retire /\ (b # a => act[b].subject # s)

\* What a call knows of leases: the ones it still has to retire are gone for good,
\* the one it works under has its permit, the one it is about to commit is new
Traced(a) ==
    /\ act[a].subject # NoSubject => Known(act[a].subject)
    /\ \A s \in act[a].retire : Known(s) /\ s \notin ActiveIn(lease)
    /\ Owner(a) /\ act[a].subject \in ActiveIn(lease) => HasPermit(act[a].subject)
    /\ Writing(a) => \A s \in ActiveIn(draft) \ ActiveIn(lease) :
                        s = act[a].subject /\ ~Owner(a) /\ OnlyCall(a, s)

PermitInv ==
    /\ \A s \in ActiveIn(lease) \cup ActiveIn(draft) : Known(s)
    /\ \A a \in Actors : Traced(a)

\* Permits and calls are of the gate's epochs, and none is older than the first
\* healthy report
EpochsIssued ==
    /\ status = "healthy" => epoch > 0
    /\ \A p \in permits : p.epoch \in 1 .. epoch
    /\ \A a \in Actors : act[a].pc # "idle" => act[a].epoch \in 1 .. epoch

\* A drain admits every lease there is: the rows were read under the write lock, and
\* while the drain lasts no transaction adds one
DrainAdmits ==
    /\ upd.pc \in {"begun", "opening"} => ActiveIn(lease) \subseteq upd.allowed
    /\ drain # 0 =>
          /\ ActiveIn(lease) \subseteq allowed
          /\ \A a \in Actors : Writing(a) => ActiveIn(draft) \subseteq ActiveIn(lease)

AdmitInv == EpochsIssued /\ DrainAdmits

\* A subject is a pair, never the empty one
LEMMA SubjectReal == \A s \in Subjects : s # NoSubject /\ s[2] \in Nat
BY GateAssumption DEF Subjects, NoSubject

\* Steps outside the calls and the rows
LEMMA PermitFrame ==
    ASSUME PermitInv, UNCHANGED <<lease, draft, minted, permits, act>>
    PROVE  PermitInv'
BY DEF PermitInv, Traced, Known, Owner, HasPermit, OnlyCall, Writing, ActiveIn

\* A step of a's call that adds no lease and learns of none
LEMMA PermitCall ==
    ASSUME TypeInv, PermitInv, NEW a \in Actors, UNCHANGED <<lease, permits>>,
           minted' \in Nat, minted <= minted',
           \A b \in Actors : b # a => act'[b] = act[b],
           act'[a].subject \in {act[a].subject, NoSubject},
           act'[a].retire \subseteq act[a].retire,
           Owner(a)' /\ act'[a].subject # NoSubject => Owner(a),
           ActiveIn(draft') \subseteq ActiveIn(lease) \cup ActiveIn(draft),
           \A b \in Actors : Writing(b)' =>
              \/ ActiveIn(draft') \subseteq ActiveIn(lease)
              \/ /\ draft' = draft /\ Writing(b) /\ act'[b].subject = act[b].subject
                 /\ Owner(b)' => Owner(b)
    PROVE  PermitInv'
<1>1. \A s \in Subjects : Known(s) => Known(s)'
  BY SubjectReal DEF Known, TypeInv, GateTypeOK
<1>2. /\ ActiveIn(lease) \subseteq Subjects /\ ActiveIn(draft) \subseteq Subjects
      /\ \A b \in Actors : act[b].retire \subseteq Subjects
      /\ \A b \in Actors : act[b].subject \in Subjects \cup {NoSubject}
  BY ActiveFinite DEF TypeInv, GateTypeOK, Calls
<1>3. \A s \in ActiveIn(lease') \cup ActiveIn(draft') : Known(s)'
  BY <1>1, <1>2 DEF PermitInv
<1>4. ASSUME NEW b \in Actors PROVE Traced(b)'
  <2>0. Traced(b)
    BY DEF PermitInv
  <2>1. act'[b].subject # NoSubject => act'[b].subject[2] <= minted'
    <3>1. CASE b = a
      BY <1>1, <1>2, <2>0, <3>1 DEF Traced, Known
    <3>2. CASE b # a
      BY <1>1, <1>2, <2>0, <3>2 DEF Traced, Known
    <3> QED BY <3>1, <3>2
  <2>2. \A s \in act'[b].retire : Known(s)' /\ s \notin ActiveIn(lease')
    <3>1. act'[b].retire \subseteq act[b].retire
      OBVIOUS
    <3> QED BY <1>1, <1>2, <2>0, <3>1 DEF Traced
  <2>3. Owner(b)' /\ act'[b].subject \in ActiveIn(lease') =>
          \E p \in permits' : p.subject = act'[b].subject
    <3>1. \A s \in ActiveIn(lease) : s # NoSubject
      BY <1>2, SubjectReal
    <3>2. CASE b = a
      BY <2>0, <3>1, <3>2 DEF Traced, HasPermit
    <3>3. CASE b # a
      BY <2>0, <3>3 DEF Traced, HasPermit, Owner
    <3> QED BY <3>2, <3>3
  <2>4. ASSUME Writing(b)', NEW s \in ActiveIn(draft') \ ActiveIn(lease')
        PROVE  s = act'[b].subject /\ ~Owner(b)' /\ OnlyCall(b, s)'
    <3>1. /\ draft' = draft /\ Writing(b) /\ act'[b].subject = act[b].subject
          /\ Owner(b)' => Owner(b)
      BY <2>4
    <3>2. s = act[b].subject /\ ~Owner(b) /\ OnlyCall(b, s)
      BY <2>0, <2>4, <3>1 DEF Traced
    <3>3. s # NoSubject
      BY <2>4, <3>1, <1>2, SubjectReal
    <3>4. OnlyCall(b, s)'
      <4>1. ASSUME NEW c \in Actors
            PROVE  s \notin act'[c].retire /\ (c # b => act'[c].subject # s)
        <5>1. CASE c = a
          BY <3>2, <3>3, <5>1 DEF OnlyCall
        <5>2. CASE c # a
          BY <3>2, <5>2 DEF OnlyCall
        <5> QED BY <5>1, <5>2
      <4> QED BY <4>1 DEF OnlyCall
    <3> QED BY <3>1, <3>2, <3>4
  <2> QED BY <2>1, <2>2, <2>3, <2>4 DEF Traced, Known, HasPermit
<1> QED BY <1>3, <1>4 DEF PermitInv

\* Rolling back
LEMMA PermitAbandon ==
    ASSUME TypeInv, Locked, PermitInv, NEW a \in Actors, Abandon(a),
           UNCHANGED <<lease, permits>>, minted' \in Nat, minted <= minted'
    PROVE  PermitInv'
<1>1. act'[a] = Idle /\ \A b \in Actors : b # a => act'[b] = act[b]
  BY CallEffect DEF Abandon
<1>2. /\ act'[a].pc = "idle" /\ act'[a].subject = NoSubject /\ act'[a].retire = {}
      /\ act'[a].kind = "none"
  BY <1>1 DEF Idle
<1>3. ActiveIn(draft') \subseteq ActiveIn(lease) \cup ActiveIn(draft)
  BY DEF Abandon
<1>4. ASSUME NEW b \in Actors, Writing(b)'
      PROVE  /\ draft' = draft /\ Writing(b) /\ act'[b].subject = act[b].subject
             /\ Owner(b)' => Owner(b)
  <2>1. b # a
    BY <1>2, <1>4 DEF Writing
  <2>2. Writing(b) /\ act'[b] = act[b]
    BY <1>1, <1>4, <2>1 DEF Writing
  <2> QED BY <2>1, <2>2 DEF Locked, Abandon, Owner
<1> QED BY <1>1, <1>2, <1>3, <1>4, PermitCall

\* Opening a transaction that only gives leases up
LEMMA PermitOpen ==
    ASSUME TypeInv, PermitInv, NEW a \in Actors, NEW gone, NEW pc \in {"open", "sealed"},
           OpenWith(a, Free(gone), pc), UNCHANGED <<lease, minted, permits>>
    PROVE  PermitInv'
<1>0. act \in [Actors -> Calls] /\ act[a] \in Calls /\ minted \in Nat
  BY GateAssumption DEF TypeInv, GateTypeOK
<1>1. act'[a] = [act[a] EXCEPT !.pc = pc] /\ \A b \in Actors : b # a => act'[b] = act[b]
  BY <1>0, CallEffect DEF OpenWith
<1>2. /\ act'[a].pc = pc /\ act'[a].subject = act[a].subject
      /\ act'[a].retire = act[a].retire /\ act'[a].kind = act[a].kind
  BY <1>0, <1>1 DEF Calls
<1>3. ActiveIn(draft') \subseteq ActiveIn(lease)
  BY FreeShrinks DEF OpenWith, TypeInv, GateTypeOK
<1>4. Owner(a)' => Owner(a)
  BY <1>2 DEF Owner
<1>5. minted' \in Nat /\ minted <= minted' /\ UNCHANGED <<lease, permits>>
  BY <1>0
<1>6. act'[a].subject \in {act[a].subject, NoSubject} /\ act'[a].retire \subseteq act[a].retire
  BY <1>2
<1>7. ActiveIn(draft') \subseteq ActiveIn(lease) \cup ActiveIn(draft)
  BY <1>3
<1> QED BY <1>1, <1>3, <1>4, <1>5, <1>6, <1>7, PermitCall

\* A step that leaves rows and permits alone and opens no transaction
LEMMA PermitQuiet ==
    ASSUME TypeInv, PermitInv, NEW a \in Actors, UNCHANGED <<lease, draft, minted, permits>>,
           \A b \in Actors : b # a => act'[b] = act[b],
           act'[a].subject \in {act[a].subject, NoSubject},
           act'[a].retire \subseteq act[a].retire,
           Owner(a)' /\ act'[a].subject # NoSubject => Owner(a),
           Writing(a)' => /\ Writing(a) /\ act'[a].subject = act[a].subject
                          /\ Owner(a)' => Owner(a)
    PROVE  PermitInv'
<1>1. minted \in Nat
  BY GateAssumption DEF TypeInv, GateTypeOK
<1>2. \A b \in Actors : Writing(b)' =>
              /\ draft' = draft /\ Writing(b) /\ act'[b].subject = act[b].subject
              /\ Owner(b)' => Owner(b)
  BY DEF Writing, Owner
<1> QED BY <1>1, <1>2, PermitCall

\* A commit: what it takes away it will retire, what it adds is new
LEMMA PermitCommit ==
    ASSUME TypeInv, Locked, PermitInv, NEW a \in Actors, Commit(a)
    PROVE  PermitInv'
<1>0. act \in [Actors -> Calls] /\ act[a] \in Calls
  BY DEF TypeInv, GateTypeOK
<1>1. /\ act'[a] = [act[a] EXCEPT !.pc = "committed",
                                  !.retire = ActiveIn(lease) \ ActiveIn(draft)]
      /\ \A b \in Actors : b # a => act'[b] = act[b]
  BY CallEffect DEF Commit
<1>2. /\ act'[a].pc = "committed" /\ act'[a].kind = act[a].kind
      /\ act'[a].subject = act[a].subject
      /\ act'[a].retire = ActiveIn(lease) \ ActiveIn(draft)
  BY <1>0, <1>1 DEF Calls
<1>3. /\ lease' = draft /\ draft' = draft /\ minted' = minted /\ permits' = permits
      /\ act[a].pc = "sealed" /\ Writing(a)
  BY DEF Commit, Writing
<1>4. ActiveIn(lease)' = ActiveIn(draft) /\ ActiveIn(draft)' = ActiveIn(draft)
  BY <1>3 DEF ActiveIn
<1>5. \A s \in ActiveIn(draft) \ ActiveIn(lease) :
         s = act[a].subject /\ ~Owner(a) /\ OnlyCall(a, s)
  BY <1>3 DEF PermitInv, Traced
<1>6. \A b \in Actors : ~Writing(b)'
  <2>1. \A b \in Actors : Writing(b) => b = a
    BY <1>3 DEF Locked
  <2> QED BY <1>1, <1>2, <2>1 DEF Writing
<1>7. ASSUME NEW b \in Actors PROVE Traced(b)'
  <2>0. Traced(b)
    BY DEF PermitInv
  <2>1. act'[b].subject = act[b].subject /\ (Owner(b)' => Owner(b))
    BY <1>1, <1>2 DEF Owner
  <2>2. ASSUME NEW s \in act'[b].retire PROVE s[2] <= minted' /\ s \notin ActiveIn(draft)
    <3>1. CASE b = a
      BY <1>2, <1>3, <2>2, <3>1 DEF PermitInv, Known
    <3>2. CASE b # a
      BY <1>1, <1>3, <1>5, <2>0, <2>2, <3>2 DEF Traced, OnlyCall, Known
    <3> QED BY <3>1, <3>2
  <2>3. ASSUME Owner(b)', act'[b].subject \in ActiveIn(draft)
        PROVE  \E p \in permits' : p.subject = act'[b].subject
    <3>1. act[b].subject \in ActiveIn(lease)
      BY <1>5, <2>1, <2>3 DEF OnlyCall
    <3> QED BY <1>3, <2>0, <2>1, <2>3, <3>1 DEF Traced, HasPermit
  <2>4. act'[b].subject # NoSubject => act'[b].subject[2] <= minted'
    BY <1>3, <2>0, <2>1 DEF Traced, Known
  <2> QED BY <1>4, <1>6, <2>2, <2>3, <2>4 DEF Traced, Known, HasPermit
<1>8. \A s \in ActiveIn(lease)' \cup ActiveIn(draft)' : s[2] <= minted'
  BY <1>3, <1>4 DEF PermitInv, Known
<1> QED BY <1>7, <1>8 DEF PermitInv, Known

\* The callbacks after a commit change the permit map and nothing else: they take
\* away permits of leases that are gone, so whoever holds a live lease keeps its own
LEMMA PermitPublish ==
    ASSUME TypeInv, PermitInv, NEW a \in Actors, act[a].pc = "committed",
           UNCHANGED <<lease, draft, minted>>,
           \A b \in Actors : b # a => act'[b] = act[b],
           act'[a].subject \in {act[a].subject, NoSubject}, act'[a].retire = {}, ~Writing(a)',
           \A s \in ActiveIn(lease) : HasPermit(s) => \E p \in permits' : p.subject = s,
           Owner(a)' /\ act'[a].subject \in ActiveIn(lease) =>
              Owner(a) \/ \E p \in permits' : p.subject = act'[a].subject
    PROVE  PermitInv'
<1>0. ActiveIn(lease)' = ActiveIn(lease) /\ ActiveIn(draft)' = ActiveIn(draft)
  BY DEF ActiveIn
<1>1. \A s \in ActiveIn(lease) \cup ActiveIn(draft) : s # NoSubject
  BY ActiveFinite, SubjectReal
<1>2. ASSUME NEW b \in Actors PROVE Traced(b)'
  <2>0. Traced(b) /\ Traced(a)
    BY DEF PermitInv
  <2>1. act'[b].subject # NoSubject => act'[b].subject[2] <= minted'
    BY <2>0 DEF Traced, Known
  <2>2. \A s \in act'[b].retire : s[2] <= minted' /\ s \notin ActiveIn(lease)
    BY <2>0 DEF Traced, Known
  <2>3. Owner(b)' /\ act'[b].subject \in ActiveIn(lease) =>
           \E p \in permits' : p.subject = act'[b].subject
    <3>1. CASE b = a
      BY <1>1, <2>0, <3>1 DEF Traced
    <3>2. CASE b # a
      <4>1. act'[b] = act[b] /\ (Owner(b)' <=> Owner(b))
        BY <3>2 DEF Owner
      <4> QED BY <2>0, <4>1 DEF Traced
    <3> QED BY <3>1, <3>2
  <2>4. ASSUME Writing(b)', NEW s \in ActiveIn(draft) \ ActiveIn(lease)
        PROVE  s = act'[b].subject /\ ~Owner(b)' /\ OnlyCall(b, s)'
    <3>1. b # a /\ act'[b] = act[b] /\ Writing(b) /\ (Owner(b)' <=> Owner(b))
      BY <2>4 DEF Writing, Owner
    <3>2. s = act[b].subject /\ ~Owner(b) /\ OnlyCall(b, s)
      BY <2>0, <2>4, <3>1 DEF Traced
    <3>3. OnlyCall(b, s)'
      <4>1. ASSUME NEW c \in Actors
            PROVE  s \notin act'[c].retire /\ (c # b => act'[c].subject # s)
        <5>1. CASE c = a
          BY <1>1, <2>4, <3>1, <3>2, <5>1 DEF OnlyCall
        <5>2. CASE c # a
          BY <3>2, <5>2 DEF OnlyCall
        <5> QED BY <5>1, <5>2
      <4> QED BY <4>1 DEF OnlyCall
    <3> QED BY <3>1, <3>2, <3>3
  <2> QED BY <1>0, <2>1, <2>2, <2>3, <2>4 DEF Traced, Known, HasPermit
<1>3. \A s \in ActiveIn(lease)' \cup ActiveIn(draft)' : s[2] <= minted'
  BY <1>0 DEF PermitInv, Known
<1> QED BY <1>2, <1>3 DEF PermitInv, Known

\* The steps of a transaction keep the permits of the leases
LEMMA PermitTransact ==
    ASSUME TypeInv, Locked, PermitInv, NEW a \in Actors, Transact(a)
    PROVE  PermitInv'
<1>0. act \in [Actors -> Calls] /\ act[a] \in Calls /\ minted \in Nat
  BY GateAssumption DEF TypeInv, GateTypeOK
<1>1. CASE Ask(a)
  <2>1. \A b \in Actors : b # a => act'[b] = act[b]
    BY <1>0, <1>1 DEF Ask, Call
  <2>2. /\ act'[a].subject = NoSubject /\ act'[a].retire = {} /\ act'[a].pc = "asking"
    BY <1>0, <1>1 DEF Ask, Call, Idle
  <2> QED BY <1>1, <2>1, <2>2, PermitQuiet DEF Ask, rowVars, Writing
<1>2. CASE Seal(a)
  <2>1. \A b \in Actors : b # a => act'[b] = act[b]
    BY <1>0, <1>2 DEF Seal, Call
  <2>2. act'[a] = [act[a] EXCEPT !.pc = "sealed"]
    BY <1>0, <1>2 DEF Seal, Call
  <2>3. /\ act'[a].subject = act[a].subject /\ act'[a].retire = act[a].retire
        /\ act'[a].kind = act[a].kind /\ act'[a].pc = "sealed"
    BY <1>0, <2>2 DEF Calls
  <2>4. (Owner(a)' => Owner(a)) /\ Writing(a)
    BY <1>2, <2>3 DEF Owner, Seal, Writing
  <2> QED BY <1>2, <2>1, <2>3, <2>4, PermitQuiet DEF Seal, rowVars
<1>3. CASE Refuse(a)
  <2>1. minted' \in Nat /\ minted <= minted' /\ UNCHANGED <<lease, permits>> /\ Abandon(a)
    BY <1>0, <1>3 DEF Refuse
  <2> QED BY <2>1, PermitAbandon
<1>4. CASE Commit(a)
  BY <1>4, PermitCommit
<1>5. CASE Retire(a)
  <2>1. \A b \in Actors : b # a => act'[b] = act[b]
    BY <1>0, <1>5 DEF Retire, Call
  <2>2. \/ act'[a] = Idle
        \/ /\ act'[a] = [act[a] EXCEPT !.pc = "owning", !.retire = {}]
           /\ act[a].kind \in {"job", "cow"}
    BY <1>0, <1>5 DEF Retire, Call
  <2>3. /\ act'[a].subject \in {act[a].subject, NoSubject} /\ act'[a].retire = {}
        /\ ~Writing(a)' /\ (Owner(a)' => Owner(a))
    <3>1. CASE act'[a] = Idle
      BY <3>1 DEF Idle, Writing, Owner
    <3>2. CASE /\ act'[a] = [act[a] EXCEPT !.pc = "owning", !.retire = {}]
               /\ act[a].kind \in {"job", "cow"}
      <4>1. /\ act'[a].subject = act[a].subject /\ act'[a].retire = {}
            /\ act'[a].pc = "owning"
        BY <1>0, <3>2 DEF Calls
      <4> QED BY <3>2, <4>1 DEF Writing, Owner
    <3> QED BY <2>2, <3>1, <3>2
  <2>4. \A s \in ActiveIn(lease) : HasPermit(s) => \E p \in permits' : p.subject = s
    BY <1>5 DEF Retire, Kept, HasPermit, PermitInv, Traced
  <2> QED BY <1>5, <2>1, <2>3, <2>4, PermitPublish DEF Retire, rowVars
<1> QED BY <1>1, <1>2, <1>3, <1>4, <1>5 DEF Transact

\* A new lease: its token has just been minted, so no call and no row speaks of it
LEMMA PermitLease ==
    ASSUME TypeInv, Locked, PermitInv, NEW w \in Actors, NEW gone, NEW j \in Jobs,
           act[w].kind = "lease", writer = "none", minted < MaxLeases, minted' = minted + 1,
           draft' = [Free(gone) EXCEPT ![j] = minted + 1],
           Call(w, [act[w] EXCEPT !.pc = "open", !.epoch = epoch, !.subject = <<j, minted + 1>>]),
           UNCHANGED <<lease, permits>>
    PROVE  PermitInv'
<1>0. /\ act \in [Actors -> Calls] /\ act[w] \in Calls /\ minted \in Nat /\ MaxLeases \in Nat
      /\ lease \in [Jobs -> 0 .. MaxLeases]
  BY GateAssumption DEF TypeInv, GateTypeOK
<1>1. PICK new : new = <<j, minted + 1>>
  OBVIOUS
<1>2. new \in Subjects /\ new[2] = minted + 1
  BY <1>0, <1>1 DEF Subjects
<1>3. /\ act'[w] = [act[w] EXCEPT !.pc = "open", !.epoch = epoch, !.subject = new]
      /\ \A b \in Actors : b # w => act'[b] = act[b]
  BY <1>1, CallEffect
<1>4. /\ act'[w].pc = "open" /\ act'[w].kind = "lease" /\ act'[w].subject = new
      /\ act'[w].retire = act[w].retire
  BY <1>0, <1>3 DEF Calls
<1>5. ActiveIn(lease)' = ActiveIn(lease)
  BY DEF ActiveIn
<1>6. ASSUME NEW s \in ActiveIn(draft') PROVE s \in ActiveIn(lease) \/ s = new
  <2>1. s \in Subjects /\ draft'[s[1]] = s[2]
    BY <1>6 DEF ActiveIn
  <2>2. s[1] \in Jobs /\ s[2] \in 1 .. MaxLeases /\ s = <<s[1], s[2]>>
    BY <2>1 DEF Subjects
  <2>3. CASE s[1] = j
    <3>1. draft'[j] = minted + 1
      BY <1>0, FreeShrinks
    <3> QED BY <1>1, <2>1, <2>2, <2>3, <3>1
  <2>4. CASE s[1] # j
    <3>1. draft'[s[1]] = Free(gone)[s[1]]
      BY <1>0, <2>2, <2>4, FreeShrinks
    <3>2. s \in ActiveIn(Free(gone))
      BY <2>1, <3>1 DEF ActiveIn
    <3> QED BY <1>0, <3>2, FreeShrinks
  <2> QED BY <2>3, <2>4
<1>7. \A s \in Subjects : Known(s) => s # new /\ s[2] <= minted'
  BY <1>0, <1>2, SubjectReal DEF Known
<1>8. /\ ActiveIn(lease) \subseteq Subjects
      /\ \A b \in Actors : /\ act[b].retire \subseteq Subjects
                           /\ act[b].subject \in Subjects \cup {NoSubject}
                           /\ act[b].subject # new
                           /\ \A s \in act[b].retire : s # new /\ s[2] <= minted'
  <2>1. ActiveIn(lease) \subseteq Subjects
    BY ActiveFinite
  <2>2. \A b \in Actors : /\ act[b].retire \subseteq Subjects
                          /\ act[b].subject \in Subjects \cup {NoSubject}
    BY <1>0 DEF Calls
  <2>3. new # NoSubject
    BY <1>2, SubjectReal
  <2> QED BY <1>7, <2>1, <2>2, <2>3 DEF PermitInv, Traced
<1>9. OnlyCall(w, new)'
  BY <1>3, <1>4, <1>8 DEF OnlyCall
<1>10. ASSUME NEW b \in Actors PROVE Traced(b)'
  <2>0. Traced(b)
    BY DEF PermitInv
  <2>1. CASE b = w
    <3>1. act'[b].subject[2] <= minted'
      BY <1>0, <1>2, <1>4, <2>1
    <3>2. \A s \in act'[b].retire : s[2] <= minted' /\ s \notin ActiveIn(lease)
      BY <1>4, <1>8, <2>0, <2>1 DEF Traced
    <3>3. ~Owner(b)'
      BY <1>4, <2>1 DEF Owner
    <3>4. \A s \in ActiveIn(draft)' \ ActiveIn(lease)' : s = act'[b].subject /\ OnlyCall(b, s)'
      BY <1>4, <1>5, <1>6, <1>9, <2>1 DEF ActiveIn
    <3> QED BY <1>5, <3>1, <3>2, <3>3, <3>4 DEF Traced, Known
  <2>2. CASE b # w
    <3>1. act'[b] = act[b] /\ ~Writing(b)' /\ (Owner(b)' <=> Owner(b))
      <4>1. b # "none"
        BY GateAssumption DEF Actors
      <4> QED BY <1>3, <2>2, <4>1 DEF Locked, Writing, Owner
    <3>2. act[b].subject # NoSubject => act[b].subject[2] <= minted'
      BY <1>7, <1>8, <2>0 DEF Traced
    <3> QED BY <1>5, <1>8, <2>0, <3>1, <3>2 DEF Traced, Known, HasPermit
  <2> QED BY <2>1, <2>2
<1>11. \A s \in ActiveIn(lease)' \cup ActiveIn(draft)' : s[2] <= minted'
  <2>1. \A s \in ActiveIn(lease) : s[2] <= minted'
    BY <1>7, <1>8 DEF PermitInv
  <2>2. new[2] <= minted'
    BY <1>0, <1>2
  <2> QED BY <1>5, <1>6, <2>1, <2>2 DEF ActiveIn
<1> QED BY <1>10, <1>11 DEF PermitInv, Known

\* The steps of a worker keep the permits of the leases
LEMMA PermitWork ==
    ASSUME TypeInv, Locked, PermitInv, NEW w \in Workers, Work(w)
    PROVE  PermitInv'
<1>0. /\ w \in Actors /\ act \in [Actors -> Calls] /\ act[w] \in Calls /\ minted \in Nat
  BY GateAssumption DEF TypeInv, GateTypeOK, Actors
<1>1. CASE LeaseNothing(w)
  BY <1>0, <1>1, PermitOpen DEF LeaseNothing
<1>2. CASE LeaseJob(w)
  <2>1. CASE Abandon(w)
    <3>1. minted' \in Nat /\ minted <= minted' /\ UNCHANGED <<lease, permits>>
      BY <1>0, <1>2 DEF LeaseJob
    <3> QED BY <1>0, <2>1, <3>1, PermitAbandon
  <2>2. CASE ~Abandon(w)
    <3>1. PICK gone \in SUBSET {s[1] : s \in ActiveIn(lease)}, j \in Jobs :
            /\ draft' = [Free(gone) EXCEPT ![j] = minted + 1]
            /\ Call(w, [act[w] EXCEPT !.pc = "open", !.epoch = epoch,
                                      !.subject = <<j, minted + 1>>])
      BY <1>2, <2>2 DEF LeaseJob
    <3>2. /\ act[w].kind = "lease" /\ writer = "none" /\ minted < MaxLeases
          /\ minted' = minted + 1 /\ UNCHANGED <<lease, permits>>
      BY <1>2 DEF LeaseJob
    <3> QED BY <1>0, <3>1, <3>2, PermitLease
  <2> QED BY <2>1, <2>2
<1>3. CASE EnterExecution(w)
  <2>0. PICK p \in permits :
          \/ Call(w, [act[w] EXCEPT !.pc = "asking", !.kind = "cow"])
          \/ Call(w, [act[w] EXCEPT !.pc = "asking", !.kind = "job",
                                    !.epoch = p.epoch])
    BY <1>3 DEF EnterExecution
  <2>1. \/ act'[w] = [act[w] EXCEPT !.pc = "asking", !.kind = "cow"]
        \/ act'[w] = [act[w] EXCEPT !.pc = "asking", !.kind = "job",
                                    !.epoch = p.epoch]
    BY <1>0, <2>0 DEF Call
  <2>2. \A b \in Actors : b # w => act'[b] = act[b]
    BY <1>0, <2>0 DEF Call
  <2>3. /\ act'[w].pc = "asking" /\ act'[w].subject = act[w].subject
        /\ act'[w].retire = act[w].retire
    BY <1>0, <2>1 DEF Calls
  <2>4. Owner(w) /\ ~Writing(w)'
    BY <1>3, <2>3 DEF Owner, EnterExecution, Writing
  <2> QED BY <1>0, <1>3, <2>2, <2>3, <2>4, PermitQuiet DEF EnterExecution, rowVars
<1>4. CASE LeaveJob(w)
  <2>1. minted' \in Nat /\ minted <= minted' /\ UNCHANGED <<lease, permits>> /\ Abandon(w)
    BY <1>0, <1>4 DEF LeaveJob
  <2> QED BY <1>0, <2>1, PermitAbandon
<1>5. CASE ExecutionOpen(w)
  BY <1>0, <1>5, PermitOpen DEF ExecutionOpen
<1>6. CASE Remember(w)
  <2>0. PICK s : s = act[w].subject
    OBVIOUS
  <2>1. \A b \in Actors : b # w => act'[b] = act[b]
    BY <1>0, <1>6 DEF Remember, Call
  <2>2. CASE s \notin ActiveIn(lease)
    <3>1. act'[w] = Idle /\ permits' = Kept(w)
      BY <1>0, <1>6, <2>0, <2>2 DEF Remember, Call
    <3>2. /\ act'[w].subject = NoSubject /\ act'[w].retire = {} /\ ~Writing(w)'
          /\ ~Owner(w)'
      BY <3>1 DEF Idle, Writing, Owner
    <3>3. \A t \in ActiveIn(lease) : HasPermit(t) => \E p \in permits' : p.subject = t
      BY <1>0, <3>1 DEF Kept, HasPermit, PermitInv, Traced
    <3> QED BY <1>0, <1>6, <2>1, <3>2, <3>3, PermitPublish DEF Remember, rowVars
  <2>3. CASE s \in ActiveIn(lease)
    <3>1. /\ act'[w] = [act[w] EXCEPT !.pc = "owning", !.retire = {}]
          /\ permits' = {p \in Kept(w) : p.subject[1] # s[1]}
                          \cup {[subject |-> s, epoch |-> act[w].epoch]}
      BY <1>0, <1>6, <2>0, <2>3 DEF Remember, Call
    <3>2. /\ act'[w].subject = s /\ act'[w].retire = {} /\ act'[w].pc = "owning"
      BY <1>0, <2>0, <3>1 DEF Calls
    <3>3. \E p \in permits' : p.subject = s
      <4>1. PICK q : q = [subject |-> s, epoch |-> act[w].epoch]
        OBVIOUS
      <4>2. q \in permits' /\ q.subject = s
        BY <3>1, <4>1
      <4> QED BY <4>2
    <3>4. ASSUME NEW t \in ActiveIn(lease), HasPermit(t)
          PROVE  \E p \in permits' : p.subject = t
      <4>1. CASE t[1] = s[1]
        <5>1. t = s
          BY <2>3, <3>4, <4>1 DEF ActiveIn, Subjects
        <5> QED BY <3>3, <5>1
      <4>2. CASE t[1] # s[1]
        <5>1. PICK p \in permits : p.subject = t
          BY <3>4 DEF HasPermit
        <5>2. t \notin act[w].retire
          BY <1>0, <3>4 DEF PermitInv, Traced
        <5>3. p \in permits'
          BY <3>1, <4>2, <5>1, <5>2 DEF Kept
        <5> QED BY <5>1, <5>3
      <4> QED BY <4>1, <4>2
    <3>5. ~Writing(w)'
      BY <3>2 DEF Writing
    <3> QED BY <1>0, <1>6, <2>0, <2>1, <3>2, <3>3, <3>4, <3>5, PermitPublish
        DEF Remember, rowVars
  <2> QED BY <2>2, <2>3
<1> QED BY <1>1, <1>2, <1>3, <1>4, <1>5, <1>6 DEF Work

\* Every step keeps the permits of the leases
LEMMA PermitNext == TypeInv /\ Locked /\ PermitInv /\ [Next]_vars => PermitInv'
<1> SUFFICES ASSUME TypeInv, Locked, PermitInv, [Next]_vars PROVE PermitInv'
  OBVIOUS
<1>1. CASE UNCHANGED vars \/ Gate
  BY <1>1, PermitFrame DEF vars, rowVars, Gate, HealthyReport, ViolationReport,
                           RequestCritical, ApplyClosure
<1>2. ASSUME NEW c \in Controls, ControlOpen(c) PROVE PermitInv'
  BY <1>2, PermitOpen DEF ControlOpen, Actors
<1>3. CASE UpdateAny
  BY <1>3, UpdateFrame, PermitFrame
<1>4. CASE Restart
  <2>1. /\ lease' = lease /\ draft' = lease /\ minted' = minted
        /\ \A a \in Actors : act'[a] = Idle
    BY <1>4 DEF Restart
  <2>2. \A a \in Actors : Traced(a)'
    BY <2>1 DEF Traced, Owner, Writing, Idle
  <2>3. \A s \in ActiveIn(lease)' \cup ActiveIn(draft)' : s[2] <= minted'
    BY <2>1 DEF PermitInv, Known, ActiveIn
  <2> QED BY <2>2, <2>3 DEF PermitInv, Known
<1> QED BY <1>1, <1>2, <1>3, <1>4, PermitTransact, PermitWork DEF Next, UpdateAny

\* A worker that was handed a lease finds its permit for as long as the row carries
\* the lease, for any number of workers and jobs: neither the late publisher of an
\* older lease (_remember_execution_permit) nor a late retirement callback removes it.
THEOREM PublishedPermitStandsCorrect == Spec => []PublishedPermitStands
<1>1. Init => PermitInv
  <2> SUFFICES ASSUME Init PROVE PermitInv
    OBVIOUS
  <2>1. ActiveIn(lease) = {} /\ ActiveIn(draft) = {}
    BY GateAssumption DEF Init, ActiveIn, Subjects
  <2>2. \A a \in Actors : Traced(a)
    BY <2>1 DEF Init, Traced, Owner, Writing, Idle
  <2> QED BY <2>1, <2>2 DEF PermitInv
<1>2. Spec => [](SafeInv /\ PermitInv)
  <2>1. Init => SafeInv /\ PermitInv
    BY <1>1, SafeInit
  <2>2. SafeInv /\ PermitInv /\ [Next]_vars => (SafeInv /\ PermitInv)'
    BY SafeStep, PermitNext DEF SafeInv
  <2> QED BY <2>1, <2>2, PTL DEF Spec
<1>3. SafeInv /\ PermitInv => PublishedPermitStands
  BY DEF PermitInv, Traced, Owner, HasPermit, PublishedPermitStands, Actors
<1> QED BY <1>2, <1>3, PTL

-----------------------------------------------------------------------------
(* A drain lets the leases it waits for finish. *)

\* A call's step keeps the drain's admission if it adds no lease while the gate
\* drains or is about to
LEMMA AdmitCall ==
    ASSUME DrainAdmits, UNCHANGED <<gateVars, drainVars, upd>>,
           drain # 0 \/ upd.pc \in {"begun", "opening"} =>
              ActiveIn(lease') \subseteq ActiveIn(lease),
           drain # 0 => \A a \in Actors :
              Writing(a)' => ActiveIn(draft') \subseteq ActiveIn(lease')
    PROVE  DrainAdmits'
<1>1. ActiveIn(lease)' = ActiveIn(lease') /\ ActiveIn(draft)' = ActiveIn(draft')
  BY DEF ActiveIn
<1> QED BY <1>1 DEF DrainAdmits, drainVars

\* Steps that leave the rows alone and start no transaction
LEMMA AdmitQuiet ==
    ASSUME DrainAdmits, UNCHANGED <<gateVars, drainVars, upd, lease, draft>>,
           \A a \in Actors : Writing(a)' => Writing(a)
    PROVE  DrainAdmits'
<1>1. drain # 0 => \A a \in Actors :
              Writing(a)' => ActiveIn(draft') \subseteq ActiveIn(lease')
  BY DEF DrainAdmits
<1> QED BY <1>1, AdmitCall

\* A call that gives up keeps what the drain admits
LEMMA AdmitAbandon ==
    ASSUME TypeInv, Locked, DrainAdmits, NEW a \in Actors, Abandon(a),
           UNCHANGED <<gateVars, drainVars, upd, lease>>
    PROVE  DrainAdmits'
<1>1. act'[a] = Idle /\ \A b \in Actors : b # a => act'[b] = act[b]
  BY CallEffect DEF Abandon
<1>2. ASSUME NEW b \in Actors, Writing(b)'
      PROVE  Writing(b) /\ draft' = draft
  <2>1. b # a
    BY <1>1, <1>2, StartFields DEF Writing
  <2>2. Writing(b)
    BY <1>1, <1>2, <2>1 DEF Writing
  <2> QED BY <2>1, <2>2 DEF Locked, Abandon
<1>3. drain # 0 => \A b \in Actors : Writing(b)' => ActiveIn(draft') \subseteq ActiveIn(lease')
  BY <1>2 DEF DrainAdmits
<1> QED BY <1>3, AdmitCall

\* A transaction that opens keeps what the drain admits
LEMMA AdmitOpen ==
    ASSUME TypeInv, DrainAdmits, NEW a \in Actors, NEW gone, NEW pc,
           OpenWith(a, Free(gone), pc), UNCHANGED <<gateVars, drainVars, upd, lease>>
    PROVE  DrainAdmits'
<1>1. ActiveIn(draft') \subseteq ActiveIn(lease')
  BY FreeShrinks DEF OpenWith, TypeInv, GateTypeOK
<1> QED BY <1>1, AdmitCall

\* A call's step keeps the epochs if its new record and new permits are of one
LEMMA EpochsCall ==
    ASSUME EpochsIssued, NEW a \in Actors, UNCHANGED gateVars,
           \A b \in Actors : b # a => act'[b] = act[b],
           act'[a].pc # "idle" => act'[a].epoch \in 1 .. epoch,
           \A p \in permits' : p \in permits \/ p.epoch \in 1 .. epoch
    PROVE  EpochsIssued'
<1>1. status' = status /\ epoch' = epoch
  BY DEF gateVars
<1> QED BY <1>1 DEF EpochsIssued

\* The steps of a transaction keep what the drain admits
LEMMA AdmitTransact ==
    ASSUME TypeInv, Locked, AdmitInv, NEW a \in Actors, Transact(a)
    PROVE  AdmitInv'
<1>0. /\ act \in [Actors -> Calls] /\ act[a] \in Calls /\ epoch \in 0 .. 2
      /\ EpochsIssued /\ DrainAdmits
  BY DEF TypeInv, GateTypeOK, AdmitInv
<1>1. CASE Ask(a)
  <2>1. /\ act'[a].pc = "asking" /\ act'[a].epoch = epoch
        /\ \A b \in Actors : b # a => act'[b] = act[b]
    BY <1>0, <1>1 DEF Ask, Call, Idle
  <2>2. \A b \in Actors : Writing(b)' => Writing(b)
    BY <2>1 DEF Writing
  <2>3. DrainAdmits'
    BY <1>0, <1>1, <2>2, AdmitQuiet DEF Ask, rowVars
  <2>4. epoch \in 1 .. epoch
    BY <1>0, <1>1 DEF Ask, Open, EpochsIssued
  <2>5. EpochsIssued'
    BY <1>0, <1>1, <2>1, <2>4, EpochsCall DEF Ask
  <2> QED BY <2>3, <2>5 DEF AdmitInv
<1>2. CASE Seal(a)
  <2>1. \A b \in Actors : b # a => act'[b] = act[b]
    BY <1>0, <1>2 DEF Seal, Call
  <2>2. \A b \in Actors : Writing(b)' => Writing(b)
    BY <1>2, <2>1 DEF Writing, Seal
  <2>3. DrainAdmits'
    BY <1>0, <1>2, <2>2, AdmitQuiet DEF Seal, rowVars
  <2>4. act'[a] = [act[a] EXCEPT !.pc = "sealed"]
    BY <1>0, <1>2 DEF Seal, Call
  <2>5. act'[a].epoch = act[a].epoch /\ act[a].pc # "idle"
    BY <1>0, <1>2, <2>4 DEF Calls, Seal
  <2>6. EpochsIssued'
    BY <1>0, <1>2, <2>1, <2>5, EpochsCall DEF Seal, EpochsIssued
  <2> QED BY <2>3, <2>6 DEF AdmitInv
<1>3. CASE Refuse(a)
  <2>1. act'[a].pc = "idle" /\ \A b \in Actors : b # a => act'[b] = act[b]
    BY <1>0, <1>3 DEF Refuse, Abandon, Call, Idle
  <2>2. EpochsIssued'
    BY <1>0, <1>3, <2>1, EpochsCall DEF Refuse
  <2>3. DrainAdmits'
    BY <1>0, <1>3, AdmitAbandon DEF Refuse
  <2> QED BY <2>2, <2>3 DEF AdmitInv
<1>4. CASE Commit(a)
  <2>1. Writing(a) /\ writer = a /\ a # "updater"
    BY <1>4, GateAssumption DEF Commit, Writing, Locked, Actors
  <2>2. upd.pc \notin {"begun", "opening"}
    BY <2>1 DEF Locked
  <2>3. drain # 0 => ActiveIn(lease') \subseteq ActiveIn(lease)
    BY <1>0, <1>4, <2>1 DEF Commit, DrainAdmits
  <2>4. ActiveIn(draft') \subseteq ActiveIn(lease')
    BY <1>4 DEF Commit
  <2>5. DrainAdmits'
    BY <1>0, <1>4, <2>2, <2>3, <2>4, AdmitCall DEF Commit
  <2>6. /\ act'[a] = [act[a] EXCEPT !.pc = "committed",
                                    !.retire = ActiveIn(lease) \ ActiveIn(draft)]
        /\ \A b \in Actors : b # a => act'[b] = act[b]
    BY <1>4, CallEffect DEF Commit
  <2>7. act'[a].epoch = act[a].epoch /\ act[a].pc # "idle"
    BY <1>0, <1>4, <2>6 DEF Calls, Commit
  <2>8. EpochsIssued'
    BY <1>0, <1>4, <2>6, <2>7, EpochsCall DEF Commit, EpochsIssued
  <2> QED BY <2>5, <2>8 DEF AdmitInv
<1>5. CASE Retire(a)
  <2>1. \/ act'[a] = [act[a] EXCEPT !.pc = "owning", !.retire = {}]
        \/ act'[a] = Idle
    BY <1>0, <1>5 DEF Retire, Call
  <2>2. \A b \in Actors : b # a => act'[b] = act[b]
    BY <1>0, <1>5 DEF Retire, Call
  <2>3. \/ act'[a].pc = "owning" /\ act'[a].epoch = act[a].epoch
        \/ act'[a].pc = "idle"
    BY <1>0, <2>1, StartFields DEF Calls
  <2>4. \A b \in Actors : Writing(b)' => Writing(b)
    BY <2>2, <2>3 DEF Writing
  <2>5. DrainAdmits'
    BY <1>0, <1>5, <2>4, AdmitQuiet DEF Retire, rowVars
  <2>6. EpochsIssued'
    BY <1>0, <1>5, <2>2, <2>3, EpochsCall DEF Retire, Kept, EpochsIssued
  <2> QED BY <2>5, <2>6 DEF AdmitInv
<1> QED BY <1>1, <1>2, <1>3, <1>4, <1>5 DEF Transact

\* The steps of a worker keep what the drain admits
LEMMA AdmitWork ==
    ASSUME TypeInv, Locked, AdmitInv, NEW w \in Workers, Work(w)
    PROVE  AdmitInv'
<1>0. /\ w \in Actors /\ act \in [Actors -> Calls] /\ act[w] \in Calls /\ epoch \in 0 .. 2
      /\ EpochsIssued /\ DrainAdmits
  BY DEF TypeInv, GateTypeOK, AdmitInv, Actors
<1>1. ASSUME NEW gone, NEW pc \in {"open", "sealed"}, OpenWith(w, Free(gone), pc),
             act[w].pc = "asking", UNCHANGED <<gateVars, drainVars, upd, lease, permits>>
      PROVE  AdmitInv'
  <2>1. /\ act'[w] = [act[w] EXCEPT !.pc = pc]
        /\ \A b \in Actors : b # w => act'[b] = act[b]
    BY <1>0, <1>1, CallEffect DEF OpenWith
  <2>2. act'[w].epoch = act[w].epoch
    BY <1>0, <2>1 DEF Calls
  <2>3. EpochsIssued'
    BY <1>0, <1>1, <2>1, <2>2, EpochsCall DEF EpochsIssued
  <2>4. DrainAdmits'
    BY <1>0, <1>1, AdmitOpen
  <2> QED BY <2>3, <2>4 DEF AdmitInv
<1>2. ASSUME Abandon(w), UNCHANGED <<gateVars, drainVars, upd, lease, permits>>
      PROVE  AdmitInv'
  <2>1. act'[w].pc = "idle" /\ \A b \in Actors : b # w => act'[b] = act[b]
    BY <1>0, <1>2 DEF Abandon, Call, Idle
  <2>2. EpochsIssued'
    BY <1>0, <1>2, <2>1, EpochsCall
  <2>3. DrainAdmits'
    BY <1>0, <1>2, AdmitAbandon
  <2> QED BY <2>2, <2>3 DEF AdmitInv
<1>3. CASE LeaseNothing(w) \/ ExecutionOpen(w)
  BY <1>1, <1>3 DEF LeaseNothing, ExecutionOpen
<1>4. CASE LeaveJob(w)
  BY <1>2, <1>4 DEF LeaveJob
<1>5. CASE LeaseJob(w)
  <2>1. CASE Abandon(w)
    BY <1>2, <1>5, <2>1 DEF LeaseJob
  <2>2. CASE ~Abandon(w)
    <3>1. PICK j \in Jobs :
            Call(w, [act[w] EXCEPT !.pc = "open", !.epoch = epoch,
                                   !.subject = <<j, minted + 1>>])
      BY <1>5, <2>2 DEF LeaseJob
    <3>2. /\ act'[w] = [act[w] EXCEPT !.pc = "open", !.epoch = epoch,
                                      !.subject = <<j, minted + 1>>]
          /\ \A b \in Actors : b # w => act'[b] = act[b]
      BY <1>0, <3>1, CallEffect
    <3>3. act'[w].epoch = epoch
      BY <1>0, <3>2 DEF Calls
    <3>4. Open
      BY <1>5, <2>2 DEF LeaseJob
    <3>5. epoch \in 1 .. epoch
      BY <1>0, <3>4 DEF Open, EpochsIssued
    <3>6. EpochsIssued'
      BY <1>0, <1>5, <3>2, <3>3, <3>5, EpochsCall DEF LeaseJob
    <3>7. DrainAdmits'
      BY <1>0, <1>5, <3>4, AdmitCall DEF LeaseJob, Open
    <3> QED BY <3>6, <3>7 DEF AdmitInv
  <2> QED BY <2>1, <2>2
<1>6. CASE EnterExecution(w)
  <2>0. PICK p \in permits :
          \/ Call(w, [act[w] EXCEPT !.pc = "asking", !.kind = "cow"])
          \/ Call(w, [act[w] EXCEPT !.pc = "asking", !.kind = "job",
                                    !.epoch = p.epoch])
    BY <1>6 DEF EnterExecution
  <2>1. \/ act'[w] = [act[w] EXCEPT !.pc = "asking", !.kind = "cow"]
        \/ act'[w] = [act[w] EXCEPT !.pc = "asking", !.kind = "job",
                                    !.epoch = p.epoch]
    BY <1>0, <2>0 DEF Call
  <2>2. \A b \in Actors : b # w => act'[b] = act[b]
    BY <1>0, <2>0 DEF Call
  <2>3. act'[w].pc = "asking" /\ act'[w].epoch \in {act[w].epoch, p.epoch}
    BY <1>0, <2>1 DEF Calls
  <2>4. \A b \in Actors : Writing(b)' => Writing(b)
    BY <2>2, <2>3 DEF Writing
  <2>5. DrainAdmits'
    BY <1>0, <1>6, <2>4, AdmitQuiet DEF EnterExecution, rowVars
  <2>6. EpochsIssued'
    BY <1>0, <1>6, <2>2, <2>3, EpochsCall DEF EnterExecution, EpochsIssued
  <2> QED BY <2>5, <2>6 DEF AdmitInv
<1>7. CASE Remember(w)
  <2>1. \/ act'[w] = [act[w] EXCEPT !.pc = "owning", !.retire = {}]
        \/ act'[w] = Idle
    BY <1>0, <1>7 DEF Remember, Call
  <2>2. \A b \in Actors : b # w => act'[b] = act[b]
    BY <1>0, <1>7 DEF Remember, Call
  <2>3. \/ act'[w].pc = "owning" /\ act'[w].epoch = act[w].epoch
        \/ act'[w].pc = "idle"
    BY <1>0, <2>1, StartFields DEF Calls
  <2>4. \A b \in Actors : Writing(b)' => Writing(b)
    BY <2>2, <2>3 DEF Writing
  <2>5. DrainAdmits'
    BY <1>0, <1>7, <2>4, AdmitQuiet DEF Remember, rowVars
  <2>6. act[w].epoch \in 1 .. epoch
    BY <1>0, <1>7 DEF EpochsIssued, Remember
  <2>7. ASSUME NEW p \in permits' PROVE p \in permits \/ p.epoch \in 1 .. epoch
    <3>1. p \in permits \/ p = [subject |-> act[w].subject, epoch |-> act[w].epoch]
      BY <1>7, <2>7 DEF Remember, Kept
    <3> QED BY <2>6, <3>1
  <2>8. EpochsIssued'
    BY <1>0, <1>7, <2>2, <2>3, <2>6, <2>7, EpochsCall DEF Remember
  <2> QED BY <2>5, <2>8 DEF AdmitInv
<1> QED BY <1>3, <1>4, <1>5, <1>6, <1>7 DEF Work

\* The activation's steps: the rows it admits were read under the write lock it
\* still holds when the drain begins
LEMMA AdmitUpdate ==
    ASSUME TypeInv, Locked, AdmitInv, UpdateAny
    PROVE  AdmitInv'
<1>0. /\ UNCHANGED <<status, epoch, lease, draft, permits, act>>
      /\ upd \in Activations /\ EpochsIssued /\ DrainAdmits
  BY UpdateFrame DEF TypeInv, GateTypeOK, AdmitInv
<1>1. EpochsIssued'
  BY <1>0 DEF EpochsIssued
<1>2. /\ ActiveIn(lease)' = ActiveIn(lease) /\ ActiveIn(draft)' = ActiveIn(draft)
      /\ \A a \in Actors : Writing(a)' <=> Writing(a)
  BY <1>0 DEF ActiveIn, Writing
<1>3. ASSUME UNCHANGED drainVars \/ drain' = 0,
             upd'.pc \in {"begun", "opening"} => ActiveIn(lease) \subseteq upd'.allowed
      PROVE  AdmitInv'
  BY <1>0, <1>1, <1>2, <1>3 DEF AdmitInv, DrainAdmits, drainVars
<1>4. CASE DrainLock
  <2>1. upd'.allowed = ActiveIn(lease)
    BY <1>4 DEF DrainLock, NoDrainLease
  <2> QED BY <1>3, <1>4, <2>1 DEF DrainLock
<1>5. CASE DrainSnapshot
  <2>1. CASE Begun(0)
    <3>1. upd'.pc \in {"idle", "checking"}
      BY <1>0, <2>1 DEF Begun, NoDrainLease, Activations
    <3> QED BY <1>3, <1>5, <3>1 DEF DrainSnapshot
  <2>2. CASE Move("opening") /\ UNCHANGED writer
    <3>1. upd'.allowed = upd.allowed
      BY <1>0, <2>2 DEF Move, Activations
    <3> QED BY <1>0, <1>3, <1>5, <3>1 DEF DrainSnapshot, DrainAdmits
  <2> QED BY <1>5, <2>1, <2>2 DEF DrainSnapshot
<1>6. CASE BeginDrain
  <2>1. upd'.pc \in {"idle", "checking"}
    <3>1. \/ upd' = [upd EXCEPT !.pc = "checking", !.permit = epoch]
          \/ upd' = NoDrainLease
      BY <1>6 DEF BeginDrain, Begun
    <3> QED BY <1>0, <3>1, StartFields DEF Activations
  <2>2. CASE Open
    <3>1. allowed' = upd.allowed /\ ActiveIn(lease) \subseteq upd.allowed
      BY <1>0, <1>6, <2>2 DEF BeginDrain, DrainAdmits
    <3>2. \A a \in Actors : ~Writing(a)
      BY <1>6, GateAssumption DEF BeginDrain, Locked, Actors
    <3> QED BY <1>1, <1>2, <2>1, <3>1, <3>2 DEF AdmitInv, DrainAdmits
  <2>3. CASE ~Open
    BY <1>3, <1>6, <2>1, <2>3 DEF BeginDrain
  <2> QED BY <2>2, <2>3
<1>7. CASE CancelBegin
  <2>1. upd'.allowed = upd.allowed /\ upd'.pc = upd.pc
    BY <1>0, <1>7 DEF CancelBegin, Activations
  <2> QED BY <1>0, <1>3, <1>7, <2>1 DEF CancelBegin, DrainAdmits
<1>8. CASE CheckDrain \/ ReadActive \/ Decide \/ Activate \/ ReleaseDrain
             \/ DrainDeadline \/ CancelDrain
  <2>1. UNCHANGED drainVars \/ drain' = 0
    BY <1>8 DEF CheckDrain, ReadActive, Decide, Activate, ReleaseDrain,
                DrainDeadline, CancelDrain
  <2>2. upd'.pc \notin {"begun", "opening"}
    <3>1. CASE CheckDrain \/ Activate \/ CancelDrain
      BY <1>0, <3>1 DEF CheckDrain, Activate, CancelDrain, Move, Activations
    <3>2. CASE ReadActive
      <4>1. \/ upd' = [upd EXCEPT !.pc = "counted", !.count = Cardinality(ActiveIn(lease))]
            \/ upd' = [upd EXCEPT !.pc = "releasing"]
        BY <3>2 DEF ReadActive, Move
      <4> QED BY <1>0, <4>1 DEF Activations
    <3>3. CASE Decide
      <4>1. \/ \E x \in {"releasing", "activating", "checking"} : upd' = [upd EXCEPT !.pc = x]
            \/ upd' = [upd EXCEPT !.pc = "checking", !.round = @ + 1]
        BY <3>3 DEF Decide
      <4> QED BY <1>0, <4>1 DEF Activations
    <3>4. CASE ReleaseDrain
      BY <3>4 DEF ReleaseDrain, NoDrainLease
    <3>5. CASE DrainDeadline
      BY <1>0, <3>5 DEF DrainDeadline, Activations
    <3> QED BY <1>8, <3>1, <3>2, <3>3, <3>4, <3>5
  <2> QED BY <1>3, <2>1, <2>2
<1> QED BY <1>4, <1>5, <1>6, <1>7, <1>8 DEF UpdateAny, UpdateStep

\* Every step keeps what the drain admits
LEMMA AdmitNext == TypeInv /\ Locked /\ AdmitInv /\ [Next]_vars => AdmitInv'
<1> SUFFICES ASSUME TypeInv, Locked, AdmitInv, [Next]_vars PROVE AdmitInv'
  OBVIOUS
<1>0. EpochsIssued /\ DrainAdmits /\ epoch \in 0 .. 2
  BY DEF AdmitInv, TypeInv, GateTypeOK
<1>1. CASE UNCHANGED vars \/ Gate
  <2>1. /\ UNCHANGED <<drainVars, lease, draft, act, upd, permits>>
        /\ epoch' \in {epoch, epoch + 1}
        /\ status' = "healthy" => status = "healthy" \/ epoch' = epoch + 1
    BY <1>1 DEF vars, gateVars, rowVars, Gate, HealthyReport, ViolationReport,
                RequestCritical, ApplyClosure
  <2>2. EpochsIssued'
    BY <1>0, <2>1 DEF EpochsIssued
  <2>3. DrainAdmits'
    BY <1>0, <2>1 DEF DrainAdmits, ActiveIn, Writing, drainVars
  <2> QED BY <2>2, <2>3 DEF AdmitInv
<1>2. ASSUME NEW c \in Controls, ControlOpen(c) PROVE AdmitInv'
  <2>0. c \in Actors /\ act \in [Actors -> Calls] /\ act[c] \in Calls
    BY DEF TypeInv, GateTypeOK, Actors
  <2>1. PICK gone \in SUBSET {s[1] : s \in ActiveIn(lease)} : OpenWith(c, Free(gone), "open")
    BY <1>2 DEF ControlOpen
  <2>2. /\ act'[c] = [act[c] EXCEPT !.pc = "open"]
        /\ \A b \in Actors : b # c => act'[b] = act[b]
    BY <2>0, <2>1, CallEffect DEF OpenWith
  <2>3. act'[c].epoch = act[c].epoch
    BY <2>0, <2>2 DEF Calls
  <2>4. EpochsIssued'
    BY <1>0, <1>2, <2>0, <2>2, <2>3, EpochsCall DEF ControlOpen, EpochsIssued
  <2>5. DrainAdmits'
    BY <1>0, <1>2, <2>0, <2>1, AdmitOpen DEF ControlOpen
  <2> QED BY <2>4, <2>5 DEF AdmitInv
<1>3. CASE Restart
  <2>1. \A a \in Actors : act'[a].pc = "idle"
    BY <1>3 DEF Restart, Idle
  <2> QED BY <1>3, <2>1, StartFields DEF Restart, AdmitInv, EpochsIssued, DrainAdmits
<1> QED BY <1>1, <1>2, <1>3, AdmitTransact, AdmitWork, AdmitUpdate DEF Next, UpdateAny

\* A drain does not cut off the work it waits for: until the gate is closed, the
\* permit of every lease that is still in its row stays valid, since begin_drain
\* admits the rows read under the write lock and the gate's epoch has not moved.
THEOREM DrainLetsLeasesFinishCorrect == Spec => []DrainLetsLeasesFinish
<1>1. Init => SafeInv /\ AdmitInv /\ HolderInv
  <2> SUFFICES ASSUME Init PROVE AdmitInv /\ HolderInv
    BY SafeInit
  <2>1. \A a \in Actors : act[a].pc = "idle"
    BY DEF Init, Idle
  <2> QED BY <2>1, StartFields DEF Init, AdmitInv, EpochsIssued, DrainAdmits, HolderInv,
                                    DrainHasHolder
<1>2. SafeInv /\ AdmitInv /\ HolderInv /\ [Next]_vars => (SafeInv /\ AdmitInv /\ HolderInv)'
  BY SafeStep, AdmitNext, HolderStep DEF SafeInv
<1>3. SafeInv /\ AdmitInv /\ HolderInv => DrainLetsLeasesFinish
  <2> SUFFICES ASSUME SafeInv, AdmitInv, HolderInv, drain # 0, ~closure,
                      NEW p \in permits, p.subject \in ActiveIn(lease)
               PROVE  PermitValid(p)
    BY DEF DrainLetsLeasesFinish
  <2>1. ~latched /\ epoch \in 0 .. 1 /\ drain = epoch
    BY DEF SafeInv, TypeInv, EpochInv, GateTypeOK, HolderInv
  <2>2. status = "healthy"
    BY <2>1 DEF SafeInv, TypeInv, EpochInv
  <2>3. p.epoch = epoch
    BY <2>1 DEF AdmitInv, EpochsIssued
  <2>4. p.subject \in allowed
    BY DEF AdmitInv, DrainAdmits
  <2> QED BY <2>1, <2>2, <2>3, <2>4 DEF PermitValid
<1>4. Spec => [](SafeInv /\ AdmitInv /\ HolderInv)
  BY <1>1, <1>2, PTL DEF Spec
<1> QED BY <1>3, <1>4, PTL
=============================================================================
