------------------------ MODULE ToolExecutionsProofs ------------------------
(***************************************************************************)
(* Theorems about ToolExecutions, for every set of workers, every number   *)
(* of leases and policy changes and every retry limit.                     *)
(***************************************************************************)
EXTENDS ToolExecutions, FiniteSetTheorems, TLAPS

-----------------------------------------------------------------------------
(* The inductive invariant. *)

\* The worker that was given the job's latest lease and still works. Only this
\* one can pass the fence; every other worker is late.
Cur(p) == w[p].pc # "idle" /\ w[p].tok = job.gen

\* One worker at a time is current, and none while the job waits or is over.
Leases ==
    /\ \A p, q \in Workers : Cur(p) /\ Cur(q) => p = q
    /\ \A p \in Workers : Cur(p) => job.status \in {"queued", "running"}
    /\ \A p \in Workers : w[p].pc # "idle" => w[p].tok \in 1..job.gen

\* At most one question is open.
Questions ==
    /\ approval = "pending" => \A a \in Attempts : conflict[a] # "pending"
    /\ \A a, b \in Attempts : conflict[a] = "pending" /\ conflict[b] = "pending" => a = b

\* The ledger row and the admission: no admission without a row, and at most one
\* attempt is counted per lease beyond the retry limit.
Ledger ==
    /\ row.status = "none" <=> row.attempt = 0
    /\ row.status = "none" => admission = NoAdmission
    /\ row.attempt <= RetryLimit + job.gen

\* What the checkpoint's phase says of row, admission and questions.
Checkpoint ==
    /\ ckpt.phase = "model" => row.status = "none"
    /\ ckpt.phase \in {"waiting_tool_approval", "uncertain_tool_execution"} =>
          row.status \in {"none", "started", "skipped"}
    /\ ckpt.phase = "waiting_tool_approval" => approval # "unasked"
    /\ ckpt.phase = "uncertain_tool_execution" =>
          admission # NoAdmission /\ ckpt.about \in Attempts
    /\ admission = NoAdmission /\ ckpt.approved => ckpt.bound /\ approval = "allow"

\* A person's "retry" that no worker has taken up yet.
ConsentOpen ==
    /\ ckpt.phase = "uncertain_tool_execution"
    /\ conflict[ckpt.about] = "retry"

\* Where every worker, late ones too, can be with its reading of the policy.
Governed(p) ==
    /\ w[p].pc # "rejected"
    /\ w[p].pc \in {"dispatch", "execute", "begin", "check", "govern", "admit"} =>
          w[p].tries <= 3
    /\ w[p].pc = "admit" =>
          /\ w[p].gov.mode # "deny"
          /\ w[p].gov.mode = "ask" => w[p].approved

\* What the current worker knows at each of its steps.
Current(p) ==
    /\ w[p].pc = "dispatch" => ~w[p].retry /\ ~w[p].approved
    /\ w[p].pc \in {"dispatch", "execute", "begin"} => ~w[p].created
    /\ w[p].pc = "askApproval" => row.status \in {"none", "started"}
    /\ w[p].pc \in {"dispatch", "execute", "begin", "check", "resume", "retryWait"} =>
          row.attempt < RetryLimit + job.gen
    /\ w[p].pc = "skip" =>
          ckpt.phase \in {"waiting_tool_approval", "uncertain_tool_execution"}
    /\ w[p].pc = "execute" /\ w[p].retry => ConsentOpen
    /\ w[p].pc \in {"begin", "check", "govern", "admit"} =>
          /\ ckpt.phase = "tool_running"
          /\ ckpt.approved = w[p].approved
          /\ ckpt.bound = w[p].bound
    /\ w[p].pc \in {"execute"} /\ admission = NoAdmission /\ w[p].approved =>
          w[p].bound /\ approval = "allow"
    /\ w[p].pc \in {"check", "govern", "admit", "resume", "invoke", "calling", "retryWait",
                    "complete", "fail", "askConflict"} =>
          row.status = "started" /\ w[p].attempt = row.attempt
    /\ w[p].pc \in {"resume", "invoke", "calling", "retryWait", "complete", "fail"} =>
          ckpt.phase \in {"tool_running", "tool_retry_wait"}
    /\ w[p].pc \in {"govern", "admit"} => admission = NoAdmission
    /\ w[p].pc = "check" /\ w[p].created => admission = NoAdmission
    /\ w[p].pc \in {"resume", "invoke", "calling", "retryWait", "complete",
                    "askConflict"} => admission # NoAdmission
    /\ w[p].pc \in {"retryWait"} => w[p].attempt < RetryLimit /\ idempotent

\* The workers that may still cause the side effect: those inside the call,
\* whatever became of their lease, and the current one on its way into it with
\* the admission or a person's consent.
CanAct(p) ==
    \/ w[p].pc = "calling"
    \/ /\ w[p].tok = job.gen
       /\ \/ w[p].pc \in {"resume", "invoke"}
          \/ w[p].pc \in {"begin", "check"} /\ w[p].retry

Licensed == {p \in Workers : CanAct(p)}

Admissions == IF admission = NoAdmission THEN 0 ELSE 1
OpenConsents == IF ConsentOpen THEN 1 ELSE 0

\* Effects, workers that may still act and consents not yet taken up never exceed
\* the admission and the consents given.
Counted ==
    /\ IsFiniteSet(Licensed)
    /\ ~idempotent =>
          effects + Cardinality(Licensed) + OpenConsents <= Admissions + Consents

Parts ==
    /\ Leases /\ Questions /\ Ledger /\ Checkpoint
    /\ \A p \in Workers : Governed(p) /\ (Cur(p) => Current(p))

\* The inductive invariant.
ToolInv == TypeOK /\ Parts /\ Counted
-----------------------------------------------------------------------------
(* Types *)

\* What a worker may remember.
Memory == [pc : Steps, tok : 0..MaxLeases, approved : BOOLEAN, bound : BOOLEAN,
           retry : BOOLEAN, created : BOOLEAN, attempt : Attempts \cup {0},
           gov : Policies, tries : 0..4]

\* The type invariant but for its last conjunct, the wait for an answer.
Shape ==
    /\ idempotent \in BOOLEAN
    /\ job \in [status : {"queued", "running", "waiting", "settled"}, gen : 0..MaxLeases]
    /\ ckpt \in [phase : Phases, approved : BOOLEAN, bound : BOOLEAN,
                 about : Attempts \cup {0}]
    /\ row \in [status : Statuses, attempt : Attempts \cup {0}]
    /\ admission \in [rev : 0..MaxPolicy, approved : BOOLEAN] \cup {NoAdmission}
    /\ policy \in Policies
    /\ approval \in {"unasked", "pending", "allow", "deny"}
    /\ conflict \in [Attempts -> {"unasked", "pending", "skip", "retry"}]
    /\ w \in [Workers -> Memory]
    /\ effects \in Nat

Pending == approval = "pending" \/ \E a \in Attempts : conflict[a] = "pending"

\* The type invariant has these two parts.
LEMMA TypeParts == TypeOK <=> Shape /\ (job.status = "waiting" <=> Pending)
BY DEF TypeOK, Shape, Memory, Pending

\* The same after a step.
LEMMA TypePartsNext ==
    ASSUME Shape', job'.status = "waiting" <=> Pending' PROVE TypeOK'
BY DEF TypeOK, Shape, Memory, Pending

\* An idle worker is well typed.
LEMMA IdleTyped == Idle \in Memory /\ Idle.pc = "idle" /\ Idle.tok = 0
BY ToolBoundsAssumption DEF Idle, Memory, Steps, Policies, Modes

\* The step of p leaves the other workers' memories alone.
OthersKept(p) == \A q \in Workers \ {p} : w'[q] = w[q]

\* All that p remembers besides its next step, its reading of the policy and its
\* number of tries.
SameTask(p) ==
    /\ w'[p].tok = w[p].tok /\ w'[p].approved = w[p].approved
    /\ w'[p].bound = w[p].bound /\ w'[p].retry = w[p].retry
    /\ w'[p].created = w[p].created /\ w'[p].attempt = w[p].attempt

\* A worker that goes on to another step remembers everything else.
LEMMA Moved ==
    ASSUME w \in [Workers -> Memory], NEW p \in Workers, NEW next \in Steps, Goto(p, next)
    PROVE  /\ w' \in [Workers -> Memory]
           /\ w'[p].pc = next /\ SameTask(p)
           /\ w'[p].gov = w[p].gov /\ w'[p].tries = w[p].tries
           /\ OthersKept(p)
BY DEF Goto, Memory, SameTask, OthersKept

\* A worker that takes the call up again with what the checkpoint says of it.
LEMMA Taken ==
    ASSUME w \in [Workers -> Memory], NEW p \in Workers,
           NEW a \in BOOLEAN, NEW b \in BOOLEAN, NEW r \in BOOLEAN,
           w' = [w EXCEPT ![p].pc = "execute", ![p].approved = a, ![p].bound = b,
                          ![p].retry = r]
    PROVE  /\ w' \in [Workers -> Memory] /\ OthersKept(p)
           /\ w'[p].pc = "execute" /\ w'[p].tok = w[p].tok
           /\ w'[p].approved = a /\ w'[p].bound = b /\ w'[p].retry = r
           /\ w'[p].created = w[p].created /\ w'[p].tries = w[p].tries
<1>1. w[p] \in Memory
  OBVIOUS
<1>2. w'[p] = [pc |-> "execute", tok |-> w[p].tok, approved |-> a, bound |-> b,
               retry |-> r, created |-> w[p].created, attempt |-> w[p].attempt,
               gov |-> w[p].gov, tries |-> w[p].tries]
  BY <1>1 DEF Memory
<1>3. w'[p] \in Memory
  BY <1>1, <1>2 DEF Memory, Steps
<1>4. OthersKept(p)
  BY DEF OthersKept
<1> QED BY <1>2, <1>3, <1>4

\* A worker that stops remembers nothing.
LEMMA Stopped ==
    ASSUME w \in [Workers -> Memory], NEW p \in Workers, w' = [w EXCEPT ![p] = Idle]
    PROVE  w' \in [Workers -> Memory] /\ w'[p].pc = "idle" /\ OthersKept(p)
BY IdleTyped DEF OthersKept

-----------------------------------------------------------------------------
(* How the parts of the invariant follow for every worker from what the step did *)
(* to its own worker.                                                            *)

\* A step of worker p that changes only its own memory, or that has passed the
\* fence, keeps what the other workers rely on: behind the fence there is no other
\* current worker.
LEMMA StepParts ==
    ASSUME Shape, Parts, Shape', NEW p \in Workers, w[p].pc # "idle",
           OthersKept(p), job'.gen = job.gen,
           \/ Cur(p)
           \/ UNCHANGED <<idempotent, job, ckpt, row, admission, approval, conflict>>,
           w'[p].pc # "idle" => /\ job'.status = job.status /\ w'[p].tok = w[p].tok
                                /\ Cur(p) => Current(p)',
           Governed(p)', Questions', Ledger', Checkpoint'
    PROVE  Parts'
<1>1. Leases'
  <2>1. \A q \in Workers : Cur(q)' => Cur(q)
    BY DEF OthersKept, Cur
  <2>2. \A q, r \in Workers : Cur(q)' /\ Cur(r)' => q = r
    BY <2>1 DEF Parts, Leases
  <2>3. \A q \in Workers : w'[q].pc # "idle" => w'[q].tok \in 1..job'.gen
    BY DEF Parts, Leases, OthersKept
  <2>4. ASSUME NEW q \in Workers, Cur(q)' PROVE job'.status \in {"queued", "running"}
    <3>1. CASE q = p
      BY <2>1, <2>4, <3>1 DEF Parts, Leases, Cur
    <3>2. CASE q # p
      BY <2>1, <2>4, <3>2 DEF Parts, Leases
    <3> QED BY <3>1, <3>2
  <2> QED BY <2>2, <2>3, <2>4 DEF Leases
<1>2. ASSUME NEW q \in Workers PROVE Governed(q)' /\ (Cur(q)' => Current(q)')
  <2>1. CASE q = p
    BY <2>1 DEF Cur
  <2>2. CASE q # p
    <3>1. w'[q] = w[q] /\ Governed(q) /\ (Cur(q) => Current(q)) /\ (Cur(q)' => Cur(q))
      BY <2>2 DEF OthersKept, Parts, Cur
    <3>2. Governed(q)'
      BY <3>1 DEF Governed
    <3>3. CASE Cur(p)
      BY <2>2, <3>1, <3>2, <3>3 DEF Parts, Leases
    <3>4. CASE UNCHANGED <<idempotent, job, ckpt, row, admission, approval, conflict>>
      BY <3>1, <3>2, <3>4 DEF Current, ConsentOpen
    <3> QED BY <3>3, <3>4
  <2> QED BY <2>1, <2>2
<1> QED BY <1>1, <1>2 DEF Parts

\* The same for a step that changes nothing but its worker's memory.
LEMMA LocalParts ==
    ASSUME Shape, Parts, Shape', NEW p \in Workers, w[p].pc # "idle", OthersKept(p),
           UNCHANGED <<idempotent, job, ckpt, row, admission, approval, conflict>>,
           w'[p].pc # "idle" => w'[p].tok = w[p].tok /\ (Cur(p) => Current(p)'),
           Governed(p)'
    PROVE  Parts'
<1>1. Questions' /\ Ledger' /\ Checkpoint'
  BY DEF Parts, Questions, Ledger, Checkpoint
<1> QED BY <1>1, StepParts

\* The numbers that are counted are numbers.
LEMMA CountTypes ==
    ASSUME Shape
    PROVE  Admissions \in 0..1 /\ OpenConsents \in 0..1 /\ Consents \in Nat
<1>1. Admissions \in 0..1 /\ OpenConsents \in 0..1
  BY DEF Admissions, OpenConsents
<1>2. IsFiniteSet(Attempts)
  BY ToolBoundsAssumption, FS_Interval DEF Attempts
<1>3. IsFiniteSet({a \in Attempts : conflict[a] = "retry"})
  BY <1>2, FS_Subset
<1>4. Consents \in Nat
  BY <1>3, FS_CardinalityType DEF Consents
<1> QED BY <1>1, <1>4

\* How a step of p may change the account: keep it, license p against an
\* admission or a consent, or spend p's licence.
LEMMA CountStep ==
    ASSUME Shape, Counted, Shape', NEW p \in Workers,
           Licensed' \subseteq Licensed \cup {p},
           idempotent' = idempotent,
           Consents' = Consents,
           ~idempotent =>
             \/ /\ Licensed' \subseteq Licensed /\ effects' = effects
                /\ Admissions' >= Admissions /\ OpenConsents' <= OpenConsents
             \/ /\ effects' = effects
                /\ Admissions' + OpenConsents = Admissions + OpenConsents' + 1
             \/ /\ p \in Licensed /\ p \notin Licensed' /\ effects' <= effects + 1
                /\ Admissions' = Admissions /\ OpenConsents' <= OpenConsents
    PROVE  Counted'
<1>0. /\ IsFiniteSet(Licensed) /\ Cardinality(Licensed) \in Nat
      /\ effects \in Nat /\ effects' \in Nat /\ Consents \in Nat
      /\ Admissions \in Nat /\ OpenConsents \in Nat
      /\ Admissions' \in Nat /\ OpenConsents' \in Nat
  <2>1. Admissions \in 0..1 /\ OpenConsents \in 0..1 /\ Consents \in Nat
    BY CountTypes
  <2>2. Admissions' \in 0..1 /\ OpenConsents' \in 0..1
    BY DEF Admissions, OpenConsents
  <2> QED BY <2>1, <2>2, FS_CardinalityType DEF Counted, Shape
<1>1. /\ IsFiniteSet(Licensed \cup {p})
      /\ Cardinality(Licensed \cup {p}) <= Cardinality(Licensed) + 1
  <2>1. /\ IsFiniteSet(Licensed \cup {p})
        /\ Cardinality(Licensed \cup {p}) =
              IF p \in Licensed THEN Cardinality(Licensed) ELSE Cardinality(Licensed) + 1
    BY <1>0, FS_AddElement
  <2> QED BY <1>0, <2>1
<1>2. /\ IsFiniteSet(Licensed')
      /\ Cardinality(Licensed') <= Cardinality(Licensed \cup {p})
      /\ Cardinality(Licensed') \in Nat
      /\ Cardinality(Licensed \cup {p}) \in Nat
  BY <1>1, FS_Subset, FS_CardinalityType
<1>3. Licensed' \subseteq Licensed => Cardinality(Licensed') <= Cardinality(Licensed)
  BY <1>0, FS_Subset
<1>4. p \in Licensed /\ p \notin Licensed' =>
          Cardinality(Licensed') <= Cardinality(Licensed) - 1
  <2> SUFFICES ASSUME p \in Licensed, p \notin Licensed'
               PROVE  Cardinality(Licensed') <= Cardinality(Licensed) - 1
    OBVIOUS
  <2>1. Licensed' \subseteq Licensed \ {p}
    OBVIOUS
  <2>2. IsFiniteSet(Licensed \ {p}) /\ Cardinality(Licensed \ {p}) = Cardinality(Licensed) - 1
    BY <1>0, FS_RemoveElement
  <2> QED BY <2>1, <2>2, FS_Subset
<1>5. ASSUME ~idempotent
      PROVE  effects' + Cardinality(Licensed') + OpenConsents' <= Admissions' + Consents'
  <2> HIDE DEF Licensed, Admissions, OpenConsents, Consents
  <2>1. effects + Cardinality(Licensed) + OpenConsents <= Admissions + Consents
    BY <1>5 DEF Counted
  <2> QED BY <1>0, <1>1, <1>2, <1>3, <1>4, <1>5, <2>1
<1> QED BY <1>2, <1>5 DEF Counted

-----------------------------------------------------------------------------
(* What a step has to show *)

\* A step of p licenses or spends nobody but p.
LEMMA LicensedStep ==
    ASSUME NEW p \in Workers, OthersKept(p), job'.gen = job.gen
    PROVE  /\ Licensed' \subseteq Licensed \cup {p}
           /\ (CanAct(p)' => CanAct(p)) => Licensed' \subseteq Licensed
           /\ p \in Licensed <=> CanAct(p)
           /\ p \in Licensed' <=> CanAct(p)'
<1>1. \A q \in Workers \ {p} : CanAct(q)' <=> CanAct(q)
  BY DEF OthersKept, CanAct
<1> QED BY <1>1 DEF Licensed

\* A step that changes nothing but the memory of its worker, and perhaps the world.
LEMMA LocalStep ==
    ASSUME ToolInv, NEW p \in Workers, w[p].pc # "idle",
           w' \in [Workers -> Memory], OthersKept(p),
           UNCHANGED <<idempotent, job, ckpt, row, admission, policy, approval, conflict>>,
           w'[p].pc # "idle" => w'[p].tok = w[p].tok /\ (Cur(p) => Current(p)'),
           Governed(p)', effects' \in Nat,
           ~idempotent =>
             \/ effects' = effects /\ (CanAct(p)' => CanAct(p))
             \/ effects' <= effects + 1 /\ CanAct(p) /\ ~CanAct(p)'
    PROVE  ToolInv'
<1>1. Shape /\ Parts /\ Counted /\ (job.status = "waiting" <=> Pending)
  BY TypeParts DEF ToolInv
<1>2. Shape' /\ (job'.status = "waiting" <=> Pending')
  BY <1>1 DEF Shape, Pending
<1>3. Parts'
  BY <1>1, <1>2, LocalParts
<1>4. /\ Consents' = Consents /\ Admissions' = Admissions /\ OpenConsents' = OpenConsents
      /\ idempotent' = idempotent
  BY DEF Consents, Admissions, OpenConsents, ConsentOpen
<1>5. /\ Licensed' \subseteq Licensed \cup {p}
      /\ (CanAct(p)' => CanAct(p)) => Licensed' \subseteq Licensed
      /\ p \in Licensed <=> CanAct(p)
      /\ p \in Licensed' <=> CanAct(p)'
  BY LicensedStep
<1>6. Admissions \in 0..1 /\ OpenConsents \in 0..1
  BY <1>1, CountTypes
<1>7. ~idempotent =>
         \/ /\ Licensed' \subseteq Licensed /\ effects' = effects
            /\ Admissions' >= Admissions /\ OpenConsents' <= OpenConsents
         \/ /\ p \in Licensed /\ p \notin Licensed' /\ effects' <= effects + 1
            /\ Admissions' = Admissions /\ OpenConsents' <= OpenConsents
  BY <1>4, <1>5, <1>6
<1>8. Counted'
  BY <1>1, <1>2, <1>4, <1>5, <1>7, CountStep
<1> QED BY <1>2, <1>3, <1>8, TypePartsNext DEF ToolInv

\* A step behind the fence: its worker is the current one.
LEMMA FencedStep ==
    ASSUME ToolInv, NEW p \in Workers, w[p].pc # "idle", Fenced(p),
           w' \in [Workers -> Memory], OthersKept(p), Shape', job'.gen = job.gen,
           job'.status = "waiting" <=> Pending',
           w'[p].pc # "idle" => job'.status = job.status /\ w'[p].tok = w[p].tok /\ Current(p)',
           Governed(p)', Questions', Ledger', Checkpoint',
           idempotent' = idempotent, effects' = effects, Consents' = Consents,
           ~idempotent =>
             \/ /\ CanAct(p)' => CanAct(p)
                /\ Admissions' = Admissions /\ OpenConsents' <= OpenConsents
             \/ Admissions' + OpenConsents = Admissions + OpenConsents' + 1
    PROVE  ToolInv'
<1>1. Shape /\ Parts /\ Counted
  BY TypeParts DEF ToolInv
<1>2. Cur(p)
  BY DEF Fenced, Cur
<1>3. Parts'
  BY <1>1, <1>2, StepParts
<1>5. /\ Licensed' \subseteq Licensed \cup {p}
      /\ (CanAct(p)' => CanAct(p)) => Licensed' \subseteq Licensed
  BY LicensedStep
<1>6. Admissions \in 0..1
  BY <1>1, CountTypes
<1>7. ~idempotent =>
         \/ /\ Licensed' \subseteq Licensed /\ effects' = effects
            /\ Admissions' >= Admissions /\ OpenConsents' <= OpenConsents
         \/ /\ effects' = effects
            /\ Admissions' + OpenConsents = Admissions + OpenConsents' + 1
  BY <1>5, <1>6
<1>8. Counted'
  BY <1>1, <1>5, <1>7, CountStep
<1> QED BY <1>3, <1>8, TypePartsNext DEF ToolInv

\* What the invariant says of a worker, in one place.
LEMMA WorkerFacts ==
    ASSUME ToolInv, NEW p \in Workers
    PROVE  /\ w \in [Workers -> Memory] /\ w[p] \in Memory /\ Shape
           /\ Governed(p) /\ (Cur(p) => Current(p))
           /\ w[p].pc # "idle" => w[p].tok \in 1..job.gen
           /\ Cur(p) => job.status \in {"queued", "running"} /\ ~Pending
           /\ Questions /\ Ledger /\ Checkpoint
BY TypeParts DEF ToolInv, Parts, Leases, Shape
-----------------------------------------------------------------------------
(* Steps that only change what a worker remembers *)

\* A worker that dies or gives up.
LEMMA WorkerStopsKeeps ==
    ASSUME ToolInv, NEW p \in Workers, WorkerStops(p) PROVE ToolInv'
<1>1. w \in [Workers -> Memory] /\ effects \in Nat
  BY WorkerFacts DEF Shape
<1>2. w' \in [Workers -> Memory] /\ w'[p].pc = "idle" /\ OthersKept(p)
  BY <1>1, Stopped DEF WorkerStops
<1>3. Governed(p)' /\ ~CanAct(p)'
  BY <1>2 DEF Governed, CanAct
<1> QED BY <1>1, <1>2, <1>3, LocalStep DEF WorkerStops, At

\* The model's tool call, and the checkpoint that is dropped: on to next without
\* having learnt anything.
LEMMA DispatchKeeps ==
    ASSUME ToolInv, NEW p \in Workers, NEW next \in {"settle", "askApproval", "execute"},
           At(p, "dispatch"), Goto(p, next),
           next # "settle" => ckpt.phase = "model",
           UNCHANGED <<idempotent, job, ckpt, row, admission, policy, approval, conflict,
                       effects>>
    PROVE  ToolInv'
<1>1. /\ w \in [Workers -> Memory] /\ Governed(p) /\ (Cur(p) => Current(p)) /\ Checkpoint
      /\ effects \in Nat
  BY WorkerFacts DEF Shape
<1>2. /\ w' \in [Workers -> Memory] /\ w'[p].pc = next /\ SameTask(p)
      /\ w'[p].gov = w[p].gov /\ w'[p].tries = w[p].tries /\ OthersKept(p)
  <2>1. next \in Steps
    BY DEF Steps
  <2> QED BY <1>1, <2>1, Moved
<1>3. Governed(p)'
  BY <1>1, <1>2 DEF Governed, At
<1>4. ASSUME Cur(p) PROVE Current(p)'
  BY <1>1, <1>2, <1>4 DEF Current, SameTask, At, Checkpoint, ConsentOpen
<1>5. ~CanAct(p)'
  BY <1>2 DEF CanAct
<1> QED BY <1>1, <1>2, <1>3, <1>4, <1>5, LocalStep DEF At, SameTask

\* The model stream delivers the call.
LEMMA HandleToolEventKeeps ==
    ASSUME ToolInv, NEW p \in Workers, HandleToolEvent(p) PROVE ToolInv'
<1>1. policy.mode \in Modes
  BY WorkerFacts DEF Shape, Policies
<1>2. PICK next \in {"settle", "askApproval", "execute"} : Goto(p, next)
  BY <1>1 DEF HandleToolEvent, Modes
<1> QED BY <1>2, DispatchKeeps DEF HandleToolEvent

\* A checkpoint left in the retry back-off is not taken up.
LEMMA ForgetRetryKeeps ==
    ASSUME ToolInv, NEW p \in Workers, ForgetRetry(p) PROVE ToolInv'
BY DispatchKeeps DEF ForgetRetry

\* The call of a worker that is gone.
LEMMA ResumeRunningKeeps ==
    ASSUME ToolInv, NEW p \in Workers, ResumeRunning(p) PROVE ToolInv'
<1>1. /\ w \in [Workers -> Memory] /\ Governed(p) /\ (Cur(p) => Current(p)) /\ Checkpoint
      /\ effects \in Nat /\ ckpt.approved \in BOOLEAN /\ ckpt.bound \in BOOLEAN
  BY WorkerFacts DEF Shape
<1>2. /\ w' \in [Workers -> Memory] /\ OthersKept(p)
      /\ w'[p].pc = "execute" /\ w'[p].tok = w[p].tok /\ w'[p].retry = w[p].retry
      /\ w'[p].approved = ckpt.approved /\ w'[p].bound = ckpt.bound
      /\ w'[p].created = w[p].created /\ w'[p].tries = w[p].tries
  <2>1. w[p].retry \in BOOLEAN
    BY <1>1 DEF Memory
  <2>2. w' = [w EXCEPT ![p].pc = "execute", ![p].approved = ckpt.approved,
                       ![p].bound = ckpt.bound, ![p].retry = w[p].retry]
    BY <1>1 DEF ResumeRunning, Memory
  <2> QED BY <1>1, <2>1, <2>2, Taken
<1>3. Governed(p)'
  BY <1>1, <1>2 DEF Governed, ResumeRunning, At
<1>4. ASSUME Cur(p) PROVE Current(p)'
  BY <1>1, <1>2, <1>4 DEF Current, ResumeRunning, At, Checkpoint
<1>5. ~CanAct(p)'
  BY <1>2 DEF CanAct
<1> QED BY <1>1, <1>2, <1>3, <1>4, <1>5, LocalStep DEF ResumeRunning, At

\* The answer the checkpoint waited for.
LEMMA ResumeInteractionKeeps ==
    ASSUME ToolInv, NEW p \in Workers, ResumeInteraction(p) PROVE ToolInv'
<1>1. /\ w \in [Workers -> Memory] /\ Governed(p) /\ (Cur(p) => Current(p)) /\ Checkpoint
      /\ effects \in Nat /\ ckpt.bound \in BOOLEAN /\ (Cur(p) => ~Pending)
      /\ approval \in {"unasked", "pending", "allow", "deny"}
  BY WorkerFacts DEF Shape
<1>2. /\ w' \in [Workers -> Memory] /\ OthersKept(p) /\ w'[p].tok = w[p].tok
      /\ w'[p].tries = w[p].tries /\ w'[p].created = w[p].created
  <2>1. CASE w' = [w EXCEPT ![p].pc = "skip"]
    <3>1. Goto(p, "skip") /\ "skip" \in Steps
      BY <2>1 DEF Goto, Steps
    <3> QED BY <1>1, <3>1, Moved DEF SameTask
  <2>2. CASE w' = [w EXCEPT ![p].pc = "execute", ![p].approved = TRUE,
                            ![p].bound = \/ ckpt.phase = "waiting_tool_approval"
                                         \/ ckpt.bound,
                            ![p].retry = (Answer = "retry")]
    BY <1>1, <2>2, Taken
  <2> QED BY <2>1, <2>2 DEF ResumeInteraction
<1>3. \/ w'[p].pc = "skip"
      \/ /\ w'[p].pc = "execute" /\ w'[p].approved = TRUE
         /\ w'[p].bound = (ckpt.phase = "waiting_tool_approval" \/ ckpt.bound)
         /\ w'[p].retry = (Answer = "retry") /\ Answer \notin {"deny", "skip"}
  <2>0. w[p] \in Memory
    BY <1>1
  <2>1. CASE Answer \in {"deny", "skip"}
    <3>1. w'[p] = [w[p] EXCEPT !.pc = "skip"]
      BY <1>1, <2>1 DEF ResumeInteraction
    <3> QED BY <2>0, <3>1 DEF Memory
  <2>2. CASE Answer \notin {"deny", "skip"}
    <3> DEFINE b == ckpt.phase = "waiting_tool_approval" \/ ckpt.bound
               c == Answer = "retry"
    <3>1. w'[p] = [w[p] EXCEPT !.pc = "execute", !.approved = TRUE, !.bound = b,
                               !.retry = c]
      BY <1>1, <2>2 DEF ResumeInteraction
    <3> HIDE DEF b, c
    <3>2. w'[p].pc = "execute" /\ w'[p].approved = TRUE /\ w'[p].bound = b
          /\ w'[p].retry = c
      BY <2>0, <3>1 DEF Memory
    <3> QED BY <2>2, <3>2 DEF b, c
  <2> QED BY <2>1, <2>2
<1>4. Governed(p)'
  BY <1>1, <1>2, <1>3 DEF Governed, ResumeInteraction, At
<1>5. ASSUME Cur(p) PROVE Current(p)'
  <2>1. CASE w'[p].pc = "skip"
    BY <2>1 DEF Current, ResumeInteraction
  <2>2. CASE /\ w'[p].pc = "execute" /\ w'[p].approved = TRUE
             /\ w'[p].bound = (ckpt.phase = "waiting_tool_approval" \/ ckpt.bound)
             /\ w'[p].retry = (Answer = "retry") /\ Answer \notin {"deny", "skip"}
    <3>1. w'[p].retry => ConsentOpen'
      BY <1>1, <2>2 DEF Answer, ConsentOpen, ResumeInteraction
    <3>2. admission = NoAdmission => w'[p].bound /\ approval = "allow"
      BY <1>1, <1>5, <2>2 DEF Answer, ResumeInteraction, Checkpoint, Pending
    <3> QED BY <1>1, <1>2, <1>5, <2>2, <3>1, <3>2 DEF Current, ResumeInteraction, At
  <2> QED BY <1>3, <2>1, <2>2
<1>6. ~CanAct(p)'
  BY <1>3 DEF CanAct
<1> QED BY <1>1, <1>2, <1>3, <1>4, <1>5, <1>6, LocalStep DEF ResumeInteraction, At

\* What is to be done with a call that was begun.  Without leave to repeat it, a call
\* in doubt of a tool that is not idempotent is not resumed.
LEMMA CheckKeeps ==
    ASSUME ToolInv, NEW p \in Workers, Check(p) PROVE ToolInv'
<1>1. /\ w \in [Workers -> Memory] /\ w[p] \in Memory
      /\ Governed(p) /\ (Cur(p) => Current(p)) /\ effects \in Nat
      /\ admission \in [rev : 0..MaxPolicy, approved : BOOLEAN] \cup {NoAdmission}
  BY WorkerFacts DEF Shape
<1>2. PICK next \in {"askConflict", "resume", "govern"}, a \in BOOLEAN :
         /\ w' = [w EXCEPT ![p].pc = next, ![p].approved = a]
         /\ next = "resume" => admission # NoAdmission /\ (idempotent \/ w[p].retry)
         /\ next = "askConflict" => admission # NoAdmission
         /\ next = "govern" => w[p].created \/ admission = NoAdmission
         /\ next # "askConflict" => a = w[p].approved
  <2>1. CASE MustAsk(p)
    <3>1. admission # NoAdmission
      BY <2>1 DEF MustAsk, InDoubt
    <3>2. admission.approved \in BOOLEAN
      BY <1>1, <3>1
    <3>3. w' = [w EXCEPT ![p].pc = "askConflict", ![p].approved = admission.approved]
      BY <2>1 DEF Check
    <3> QED BY <3>1, <3>2, <3>3
  <2>2. CASE InDoubt(p) /\ ~MustAsk(p)
    <3>1. admission # NoAdmission /\ (idempotent \/ w[p].retry)
      BY <2>2 DEF MustAsk, InDoubt
    <3>2. w' = [w EXCEPT ![p].pc = "resume", ![p].approved = w[p].approved]
      BY <2>2 DEF Check
    <3> QED BY <1>1, <3>1, <3>2 DEF Memory
  <2>3. CASE ~InDoubt(p)
    <3>1. w[p].created \/ admission = NoAdmission
      BY <2>3 DEF InDoubt
    <3>2. w' = [w EXCEPT ![p].pc = "govern", ![p].approved = w[p].approved]
      BY <2>3 DEF Check, MustAsk
    <3> QED BY <1>1, <3>1, <3>2 DEF Memory
  <2> QED BY <2>1, <2>2, <2>3
<1>3. /\ w' \in [Workers -> Memory] /\ OthersKept(p)
      /\ w'[p].pc = next /\ w'[p].approved = a /\ w'[p].tok = w[p].tok
      /\ w'[p].bound = w[p].bound /\ w'[p].retry = w[p].retry
      /\ w'[p].created = w[p].created /\ w'[p].attempt = w[p].attempt
      /\ w'[p].tries = w[p].tries
  <2>1. next \in Steps
    BY DEF Steps
  <2>2. w' \in [Workers -> Memory]
    BY <1>1, <1>2, <2>1 DEF Memory
  <2> QED BY <1>1, <1>2, <2>2 DEF Memory, OthersKept
<1>4. Governed(p)'
  BY <1>1, <1>3 DEF Governed, Check, At
<1>5. ASSUME Cur(p) PROVE Current(p)'
  BY <1>1, <1>2, <1>3, <1>5 DEF Current, Check, At
<1>6. ~idempotent => (CanAct(p)' => CanAct(p))
  BY <1>2, <1>3 DEF CanAct, Check, At
<1> QED BY <1>1, <1>3, <1>4, <1>5, <1>6, LocalStep DEF Check, At

\* The policy is read: at most three times on the way to the admission.
LEMMA GovernKeeps ==
    ASSUME ToolInv, NEW p \in Workers, Govern(p) PROVE ToolInv'
<1>1. /\ w \in [Workers -> Memory] /\ w[p] \in Memory /\ Governed(p)
      /\ (Cur(p) => Current(p)) /\ effects \in Nat /\ policy \in Policies
  BY WorkerFacts DEF Shape
<1>2. w[p].tries \in 0..3
  BY <1>1 DEF Memory, Governed, Govern, At
<1>3. PICK next \in {"fail", "askApproval", "admit"} :
         /\ w' = [w EXCEPT ![p].gov = policy, ![p].tries = @ + 1, ![p].pc = next]
         /\ next = "admit" => /\ w[p].tries < 3 /\ policy.mode # "deny"
                              /\ policy.mode = "ask" => w[p].approved
  <2>1. PICK n :
           /\ w' = [w EXCEPT ![p].gov = policy, ![p].tries = @ + 1, ![p].pc = n]
           /\ n = CASE w[p].tries = 3 \/ policy.mode = "deny" -> "fail"
                     [] w[p].tries < 3 /\ policy.mode = "ask" /\ ~w[p].approved -> "askApproval"
                     [] OTHER -> "admit"
    BY Zenon DEF Govern
  <2>2. /\ n \in {"fail", "askApproval", "admit"}
        /\ n = "admit" => /\ w[p].tries < 3 /\ policy.mode # "deny"
                          /\ policy.mode = "ask" => w[p].approved
    BY <1>2, <2>1
  <2> QED BY <2>1, <2>2
<1>4. w'[p] = [pc |-> next, tok |-> w[p].tok, approved |-> w[p].approved,
               bound |-> w[p].bound, retry |-> w[p].retry, created |-> w[p].created,
               attempt |-> w[p].attempt, gov |-> policy, tries |-> w[p].tries + 1]
  BY <1>1, <1>3 DEF Memory
<1>5. w'[p] \in Memory
  BY <1>1, <1>2, <1>4 DEF Memory, Steps
<1>6. OthersKept(p) /\ w' \in [Workers -> Memory]
  BY <1>1, <1>3, <1>5 DEF OthersKept
<1>7. Governed(p)'
  BY <1>1, <1>2, <1>3, <1>4 DEF Governed
<1>8. ASSUME Cur(p) PROVE Current(p)'
  BY <1>1, <1>3, <1>4, <1>8 DEF Current, Govern, At
<1>9. ~CanAct(p)' /\ w'[p].tok = w[p].tok
  BY <1>4 DEF CanAct
<1> QED BY <1>1, <1>6, <1>7, <1>8, <1>9, LocalStep DEF Govern, At

\* The handler returns: its worker's licence is spent.
LEMMA ReturnKeeps ==
    ASSUME ToolInv, NEW p \in Workers, NEW next \in {"complete", "fail", "askConflict"},
           At(p, "calling"), Goto(p, next), effects' \in {effects, effects + 1},
           UNCHANGED <<idempotent, job, ckpt, row, admission, policy, approval, conflict>>
    PROVE  ToolInv'
<1>1. /\ w \in [Workers -> Memory] /\ Governed(p) /\ (Cur(p) => Current(p))
      /\ effects \in Nat
  BY WorkerFacts DEF Shape
<1>2. /\ w' \in [Workers -> Memory] /\ w'[p].pc = next /\ SameTask(p) /\ OthersKept(p)
  <2>1. next \in Steps
    BY DEF Steps
  <2> QED BY <1>1, <2>1, Moved
<1>3. Governed(p)'
  BY <1>2 DEF Governed
<1>4. ASSUME Cur(p) PROVE Current(p)'
  BY <1>1, <1>2, <1>4 DEF Current, SameTask, At
<1>5. CanAct(p) /\ ~CanAct(p)' /\ effects' \in Nat /\ effects' <= effects + 1
  BY <1>1, <1>2 DEF CanAct, At
<1> QED BY <1>1, <1>2, <1>3, <1>4, <1>5, LocalStep DEF At, SameTask

\* The handler's answers.
LEMMA HandlerKeeps ==
    ASSUME ToolInv, NEW p \in Workers,
           HandlerSucceeds(p) \/ HandlerUncertain(p) \/ HandlerRejects(p)
    PROVE  ToolInv'
<1>1. CASE HandlerSucceeds(p)
  BY <1>1, ReturnKeeps DEF HandlerSucceeds
<1>2. CASE HandlerUncertain(p)
  <2>1. PICK next \in {"fail", "askConflict"} : Goto(p, next)
    BY <1>2 DEF HandlerUncertain
  <2> QED BY <1>2, <2>1, ReturnKeeps DEF HandlerUncertain
<1>3. CASE HandlerRejects(p)
  <2>1. CASE Goto(p, "fail")
    BY <1>3, <2>1, ReturnKeeps DEF HandlerRejects
  <2>2. CASE idempotent /\ w[p].attempt < RetryLimit /\ Goto(p, "retryWait")
    <3>1. /\ w \in [Workers -> Memory] /\ w[p] \in Memory /\ Governed(p)
          /\ (Cur(p) => Current(p)) /\ effects \in Nat
          /\ job \in [status : {"queued", "running", "waiting", "settled"}, gen : 0..MaxLeases]
      BY WorkerFacts DEF Shape
    <3>2. /\ w' \in [Workers -> Memory] /\ w'[p].pc = "retryWait" /\ SameTask(p)
          /\ OthersKept(p)
      <4>1. "retryWait" \in Steps
        BY DEF Steps
      <4> QED BY <2>2, <3>1, <4>1, Moved
    <3>3. Governed(p)'
      BY <3>2 DEF Governed
    <3>4. ASSUME Cur(p) PROVE Current(p)'
      <4>1. row.attempt < RetryLimit + job.gen
        <5>1. w[p].attempt = row.attempt
          BY <1>3, <3>1, <3>4 DEF Current, HandlerRejects, At
        <5>2. w[p].attempt \in Nat /\ job.gen \in Nat /\ RetryLimit \in Nat
          BY <3>1, ToolBoundsAssumption DEF Memory, Attempts
        <5> QED BY <2>2, <5>1, <5>2
      <4> QED BY <1>3, <2>2, <3>1, <3>2, <3>4, <4>1 DEF Current, SameTask, HandlerRejects, At
    <3>5. ~CanAct(p)'
      BY <3>2 DEF CanAct
    <3> QED BY <1>3, <3>1, <3>2, <3>3, <3>4, <3>5, LocalStep DEF HandlerRejects, At, SameTask
  <2> QED BY <1>3, <2>1, <2>2 DEF HandlerRejects
<1> QED BY <1>1, <1>2, <1>3

-----------------------------------------------------------------------------
(* Steps behind the fence *)

\* What the worker that passes the fence may rely on.
LEMMA FencedFacts ==
    ASSUME ToolInv, NEW p \in Workers, w[p].pc # "idle", Fenced(p)
    PROVE  /\ w \in [Workers -> Memory] /\ w[p] \in Memory /\ Shape
           /\ Governed(p) /\ Cur(p) /\ Current(p) /\ ~Pending
           /\ job.gen \in Nat /\ job.gen >= 1 /\ job.gen <= MaxLeases
           /\ row.attempt \in Nat /\ RetryLimit \in Nat /\ MaxLeases \in Nat
           /\ Questions /\ Ledger /\ Checkpoint
<1>1. Cur(p)
  BY DEF Fenced, Cur
<1>2. /\ w \in [Workers -> Memory] /\ w[p] \in Memory /\ Shape
      /\ Governed(p) /\ Current(p) /\ ~Pending
      /\ w[p].tok \in 1..job.gen
      /\ Questions /\ Ledger /\ Checkpoint
  BY <1>1, WorkerFacts
<1>3. job.gen \in 0..MaxLeases /\ row.attempt \in Nat
  BY <1>2, ToolBoundsAssumption DEF Shape, Attempts
<1> QED BY <1>1, <1>2, <1>3, ToolBoundsAssumption

\* A write to the ledger or to the checkpoint.
LEMMA WriteStep ==
    ASSUME ToolInv, NEW p \in Workers, w[p].pc # "idle", Fenced(p),
           w' \in [Workers -> Memory], OthersKept(p),
           UNCHANGED <<idempotent, job, policy, approval, conflict, effects>>,
           ckpt' \in [phase : Phases, approved : BOOLEAN, bound : BOOLEAN,
                      about : Attempts \cup {0}],
           row' \in [status : Statuses, attempt : Attempts \cup {0}],
           admission' \in [rev : 0..MaxPolicy, approved : BOOLEAN] \cup {NoAdmission},
           w'[p].tok = w[p].tok, Current(p)', Governed(p)', Ledger', Checkpoint',
           ~idempotent =>
             \/ /\ CanAct(p)' => CanAct(p)
                /\ Admissions' = Admissions /\ OpenConsents' <= OpenConsents
             \/ Admissions' + OpenConsents = Admissions + OpenConsents' + 1
    PROVE  ToolInv'
<1>1. Shape /\ (job.status = "waiting" <=> Pending) /\ Questions
  BY TypeParts DEF ToolInv, Parts
<1>2. Shape' /\ (job'.status = "waiting" <=> Pending') /\ Questions'
  BY <1>1 DEF Shape, Pending, Questions
<1>3. Consents' = Consents
  BY DEF Consents
<1> QED BY <1>2, <1>3, FencedStep

\* A write to the ledger's row alone.
LEMMA RowStep ==
    ASSUME ToolInv, NEW p \in Workers, w[p].pc # "idle", Fenced(p),
           w' \in [Workers -> Memory], OthersKept(p),
           UNCHANGED <<idempotent, job, ckpt, admission, policy, approval, conflict, effects>>,
           row' \in [status : Statuses, attempt : Attempts \cup {0}],
           w'[p].tok = w[p].tok, Current(p)', Governed(p)', Ledger', Checkpoint',
           CanAct(p)' => CanAct(p)
    PROVE  ToolInv'
<1>1. Shape /\ Admissions \in 0..1 /\ OpenConsents \in 0..1
  BY CountTypes, TypeParts DEF ToolInv
<1>2. Admissions' = Admissions /\ OpenConsents' = OpenConsents
  BY DEF Admissions, OpenConsents, ConsentOpen
<1> QED BY <1>1, <1>2, WriteStep DEF Shape

\* The call is over and the job with it, or the job is offered again.
LEMMA SettleKeeps ==
    ASSUME ToolInv, NEW p \in Workers, Settle(p) PROVE ToolInv'
<1>1. w[p].pc # "idle" /\ Fenced(p) /\ job.status = "running"
  BY DEF Settle, Fenced
<1>2. /\ w \in [Workers -> Memory] /\ Shape /\ ~Pending
      /\ Questions /\ Ledger /\ Checkpoint
  BY <1>1, FencedFacts
<1>3. w' \in [Workers -> Memory] /\ w'[p].pc = "idle" /\ OthersKept(p)
  BY <1>2, Stopped DEF Settle
<1>4. job' \in [status : {"queued", "settled"}, gen : 0..MaxLeases] /\ job'.gen = job.gen
  BY <1>2 DEF Settle, Shape
<1>5. Shape' /\ ~Pending' /\ job'.status # "waiting"
  BY <1>2, <1>3, <1>4 DEF Settle, Shape, Pending
<1>6. Questions' /\ Ledger' /\ Checkpoint'
  BY <1>2, <1>4 DEF Settle, Questions, Ledger, Checkpoint
<1>7. Governed(p)' /\ ~CanAct(p)'
  BY <1>3 DEF Governed, CanAct
<1>8. /\ Consents' = Consents /\ Admissions' = Admissions /\ OpenConsents' = OpenConsents
      /\ OpenConsents \in 0..1 /\ idempotent' = idempotent /\ effects' = effects
  BY <1>2, CountTypes DEF Settle, Consents, Admissions, OpenConsents, ConsentOpen
<1> QED BY <1>1, <1>3, <1>4, <1>5, <1>6, <1>7, <1>8, FencedStep

\* A declined call: the checkpoint that waited for the answer finds the row open.
LEMMA SkipKeeps ==
    ASSUME ToolInv, NEW p \in Workers, Skip(p) PROVE ToolInv'
<1>1. w[p].pc = "skip" /\ Fenced(p)
  BY DEF Skip, At
<1>2. /\ w \in [Workers -> Memory] /\ Shape /\ Governed(p) /\ Current(p)
      /\ job.gen \in Nat /\ job.gen >= 1 /\ RetryLimit \in Nat /\ Ledger /\ Checkpoint
  BY <1>1, FencedFacts
<1>3. CASE row.status = "none"
  <2>1. row' = [status |-> "started", attempt |-> 1] /\ w' = w
    BY <1>3 DEF Skip
  <2>2. row' \in [status : Statuses, attempt : Attempts \cup {0}]
    BY <2>1, ToolBoundsAssumption DEF Statuses, Attempts
  <2>3. Ledger' /\ Checkpoint'
    BY <1>1, <1>2, <1>3, <2>1 DEF Skip, Ledger, Checkpoint, Current
  <2>4. Current(p)' /\ Governed(p)' /\ OthersKept(p) /\ (CanAct(p)' => CanAct(p))
    BY <1>1, <1>2, <2>1 DEF Skip, Current, Governed, OthersKept, CanAct
  <2> QED BY <1>1, <1>2, <2>1, <2>2, <2>3, <2>4, RowStep DEF Skip
<1>4. CASE row.status # "none"
  <2>1. row.status \in {"started", "skipped"}
    BY <1>1, <1>2, <1>4 DEF Current, Checkpoint
  <2>2. row' = [row EXCEPT !.status = "skipped"] /\ Goto(p, "settle")
    BY <1>4, <2>1 DEF Skip, Record
  <2>3. /\ w' \in [Workers -> Memory] /\ w'[p].pc = "settle" /\ SameTask(p)
        /\ OthersKept(p)
    <3>1. "settle" \in Steps
      BY DEF Steps
    <3> QED BY <1>2, <2>2, <3>1, Moved
  <2>4. /\ row' \in [status : Statuses, attempt : Attempts \cup {0}]
        /\ row'.status = "skipped" /\ row'.attempt = row.attempt
    BY <1>2, <2>2 DEF Shape, Statuses
  <2>5. Ledger' /\ Checkpoint'
    BY <1>1, <1>2, <1>4, <2>4 DEF Skip, Ledger, Checkpoint, Current
  <2>6. Current(p)' /\ Governed(p)' /\ ~CanAct(p)'
    BY <2>3 DEF Current, Governed, CanAct
  <2> QED BY <1>1, <2>3, <2>4, <2>5, <2>6, RowStep DEF Skip, SameTask
<1> QED BY <1>3, <1>4

\* begin.
LEMMA BeginKeeps ==
    ASSUME ToolInv, NEW p \in Workers, Begin(p) PROVE ToolInv'
<1>1. w[p].pc = "begin" /\ Fenced(p)
  BY DEF Begin, At
<1>2. /\ w \in [Workers -> Memory] /\ w[p] \in Memory
      /\ Shape /\ Governed(p) /\ Current(p)
      /\ job.gen \in Nat /\ job.gen >= 1 /\ RetryLimit \in Nat /\ Ledger /\ Checkpoint
  BY <1>1, FencedFacts
<1>3. CASE row.status = "none"
  <2>1. /\ row' = [status |-> "started", attempt |-> 1]
        /\ w' = [w EXCEPT ![p].pc = "check", ![p].created = TRUE, ![p].attempt = 1]
    BY <1>3 DEF Begin
  <2>2. 1 \in Attempts
    BY ToolBoundsAssumption DEF Attempts
  <2>3. w'[p] = [pc |-> "check", tok |-> w[p].tok, approved |-> w[p].approved,
                 bound |-> w[p].bound, retry |-> w[p].retry, created |-> TRUE,
                 attempt |-> 1, gov |-> w[p].gov, tries |-> w[p].tries]
    BY <1>2, <2>1 DEF Memory
  <2>4. w'[p] \in Memory
    BY <1>2, <2>2, <2>3 DEF Memory, Steps
  <2>5. OthersKept(p) /\ w' \in [Workers -> Memory]
    BY <1>2, <2>1, <2>4 DEF OthersKept
  <2>6. row' \in [status : Statuses, attempt : Attempts \cup {0}]
    BY <2>1, <2>2 DEF Statuses
  <2>7. Ledger' /\ Checkpoint'
    BY <1>1, <1>2, <1>3, <2>1 DEF Begin, Ledger, Checkpoint, Current
  <2>8. Governed(p)' /\ (CanAct(p)' => CanAct(p)) /\ w'[p].tok = w[p].tok
    BY <1>1, <1>2, <2>3 DEF Begin, Governed, CanAct
  <2>9. 1 < RetryLimit + job.gen
    BY <1>2, ToolBoundsAssumption
  <2>10. Current(p)'
    BY <1>1, <1>2, <1>3, <2>1, <2>3, <2>9 DEF Begin, Current, Ledger
  <2> QED BY <1>1, <2>5, <2>6, <2>7, <2>8, <2>10, RowStep DEF Begin
<1>4. CASE row.status # "none"
  <2>1. PICK next \in {"check", "settle"} :
           /\ w' = [w EXCEPT ![p].pc = next, ![p].attempt = row.attempt]
           /\ next = "check" => row.status = "started"
    BY <1>4 DEF Begin
  <2>2. next \in Steps /\ row.attempt \in Attempts \cup {0} /\ row' = row
    BY <1>2, <1>4 DEF Begin, Shape, Steps
  <2>3. w' \in [Workers -> Memory]
    BY <1>2, <2>1, <2>2 DEF Memory
  <2>4. /\ OthersKept(p) /\ w'[p].pc = next /\ w'[p].attempt = row.attempt
        /\ w'[p].tok = w[p].tok /\ w'[p].approved = w[p].approved
        /\ w'[p].bound = w[p].bound /\ w'[p].retry = w[p].retry
        /\ w'[p].created = w[p].created /\ w'[p].tries = w[p].tries
    BY <1>2, <2>1 DEF Memory, OthersKept
  <2>5. Ledger' /\ Checkpoint'
    BY <1>2, <2>2 DEF Begin, Ledger, Checkpoint
  <2>6. Governed(p)' /\ (CanAct(p)' => CanAct(p))
    BY <1>1, <1>2, <2>4 DEF Begin, Governed, CanAct
  <2>7. Current(p)'
    BY <1>1, <1>2, <2>1, <2>2, <2>4 DEF Begin, Current
  <2> QED BY <1>1, <1>2, <2>2, <2>3, <2>4, <2>5, <2>6, <2>7, RowStep DEF Begin, Shape
<1> QED BY <1>3, <1>4

\* The heartbeat's checkpoints: what the worker knows of the approval goes into
\* the checkpoint, and a consent the old one named has been taken up by p.
LEMMA CheckpointStep ==
    ASSUME ToolInv, NEW p \in Workers, w[p].pc # "idle", Fenced(p),
           w' \in [Workers -> Memory], OthersKept(p), w'[p].tok = w[p].tok,
           UNCHANGED <<idempotent, job, row, admission, policy, approval, conflict, effects>>,
           ckpt'.phase \in {"tool_running", "tool_retry_wait"},
           ckpt' = [phase |-> ckpt'.phase, approved |-> w[p].approved,
                    bound |-> w[p].bound, about |-> 0],
           Current(p)', Governed(p)',
           admission = NoAdmission /\ w[p].approved => w[p].bound /\ approval = "allow",
           ~idempotent => \/ CanAct(p)' => CanAct(p)
                          \/ ConsentOpen
    PROVE  ToolInv'
<1>1. /\ Shape /\ w[p] \in Memory /\ Ledger /\ Checkpoint
  BY FencedFacts
<1>2. ckpt' \in [phase : Phases, approved : BOOLEAN, bound : BOOLEAN,
                 about : Attempts \cup {0}]
  BY <1>1 DEF Memory, Phases
<1>3. Ledger' /\ Checkpoint'
  BY <1>1 DEF Ledger, Checkpoint
<1>4. /\ Admissions' = Admissions /\ Admissions \in 0..1
      /\ OpenConsents \in 0..1 /\ OpenConsents' = 0 /\ (ConsentOpen => OpenConsents = 1)
  BY <1>1, CountTypes DEF Admissions, OpenConsents, ConsentOpen
<1>5. ~idempotent =>
         \/ /\ CanAct(p)' => CanAct(p)
            /\ Admissions' = Admissions /\ OpenConsents' <= OpenConsents
         \/ Admissions' + OpenConsents = Admissions + OpenConsents' + 1
  BY <1>4
<1> QED BY <1>1, <1>2, <1>3, <1>5, WriteStep DEF Shape

\* The heartbeat before the call is begun.
LEMMA MarkRunningKeeps ==
    ASSUME ToolInv, NEW p \in Workers, MarkRunning(p) PROVE ToolInv'
<1>1. w[p].pc = "execute" /\ Fenced(p)
  BY DEF MarkRunning, At
<1>2. w \in [Workers -> Memory] /\ Governed(p) /\ Current(p)
  BY <1>1, FencedFacts
<1>3. /\ w' \in [Workers -> Memory] /\ w'[p].pc = "begin" /\ SameTask(p)
      /\ w'[p].tries = w[p].tries /\ OthersKept(p)
  <2>1. "begin" \in Steps
    BY DEF Steps
  <2> QED BY <1>2, <2>1, Moved DEF MarkRunning
<1>4. /\ ckpt' = [phase |-> "tool_running", approved |-> w[p].approved,
                  bound |-> w[p].bound, about |-> 0]
      /\ ckpt'.phase = "tool_running" /\ ckpt'.approved = w[p].approved
      /\ ckpt'.bound = w[p].bound
  BY DEF MarkRunning, RunningCheckpoint
<1>5. Governed(p)'
  BY <1>1, <1>2, <1>3 DEF Governed
<1>6. Current(p)'
  BY <1>1, <1>2, <1>3, <1>4 DEF Current, SameTask, MarkRunning
<1>7. (CanAct(p)' => CanAct(p)) \/ ConsentOpen
  BY <1>1, <1>2, <1>3 DEF CanAct, Current, SameTask
<1>8. admission = NoAdmission /\ w[p].approved => w[p].bound /\ approval = "allow"
  BY <1>1, <1>2 DEF Current
<1> QED BY <1>1, <1>3, <1>4, <1>5, <1>6, <1>7, <1>8, CheckpointStep DEF MarkRunning, SameTask

\* The heartbeat during the call.
LEMMA PulseKeeps ==
    ASSUME ToolInv, NEW p \in Workers, Pulse(p) PROVE ToolInv'
<1>1. w[p].pc = "calling" /\ Fenced(p)
  BY DEF Pulse, At
<1>2. w \in [Workers -> Memory] /\ Governed(p) /\ Current(p)
  BY <1>1, FencedFacts
<1>3. /\ w' = w /\ OthersKept(p) /\ w'[p].pc = "calling"
      /\ ckpt' = [phase |-> "tool_running", approved |-> w[p].approved,
                  bound |-> w[p].bound, about |-> 0]
      /\ ckpt'.phase = "tool_running"
  BY <1>1 DEF Pulse, RunningCheckpoint, OthersKept
<1>4. Governed(p)' /\ (CanAct(p)' => CanAct(p))
  BY <1>1, <1>2, <1>3 DEF Governed, CanAct
<1>5. Current(p)'
  BY <1>1, <1>2, <1>3 DEF Current, Pulse
<1>6. admission # NoAdmission
  BY <1>1, <1>2 DEF Current
<1> QED BY <1>1, <1>2, <1>3, <1>4, <1>5, <1>6, CheckpointStep DEF Pulse

\* The back-off before another attempt.
LEMMA RetryWaitKeeps ==
    ASSUME ToolInv, NEW p \in Workers, RetryWait(p) PROVE ToolInv'
<1>1. w[p].pc = "retryWait" /\ Fenced(p)
  BY DEF RetryWait, At
<1>2. w \in [Workers -> Memory] /\ Governed(p) /\ Current(p)
  BY <1>1, FencedFacts
<1>3. /\ w' \in [Workers -> Memory] /\ w'[p].pc = "resume" /\ SameTask(p) /\ OthersKept(p)
  <2>1. "resume" \in Steps
    BY DEF Steps
  <2> QED BY <1>2, <2>1, Moved DEF RetryWait
<1>4. /\ ckpt' = [phase |-> "tool_retry_wait", approved |-> w[p].approved,
                  bound |-> w[p].bound, about |-> 0]
      /\ ckpt'.phase = "tool_retry_wait"
  BY DEF RetryWait, RunningCheckpoint
<1>5. Governed(p)'
  BY <1>3 DEF Governed
<1>6. Current(p)'
  BY <1>1, <1>2, <1>3, <1>4 DEF Current, SameTask, RetryWait
<1>7. idempotent /\ admission # NoAdmission
  BY <1>1, <1>2 DEF Current
<1> QED BY <1>1, <1>3, <1>4, <1>5, <1>6, <1>7, CheckpointStep DEF RetryWait, SameTask

\* resume_uncertain: the attempt that is counted stays within the bound.
LEMMA ResumeUncertainKeeps ==
    ASSUME ToolInv, NEW p \in Workers, ResumeUncertain(p) PROVE ToolInv'
<1>1. w[p].pc = "resume" /\ Fenced(p)
  BY DEF ResumeUncertain, At
<1>2. /\ w \in [Workers -> Memory] /\ w[p] \in Memory /\ Shape /\ Governed(p) /\ Current(p)
      /\ job.gen \in Nat /\ job.gen <= MaxLeases /\ RetryLimit \in Nat /\ MaxLeases \in Nat
      /\ row.attempt \in Nat /\ Ledger /\ Checkpoint
  BY <1>1, FencedFacts
<1>3. row.status = "started" /\ row.attempt < RetryLimit + job.gen
  BY <1>1, <1>2 DEF Current
<1>4. row' = [row EXCEPT !.attempt = @ + 1]
  BY <1>3 DEF ResumeUncertain
<1>5. /\ row'.status = "started" /\ row'.attempt = row.attempt + 1
      /\ row'.attempt \in Attempts /\ row'.attempt <= RetryLimit + job.gen
      /\ row' \in [status : Statuses, attempt : Attempts \cup {0}]
  <2>1. row.attempt + 1 \in Attempts /\ row.attempt + 1 <= RetryLimit + job.gen
    BY <1>2, <1>3 DEF Attempts
  <2>2. row \in [status : Statuses, attempt : Attempts \cup {0}]
    BY <1>2 DEF Shape
  <2> QED BY <1>3, <1>4, <2>1, <2>2
<1>6. /\ w' \in [Workers -> Memory] /\ OthersKept(p) /\ w'[p].pc = "invoke"
      /\ w'[p].attempt = row'.attempt /\ w'[p].tok = w[p].tok
  <2>1. PICK a \in Attempts :
           a = row'.attempt /\ w' = [w EXCEPT ![p].pc = "invoke", ![p].attempt = a]
    BY <1>5 DEF ResumeUncertain
  <2>2. "invoke" \in Steps
    BY DEF Steps
  <2>3. w' \in [Workers -> Memory]
    BY <1>2, <2>1, <2>2 DEF Memory
  <2> QED BY <1>2, <2>1, <2>3 DEF Memory, OthersKept
<1>7. Ledger' /\ Checkpoint'
  BY <1>2, <1>3, <1>5, ToolBoundsAssumption DEF ResumeUncertain, Ledger, Checkpoint, Attempts
<1>8. Governed(p)' /\ (CanAct(p)' => CanAct(p))
  BY <1>1, <1>6 DEF Governed, CanAct, Fenced
<1>9. Current(p)'
  BY <1>1, <1>2, <1>5, <1>6 DEF Current, ResumeUncertain
<1> QED BY <1>1, <1>5, <1>6, <1>7, <1>8, <1>9, RowStep DEF ResumeUncertain

\* The call is started.
LEMMA InvokeKeeps ==
    ASSUME ToolInv, NEW p \in Workers, Invoke(p) PROVE ToolInv'
<1>1. w[p].pc = "invoke" /\ Fenced(p)
  BY DEF Invoke, At
<1>2. w \in [Workers -> Memory] /\ Shape /\ Governed(p) /\ Current(p) /\ Ledger /\ Checkpoint
  BY <1>1, FencedFacts
<1>3. w' \in [Workers -> Memory] /\ w'[p].pc = "calling" /\ SameTask(p) /\ OthersKept(p)
  <2>1. "calling" \in Steps
    BY DEF Steps
  <2> QED BY <1>2, <2>1, Moved DEF Invoke
<1>4. Governed(p)' /\ CanAct(p)
  BY <1>1, <1>3 DEF Governed, CanAct, Fenced
<1>5. Current(p)'
  BY <1>1, <1>2, <1>3 DEF Current, SameTask, Invoke
<1>6. Ledger' /\ Checkpoint' /\ row' \in [status : Statuses, attempt : Attempts \cup {0}]
  BY <1>2 DEF Invoke, Ledger, Checkpoint, Shape
<1> QED BY <1>1, <1>3, <1>4, <1>5, <1>6, RowStep DEF Invoke, SameTask

\* complete and fail find the row open.
LEMMA RecordKeeps ==
    ASSUME ToolInv, NEW p \in Workers, w[p].pc \in {"complete", "fail"}, Fenced(p),
           NEW from, "started" \in from, NEW status \in {"completed", "failed"},
           NEW next \in {"settle", "requeue"}, Record(p, from, status, next),
           UNCHANGED <<idempotent, job, ckpt, admission, policy, approval, conflict, effects>>
    PROVE  ToolInv'
<1>1. w \in [Workers -> Memory] /\ Shape /\ Governed(p) /\ Current(p) /\ Ledger /\ Checkpoint
  BY FencedFacts
<1>2. row.status = "started" /\ ckpt.phase \in {"tool_running", "tool_retry_wait"}
  BY <1>1 DEF Current
<1>3. row' = [row EXCEPT !.status = status] /\ Goto(p, next)
  BY <1>2 DEF Record
<1>4. w' \in [Workers -> Memory] /\ w'[p].pc = next /\ SameTask(p) /\ OthersKept(p)
  <2>1. next \in Steps
    BY DEF Steps
  <2> QED BY <1>1, <1>3, <2>1, Moved
<1>5. /\ row' \in [status : Statuses, attempt : Attempts \cup {0}]
      /\ row'.status = status /\ row'.attempt = row.attempt
  BY <1>1, <1>3 DEF Shape, Statuses
<1>6. Ledger' /\ Checkpoint'
  BY <1>1, <1>2, <1>5 DEF Ledger, Checkpoint
<1>7. Current(p)' /\ Governed(p)' /\ ~CanAct(p)'
  BY <1>4 DEF Current, Governed, CanAct
<1> QED BY <1>4, <1>5, <1>6, <1>7, RowStep DEF SameTask

\* complete.
LEMMA CompleteKeeps ==
    ASSUME ToolInv, NEW p \in Workers, Complete(p) PROVE ToolInv'
BY RecordKeeps DEF Complete, At

\* fail.
LEMMA FailKeeps ==
    ASSUME ToolInv, NEW p \in Workers, Fail(p) PROVE ToolInv'
<1>1. PICK next \in {"settle", "requeue"} :
         Record(p, Statuses \ {"completed"}, "failed", next)
  BY DEF Fail
<1>2. "started" \in Statuses \ {"completed"}
  BY DEF Statuses
<1> QED BY <1>1, <1>2, RecordKeeps DEF Fail, At

\* admit: the approval binds, and the admission licenses its worker.
LEMMA AdmitKeeps ==
    ASSUME ToolInv, NEW p \in Workers, Admit(p) PROVE ToolInv'
<1>1. w[p].pc = "admit" /\ Fenced(p)
  BY DEF Admit, At
<1>2. /\ w \in [Workers -> Memory] /\ w[p] \in Memory /\ Shape
      /\ Governed(p) /\ Current(p) /\ Ledger /\ Checkpoint
  BY <1>1, FencedFacts
<1>3. /\ admission = NoAdmission /\ row.status = "started"
      /\ ckpt.phase = "tool_running" /\ ckpt.approved = w[p].approved
      /\ ckpt.bound = w[p].bound
  BY <1>1, <1>2 DEF Current
<1>4. CASE ~PolicyCurrent(p)
  <2>1. Goto(p, "govern") /\ admission' = admission
    BY <1>4 DEF Admit
  <2>2. /\ w' \in [Workers -> Memory] /\ w'[p].pc = "govern" /\ SameTask(p)
        /\ w'[p].tries = w[p].tries /\ OthersKept(p)
    <3>1. "govern" \in Steps
      BY DEF Steps
    <3> QED BY <1>2, <2>1, <3>1, Moved
  <2>3. Governed(p)' /\ ~CanAct(p)'
    BY <1>1, <1>2, <2>2 DEF Governed, CanAct
  <2>4. Current(p)'
    BY <1>1, <1>2, <2>1, <2>2 DEF Current, SameTask, Admit
  <2>5. /\ Ledger' /\ Checkpoint'
        /\ row' \in [status : Statuses, attempt : Attempts \cup {0}]
    BY <1>2, <2>1 DEF Admit, Ledger, Checkpoint, Shape
  <2> QED BY <1>1, <2>1, <2>2, <2>3, <2>4, <2>5, RowStep DEF Admit, SameTask
<1>5. CASE PolicyCurrent(p)
  <2>1. w[p].approved => ApprovalBinds(p)
    BY <1>2, <1>3 DEF ApprovalBinds, Checkpoint
  <2>2. /\ Goto(p, "invoke")
        /\ admission' = [rev |-> policy.rev, approved |-> w[p].approved]
    BY <1>3, <1>5, <2>1 DEF Admit
  <2>3. admission' \in [rev : 0..MaxPolicy, approved : BOOLEAN] /\ admission' # NoAdmission
    BY <1>2, <2>2, ToolBoundsAssumption DEF Shape, Policies, Memory
  <2>4. w' \in [Workers -> Memory] /\ w'[p].pc = "invoke" /\ SameTask(p) /\ OthersKept(p)
    <3>1. "invoke" \in Steps
      BY DEF Steps
    <3> QED BY <1>2, <2>2, <3>1, Moved
  <2>5. Governed(p)'
    BY <2>4 DEF Governed
  <2>6. Current(p)'
    BY <1>1, <1>2, <1>3, <2>3, <2>4 DEF Current, SameTask, Admit
  <2>7. Ledger' /\ Checkpoint'
    BY <1>2, <1>3, <2>3 DEF Admit, Ledger, Checkpoint
  <2>8. Admissions' + OpenConsents = Admissions + OpenConsents' + 1
    <3>1. Admissions = 0 /\ Admissions' = 1
      BY <1>3, <2>3 DEF Admissions
    <3>2. OpenConsents' = OpenConsents /\ OpenConsents \in 0..1
      BY DEF OpenConsents, ConsentOpen, Admit
    <3> QED BY <3>1, <3>2
  <2> QED BY <1>1, <1>2, <2>3, <2>4, <2>5, <2>6, <2>7, <2>8, WriteStep
      DEF Admit, SameTask, Shape
<1> QED BY <1>4, <1>5
-----------------------------------------------------------------------------
(* Questions and answers *)

\* A question that was asked before: the worker stops, nothing else happens.
LEMMA GivesUp ==
    ASSUME ToolInv, NEW p \in Workers, w[p].pc # "idle", w' = [w EXCEPT ![p] = Idle],
           UNCHANGED <<idempotent, job, ckpt, row, admission, policy, approval, conflict,
                       effects>>
    PROVE  ToolInv'
BY WorkerStopsKeeps DEF WorkerStops, At

\* A new question: the job waits for it, nobody is current any more, and no consent
\* is lost or gained.
LEMMA QuestionStep ==
    ASSUME ToolInv, NEW p \in Workers, w[p].pc # "idle", Fenced(p),
           w' = [w EXCEPT ![p] = Idle], job' = [job EXCEPT !.status = "waiting"],
           UNCHANGED <<idempotent, row, admission, policy, effects>>, Pending',
           ckpt' \in [phase : Phases, approved : BOOLEAN, bound : BOOLEAN,
                      about : Attempts \cup {0}],
           approval' \in {"unasked", "pending", "allow", "deny"},
           conflict' \in [Attempts -> {"unasked", "pending", "skip", "retry"}],
           Questions', Checkpoint', Consents' = Consents, ~ConsentOpen'
    PROVE  ToolInv'
<1>1. w \in [Workers -> Memory] /\ Shape /\ Ledger
  BY FencedFacts
<1>2. w' \in [Workers -> Memory] /\ w'[p].pc = "idle" /\ OthersKept(p)
  BY <1>1, Stopped
<1>3. /\ job' \in [status : {"queued", "running", "waiting", "settled"}, gen : 0..MaxLeases]
      /\ job'.gen = job.gen /\ job'.status = "waiting"
  BY <1>1 DEF Shape
<1>4. Shape' /\ Ledger'
  BY <1>1, <1>2, <1>3 DEF Shape, Ledger
<1>5. Governed(p)' /\ ~CanAct(p)'
  BY <1>2 DEF Governed, CanAct
<1>6. Admissions' = Admissions /\ OpenConsents' <= OpenConsents
  BY DEF Admissions, OpenConsents
<1> QED BY <1>2, <1>3, <1>4, <1>5, <1>6, FencedStep

\* The question for approval.
LEMMA AskApprovalKeeps ==
    ASSUME ToolInv, NEW p \in Workers, AskApproval(p) PROVE ToolInv'
<1>1. w[p].pc = "askApproval" /\ Fenced(p)
  BY DEF AskApproval, At
<1>2. Shape /\ Current(p) /\ ~Pending /\ Questions /\ Checkpoint /\ Ledger
  BY <1>1, FencedFacts
<1>3. CASE approval = "unasked"
  <2>1. /\ approval' = "pending" /\ conflict' = conflict
        /\ ckpt' = [phase |-> "waiting_tool_approval", approved |-> FALSE,
                    bound |-> FALSE, about |-> 0]
        /\ job' = [job EXCEPT !.status = "waiting"]
        /\ w' = [w EXCEPT ![p] = Idle]
    BY <1>3 DEF AskApproval
  <2>2. ckpt' \in [phase : Phases, approved : BOOLEAN, bound : BOOLEAN,
                   about : Attempts \cup {0}]
    BY <2>1 DEF Phases
  <2>3. Pending' /\ Questions'
    BY <1>2, <2>1 DEF Pending, Questions
  <2>4. Checkpoint'
    BY <1>1, <1>2, <2>1 DEF AskApproval, Checkpoint, Current
  <2>5. Consents' = Consents /\ ~ConsentOpen'
    BY <2>1 DEF Consents, ConsentOpen
  <2> QED BY <1>1, <1>2, <2>1, <2>2, <2>3, <2>4, <2>5, QuestionStep DEF AskApproval, Shape
<1>4. CASE approval # "unasked"
  BY <1>1, <1>4, GivesUp DEF AskApproval
<1> QED BY <1>3, <1>4

\* The question whether to repeat a call in doubt.
LEMMA AskConflictKeeps ==
    ASSUME ToolInv, NEW p \in Workers, AskConflict(p) PROVE ToolInv'
<1>1. w[p].pc = "askConflict" /\ Fenced(p)
  BY DEF AskConflict, At
<1>2. /\ w[p] \in Memory /\ Shape /\ Current(p) /\ ~Pending /\ Questions
      /\ Checkpoint /\ Ledger
  BY <1>1, FencedFacts
<1>3. PICK key : key = w[p].attempt
  OBVIOUS
<1>4. /\ row.status = "started" /\ admission # NoAdmission /\ key = row.attempt
      /\ key \in Attempts
  <2>1. row.status = "started" /\ admission # NoAdmission /\ key = row.attempt
    BY <1>1, <1>2, <1>3 DEF Current
  <2> QED BY <1>2, <2>1 DEF Ledger, Shape
<1>5. CASE conflict[key] = "unasked"
  <2>1. /\ conflict' = [conflict EXCEPT ![key] = "pending"] /\ approval' = approval
        /\ ckpt' = [phase |-> "uncertain_tool_execution", approved |-> w[p].approved,
                    bound |-> w[p].bound, about |-> key]
        /\ job' = [job EXCEPT !.status = "waiting"]
        /\ w' = [w EXCEPT ![p] = Idle]
    BY <1>3, <1>5 DEF AskConflict
  <2>2. ckpt' \in [phase : Phases, approved : BOOLEAN, bound : BOOLEAN,
                   about : Attempts \cup {0}]
    BY <1>2, <1>4, <2>1 DEF Phases, Memory
  <2>3. /\ conflict' \in [Attempts -> {"unasked", "pending", "skip", "retry"}]
        /\ conflict'[key] = "pending"
        /\ \A a \in Attempts : a # key => conflict'[a] = conflict[a]
    BY <1>2, <1>4, <2>1 DEF Shape
  <2>4. Pending' /\ Questions'
    BY <1>2, <1>4, <2>1, <2>3 DEF Pending, Questions
  <2>5. Checkpoint'
    BY <1>2, <1>4, <2>1 DEF AskConflict, Checkpoint
  <2>6. Consents' = Consents
    <3>1. {a \in Attempts : conflict'[a] = "retry"} = {a \in Attempts : conflict[a] = "retry"}
      BY <1>4, <1>5, <2>3
    <3> QED BY <3>1 DEF Consents
  <2>7. ~ConsentOpen'
    BY <2>1, <2>3 DEF ConsentOpen
  <2> QED BY <1>1, <1>2, <2>1, <2>2, <2>3, <2>4, <2>5, <2>6, <2>7, QuestionStep
      DEF AskConflict, Shape
<1>6. CASE conflict[key] # "unasked"
  BY <1>1, <1>3, <1>6, GivesUp DEF AskConflict
<1> QED BY <1>5, <1>6

\* While the job waits no worker is current.
LEMMA NobodyCurrent ==
    ASSUME ToolInv, Pending, NEW p \in Workers PROVE ~Cur(p)
BY WorkerFacts

\* The person's answer: the job is offered again.
LEMMA AnswerStep ==
    ASSUME ToolInv, Pending, job' = [job EXCEPT !.status = "queued"],
           UNCHANGED <<idempotent, ckpt, row, admission, policy, w, effects>>, ~Pending',
           approval' \in {"unasked", "pending", "allow", "deny"},
           conflict' \in [Attempts -> {"unasked", "pending", "skip", "retry"}],
           Questions', Checkpoint'
    PROVE  /\ TypeOK' /\ Parts' /\ Licensed' = Licensed
<1>1. Shape /\ Ledger /\ Leases /\ \A p \in Workers : Governed(p)
  BY TypeParts DEF ToolInv, Parts
<1>2. /\ job' \in [status : {"queued", "running", "waiting", "settled"}, gen : 0..MaxLeases]
      /\ job'.gen = job.gen /\ job'.status = "queued"
  BY <1>1 DEF Shape
<1>3. Shape'
  BY <1>1, <1>2 DEF Shape
<1>4. TypeOK'
  BY <1>2, <1>3, TypePartsNext
<1>5. \A p \in Workers : ~Cur(p)'
  BY <1>2, NobodyCurrent DEF Cur
<1>6. Leases' /\ Ledger' /\ \A p \in Workers : Governed(p)'
  BY <1>1, <1>2, <1>5 DEF Leases, Ledger, Governed
<1>7. Licensed' = Licensed
  BY <1>2 DEF Licensed, CanAct
<1> QED BY <1>4, <1>5, <1>6, <1>7 DEF Parts

\* The answer to the question for approval.
LEMMA AnswerApprovalKeeps ==
    ASSUME ToolInv, AnswerApproval PROVE ToolInv'
<1>1. Shape /\ Questions /\ Checkpoint /\ Counted
  BY TypeParts DEF ToolInv, Parts
<1>2. Pending /\ ~Pending' /\ Questions' /\ Checkpoint'
  BY <1>1 DEF AnswerApproval, Pending, Questions, Checkpoint
<1>3. TypeOK' /\ Parts' /\ Licensed' = Licensed
  BY <1>1, <1>2, AnswerStep DEF AnswerApproval, Shape
<1>4. Admissions' = Admissions /\ OpenConsents' = OpenConsents /\ Consents' = Consents
  BY DEF AnswerApproval, Admissions, OpenConsents, ConsentOpen, Consents
<1>5. Counted'
  BY <1>1, <1>3, <1>4 DEF Counted, AnswerApproval
<1> QED BY <1>3, <1>5 DEF ToolInv

\* The answer to the question whether to repeat the call: a "retry" is one more
\* consent, open until a worker takes it up.
LEMMA AnswerConflictKeeps ==
    ASSUME ToolInv, AnswerConflict PROVE ToolInv'
<1>1. Shape /\ Questions /\ Checkpoint /\ Counted
  BY TypeParts DEF ToolInv, Parts
<1>2. PICK a \in Attempts, answer \in {"skip", "retry"} :
         conflict[a] = "pending" /\ conflict' = [conflict EXCEPT ![a] = answer]
  BY DEF AnswerConflict
<1>3. /\ conflict' \in [Attempts -> {"unasked", "pending", "skip", "retry"}]
      /\ conflict'[a] = answer
      /\ \A b \in Attempts : b # a => conflict'[b] = conflict[b]
  BY <1>1, <1>2 DEF Shape
<1>4. Pending /\ ~Pending' /\ Questions'
  BY <1>1, <1>2, <1>3 DEF AnswerConflict, Pending, Questions
<1>5. Checkpoint'
  BY <1>1 DEF AnswerConflict, Checkpoint
<1>6. TypeOK' /\ Parts' /\ Licensed' = Licensed
  BY <1>1, <1>3, <1>4, <1>5, AnswerStep DEF AnswerConflict, Shape
<1>7. Admissions' = Admissions /\ effects' = effects /\ idempotent' = idempotent
  BY DEF AnswerConflict, Admissions
<1>8. /\ Admissions \in 0..1 /\ OpenConsents \in 0..1 /\ Consents \in Nat /\ effects \in Nat
      /\ OpenConsents' \in 0..1
  BY <1>1, CountTypes DEF Shape, OpenConsents
<1>9. CASE answer = "skip"
  <2>1. {b \in Attempts : conflict'[b] = "retry"} = {b \in Attempts : conflict[b] = "retry"}
    BY <1>2, <1>3, <1>9
  <2>2. Consents' = Consents
    BY <2>1 DEF Consents
  <2>3. ConsentOpen' => ConsentOpen
    BY <1>1, <1>3, <1>9 DEF AnswerConflict, ConsentOpen, Checkpoint
  <2>4. OpenConsents' <= OpenConsents
    BY <2>3 DEF OpenConsents
  <2>5. IsFiniteSet(Licensed) /\ Cardinality(Licensed) \in Nat
    BY <1>1, FS_CardinalityType DEF Counted
  <2> QED BY <1>1, <1>6, <1>7, <1>8, <2>2, <2>4, <2>5 DEF Counted, ToolInv
<1>10. CASE answer = "retry"
  <2>1. {b \in Attempts : conflict'[b] = "retry"}
          = {b \in Attempts : conflict[b] = "retry"} \cup {a}
    BY <1>2, <1>3, <1>10
  <2>2. a \notin {b \in Attempts : conflict[b] = "retry"}
    BY <1>2
  <2>3. IsFiniteSet({b \in Attempts : conflict[b] = "retry"})
    <3>1. IsFiniteSet(Attempts)
      BY ToolBoundsAssumption, FS_Interval DEF Attempts
    <3> QED BY <3>1, FS_Subset
  <2>4. Consents' = Consents + 1
    BY <2>1, <2>2, <2>3, FS_AddElement DEF Consents
  <2>5. IsFiniteSet(Licensed) /\ Cardinality(Licensed) \in Nat
    BY <1>1, FS_CardinalityType DEF Counted
  <2> QED BY <1>1, <1>6, <1>7, <1>8, <2>4, <2>5 DEF Counted, ToolInv
<1> QED BY <1>9, <1>10
-----------------------------------------------------------------------------
(* Leases and the policy *)

\* A new lease outdates every other worker.
LEMMA LeaseKeeps ==
    ASSUME ToolInv, NEW p \in Workers, Lease(p) PROVE ToolInv'
<1>1. /\ Shape /\ Parts /\ Counted /\ (job.status = "waiting" <=> Pending)
      /\ w \in [Workers -> Memory] /\ job.gen \in 0..MaxLeases /\ effects \in Nat
  BY TypeParts DEF ToolInv, Shape
<1>2. /\ w' \in [Workers -> Memory] /\ OthersKept(p)
      /\ w'[p].pc = "dispatch" /\ w'[p].tok = job.gen + 1 /\ w'[p].approved = FALSE
      /\ w'[p].retry = FALSE /\ w'[p].created = FALSE /\ w'[p].tries = 0
  <2>1. PICK m : /\ m = [Idle EXCEPT !.pc = "dispatch", !.tok = job.gen + 1]
                 /\ w' = [w EXCEPT ![p] = m]
    BY DEF Lease
  <2>2. /\ m.pc = "dispatch" /\ m.tok = job.gen + 1 /\ m.approved = FALSE
        /\ m.retry = FALSE /\ m.created = FALSE /\ m.tries = 0
    BY <2>1 DEF Idle
  <2>3. m \in Memory
    <3>1. job.gen + 1 \in 0..MaxLeases
      BY <1>1, ToolBoundsAssumption DEF Lease
    <3>2. Idle \in Memory
      BY IdleTyped
    <3> QED BY <2>1, <3>1, <3>2 DEF Memory, Steps
  <2> QED BY <1>1, <2>1, <2>2, <2>3 DEF OthersKept
<1>3. /\ job' = [status |-> "running", gen |-> job.gen + 1]
      /\ job'.status = "running" /\ job'.gen = job.gen + 1
      /\ job' \in [status : {"queued", "running", "waiting", "settled"}, gen : 0..MaxLeases]
  BY <1>1, ToolBoundsAssumption DEF Lease
<1>4. Shape'
  BY <1>1, <1>2, <1>3 DEF Lease, Shape
<1>5. TypeOK'
  <2>1. job'.status # "waiting" /\ ~Pending'
    BY <1>1, <1>3 DEF Lease, Pending
  <2> QED BY <1>4, <2>1, TypePartsNext
<1>6. \A q \in Workers : Cur(q)' => q = p
  <2> SUFFICES ASSUME NEW q \in Workers, q # p PROVE ~Cur(q)'
    OBVIOUS
  <2>1. w'[q] = w[q]
    BY <1>2 DEF OthersKept
  <2>2. w[q].pc # "idle" => w[q].tok \in 1..job.gen
    BY <1>1 DEF Parts, Leases
  <2> QED BY <1>1, <1>3, <2>1, <2>2 DEF Cur
<1>7. Leases'
  <2>1. \A q \in Workers : w'[q].pc # "idle" => w'[q].tok \in 1..job'.gen
    BY <1>1, <1>2, <1>3 DEF Parts, Leases, OthersKept
  <2> QED BY <1>3, <1>6, <2>1 DEF Leases
<1>8. Questions' /\ Checkpoint' /\ Ledger' /\ row.attempt < RetryLimit + (job.gen + 1)
  <2>1. row.attempt \in Nat /\ RetryLimit \in Nat /\ row.attempt <= RetryLimit + job.gen
    BY <1>1, ToolBoundsAssumption DEF Shape, Attempts, Parts, Ledger
  <2>2. row.attempt < RetryLimit + (job.gen + 1)
    BY <1>1, <2>1
  <2> QED BY <1>1, <1>3, <2>1, <2>2 DEF Lease, Parts, Questions, Checkpoint, Ledger
<1>9. ASSUME NEW q \in Workers PROVE Governed(q)' /\ (Cur(q)' => Current(q)')
  <2>1. CASE q = p
    BY <1>2, <1>3, <1>8, <2>1 DEF Governed, Current, Lease
  <2>2. CASE q # p
    <3>1. w'[q] = w[q]
      BY <1>2, <2>2 DEF OthersKept
    <3> QED BY <1>1, <1>6, <2>2, <3>1 DEF Parts, Governed
  <2> QED BY <2>1, <2>2
<1>10. Licensed' \subseteq Licensed
  <2> SUFFICES ASSUME NEW q \in Workers, CanAct(q)' PROVE CanAct(q)
    BY DEF Licensed
  <2>1. q # p
    BY <1>2 DEF CanAct
  <2>2. w'[q] = w[q]
    BY <1>2, <2>1 DEF OthersKept
  <2>3. w[q].pc # "idle" => w[q].tok \in 1..job.gen
    BY <1>1 DEF Parts, Leases
  <2> QED BY <1>1, <1>3, <2>2, <2>3 DEF CanAct
<1>11. Counted'
  <2>1. /\ Consents' = Consents /\ Admissions' = Admissions /\ OpenConsents' = OpenConsents
        /\ idempotent' = idempotent /\ effects' = effects
    BY DEF Lease, Consents, Admissions, OpenConsents, ConsentOpen
  <2>2. Admissions \in 0..1 /\ OpenConsents \in 0..1
    BY <1>1, CountTypes
  <2> QED BY <1>1, <1>4, <1>10, <2>1, <2>2, CountStep
<1> QED BY <1>5, <1>7, <1>8, <1>9, <1>11 DEF ToolInv, Parts

\* The lease runs out, the policy changes, or nothing happens.
LEMMA OutsideKeeps ==
    ASSUME ToolInv, LeaseExpires \/ ChangePolicy \/ UNCHANGED vars PROVE ToolInv'
<1>1. Shape /\ Parts /\ Counted /\ (job.status = "waiting" <=> Pending)
  BY TypeParts DEF ToolInv
<1>2. /\ UNCHANGED <<idempotent, ckpt, row, admission, approval, conflict, w, effects>>
      /\ job'.gen = job.gen
      /\ job'.status = job.status \/ (job.status = "running" /\ job'.status = "queued")
      /\ job' \in [status : {"queued", "running", "waiting", "settled"}, gen : 0..MaxLeases]
  <2>1. job \in [status : {"queued", "running", "waiting", "settled"}, gen : 0..MaxLeases]
    BY <1>1 DEF Shape
  <2>2. CASE LeaseExpires
    BY <2>1, <2>2 DEF LeaseExpires
  <2>3. CASE ChangePolicy
    BY <2>1, <2>3 DEF ChangePolicy
  <2>4. CASE UNCHANGED vars
    BY <2>1, <2>4 DEF vars
  <2> QED BY <2>2, <2>3, <2>4
<1>3. policy' \in Policies
  <2>1. CASE policy' = policy
    BY <1>1, <2>1 DEF Shape
  <2>2. CASE ChangePolicy
    <3>1. policy.rev + 1 \in 0..MaxPolicy
      BY <1>1, <2>2, ToolBoundsAssumption DEF Shape, Policies, ChangePolicy
    <3> QED BY <2>2, <3>1 DEF ChangePolicy, Policies
  <2> QED BY <2>1, <2>2 DEF LeaseExpires, vars
<1>4. Shape' /\ (job'.status = "waiting" <=> Pending')
  BY <1>1, <1>2, <1>3 DEF Shape, Pending
<1>5. \A p \in Workers : /\ Cur(p)' <=> Cur(p)
                         /\ Governed(p)' <=> Governed(p)
                         /\ Current(p)' <=> Current(p)
                         /\ CanAct(p)' <=> CanAct(p)
  BY <1>2 DEF Cur, Governed, Current, CanAct, ConsentOpen
<1>6. Parts'
  <2>1. Leases'
    BY <1>1, <1>2, <1>5 DEF Parts, Leases
  <2>2. Questions' /\ Ledger' /\ Checkpoint'
    BY <1>1, <1>2 DEF Parts, Questions, Ledger, Checkpoint
  <2> QED BY <1>1, <1>5, <2>1, <2>2 DEF Parts
<1>7. Counted'
  <2>1. Licensed' = Licensed
    BY <1>5 DEF Licensed
  <2>2. Consents' = Consents /\ Admissions' = Admissions /\ OpenConsents' = OpenConsents
    BY <1>2 DEF Consents, Admissions, OpenConsents, ConsentOpen
  <2> QED BY <1>1, <1>2, <2>1, <2>2 DEF Counted
<1> QED BY <1>4, <1>6, <1>7, TypePartsNext DEF ToolInv

-----------------------------------------------------------------------------
(* The theorems *)

\* The invariant holds at the start.
LEMMA ToolInvInit == Init => ToolInv
<1> SUFFICES ASSUME Init PROVE ToolInv
  OBVIOUS
<1>1. w = [p \in Workers |-> Idle] /\ \A p \in Workers : w[p].pc = "idle"
  BY IdleTyped DEF Init
<1>2. Shape
  <2>1. job \in [status : {"queued", "running", "waiting", "settled"}, gen : 0..MaxLeases]
    BY ToolBoundsAssumption DEF Init
  <2>2. policy \in Policies
    BY ToolBoundsAssumption DEF Init, Policies
  <2>3. w \in [Workers -> Memory]
    BY <1>1, IdleTyped
  <2>4. conflict \in [Attempts -> {"unasked", "pending", "skip", "retry"}]
    BY DEF Init
  <2> QED BY <2>1, <2>2, <2>3, <2>4 DEF Init, Shape, Phases, Statuses
<1>3. job.status # "waiting" /\ ~Pending
  BY DEF Init, Pending
<1>4. TypeOK
  BY <1>2, <1>3, TypeParts
<1>5. Parts
  <2>1. \A p \in Workers : ~Cur(p) /\ Governed(p)
    BY <1>1 DEF Cur, Governed
  <2>2. Leases /\ Questions
    BY <1>1, <2>1 DEF Leases, Questions, Init
  <2>3. Ledger
    BY ToolBoundsAssumption DEF Ledger, Init
  <2>4. Checkpoint
    BY DEF Checkpoint, Init
  <2> QED BY <2>1, <2>2, <2>3, <2>4 DEF Parts
<1>6. Counted
  <2>1. Licensed = {}
    BY <1>1 DEF Licensed, CanAct
  <2>2. IsFiniteSet(Licensed) /\ Cardinality(Licensed) = 0
    BY <2>1, FS_EmptySet
  <2>3. Admissions = 0 /\ OpenConsents = 0 /\ Consents \in Nat /\ effects = 0
    BY <1>2, CountTypes DEF Init, Admissions, OpenConsents, ConsentOpen
  <2> QED BY <2>2, <2>3 DEF Counted
<1> QED BY <1>4, <1>5, <1>6 DEF ToolInv

\* Every step keeps it.
LEMMA ToolInvNext == ToolInv /\ [Next]_vars => ToolInv'
<1> SUFFICES ASSUME ToolInv, [Next]_vars PROVE ToolInv'
  OBVIOUS
<1>1. ASSUME NEW p \in Workers, Step(p) PROVE ToolInv'
  BY <1>1, LeaseKeeps, WorkerStopsKeeps, SettleKeeps, AskApprovalKeeps, AskConflictKeeps,
     HandleToolEventKeeps, ResumeRunningKeeps, ResumeInteractionKeeps, ForgetRetryKeeps,
     SkipKeeps, MarkRunningKeeps, BeginKeeps, CheckKeeps, ResumeUncertainKeeps,
     GovernKeeps, AdmitKeeps, InvokeKeeps, PulseKeeps, HandlerKeeps, RetryWaitKeeps,
     CompleteKeeps, FailKeeps
  DEF Step
<1>2. CASE LeaseExpires \/ ChangePolicy \/ UNCHANGED vars
  BY <1>2, OutsideKeeps
<1>3. CASE AnswerApproval \/ AnswerConflict
  BY <1>3, AnswerApprovalKeeps, AnswerConflictKeeps
<1> QED BY <1>1, <1>2, <1>3 DEF Next

\* The inductive invariant holds in every reachable state.
LEMMA ToolInvariant == Spec => []ToolInv
BY ToolInvInit, ToolInvNext, PTL DEF Spec

\* Types, and: the job waits exactly while a question is open.  The interaction
\* store and the job's wait change together whatever the workers do.
THEOREM ToolTypeCorrect == Spec => []TypeOK
<1>1. ToolInv => TypeOK
  BY DEF ToolInv
<1> QED BY <1>1, ToolInvariant, PTL

\* A tool that is not idempotent acts at most once plus once for every "retry" a
\* person answered, whatever workers crash, lose their lease or come back late
\* around the unfenced call in _call_tool_with_retry.
THEOREM EffectsConsentedCorrect == Spec => []EffectsConsented
<1>1. ToolInv => EffectsConsented
  <2> SUFFICES ASSUME ToolInv, ~idempotent
               PROVE  effects <= Admissions + Consents
    BY DEF EffectsConsented, Admissions
  <2>1. /\ IsFiniteSet(Licensed)
        /\ effects + Cardinality(Licensed) + OpenConsents <= Admissions + Consents
    BY DEF ToolInv, Counted
  <2>2. Cardinality(Licensed) \in Nat
    BY <2>1, FS_CardinalityType
  <2>3. /\ Admissions \in 0..1 /\ OpenConsents \in 0..1 /\ Consents \in Nat
        /\ effects \in Nat
    BY CountTypes, TypeParts DEF ToolInv, Shape
  <2> QED BY <2>1, <2>2, <2>3
<1> QED BY <1>1, ToolInvariant, PTL

\* A worker that holds the lease is never refused by the ledger: admit finds the
\* approval bound in the checkpoint, complete, fail and skip find the row open.
THEOREM LedgerNeverRefusesCorrect == Spec => []LedgerNeverRefuses
<1>1. ToolInv => LedgerNeverRefuses
  BY DEF ToolInv, Parts, Governed, LedgerNeverRefuses, At
<1> QED BY <1>1, ToolInvariant, PTL

\* Only admit writes the admission.
LEMMA AdmissionWriter ==
    ASSUME Next, admission' # admission
    PROVE  \E p \in Workers : Admit(p)
<1>1. CASE LeaseExpires \/ AnswerApproval \/ AnswerConflict \/ ChangePolicy
  BY <1>1 DEF LeaseExpires, AnswerApproval, AnswerConflict, ChangePolicy
<1>2. CASE \E p \in Workers : Step(p)
  <2> PICK p \in Workers : Step(p)
    BY <1>2
  <2>1. ~(Lease(p) \/ WorkerStops(p) \/ Settle(p) \/ AskApproval(p) \/ AskConflict(p))
    BY DEF Lease, WorkerStops, Settle, AskApproval, AskConflict
  <2>2. ~(HandleToolEvent(p) \/ ResumeRunning(p) \/ ResumeInteraction(p)
          \/ ForgetRetry(p) \/ Skip(p) \/ MarkRunning(p) \/ Begin(p) \/ Check(p))
    BY DEF HandleToolEvent, ResumeRunning, ResumeInteraction, ForgetRetry, Skip,
           MarkRunning, Begin, Check
  <2>3. ~(ResumeUncertain(p) \/ Govern(p) \/ Invoke(p) \/ Pulse(p) \/ HandlerSucceeds(p)
          \/ HandlerUncertain(p) \/ HandlerRejects(p) \/ RetryWait(p) \/ Complete(p)
          \/ Fail(p))
    BY DEF ResumeUncertain, Govern, Invoke, Pulse, HandlerSucceeds, HandlerUncertain,
           HandlerRejects, RetryWait, Complete, Fail
  <2> QED BY <2>1, <2>2, <2>3 DEF Step
<1> QED BY <1>1, <1>2 DEF Next

\* The policy in force when the admission commits permits it, although it was read
\* earlier and another process may have changed it in between: admit compares what
\* the worker read with the ledger, and demands the allowing answer where the call
\* was approved.
THEOREM AdmittedAsPermittedCorrect == Spec => AdmittedAsPermitted
<1>1. ASSUME ToolInv, Next, admission' # admission
      PROVE  policy.mode # "deny" /\ (policy.mode = "ask" => approval = "allow")
  <2>1. PICK p \in Workers : Admit(p)
    BY <1>1, AdmissionWriter
  <2>2. PolicyCurrent(p) /\ (w[p].approved => ApprovalBinds(p))
    BY <1>1, <2>1 DEF Admit
  <2>3. w[p].pc = "admit" /\ Governed(p)
    BY <1>1, <2>1 DEF Admit, At, ToolInv, Parts
  <2> QED BY <2>2, <2>3 DEF PolicyCurrent, Governed, ApprovalBinds
<1>2. ToolInv /\ [Next]_vars =>
        [admission' # admission =>
            /\ policy.mode # "deny"
            /\ policy.mode = "ask" => approval = "allow"]_vars
  BY <1>1 DEF vars
<1> QED BY <1>2, ToolInvariant, PTL DEF Spec, AdmittedAsPermitted

\* The handler is started by _await_with_lease and nowhere else.
LEMMA CallStarts ==
    ASSUME w \in [Workers -> Memory], policy \in Policies,
           NEW p \in Workers, Step(p), ~Invoke(p), NEW q \in Workers, w'[q].pc = "calling"
    PROVE  w[q].pc = "calling"
<1>0. w[p] \in Memory /\ w[q] \in Memory
  OBVIOUS
<1>1. CASE Lease(p)
  BY <1>0, <1>1 DEF Lease, Idle, Memory
<1>2. CASE WorkerStops(p)
  BY <1>0, <1>2 DEF WorkerStops, Idle, Memory
<1>3. CASE Settle(p)
  BY <1>0, <1>3 DEF Settle, Idle, Memory
<1>4. CASE AskApproval(p)
  BY <1>0, <1>4 DEF AskApproval, Idle, Memory
<1>5. CASE AskConflict(p)
  BY <1>0, <1>5 DEF AskConflict, Idle, Memory
<1>6. CASE HandleToolEvent(p)
  BY <1>0, <1>6 DEF HandleToolEvent, Goto, Policies, Modes, Memory
<1>7. CASE ResumeRunning(p)
  BY <1>0, <1>7 DEF ResumeRunning, Memory
<1>8. CASE ResumeInteraction(p)
  BY <1>0, <1>8 DEF ResumeInteraction, Memory
<1>9. CASE ForgetRetry(p)
  BY <1>0, <1>9 DEF ForgetRetry, Goto, Memory
<1>10. CASE Skip(p)
  BY <1>0, <1>10 DEF Skip, Record, Goto, Memory
<1>11. CASE MarkRunning(p)
  BY <1>0, <1>11 DEF MarkRunning, Goto, Memory
<1>12. CASE Begin(p)
  BY <1>0, <1>12 DEF Begin, Memory
<1>13. CASE Check(p)
  BY <1>0, <1>13 DEF Check, Memory
<1>14. CASE ResumeUncertain(p)
  BY <1>0, <1>14 DEF ResumeUncertain, Memory
<1>15. CASE Govern(p)
  BY <1>0, <1>15 DEF Govern, Memory
<1>16. CASE Admit(p)
  BY <1>0, <1>16 DEF Admit, Goto, Memory
<1>17. CASE Pulse(p)
  BY <1>0, <1>17 DEF Pulse, Memory
<1>18. CASE HandlerSucceeds(p)
  BY <1>0, <1>18 DEF HandlerSucceeds, Goto, Memory
<1>19. CASE HandlerUncertain(p)
  BY <1>0, <1>19 DEF HandlerUncertain, Goto, Memory
<1>20. CASE HandlerRejects(p)
  BY <1>0, <1>20 DEF HandlerRejects, Goto, Memory
<1>21. CASE RetryWait(p)
  BY <1>0, <1>21 DEF RetryWait, Goto, Memory
<1>22. CASE Complete(p)
  BY <1>0, <1>22 DEF Complete, Record, Goto, Memory
<1>23. CASE Fail(p)
  BY <1>0, <1>23 DEF Fail, Record, Goto, Memory
<1> QED BY <1>1, <1>2, <1>3, <1>4, <1>5, <1>6, <1>7, <1>8, <1>9, <1>10, <1>11, <1>12, <1>13,
           <1>14, <1>15, <1>16, <1>17, <1>18, <1>19, <1>20, <1>21, <1>22, <1>23
        DEF Step

\* The row of a call that is over is not written any more: the worker that holds
\* the lease would have to be at a step at which the row is still open.
LEMMA OutcomeRow ==
    ASSUME ToolInv, NEW p \in Workers, Step(p),
           row.status \in {"completed", "skipped", "failed"}
    PROVE  row' = row /\ ~Invoke(p)
<1>1. row \in [status : Statuses, attempt : Attempts \cup {0}]
  BY TypeParts DEF ToolInv, Shape
<1>2. Fenced(p) => w[p].pc \notin {"resume", "invoke", "complete", "fail"}
  <2> SUFFICES ASSUME Fenced(p), w[p].pc \in {"resume", "invoke", "complete", "fail"}
               PROVE  FALSE
    OBVIOUS
  <2>1. Current(p)
    BY FencedFacts
  <2> QED BY <2>1 DEF Current
<1>3. ~Invoke(p) /\ ~ResumeUncertain(p) /\ ~Complete(p) /\ ~Fail(p)
  BY <1>2 DEF Invoke, ResumeUncertain, Complete, Fail, At
<1>4. CASE Skip(p)
  <2>1. \/ row' = [row EXCEPT !.status = "skipped"] /\ row.status = "skipped"
        \/ row' = row
    BY <1>4 DEF Skip, Record
  <2> QED BY <1>1, <1>3, <2>1
<1>5. CASE Begin(p)
  BY <1>3, <1>5 DEF Begin
<1>6. CASE ~Skip(p) /\ ~Begin(p)
  BY <1>3, <1>6
  DEF Step, Lease, WorkerStops, Settle, AskApproval, AskConflict, HandleToolEvent,
      ResumeRunning, ResumeInteraction, ForgetRetry, MarkRunning, Check, Govern, Admit,
      Pulse, HandlerSucceeds, HandlerUncertain, HandlerRejects, RetryWait
<1> QED BY <1>4, <1>5, <1>6

\* Once the call is completed, skipped or failed, that stands and the handler is not
\* started again; a worker on an old lease that comes back late changes neither.
THEOREM OutcomeStandsCorrect == Spec => OutcomeStands
<1>1. ASSUME ToolInv, Next, row.status \in {"completed", "skipped", "failed"},
             NEW q \in Workers, w'[q].pc = "calling"
      PROVE  w[q].pc = "calling"
  <2>1. w \in [Workers -> Memory] /\ policy \in Policies
    BY <1>1, TypeParts DEF ToolInv, Shape
  <2>2. ASSUME NEW p \in Workers, Step(p) PROVE w[q].pc = "calling"
    BY <1>1, <2>1, <2>2, OutcomeRow, CallStarts
  <2>3. CASE LeaseExpires \/ AnswerApproval \/ AnswerConflict \/ ChangePolicy
    BY <1>1, <2>3 DEF LeaseExpires, AnswerApproval, AnswerConflict, ChangePolicy
  <2> QED BY <1>1, <2>2, <2>3 DEF Next
<1>2. ASSUME ToolInv, Next, row.status \in {"completed", "skipped", "failed"}
      PROVE  row' = row
  <2>1. ASSUME NEW p \in Workers, Step(p) PROVE row' = row
    BY <1>2, <2>1, OutcomeRow
  <2>2. CASE LeaseExpires \/ AnswerApproval \/ AnswerConflict \/ ChangePolicy
    BY <2>2 DEF LeaseExpires, AnswerApproval, AnswerConflict, ChangePolicy
  <2> QED BY <1>2, <2>1, <2>2 DEF Next
<1>3. ToolInv /\ [Next]_vars =>
        [row.status \in {"completed", "skipped", "failed"} =>
            /\ row' = row
            /\ \A p \in Workers : w'[p].pc = "calling" => w[p].pc = "calling"]_vars
  BY <1>1, <1>2
<1> QED BY <1>3, ToolInvariant, PTL DEF Spec, OutcomeStands
=============================================================================
