-------------------------- MODULE CowSteeringProofs --------------------------
(***************************************************************************)
(* Theorems about CowSteering, for every number of steers, every capacity  *)
(* of the inbox and every set of revisions the inbox refuses.              *)
(***************************************************************************)
EXTENDS CowSteering, TLAPS

\* Who has already stopped when the worker is past the agent, and what the
\* cancel event means, in a run nothing has disturbed.
Handover ==
    /\ cancel => worker = "done"
    /\ watcher # "raised"
    /\ turn # "interrupted"
    /\ agent = "running" <=> accepting
    /\ worker # "agent" => agent = "returned"
    /\ worker \in {"followup", "finish", "done"} => watcher = "returned"
    /\ agent = "returned" => inbox = <<>>

\* What the model was told and what waits in the inbox are, together, the
\* revisions up to the applied ordinal.
NothingSkipped ==
    /\ Len(told) + Len(inbox) = applied + 1
    /\ \A i \in 1..Len(told) : told[i] = i - 1
    /\ \A i \in 1..Len(inbox) : inbox[i] = Len(told) + i - 1

\* No ordinal in anybody's memory is ahead of the store, and the worker
\* finalizes with the last one.
OrdinalsBehind ==
    /\ applied <= inputs
    /\ watcher = "submit" => applied <= listed /\ listed <= inputs
    /\ worker = "followup" => applied <= revisions /\ revisions <= inputs
    /\ turn = "finalizing" => worker = "finish"
    /\ worker = "finish" => turn = "finalizing" /\ applied = inputs
    /\ turn = "completed" => worker = "done" /\ applied = inputs

\* The inductive invariant.
SteerInv == TypeOK /\ (~disturbed => Handover /\ NothingSkipped /\ OrdinalsBehind)

-----------------------------------------------------------------------------
\* The types of all parties are preserved.
LEMMA TypeStep == ASSUME TypeOK, [Next]_vars PROVE TypeOK'
<1> USE SteeringAssumption
<1> USE DEF TypeOK, store, box, run, watch, work, signals
<1>1. CASE Steer
  BY <1>1 DEF Steer
<1>2. CASE Interrupt \/ HeartbeatFails
  BY <1>2 DEF Interrupt, HeartbeatFails
<1>3. CASE WatchRead \/ WatchRefused \/ WatchAgain \/ WatchReturn \/ WatchRaises
  BY <1>3 DEF WatchRead, WatchRefused, WatchAgain, WatchReturn, WatchRaises
<1>4. CASE WatchSubmit
  <2>1. applied + 1 \in 1..MaxInputs
    BY <1>4 DEF WatchSubmit
  <2>2. inbox' \in Seq(1..MaxInputs) /\ Len(inbox') = Len(inbox) + 1
    BY <1>4, <2>1 DEF WatchSubmit
  <2> QED BY <1>4, <2>1, <2>2 DEF WatchSubmit
<1>5. CASE AgentDrain
  <2>1. inbox \in Seq(0..MaxInputs)
    OBVIOUS
  <2>2. told' \in Seq(0..MaxInputs)
    BY <1>5, <2>1 DEF AgentDrain
  <2>3. inbox' \in Seq(1..MaxInputs) /\ Len(inbox') <= MaxPending
    BY <1>5 DEF AgentDrain
  <2> QED BY <1>5, <2>2, <2>3 DEF AgentDrain
<1>6. CASE AgentClose \/ AgentCancelled
  BY <1>6 DEF AgentClose, AgentCancelled
<1>7. CASE StopWatcher \/ ReadRevisions
  BY <1>7 DEF StopWatcher, ReadRevisions
<1>8. CASE FollowUp
  <2>1. applied + 1 \in 0..MaxInputs
    BY <1>8 DEF FollowUp
  <2>2. told' \in Seq(0..MaxInputs)
    <3>1. CASE told' = Append(told, applied + 1)
      BY <2>1, <3>1
    <3>2. CASE told' = told
      BY <3>2
    <3> QED BY <1>8, <3>1, <3>2 DEF FollowUp
  <2> QED BY <1>8, <2>1, <2>2 DEF FollowUp
<1>9. CASE BeginFinalizing \/ FinishTurnJob
  BY <1>9 DEF BeginFinalizing, FinishTurnJob, CleanUp
<1>10. CASE WorkerRaises \/ WorkerCancelled
  BY <1>10 DEF WorkerRaises, WorkerCancelled, FailTurn, CleanUp
<1>11. CASE UNCHANGED vars
  BY <1>11 DEF vars
<1> QED
  BY <1>1, <1>2, <1>3, <1>4, <1>5, <1>6, <1>7, <1>8, <1>9, <1>10, <1>11 DEF Next

\* All parties are well typed; the inbox never holds more than its capacity.
THEOREM SteeringTypeCorrect == Spec => []TypeOK
<1>1. Init => TypeOK
  <2> SUFFICES ASSUME Init PROVE TypeOK
    OBVIOUS
  <2>1. told \in Seq(0..MaxInputs)
    BY SteeringAssumption DEF Init
  <2>2. inbox \in Seq(1..MaxInputs) /\ Len(inbox) <= MaxPending
    BY SteeringAssumption DEF Init
  <2>3. {accepting, stop, cancel, disturbed} \subseteq BOOLEAN
    BY DEF Init
  <2>4. inputs \in 0..MaxInputs /\ {listed, applied, revisions} \subseteq 0..MaxInputs
    BY SteeringAssumption DEF Init
  <2> QED BY <2>1, <2>2, <2>3, <2>4 DEF Init, TypeOK
<1>2. TypeOK /\ [Next]_vars => TypeOK'
  BY TypeStep
<1> QED BY <1>1, <1>2, PTL DEF Spec

-----------------------------------------------------------------------------
\* A disturbed run promises nothing, and stays disturbed; every other step keeps
\* the hand-over in order.
LEMMA SteerStep == ASSUME SteerInv, [Next]_vars PROVE SteerInv'
<1> USE SteeringAssumption
<1> DEFINE Rest == Handover /\ NothingSkipped /\ OrdinalsBehind
<1>1. TypeOK'
  BY TypeStep DEF SteerInv
<1>2. SUFFICES ASSUME ~disturbed' PROVE Rest'
  BY <1>1 DEF SteerInv
<1>3. ~disturbed /\ TypeOK /\ Rest
  BY <1>2 DEF SteerInv, Next, vars, store, box, run, watch, work, signals, Steer, Interrupt,
     HeartbeatFails, WatchRead, WatchSubmit, WatchRefused, WatchAgain, WatchReturn,
     WatchRaises, AgentDrain, AgentClose, AgentCancelled, StopWatcher, ReadRevisions,
     FollowUp, BeginFinalizing, FinishTurnJob, WorkerRaises, WorkerCancelled
<1>0. /\ {inputs, listed, applied, revisions} \subseteq Nat
      /\ told \in Seq(Int) /\ inbox \in Seq(Int)
  BY <1>3 DEF TypeOK
<1>4. ASSUME UNCHANGED <<told, inbox, applied>> PROVE NothingSkipped'
  BY <1>3, <1>4 DEF NothingSkipped
<1>5. CASE Steer
  <2>1. Handover' /\ NothingSkipped'
    BY <1>3, <1>4, <1>5 DEF Steer, Handover, box, run, watch, work, signals
  <2>2. OrdinalsBehind'
    BY <1>0, <1>3, <1>5 DEF Steer, OrdinalsBehind, run, watch, work
  <2> QED BY <2>1, <2>2
<1>6. CASE WatchRead \/ WatchRefused \/ WatchAgain \/ WatchReturn
  <2> USE DEF WatchRead, WatchRefused, WatchAgain, WatchReturn
  <2>1. NothingSkipped'
    BY <1>4, <1>6 DEF box, run
  <2>2. Handover'
    BY <1>3, <1>6 DEF Handover, store, box, run, work, signals
  <2>3. OrdinalsBehind'
    BY <1>0, <1>3, <1>6 DEF OrdinalsBehind, store, work
  <2> QED BY <2>1, <2>2, <2>3
<1>7. CASE WatchSubmit
  <2>1. /\ Len(inbox') = Len(inbox) + 1
        /\ \A i \in 1..Len(inbox) : inbox'[i] = inbox[i]
        /\ inbox'[Len(inbox) + 1] = applied + 1
    BY <1>0, <1>7 DEF WatchSubmit
  <2>2. NothingSkipped'
    BY <1>0, <1>3, <1>7, <2>1 DEF WatchSubmit, NothingSkipped, run
  <2>3. agent = "running"
    BY <1>3, <1>7 DEF WatchSubmit, Handover, TypeOK
  <2>4. Handover'
    BY <1>3, <1>7, <2>3 DEF WatchSubmit, Handover, store, run, watch, work, signals
  <2>5. OrdinalsBehind'
    BY <1>0, <1>3, <1>7 DEF WatchSubmit, OrdinalsBehind, Handover, store, watch, work
  <2> QED BY <2>2, <2>4, <2>5
<1>8. CASE AgentDrain
  <2>1. /\ Len(told') = Len(told) + Len(inbox)
        /\ \A i \in 1..Len(told) : told'[i] = told[i]
        /\ \A i \in 1..Len(inbox) : told'[Len(told) + i] = inbox[i]
    BY <1>0, <1>8 DEF AgentDrain
  <2>2. ASSUME NEW i \in 1..Len(told') PROVE told'[i] = i - 1
    <3> USE DEF NothingSkipped
    <3>1. CASE i <= Len(told)
      BY <1>0, <1>3, <2>1, <2>2, <3>1
    <3>2. CASE i > Len(told)
      <4> DEFINE k == i - Len(told)
      <4>1. k \in 1..Len(inbox) /\ Len(told) + k = i
        BY <1>0, <2>1, <2>2, <3>2
      <4>2. told'[Len(told) + k] = Len(told) + k - 1
        BY <1>3, <2>1, <4>1
      <4> QED BY <4>1, <4>2
    <3> QED BY <1>0, <2>2, <3>1, <3>2
  <2>3. NothingSkipped'
    BY <1>0, <1>3, <1>8, <2>1, <2>2 DEF AgentDrain, NothingSkipped
  <2>4. Handover' /\ OrdinalsBehind'
    BY <1>3, <1>8 DEF AgentDrain, Handover, OrdinalsBehind, store, watch, work, signals
  <2> QED BY <2>3, <2>4
<1>9. CASE AgentClose \/ AgentCancelled
  <2> USE DEF AgentClose, AgentCancelled
  <2>1. NothingSkipped' /\ OrdinalsBehind'
    BY <1>3, <1>4, <1>9 DEF OrdinalsBehind, store, watch, work
  <2>2. ~cancel \/ worker = "done"
    BY <1>3 DEF Handover
  <2>3. AgentClose
    BY <1>3, <1>9, <2>2 DEF Handover
  <2>4. Handover'
    BY <1>3, <2>3 DEF Handover, store, watch, work, signals
  <2> QED BY <2>1, <2>4
<1>10. CASE StopWatcher \/ ReadRevisions
  <2> USE DEF StopWatcher, ReadRevisions
  <2>1. NothingSkipped'
    BY <1>4, <1>10 DEF box, run
  <2>2. Handover'
    BY <1>3, <1>10 DEF Handover, store, box, run, watch, signals
  <2>3. OrdinalsBehind'
    BY <1>0, <1>3, <1>10 DEF OrdinalsBehind, store, watch
  <2> QED BY <2>1, <2>2, <2>3
<1>11. CASE FollowUp
  <2>1. ~cancel /\ agent = "returned" /\ inbox = <<>> /\ watcher = "returned"
    BY <1>3, <1>11 DEF FollowUp, Handover
  <2>2. told' = Append(told, applied + 1) /\ Len(told) = applied + 1
    BY <1>0, <1>3, <1>11, <2>1 DEF FollowUp, NothingSkipped
  <2>3. /\ Len(told') = Len(told) + 1
        /\ \A i \in 1..Len(told) : told'[i] = told[i]
        /\ told'[Len(told) + 1] = applied + 1
    BY <1>0, <2>2
  <2>4. inbox' = <<>> /\ Len(inbox') = 0 /\ applied' = applied + 1
    BY <1>11, <2>1 DEF FollowUp, box
  <2>5. NothingSkipped'
    <3>1. \A i \in 1..Len(told) : told[i] = i - 1
      BY <1>3 DEF NothingSkipped
    <3>2. Len(told) \in Nat /\ Len(told) = applied + 1
      BY <1>0, <2>2
    <3>3. \A i \in 1..Len(told') : told'[i] = i - 1
      BY <2>3, <3>1, <3>2
    <3>4. Len(told') + Len(inbox') = applied' + 1
      BY <2>3, <2>4, <3>2
    <3>5. \A i \in 1..Len(inbox') : inbox'[i] = Len(told') + i - 1
      BY <2>4
    <3> QED BY <3>3, <3>4, <3>5 DEF NothingSkipped
  <2>6. Handover'
    BY <1>3, <1>11 DEF FollowUp, Handover, store, box, watch, work, signals
  <2>7. OrdinalsBehind'
    BY <1>0, <1>3, <1>11, <2>1 DEF FollowUp, OrdinalsBehind, store, watch, work
  <2> QED BY <2>5, <2>6, <2>7
<1>12. CASE BeginFinalizing \/ FinishTurnJob
  <2> USE DEF BeginFinalizing, FinishTurnJob, CleanUp
  <2>1. NothingSkipped'
    BY <1>4, <1>12
  <2>2. Handover'
    BY <1>3, <1>12 DEF Handover, watch
  <2>3. OrdinalsBehind'
    BY <1>0, <1>3, <1>12 DEF OrdinalsBehind, watch
  <2> QED BY <2>1, <2>2, <2>3
<1>13. CASE UNCHANGED vars
  BY <1>3, <1>4, <1>13
  DEF vars, store, box, run, watch, work, signals, Handover, OrdinalsBehind
<1> QED
  BY <1>2, <1>5, <1>6, <1>7, <1>8, <1>9, <1>10, <1>11, <1>12, <1>13
  DEF Next, Interrupt, HeartbeatFails, WatchRaises, WorkerRaises, WorkerCancelled

\* The invariant holds in every reachable state.
LEMMA SteerInvCorrect == Spec => []SteerInv
<1>1. Init => Handover /\ NothingSkipped /\ OrdinalsBehind
  <2> SUFFICES ASSUME Init PROVE Handover /\ NothingSkipped /\ OrdinalsBehind
    OBVIOUS
  <2>1. Handover /\ OrdinalsBehind
    BY DEF Init, Handover, OrdinalsBehind
  <2>2. Len(told) = 1 /\ told[1] = 0 /\ Len(inbox) = 0 /\ applied = 0
    BY DEF Init
  <2>3. NothingSkipped
    BY <2>2 DEF NothingSkipped
  <2> QED BY <2>1, <2>3
<1>2. SteerInv /\ [Next]_vars => SteerInv'
  BY SteerStep
<1>3. Spec => []TypeOK
  BY SteeringTypeCorrect
<1>4. Init /\ TypeOK => SteerInv
  BY <1>1 DEF SteerInv
<1> QED BY <1>2, <1>3, <1>4, PTL DEF Spec

\* The model is told every input at most once and in order, through the inbox or a
\* follow-up run, for any number of steers and any capacity of the inbox.
THEOREM ToldInOrderCorrect == Spec => []ToldInOrder
<1>1. SteerInv => ToldInOrder
  BY DEF SteerInv, NothingSkipped, ToldInOrder
<1> QED BY <1>1, SteerInvCorrect, PTL

\* A run that completes undisturbed has told the model every accepted steer.
THEOREM SteerReachesModelCorrect == Spec => []SteerReachesModel
<1>1. SteerInv => SteerReachesModel
  BY DEF SteerInv, Handover, NothingSkipped, OrdinalsBehind, SteerReachesModel, TypeOK
<1> QED BY <1>1, SteerInvCorrect, PTL
=============================================================================
