---------------------------- MODULE VersionSwitch ----------------------------
(* What an update promises the user: one version owns the data, and at most  *)
(* one other version is on trial.  A trial that fails leaves the owner as it *)
(* was; a version becomes the owner only from its own trial.  How a trial is *)
(* journaled, restarted and undone is left to UpdateActivation.              *)
CONSTANTS Versions, NoVersion

VARIABLES owner, trial

switchVars == <<owner, trial>>

Init == owner \in Versions /\ trial = NoVersion

Try(v) == trial = NoVersion /\ v # owner /\ trial' = v /\ owner' = owner

Reject == trial # NoVersion /\ trial' = NoVersion /\ owner' = owner

Adopt == trial # NoVersion /\ owner' = trial /\ trial' = NoVersion

Next == (\E v \in Versions : Try(v)) \/ Reject \/ Adopt

Spec == Init /\ [][Next]_switchVars /\ WF_switchVars(Reject \/ Adopt)
=============================================================================
