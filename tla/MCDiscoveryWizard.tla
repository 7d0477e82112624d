------------------------ MODULE MCDiscoveryWizard ------------------------
(* Small instances side by side, one behaviour in one of them: two new     *)
(* sessions started in turn, or one with a lost request; the drafts of a   *)
(* remembered session; a remembered session still in process, with a lost  *)
(* request.                                                                *)
EXTENDS DiscoveryWizard

SomeSession == CHOOSE s \in Sessions : TRUE
OneOwner == [i \in Items |-> SomeSession]

Restart ==
  /\ wizard.resume = NoSession
  /\ \A s \in Sessions : session[s] = "none"

Remembered(status) ==
  /\ wizard.resume = SomeSession /\ faults = 0
  /\ \A s \in Sessions : session[s] = IF s = SomeSession THEN status ELSE "failed"

Review == Remembered("review_ready") /\ \A i \in Items : draft[i] \in {"draft", "rejected"}

InProcess == Remembered("processing")

MCInit ==
  /\ WizardInit
  /\ \/ Restart /\ faults = MaxFaults /\ clicks = 1
     \/ InProcess /\ clicks = 1
     \/ Restart /\ faults = 0 /\ clicks = 2
     \/ Review /\ clicks = 0

MCSpec == MCInit /\ [][WizardNext]_<<apiVars, wizardVars>> /\ WizardFairness
===========================================================================
