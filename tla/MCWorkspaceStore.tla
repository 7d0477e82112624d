------------------------- MODULE MCWorkspaceStore -------------------------
(* Three small instances side by side, one behaviour in one of them: a     *)
(* questionnaire being edited while suggestions are reviewed; files being  *)
(* captured; and, with one more act and nothing lost, two pages of which   *)
(* the first has one suggestion: the answer to a save or to an acceptance  *)
(* of the first page comes on the second, over what is typed there.        *)
EXTENDS WorkspaceStore

SomeValue == CHOOSE v \in Values : TRUE

Editing == \A p \in Projects : workspace[p] =
  [answers |-> Blank, evidence |-> Files,
   suggestions |-> [q \in Questions |-> [value |-> SomeValue, status |-> "pending"]]]

Capture == \A p \in Projects : workspace[p] =
  [answers |-> Blank, evidence |-> {}, suggestions |-> [q \in Questions |-> NoSuggestion]]

SomeProject == CHOOSE p \in Projects : TRUE
SomeQuestion == CHOOSE q \in Questions : TRUE

TwoPages == \A p \in Projects : workspace[p] =
  [answers |-> Blank, evidence |-> Files,
   suggestions |-> [q \in Questions |->
     IF p = SomeProject /\ q = SomeQuestion THEN [value |-> SomeValue, status |-> "pending"]
     ELSE NoSuggestion]]

MCInit ==
  /\ StoreInit
  /\ \/ acts = 1 /\ faults = 0 /\ (Editing \/ Capture)
     \/ acts = 0 /\ faults = MaxFaults /\ TwoPages
MCSpec == MCInit /\ [][StoreNext]_<<apiVars, storeVars>> /\ StoreFairness
===========================================================================
