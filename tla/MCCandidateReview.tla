------------------------- MODULE MCCandidateReview -------------------------
(* Two drafts: of one suggestion or of two, with a common parent item or   *)
(* none, the first client known to the server with its location.           *)
EXTENDS CandidateReview

First(S) == CHOOSE x \in S : TRUE

Instance ==
  /\ \A d \in Drafts : suggested[d].place # None /\ suggested[d].name # None
  /\ \A d, e \in Drafts : suggested[d].parent = suggested[e].parent
  /\ \A d, e \in Drafts : d <= e /\ suggested[e].name \in SplitNames => suggested[d].name \in SplitNames
  /\ \E c \in Companies : Known \subseteq {c} /\ c = First(Companies)
  /\ \A c \in Known : server.companies[c] = suggested[1].name
  /\ \A l \in Locations : l # First(Locations) => server.locations[l].company = None

MCInit == Init /\ Instance
MCReview == MCInit /\ [][Next]_vars
MCSpec == MCReview /\ Fairness
=============================================================================
