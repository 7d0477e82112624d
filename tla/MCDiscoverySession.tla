------------------------ MODULE MCDiscoverySession ------------------------
(* Model values for DiscoverySession. *)
EXTENDS DiscoverySession

===========================================================================
