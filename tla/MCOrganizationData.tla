------------------------ MODULE MCOrganizationData ------------------------
(* Two small instances side by side, one behaviour in one of them: an      *)
(* admin moves between organizations while no request is lost, and, with   *)
(* a click less, a remembered organization, perhaps refused, while one is. *)
EXTENDS OrganizationData

Full(lists) == \A o \in Orgs : filled[o] = lists

Moves == moves = 1 /\ faults = MaxFaults /\ org \notin Gone /\ Full(Lists)

Remembered == moves = 2 /\ faults = 0 /\ org # NoOrg /\ (Full(Lists) \/ Full({}))

MCInit == DataInit /\ data.company.rows = {} /\ (Moves \/ Remembered)
MCSpec == MCInit /\ [][DataNext]_<<apiVars, dataVars>> /\ DataFairness
===========================================================================
