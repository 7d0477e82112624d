------------------------- MODULE MCImportRunQueue -------------------------
(* Two small instances side by side: a posted interview, and a file run     *)
(* with an interview of a discovery session.  The runs of the other         *)
(* instance have come to their end.                                         *)
EXTENDS ImportRunQueue

Unfinished == {r \in Runs : run[r].status # "completed"}
Instance == Unfinished \in {UploadedInterviews, FileRuns \union DiscoveryInterviews}

MCInit == Init /\ Instance
MCSpec == MCInit /\ [][Next]_vars /\ Fairness
=============================================================================
