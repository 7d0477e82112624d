--------------------------- MODULE MCImportReview ---------------------------
(* One location item with a linked project, and an orphan, in a company that *)
(* has nothing or what the linked items describe; two requests, which overlap*)
(* only as finalizes of a voice run, under one key or two.                   *)
EXTENDS ImportReview, TLC

CONSTANTS u1, u2, plant, stream, orphan, north, south, k1, k2

MCClients == {u1, u2}
MCKeys == {k1, k2}
MCLocationItems == {plant}
MCProjectItems == {stream, orphan}
MCParent == (stream :> plant) @@ (orphan :> None)
MCPlaces == {north, south}
MCExtracted == (plant :> north) @@ (stream :> None) @@ (orphan :> None)
MCSendable == [mode : {"existing", "create_new"}, at : {south}]

Symmetric == Permutations(MCClients) \union Permutations(MCKeys)

MCInit ==
  /\ Init
  /\ item[plant].status = "pending"
  /\ candidate \in {{}, {plant, stream}}
  /\ streams[orphan][0] = None
  /\ locations = IF candidate = {} THEN {} ELSE {north}

\* confirm_create_new is sent for items with a candidate.  While both projects
\* are valid, the only resolution sent opens a location for the orphan.  By hand
\* the other location alone is added, and a stream named as the orphan while the
\* run is of a bulk import: no action of a voice run looks at it.
MCNext ==
  /\ KeyedNext
  /\ south \in locations' \ locations => request' # request
  /\ streams'[stream][0] = streams[stream][0]
  /\ source = "voice_interview" => streams'[orphan][0] = streams[orphan][0]
  /\ item[stream].status # "invalid" /\ item[orphan].status # "invalid" =>
       item'[plant].choice = NoChoice /\ item'[orphan].choice.mode # "existing"
  /\ \A i \in Items \ candidate :
       item'[i].confirm => item'[i].choice.mode = "create_new" /\ i = plant

MCSpec == MCInit /\ [][MCNext]_vars
=============================================================================
