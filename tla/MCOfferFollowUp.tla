------------------------- MODULE MCOfferFollowUp -------------------------
(* One stream, and requests served one after the other, except that any     *)
(* number of transitions of the dashboard and deletions of a proposal       *)
(* overlap: these decide under the lock of the project's row.               *)
EXTENDS OfferFollowUp

AllOperations == Operations

InFlight == {c \in Clients : request[c].at # "idle"}
LockedOrAlone ==
  \A c, d \in InFlight : c = d \/ request[c].op \in {"follow_up", "delete"}

MCNext == Next /\ LockedOrAlone'
MCSpec == Init /\ [][MCNext]_vars
===========================================================================
