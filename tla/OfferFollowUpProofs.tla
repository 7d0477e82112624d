------------------------ MODULE OfferFollowUpProofs ------------------------
(***************************************************************************)
(* Proofs about OfferFollowUp, for any number of requests unless a theorem *)
(* assumes SoleClient, and for whichever operations they call unless it    *)
(* assumes LockedOnly.                                                     *)
(***************************************************************************)
EXTENDS OfferFollowUp, TLAPS

\* At most one request is in flight.
SoleClient == \A c, d \in Clients : c = d

\* Nobody completes discovery, which decides on a copy it has loaded before it
\* writes the state.
LockedOnly == "complete" \notin Served

-----------------------------------------------------------------------------
(* Shapes *)

\* Offer rows are never deleted, and a copy with an offer was taken from the row.
OfferStays ==
  \A c \in Clients :
    /\ request[c].offer # NoOffer => offer # NoOffer
    /\ request[c].op = "patch" => request[c].offer # NoOffer

TypeInv == TypeOK /\ OfferStays

LEMMA EffectiveType ==
  ASSUME NEW s \in Stream PROVE Target(s) \in States
  BY DEF Stream, Target, States

\* A row that has been written is a row, with a status.
LEMMA WrittenOffer ==
  ASSUME TypeInv, NEW c \in Clients, NEW status \in States, NEW archived \in BOOLEAN
  PROVE OfferWith(request[c], status, archived) \in Offer \ {NoOffer}
  <1>1. request[c] \in Request /\ offer \in Offer
    BY DEF TypeInv, TypeOK
  <1>2. CASE request[c].offer = NoOffer
    BY <1>2 DEF OfferWith, Offer, NoOffer, States
  <1>3. CASE request[c].offer # NoOffer
    <2>1. offer \in [status: States, archived: BOOLEAN]
      BY <1>1, <1>3 DEF TypeInv, OfferStays, Offer
    <2>2. request[c].offer \in [status: States, archived: BOOLEAN]
      BY <1>1, <1>3 DEF Request, Offer
    <2>3. Written(request[c].offer.status, status, offer.status) \in States
      BY <2>1 DEF Written
    <2>4. WrittenArchived(request[c].offer.archived, archived, offer.archived) \in BOOLEAN
      BY <2>1 DEF WrittenArchived, Written
    <2> QED
      BY <1>3, <2>3, <2>4 DEF OfferWith, Offer, NoOffer, States
  <1> QED
    BY <1>2, <1>3

LEMMA EnsuredOfferType ==
  ASSUME TypeInv, NEW c \in Clients
  PROVE EnsuredOffer(request[c]) \in Offer \ {NoOffer}
  <1>1. request[c] \in Request /\ offer \in Offer
    BY DEF TypeInv, TypeOK
  <1>2. Target(request[c].stream) \in States /\ request[c].stream.archived \in BOOLEAN
    BY <1>1, EffectiveType DEF Request, Stream
  <1>3. CASE request[c].offer = NoOffer
    BY <1>2, <1>3 DEF EnsuredOffer, Offer, NoOffer, States
  <1>4. CASE request[c].offer # NoOffer
    <2>1. offer \in [status: States, archived: BOOLEAN]
      BY <1>1, <1>4 DEF TypeInv, OfferStays, Offer
    <2>2. Written(request[c].offer.status, Target(request[c].stream), offer.status) \in States
      BY <1>2, <2>1 DEF Written
    <2> QED
      BY <1>4, <2>1, <2>2 DEF EnsuredOffer, Offer, NoOffer, States
  <1> QED
    BY <1>3, <1>4

\* What every step does to the rows: they keep their type, and an offer stays.
LEMMA CommitTypes ==
  ASSUME TypeInv, NEW c \in Clients, Commit(c)
  PROVE /\ stream' \in Stream /\ offer' \in Offer /\ evidence' \in Evidence
        /\ offer # NoOffer => offer' # NoOffer
        /\ request' = [request EXCEPT ![c] = NoRequest]
  <1>1. request[c] \in Request /\ offer \in Offer /\ stream \in Stream /\ evidence \in Evidence
    BY DEF TypeInv, TypeOK
  <1>2. request[c].stream \in Stream /\ request[c].stream.archived \in BOOLEAN
    BY <1>1 DEF Request, Stream
  <1>3. Target(request[c].stream) \in States
    BY <1>2, EffectiveType
  <1>4. /\ Written(request[c].stream.marked, FALSE, stream.marked) \in BOOLEAN
        /\ \A next \in States \union {"none"} :
             Written(request[c].stream.state, next, stream.state) \in States \union {"none"}
    BY <1>1 DEF Written, Stream
  <1>5. CASE Sync(c)
    <2> DEFINE new == OfferWith(request[c], Target(request[c].stream), request[c].stream.archived)
    <2>1. new \in Offer \ {NoOffer}
      BY <1>2, <1>3, WrittenOffer
    <2>2. CASE offer' = new
      BY <1>1, <1>5, <2>1, <2>2 DEF Sync, Answer
    <2>3. CASE request[c].offer.archived /\ offer' = [new EXCEPT !.archived = offer.archived]
      <3>1. offer.archived \in BOOLEAN
        <4>1. CASE offer = NoOffer
          BY <4>1 DEF NoOffer
        <4>2. CASE offer \in [status: States, archived: BOOLEAN]
          BY <4>2
        <4> QED
          BY <1>1, <4>1, <4>2 DEF Offer
      <3>2. offer' \in Offer \ {NoOffer}
        BY <2>1, <2>3, <3>1 DEF Offer, NoOffer, States
      <3> QED
        BY <1>1, <1>5, <3>2 DEF Sync, Answer
    <2> QED
      BY <1>5, <2>2, <2>3 DEF Sync
  <1>6. CASE Open(c)
    BY <1>1, <1>6, EnsuredOfferType DEF Open, Answer
  <1>7. CASE Upload(c)
    BY <1>1, <1>7, EnsuredOfferType DEF Upload, Answer, Evidence
  <1>8. CASE Complete(c)
    <2>1. stream' \in Stream
      BY <1>1, <1>8 DEF Complete, Stream, States
    <2>2. evidence' \in Evidence
      BY <1>1, <1>8 DEF Complete, Evidence
    <2> QED
      BY <1>8, <2>1, <2>2, EnsuredOfferType DEF Complete, Answer
  <1>9. CASE Archive(c)
    <2>1. OfferWith(request[c], Target(request[c].stream), TRUE) \in Offer \ {NoOffer}
      BY <1>3, WrittenOffer
    <2>2. stream' \in Stream
      BY <1>1, <1>4, <1>9 DEF Archive, Stream
    <2> QED
      BY <1>1, <1>9, <2>1, <2>2 DEF Archive, Answer
  <1>10. CASE Restore(c)
    <2>1. OfferWith(request[c], Target(request[c].stream), FALSE) \in Offer \ {NoOffer}
      BY <1>3, WrittenOffer
    <2>2. stream' \in Stream
      BY <1>1, <1>4, <1>10 DEF Restore, Stream
    <2> QED
      BY <1>1, <1>10, <2>1, <2>2 DEF Restore, Answer
  <1>11. CASE DeleteProposal(c)
    <2>1. stream' \in Stream
      BY <1>1, <1>4, <1>11 DEF DeleteProposal, Stream
    <2>2. evidence' \in Evidence
      BY <1>1, <1>11, BoundAssumption DEF DeleteProposal, Evidence
    <2> QED
      BY <1>1, <1>11, <2>1, <2>2 DEF DeleteProposal, Answer
  <1>12. CASE Decline(c)
    BY <1>1, <1>12 DEF Decline, Answer
  <1>13. ASSUME NEW next \in States, FollowUp(c, next) \/ Patch(c, next)
         PROVE /\ stream' \in Stream /\ offer' \in Offer \ {NoOffer} /\ evidence' = evidence
               /\ request' = [request EXCEPT ![c] = NoRequest]
    <2>1. OfferWith(request[c], next, next \in Terminal) \in Offer \ {NoOffer}
      <3>1. CASE next \in Terminal
        <4>1. OfferWith(request[c], next, TRUE) \in Offer \ {NoOffer}
          BY WrittenOffer
        <4>2. (next \in Terminal) = TRUE
          BY <3>1
        <4> QED
          BY <4>1, <4>2
      <3>2. CASE next \notin Terminal
        <4>1. OfferWith(request[c], next, FALSE) \in Offer \ {NoOffer}
          BY WrittenOffer
        <4>2. (next \in Terminal) = FALSE
          BY <3>2
        <4> QED
          BY <4>1, <4>2
      <3> QED
        BY <3>1, <3>2
    <2>2. stream' \in Stream
      BY <1>1, <1>4, <1>13 DEF FollowUp, Patch, Stream
    <2> QED
      BY <1>13, <2>1, <2>2 DEF FollowUp, Patch, Answer
  <1> QED
    BY <1>1, <1>5, <1>6, <1>7, <1>8, <1>9, <1>10, <1>11, <1>12, <1>13 DEF Commit

\* A load leaves the rows alone; what it keeps of them is a copy.
LEMMA LoadTypes ==
  ASSUME TypeInv, NEW c \in Clients, Load(c)
  PROVE /\ UNCHANGED <<stream, offer, evidence>>
        /\ \E q \in Request :
             /\ request' = [request EXCEPT ![c] = q]
             /\ q.offer # NoOffer => offer # NoOffer
             /\ q.op = "patch" => q.offer # NoOffer
  <1>1. request[c] \in Request /\ request \in [Clients -> Request]
        /\ offer \in Offer /\ stream \in Stream /\ evidence \in Evidence
    BY DEF TypeInv, TypeOK
  <1>2. NoOffer \in Offer /\ NewStream \in Stream
    BY DEF Offer, NoOffer, NewStream, Stream
  <1>3. ASSUME NEW op \in Operations \ {"patch"}, NEW at \in {"half", "ready"},
               NEW due \in BOOLEAN, Begin(c, op, at, due)
        PROVE /\ UNCHANGED <<stream, offer, evidence>>
              /\ \E q \in Request :
                   /\ request' = [request EXCEPT ![c] = q]
                   /\ q.offer # NoOffer => offer # NoOffer
                   /\ q.op = "patch" => q.offer # NoOffer
    <2> DEFINE q == [op |-> op, at |-> at, due |-> due, stream |-> stream,
                     offer |-> IF at = "ready" THEN offer ELSE NoOffer]
    <2>1. q \in Request /\ (q.offer # NoOffer => offer # NoOffer) /\ q.op # "patch"
      BY <1>1, <1>2, <1>3 DEF Request
    <2>2. request' = [request EXCEPT ![c] = q] /\ UNCHANGED <<stream, offer, evidence>>
      BY <1>3 DEF Begin
    <2> HIDE DEF q
    <2> QED
      BY <2>1, <2>2
  <1>4. CASE LoadForSync(c)
    <2>1. Eligible(stream, evidence) \in BOOLEAN
      BY <1>1 DEF Eligible, Evidence
    <2>2. "sync" \in Operations \ {"patch"}
      BY DEF Operations
    <2> QED
      BY <1>3, <1>4, <2>1, <2>2 DEF LoadForSync
  <1>5. CASE LoadForFollowUp(c)
    <2>1. "follow_up" \in Operations \ {"patch"}
      BY DEF Operations
    <2> QED
      BY <1>3, <1>5, <2>1 DEF LoadForFollowUp
  <1>6. CASE LoadStream(c)
    <2>1. {"open", "upload", "complete", "archive", "restore", "delete"} \subseteq Operations \ {"patch"}
      BY DEF Operations
    <2> QED
      BY <1>3, <1>6, <2>1 DEF LoadStream
  <1>7. CASE LoadOffer(c)
    <2> DEFINE q == [request[c] EXCEPT !.at = "ready", !.offer = offer]
    <2>1. q \in Request /\ q.offer = offer /\ q.op # "patch"
      BY <1>1, <1>7 DEF LoadOffer, Request
    <2>2. request' = [request EXCEPT ![c] = q] /\ UNCHANGED <<stream, offer, evidence>>
      BY <1>1, <1>7 DEF LoadOffer
    <2> HIDE DEF q
    <2> QED
      BY <2>1, <2>2
  <1>8. CASE LoadOfferById(c)
    <2> DEFINE q == [NoRequest EXCEPT !.op = "patch", !.at = "half", !.offer = offer]
    <2>1. q \in Request /\ q.offer = offer
      BY <1>1, <1>2 DEF NoRequest, Request, Operations
    <2>2. request' = [request EXCEPT ![c] = q] /\ UNCHANGED <<stream, offer, evidence>> /\ offer # NoOffer
      BY <1>8 DEF LoadOfferById
    <2> HIDE DEF q
    <2> QED
      BY <2>1, <2>2
  <1>9. CASE LoadStreamOfOffer(c)
    <2> DEFINE q == [request[c] EXCEPT !.at = "ready", !.stream = stream]
    <2>1. q \in Request /\ q.offer = request[c].offer
      BY <1>1 DEF Request
    <2>2. request' = [request EXCEPT ![c] = q] /\ UNCHANGED <<stream, offer, evidence>>
      BY <1>1, <1>9 DEF LoadStreamOfOffer
    <2>3. request[c].offer # NoOffer /\ offer # NoOffer
      BY <1>9 DEF LoadStreamOfOffer, TypeInv, OfferStays
    <2> HIDE DEF q
    <2> QED
      BY <2>1, <2>2, <2>3
  <1> QED
    BY <1>4, <1>5, <1>6, <1>7, <1>8, <1>9 DEF Load

Around == CreateProposal \/ DeleteDocument \/ ArchiveParent \/ RestoreParent

LEMMA AroundTypes ==
  ASSUME TypeInv, Around
  PROVE /\ stream' \in Stream /\ evidence' \in Evidence
        /\ stream'.state = stream.state
        /\ UNCHANGED <<offer, request>>
  <1>1. stream \in Stream /\ evidence \in Evidence
    BY DEF TypeInv, TypeOK
  <1>2. CASE CreateProposal
    BY <1>1, <1>2, BoundAssumption DEF CreateProposal, Evidence
  <1>3. CASE DeleteDocument
    BY <1>1, <1>3 DEF DeleteDocument, Evidence
  <1>4. CASE ArchiveParent
    BY <1>1, <1>4 DEF ArchiveParent, Stream
  <1>5. CASE RestoreParent
    BY <1>1, <1>5 DEF RestoreParent, Stream
  <1> QED
    BY <1>2, <1>3, <1>4, <1>5 DEF Around

LEMMA NextCases ==
  ASSUME [Next]_vars
  PROVE (\E c \in Clients : Load(c)) \/ (\E c \in Clients : Commit(c)) \/ Around
        \/ UNCHANGED vars
  BY DEF Next, Around

LEMMA NoRequestType == NoRequest \in Request /\ NoRequest.offer = NoOffer /\ NoRequest.op = "none"
  BY DEF NoRequest, Request, Offer, NoOffer, NewStream, Stream, Operations

LEMMA TypeInvStep ==
  ASSUME TypeInv, [Next]_vars
  PROVE TypeInv'
  <1>1. request \in [Clients -> Request] /\ offer \in Offer /\ stream \in Stream /\ evidence \in Evidence
    BY DEF TypeInv, TypeOK
  <1>2. ASSUME NEW c \in Clients, Load(c) PROVE TypeInv'
    <2>1. UNCHANGED <<stream, offer, evidence>>
      BY <1>2, LoadTypes
    <2>2. PICK q \in Request :
             /\ request' = [request EXCEPT ![c] = q]
             /\ q.offer # NoOffer => offer # NoOffer
             /\ q.op = "patch" => q.offer # NoOffer
      BY <1>2, LoadTypes
    <2>3. TypeOK'
      BY <1>1, <2>1, <2>2 DEF TypeOK
    <2>4. OfferStays'
      BY <1>1, <2>1, <2>2 DEF OfferStays, TypeInv
    <2> QED
      BY <2>3, <2>4 DEF TypeInv
  <1>3. ASSUME NEW c \in Clients, Commit(c) PROVE TypeInv'
    <2>1. /\ stream' \in Stream /\ offer' \in Offer /\ evidence' \in Evidence
          /\ offer # NoOffer => offer' # NoOffer
          /\ request' = [request EXCEPT ![c] = NoRequest]
      BY <1>3, CommitTypes
    <2>2. TypeOK'
      BY <1>1, <2>1, NoRequestType DEF TypeOK
    <2>3. OfferStays'
      BY <1>1, <2>1, NoRequestType DEF OfferStays, TypeInv
    <2> QED
      BY <2>2, <2>3 DEF TypeInv
  <1>4. CASE Around
    BY <1>1, <1>4, AroundTypes DEF TypeInv, TypeOK, OfferStays
  <1>5. CASE UNCHANGED vars
    BY <1>5 DEF TypeInv, TypeOK, OfferStays, vars
  <1> QED
    BY <1>2, <1>3, <1>4, <1>5, NextCases

LEMMA TypeInvHolds == Spec => []TypeInv
  <1>1. Init => TypeInv
    <2> SUFFICES ASSUME Init PROVE TypeInv
      OBVIOUS
    <2>1. stream \in Stream /\ offer \in Offer
      BY DEF Init, Stream, NewStream, Offer
    <2>2. evidence \in Evidence
      BY BoundAssumption DEF Init, Evidence
    <2>3. request \in [Clients -> Request] /\ \A c \in Clients : request[c] = NoRequest
      BY NoRequestType DEF Init
    <2> QED
      BY <2>1, <2>2, <2>3, NoRequestType DEF TypeInv, TypeOK, OfferStays
  <1> QED
    BY <1>1, TypeInvStep, PTL DEF Spec

\* The columns and the copies requests hold of them keep their shape.
THEOREM TypeCorrect == Spec => []TypeOK
  <1>1. TypeInv => TypeOK
    BY DEF TypeInv
  <1> QED
    BY <1>1, TypeInvHolds, PTL

-----------------------------------------------------------------------------
(* Every stream with a follow-up state has an offer *)

\* Whoever gives the stream a new state writes its offer in the same transaction.
LEMMA StateComesWithOffer ==
  ASSUME TypeInv, NEW c \in Clients, Commit(c)
  PROVE stream'.state \in {"none", stream.state} \/ offer' # NoOffer
  <1>1. stream \in Stream
    BY DEF TypeInv, TypeOK
  <1>2. CASE Sync(c) \/ Open(c) \/ Upload(c) \/ Decline(c)
    BY <1>2 DEF Sync, Open, Upload, Decline
  <1>3. CASE Complete(c)
    <2>1. offer' \in Offer \ {NoOffer}
      BY <1>3, EnsuredOfferType DEF Complete
    <2> QED
      BY <2>1
  <1>4. CASE Archive(c) \/ Restore(c)
    BY <1>1, <1>4 DEF Archive, Restore, Stream
  <1>5. CASE DeleteProposal(c)
    BY <1>1, <1>5 DEF DeleteProposal, Written, Stream
  <1>6. ASSUME NEW next \in States, FollowUp(c, next) \/ Patch(c, next)
        PROVE offer' # NoOffer
    <2>1. CASE next \in Terminal
      <3>1. OfferWith(request[c], next, TRUE) \in Offer \ {NoOffer}
        BY WrittenOffer
      <3>2. (next \in Terminal) = TRUE
        BY <2>1
      <3> QED
        BY <1>6, <3>1, <3>2 DEF FollowUp, Patch
    <2>2. CASE next \notin Terminal
      <3>1. OfferWith(request[c], next, FALSE) \in Offer \ {NoOffer}
        BY WrittenOffer
      <3>2. (next \in Terminal) = FALSE
        BY <2>2
      <3> QED
        BY <1>6, <3>1, <3>2 DEF FollowUp, Patch
    <2> QED
      BY <2>1, <2>2
  <1> QED
    BY <1>2, <1>3, <1>4, <1>5, <1>6 DEF Commit

LEMMA StateHasOfferStep ==
  ASSUME TypeInv, StateHasOffer, [Next]_vars
  PROVE StateHasOffer'
  <1>1. ASSUME NEW c \in Clients, Load(c) PROVE StateHasOffer'
    BY <1>1, LoadTypes DEF StateHasOffer
  <1>2. ASSUME NEW c \in Clients, Commit(c) PROVE StateHasOffer'
    BY <1>2, CommitTypes, StateComesWithOffer DEF StateHasOffer
  <1>3. CASE Around
    BY <1>3, AroundTypes DEF StateHasOffer
  <1>4. CASE UNCHANGED vars
    BY <1>4 DEF StateHasOffer, vars
  <1> QED
    BY <1>1, <1>2, <1>3, <1>4, NextCases

\* However requests overlap, a stream with a follow-up state has an offer row.
THEOREM StreamIsOnOfferPages == Spec => []StateHasOffer
  <1>1. Init => StateHasOffer
    BY DEF Init, StateHasOffer, NewStream
  <1>2. TypeInv /\ StateHasOffer /\ [Next]_vars => StateHasOffer'
    BY StateHasOfferStep
  <1> QED
    BY <1>1, <1>2, TypeInvHolds, PTL DEF Spec

-----------------------------------------------------------------------------
(* One request at a time: the offer repeats the state *)

\* With nobody else to write the rows, the copies are the rows.
CopiesCurrent ==
  \A c \in Clients :
    /\ request[c].at = "ready" =>
         request[c].stream.state = stream.state /\ request[c].offer = offer
    /\ request[c].at = "half" /\ request[c].op = "patch" => request[c].offer = offer
    /\ request[c].at = "half" /\ request[c].op # "patch" =>
         request[c].stream.state = stream.state

SoleInv == CopiesCurrent /\ StateHasOffer /\ OfferFollowsStream

\* Written from a current copy, the columns take the values asked for.
LEMMA CurrentStatus ==
  ASSUME TypeInv, NEW c \in Clients, request[c].offer = offer
  PROVE /\ \A status \in States, archived \in BOOLEAN :
             OfferWith(request[c], status, archived).status = status
        /\ EnsuredOffer(request[c]).status = Target(request[c].stream)
  <1>1. offer \in Offer
    BY DEF TypeInv, TypeOK
  <1>2. CASE offer = NoOffer
    BY <1>2 DEF OfferWith, EnsuredOffer
  <1>3. CASE offer # NoOffer
    <2>1. offer \in [status: States, archived: BOOLEAN]
      BY <1>1, <1>3 DEF Offer
    <2>2. \A new : Written(offer.status, new, offer.status) = new
      BY DEF Written
    <2> QED
      BY <1>3, <2>1, <2>2 DEF OfferWith, EnsuredOffer
  <1> QED
    BY <1>2, <1>3

LEMMA SoleCommit ==
  ASSUME TypeInv, SoleInv, NEW c \in Clients, Commit(c)
  PROVE OfferFollowsStream'
  <1>1. stream \in Stream /\ request[c] \in Request
    BY DEF TypeInv, TypeOK
  <1>2. /\ stream.state \in States \union {"none"}
        /\ request[c].stream \in Stream
        /\ request[c].stream.archived \in BOOLEAN
    BY <1>1 DEF Stream, Request
  <1>3. ASSUME request[c].at = "ready"
        PROVE request[c].stream.state = stream.state /\ request[c].offer = offer
    BY <1>3 DEF SoleInv, CopiesCurrent
  <1>4. Target(request[c].stream) \in States
    BY <1>2, EffectiveType
  <1>5. request[c].at = "ready" /\ stream.state # "none" => Target(request[c].stream) = stream.state
    BY <1>3 DEF Target
  <1>6. CASE Sync(c)
    <2> DEFINE new == OfferWith(request[c], Target(request[c].stream), request[c].stream.archived)
    <2>1. request[c].at = "ready"
      BY <1>6 DEF Sync, Ready
    <2>2. new.status = Target(request[c].stream) /\ new \in Offer \ {NoOffer}
      BY <1>2, <1>3, <1>4, <2>1, CurrentStatus, WrittenOffer
    <2>3. offer'.status = new.status
      BY <1>6, <2>2 DEF Sync, Offer
    <2> HIDE DEF new
    <2> QED
      BY <1>5, <1>6, <2>1, <2>2, <2>3 DEF Sync, OfferFollowsStream
  <1>7. CASE Open(c) \/ Upload(c)
    BY <1>3, <1>5, <1>7, CurrentStatus DEF Open, Upload, Ready, OfferFollowsStream
  <1>8. CASE Complete(c)
    <2>1. request[c].at = "ready"
      BY <1>8 DEF Complete, Ready
    <2>2. offer'.status = Target(request[c].stream)
      BY <1>3, <1>8, <2>1, CurrentStatus DEF Complete
    <2>3. stream'.state = Target(request[c].stream)
      BY <1>1, <1>3, <1>8, <2>1 DEF Complete, Target, Stream
    <2> QED
      BY <2>2, <2>3 DEF OfferFollowsStream
  <1>9. CASE Archive(c) \/ Restore(c)
    <2>1. request[c].at = "ready"
      BY <1>9 DEF Archive, Restore, Ready
    <2>2. /\ OfferWith(request[c], Target(request[c].stream), TRUE).status = Target(request[c].stream)
          /\ OfferWith(request[c], Target(request[c].stream), FALSE).status = Target(request[c].stream)
      BY <1>3, <1>4, <2>1, CurrentStatus
    <2>3. \/ offer' = OfferWith(request[c], Target(request[c].stream), TRUE)
          \/ offer' = OfferWith(request[c], Target(request[c].stream), FALSE)
      BY <1>9 DEF Archive, Restore
    <2>4. offer'.status = Target(request[c].stream)
      BY <2>2, <2>3
    <2>5. stream'.state = stream.state
      BY <1>1, <1>9 DEF Archive, Restore, Stream
    <2> QED
      BY <1>5, <2>1, <2>4, <2>5 DEF OfferFollowsStream
  <1>10. CASE DeleteProposal(c)
    <2>1. stream'.state \in {"none", stream.state} /\ offer' = offer
      BY <1>1, <1>10 DEF DeleteProposal, Written, Stream
    <2> QED
      BY <2>1 DEF OfferFollowsStream, SoleInv
  <1>11. CASE Decline(c)
    BY <1>11 DEF Decline, OfferFollowsStream, SoleInv
  <1>12. ASSUME NEW next \in States, FollowUp(c, next) \/ Patch(c, next)
         PROVE OfferFollowsStream'
    <2>1. request[c].at = "ready"
      BY <1>12 DEF FollowUp, Patch, Ready
    <2>2. stream'.state = next
      BY <1>1, <1>3, <1>12, <2>1 DEF FollowUp, Patch, Written, Stream
    <2>3. OfferWith(request[c], next, TRUE).status = next /\ OfferWith(request[c], next, FALSE).status = next
      BY <1>3, <2>1, CurrentStatus
    <2>4. (next \in Terminal) = TRUE \/ (next \in Terminal) = FALSE
      OBVIOUS
    <2>5. offer' = OfferWith(request[c], next, TRUE) \/ offer' = OfferWith(request[c], next, FALSE)
      BY <1>12, <2>4 DEF FollowUp, Patch
    <2> QED
      BY <2>2, <2>3, <2>5 DEF OfferFollowsStream
  <1> QED
    BY <1>6, <1>7, <1>8, <1>9, <1>10, <1>11, <1>12 DEF Commit

\* A load makes a current copy of a current row.
LEMMA LoadsAreCurrent ==
  ASSUME TypeInv, CopiesCurrent, NEW c \in Clients, Load(c)
  PROVE CopiesCurrent'
  <1>1. request \in [Clients -> Request]
    BY DEF TypeInv, TypeOK
  <1>2. UNCHANGED <<stream, offer>>
    BY LoadTypes
  <1>3. ASSUME NEW op \in Operations \ {"patch"}, NEW at \in {"half", "ready"},
               NEW due, Begin(c, op, at, due)
        PROVE CopiesCurrent'
    BY <1>1, <1>2, <1>3 DEF Begin, CopiesCurrent
  <1>4. {"sync", "follow_up", "open", "upload", "complete", "archive", "restore", "delete"}
          \subseteq Operations \ {"patch"}
    BY DEF Operations
  <1>5. CASE LoadForSync(c) \/ LoadForFollowUp(c) \/ LoadStream(c)
    BY <1>3, <1>4, <1>5 DEF LoadForSync, LoadForFollowUp, LoadStream
  <1>6. CASE LoadOffer(c)
    BY <1>1, <1>2, <1>6 DEF LoadOffer, CopiesCurrent, Request
  <1>7. CASE LoadOfferById(c)
    BY <1>1, <1>2, <1>7 DEF LoadOfferById, CopiesCurrent, NoRequest
  <1>8. CASE LoadStreamOfOffer(c)
    BY <1>1, <1>2, <1>8 DEF LoadStreamOfOffer, CopiesCurrent, Request
  <1> QED
    BY <1>5, <1>6, <1>7, <1>8 DEF Load

LEMMA SoleStep ==
  ASSUME SoleClient, TypeInv, SoleInv, [Next]_vars
  PROVE SoleInv'
  <1>1. request \in [Clients -> Request] /\ stream \in Stream
    BY DEF TypeInv, TypeOK
  <1>2. StateHasOffer'
    BY StateHasOfferStep DEF SoleInv
  <1>3. ASSUME NEW c \in Clients, Load(c) PROVE SoleInv'
    <2>1. CopiesCurrent'
      BY <1>3, LoadsAreCurrent DEF SoleInv
    <2>2. UNCHANGED <<stream, offer>>
      BY <1>3, LoadTypes
    <2> QED
      BY <1>2, <2>1, <2>2 DEF SoleInv, OfferFollowsStream
  <1>4. ASSUME NEW c \in Clients, Commit(c) PROVE SoleInv'
    <2>1. OfferFollowsStream'
      BY <1>4, SoleCommit
    <2>2. request' = [request EXCEPT ![c] = NoRequest]
      BY <1>4, CommitTypes
    <2>3. \A d \in Clients : request'[d].at = "idle"
      BY <1>1, <2>2 DEF SoleClient, NoRequest
    <2>4. CopiesCurrent'
      BY <2>3 DEF CopiesCurrent
    <2> QED
      BY <1>2, <2>1, <2>4 DEF SoleInv
  <1>5. CASE Around
    BY <1>2, <1>5, AroundTypes DEF SoleInv, CopiesCurrent, OfferFollowsStream
  <1>6. CASE UNCHANGED vars
    BY <1>2, <1>6 DEF SoleInv, CopiesCurrent, OfferFollowsStream, vars
  <1> QED
    BY <1>3, <1>4, <1>5, <1>6, NextCases

\* With one request at a time, the offer repeats the state of its stream: the
\* pipeline and the dashboard show the same.
THEOREM OfferRepeatsStream == ASSUME SoleClient PROVE Spec => []OfferFollowsStream
  <1>1. Init => SoleInv
    BY DEF Init, SoleInv, CopiesCurrent, StateHasOffer, OfferFollowsStream, NewStream, NoRequest
  <1>2. TypeInv /\ SoleInv /\ [Next]_vars => SoleInv'
    BY SoleStep
  <1>3. SoleInv => OfferFollowsStream
    BY DEF SoleInv
  <1> QED
    BY <1>1, <1>2, <1>3, TypeInvHolds, PTL DEF Spec

-----------------------------------------------------------------------------
(* The dashboard's transition and its lock *)

\* One request holds the row; a transition in progress knows its current state.
LockInv ==
  /\ \A c, d \in Clients : Holds(c) /\ Holds(d) => c = d
  /\ \A c \in Clients : Ready(c, "follow_up") => request[c].stream.state = stream.state
  /\ \A c \in Clients : request[c].op \in Served \union {"none"}
  /\ \A c \in Clients : request[c].op = "follow_up" => request[c].at = "ready"

\* Without the completion of discovery, only the two transitions set a state, the
\* dashboard's to one the table allows; the deletion of the last proposal clears it.
LEMMA StateWriters ==
  ASSUME LockedOnly, TypeInv, LockInv, NEW c \in Clients, Commit(c)
  PROVE \/ stream'.state = stream.state
        \/ Free(c) /\ stream'.state = "none"
        \/ Free(c) /\ \E next \in States : Patch(c, next)
        \/ /\ Holds(c)
           /\ <<Effective(stream.state, evidence.proposals), stream'.state>>
                 \in PROPOSAL_FOLLOW_UP_TRANSITIONS
  <1>1. stream \in Stream
    BY DEF TypeInv, TypeOK
  <1>2. request[c].op # "complete"
    BY DEF LockInv, LockedOnly
  <1>3. CASE Sync(c) \/ Open(c) \/ Upload(c) \/ Decline(c)
    BY <1>3 DEF Sync, Open, Upload, Decline
  <1>4. CASE Complete(c)
    BY <1>2, <1>4 DEF Complete, Ready
  <1>5. CASE Archive(c) \/ Restore(c)
    BY <1>1, <1>5 DEF Archive, Restore, Stream
  <1>6. CASE DeleteProposal(c)
    BY <1>1, <1>6 DEF DeleteProposal, Written, Stream
  <1>7. ASSUME NEW next \in States, FollowUp(c, next)
        PROVE /\ Holds(c)
              /\ <<Effective(stream.state, evidence.proposals), stream'.state>>
                    \in PROPOSAL_FOLLOW_UP_TRANSITIONS
    <2>1. Ready(c, "follow_up") /\ Holds(c)
      BY <1>7 DEF FollowUp, Ready, Holds, Locking
    <2>2. request[c].stream.state = stream.state
      BY <2>1 DEF LockInv
    <2>3. stream'.state = next
      BY <1>1, <1>7, <2>2 DEF FollowUp, Written, Stream
    <2> QED
      BY <1>7, <2>1, <2>2, <2>3 DEF FollowUp
  <1>8. ASSUME NEW next \in States, Patch(c, next) PROVE Free(c)
    BY <1>8 DEF Patch
  <1> QED
    BY <1>3, <1>4, <1>5, <1>6, <1>7, <1>8 DEF Commit

LEMMA LockedLoads ==
  ASSUME TypeInv, LockInv, NEW c \in Clients, Load(c)
  PROVE LockInv'
  <1>1. request \in [Clients -> Request]
    BY DEF TypeInv, TypeOK
  <1>2. UNCHANGED stream
    BY LoadTypes
  <1>3. ASSUME NEW op \in Served, NEW at, NEW due, Begin(c, op, at, due),
               op \in Locking /\ at = "ready" => Free(c),
               op = "follow_up" => at = "ready"
        PROVE LockInv'
    <2>1. \A d \in Clients \ {c} : request'[d] = request[d]
      BY <1>1, <1>3 DEF Begin
    <2>2. /\ request'[c].op = op /\ request'[c].at = at
          /\ request'[c].stream = stream
      BY <1>1, <1>3 DEF Begin
    <2> QED
      BY <1>2, <1>3, <2>1, <2>2 DEF LockInv, Holds, Ready, Free
  <1>4. CASE LoadForSync(c)
    BY <1>3, <1>4 DEF LoadForSync, Begin, Locking
  <1>5. CASE LoadForFollowUp(c)
    BY <1>3, <1>5 DEF LoadForFollowUp, Begin
  <1>6. CASE LoadStream(c)
    <2>1. PICK op \in Served, at \in {"half", "ready"} :
             Begin(c, op, at, FALSE) /\ (at = "ready" => op = "delete")
             /\ op # "follow_up"
      BY <1>6 DEF LoadStream, Begin
    <2> QED
      BY <1>3, <2>1 DEF Locking
  <1>7. CASE LoadOffer(c)
    <2>1. \A d \in Clients \ {c} : request'[d] = request[d]
      BY <1>1, <1>7 DEF LoadOffer
    <2>2. /\ request'[c].op = request[c].op /\ request'[c].at = "ready"
          /\ request'[c].stream = request[c].stream
      BY <1>1, <1>7 DEF LoadOffer, Request
    <2>3. request[c].op # "follow_up"
      BY <1>7 DEF LoadOffer, LockInv
    <2>4. Holds(c)' => \A d \in Clients \ {c} : ~Holds(d)
      BY <1>7, <2>2 DEF LoadOffer, Holds, Free
    <2>5. \A d \in Clients \ {c} : (Holds(d)' <=> Holds(d)) /\ (Ready(d, "follow_up")' <=> Ready(d, "follow_up"))
      BY <2>1 DEF Holds, Ready
    <2>6. \A d, e \in Clients : Holds(d)' /\ Holds(e)' => d = e
      BY <2>4, <2>5 DEF LockInv
    <2>7. \A d \in Clients : Ready(d, "follow_up")' => request'[d].stream.state = stream'.state
      BY <1>2, <2>1, <2>2, <2>3, <2>5 DEF LockInv, Ready
    <2>8. \A d \in Clients : /\ request'[d].op \in Served \union {"none"}
                             /\ request'[d].op = "follow_up" => request'[d].at = "ready"
      BY <2>1, <2>2 DEF LockInv
    <2> QED
      BY <2>6, <2>7, <2>8 DEF LockInv
  <1>8. CASE LoadOfferById(c)
    <2>1. \A d \in Clients \ {c} : request'[d] = request[d]
      BY <1>1, <1>8 DEF LoadOfferById
    <2>2. request'[c].op = "patch" /\ "patch" \in Served
      BY <1>1, <1>8 DEF LoadOfferById, NoRequest
    <2> QED
      BY <1>2, <2>1, <2>2 DEF LockInv, Holds, Ready, Locking
  <1>9. CASE LoadStreamOfOffer(c)
    <2>1. \A d \in Clients \ {c} : request'[d] = request[d]
      BY <1>1, <1>9 DEF LoadStreamOfOffer
    <2>2. request'[c].op = "patch" /\ request[c].op = "patch"
      BY <1>1, <1>9 DEF LoadStreamOfOffer, Request
    <2> QED
      BY <1>2, <2>1, <2>2 DEF LockInv, Holds, Ready, Locking
  <1> QED
    BY <1>4, <1>5, <1>6, <1>7, <1>8, <1>9 DEF Load

LEMMA LockInvStep ==
  ASSUME LockedOnly, TypeInv, LockInv, [Next]_vars
  PROVE LockInv'
  <1>1. request \in [Clients -> Request]
    BY DEF TypeInv, TypeOK
  <1>2. ASSUME NEW c \in Clients, Load(c) PROVE LockInv'
    BY <1>2, LockedLoads
  <1>3. ASSUME NEW c \in Clients, Commit(c) PROVE LockInv'
    <2>1. request' = [request EXCEPT ![c] = NoRequest]
      BY <1>3, CommitTypes
    <2>2. /\ \A d \in Clients \ {c} : request'[d] = request[d]
          /\ request'[c] = NoRequest
      BY <1>1, <2>1
    <2>3. ASSUME NEW d \in Clients \ {c}, Ready(d, "follow_up")
          PROVE stream'.state = stream.state
      <3>1. Holds(d)
        BY <2>3 DEF Ready, Holds, Locking
      <3>2. ~Free(c) /\ ~Holds(c)
        BY <2>3, <3>1 DEF Free, LockInv
      <3> QED
        BY <1>3, <3>2, StateWriters
    <2>4. ~Holds(c)' /\ ~Ready(c, "follow_up")'
      BY <2>2, NoRequestType DEF Holds, Ready, Locking
    <2>5. \A d \in Clients \ {c} : (Holds(d)' <=> Holds(d)) /\ (Ready(d, "follow_up")' <=> Ready(d, "follow_up"))
      BY <2>2 DEF Holds, Ready
    <2>6. \A d, e \in Clients : Holds(d)' /\ Holds(e)' => d = e
      BY <2>4, <2>5 DEF LockInv
    <2>7. \A d \in Clients : Ready(d, "follow_up")' => request'[d].stream.state = stream'.state
      BY <2>2, <2>3, <2>4, <2>5 DEF LockInv
    <2>8. \A d \in Clients : request'[d].op \in Served \union {"none"}
      BY <2>2, NoRequestType DEF LockInv
    <2>9. \A d \in Clients : request'[d].op = "follow_up" => request'[d].at = "ready"
      BY <2>2, NoRequestType DEF LockInv
    <2> QED
      BY <2>6, <2>7, <2>8, <2>9 DEF LockInv
  <1>4. CASE Around
    BY <1>4, AroundTypes DEF LockInv, Holds, Ready
  <1>5. CASE UNCHANGED vars
    BY <1>5 DEF LockInv, Holds, Ready, vars
  <1> QED
    BY <1>2, <1>3, <1>4, <1>5, NextCases

LEMMA TableStep ==
  ASSUME LockedOnly, TypeInv, LockInv, [Next]_vars
  PROVE PagePatches \/ FollowsTable(stream.state, stream'.state, evidence.proposals)
  <1>1. ASSUME NEW c \in Clients, Load(c)
        PROVE FollowsTable(stream.state, stream'.state, evidence.proposals)
    BY <1>1, LoadTypes DEF FollowsTable
  <1>2. ASSUME NEW c \in Clients, Commit(c)
        PROVE PagePatches \/ FollowsTable(stream.state, stream'.state, evidence.proposals)
    BY <1>2, StateWriters DEF FollowsTable, PagePatches
  <1>3. CASE Around
    BY <1>3, AroundTypes DEF FollowsTable
  <1>4. CASE UNCHANGED vars
    BY <1>4 DEF FollowsTable, vars
  <1> QED
    BY <1>1, <1>2, <1>3, <1>4, NextCases

\* However requests overlap, if the completion of discovery is not called, whoever
\* but the offer's page sets a follow-up state does so along the table: the lock
\* keeps the dashboard's copy current, against the page's transition too.
THEOREM LockedTransitions == ASSUME LockedOnly PROVE Spec => TransitionsFollowTable
  <1>1. Init => LockInv
    BY DEF Init, LockInv, NoRequest, Holds, Ready, Locking
  <1>2. TypeInv /\ LockInv /\ [Next]_vars => LockInv'
    BY LockInvStep
  <1>3. TypeInv /\ LockInv /\ [Next]_vars =>
          [PagePatches \/ FollowsTable(stream.state, stream'.state, evidence.proposals)]_vars
    BY TableStep
  <1> QED
    BY <1>1, <1>2, <1>3, TypeInvHolds, PTL DEF Spec, TransitionsFollowTable

=============================================================================
