--------------------------- MODULE OfferFollowUp ---------------------------
(***************************************************************************)
(* The commercial follow-up of one stream (project): the state the stream  *)
(* keeps in proposal_follow_up_state, the row of offers that repeats it,   *)
(* and the handlers that write either: the dashboard's transition, the     *)
(* offer page's transition, completing discovery, opening the offer, the   *)
(* upload of an offer document, archive, restore, the deletion of a        *)
(* proposal, and the two GETs that bring every offer of the organization   *)
(* in line before they list them.                                          *)
(*                                                                         *)
(* A request loads the stream, then the offer, and commits.  It decides on *)
(* those copies (request[c].stream, request[c].offer), also after a SELECT *)
(* FOR UPDATE if the stream had been loaded before, and writes a column    *)
(* only where it differs from the copy.                                    *)
(***************************************************************************)
EXTENDS Naturals

CONSTANTS
  Clients,        \* requests that can be in flight at the same time
  Served,         \* the operations these requests call
  MaxProposals    \* bound on the proposals of the stream at one time

Operations ==
  {"sync", "follow_up", "patch", "open", "upload", "complete", "archive", "restore", "delete"}

ASSUME ServedAssumption == Served \subseteq Operations
ASSUME BoundAssumption == MaxProposals \in Nat

VARIABLES
  stream,     \* proposal_follow_up_state, archived_at, archived_by_parent_id
  offer,      \* status and archived_at of the stream's offer row
  evidence,   \* its proposals, and whether it has an offer document or insights
  request     \* request[c]: the call in flight and the copies it holds

vars == <<stream, offer, evidence, request>>

-----------------------------------------------------------------------------
States ==
  {"uploaded", "waiting_to_send", "waiting_response", "under_negotiation",
   "accepted", "rejected"}
Terminal == {"accepted", "rejected"}

\* "none" is NULL.
Stream == [state: States \union {"none"}, archived: BOOLEAN, marked: BOOLEAN]
NoOffer == [status |-> "absent", archived |-> FALSE]
Offer == {NoOffer} \union [status: States, archived: BOOLEAN]
Evidence == [proposals: 0..MaxProposals, documented: BOOLEAN]

NewStream == [state |-> "none", archived |-> FALSE, marked |-> FALSE]
NoRequest == [op |-> "none", at |-> "idle", stream |-> NewStream, offer |-> NoOffer, due |-> FALSE]
Request ==
  [op: Operations \union {"none"}, at: {"idle", "half", "ready"},
   stream: Stream, offer: Offer, due: BOOLEAN]

TypeOK ==
  /\ stream \in Stream
  /\ offer \in Offer
  /\ evidence \in Evidence
  /\ request \in [Clients -> Request]

Init ==
  /\ stream = NewStream
  /\ offer = NoOffer
  /\ evidence = [proposals |-> 0, documented |-> FALSE]
  /\ request = [c \in Clients |-> NoRequest]

-----------------------------------------------------------------------------
(* What the handlers compute *)

PROPOSAL_FOLLOW_UP_TRANSITIONS ==
  {<<"none", "uploaded">>,
   <<"uploaded", "waiting_to_send">>,
   <<"waiting_to_send", "waiting_response">>, <<"waiting_to_send", "rejected">>,
   <<"waiting_response", "waiting_to_send">>, <<"waiting_response", "under_negotiation">>,
   <<"waiting_response", "accepted">>, <<"waiting_response", "rejected">>,
   <<"under_negotiation", "waiting_response">>, <<"under_negotiation", "accepted">>,
   <<"under_negotiation", "rejected">>}

\* The state the dashboard shows and the transition starts from.
Effective(stored, proposals) ==
  IF stored = "uploaded" THEN "uploaded"
  ELSE IF proposals = 0 THEN "none"
  ELSE IF stored = "none" THEN "uploaded"
  ELSE stored

Target(s) == IF s.state = "none" THEN "uploaded" ELSE s.state

Eligible(s, e) == s.state # "none" \/ e.proposals > 0 \/ e.documented

\* A column is written if its new value is not that of the copy.
Written(copy, new, current) == IF new = copy THEN current ELSE new

\* archived_at: a new time stamp always differs from the copy, NULL may not.
WrittenArchived(copy, new, current) == IF new THEN TRUE ELSE Written(copy, FALSE, current)

\* Broken variant: only an offer that exists is written.
OfferWithUpdateOnly(q, status, archived) ==
  IF q.offer = NoOffer
  THEN offer
  ELSE [status |-> Written(q.offer.status, status, offer.status),
        archived |-> WrittenArchived(q.offer.archived, archived, offer.archived)]

\* The offer row after request q has inserted it or updated the one it loaded.
OfferWith(q, status, archived) ==
  IF q.offer = NoOffer
  THEN [status |-> status, archived |-> archived]
  ELSE [status |-> Written(q.offer.status, status, offer.status),
        archived |-> WrittenArchived(q.offer.archived, archived, offer.archived)]

\* Opening an offer corrects the status of a row that exists, not its archived_at.
EnsuredOffer(q) ==
  IF q.offer = NoOffer
  THEN [status |-> Target(q.stream), archived |-> q.stream.archived]
  ELSE [offer EXCEPT !.status = Written(q.offer.status, Target(q.stream), @)]

-----------------------------------------------------------------------------
(* Loading *)

\* Broken variant: the dashboard's transition does not lock the project.
LockingWithoutFollowUp == {"archive", "restore", "upload"}

\* From the second load to the commit these hold the project row FOR UPDATE.
Locking == {"follow_up", "archive", "restore", "upload"}

Holds(c) == request[c].op \in Locking /\ request[c].at = "ready"

\* Whoever writes the project row, or inserts a row that refers to it, waits.
Free(c) == \A d \in Clients \ {c} : ~Holds(d)

Ready(c, op) == request[c].op = op /\ request[c].at = "ready"

Answer(c) == request' = [request EXCEPT ![c] = NoRequest]

Begin(c, op, at, due) ==
  /\ request[c].at = "idle"
  /\ op \in Served
  /\ request' = [request EXCEPT ![c] =
       [op |-> op, at |-> at, due |-> due, stream |-> stream,
        offer |-> IF at = "ready" THEN offer ELSE NoOffer]]
  /\ UNCHANGED <<stream, offer, evidence>>

\* One query joins projects and offers.
LoadForSync(c) == Begin(c, "sync", "ready", Eligible(stream, evidence))

\* The transition locks the project as it loads it, so the copy is the row; an
\* archived project is refused.
LoadForFollowUp(c) ==
  /\ Free(c)
  /\ ~stream.archived
  /\ Begin(c, "follow_up", "ready", FALSE)

\* The dependencies load the project, without a lock; archiving, restoring and
\* deleting a proposal accept an archived one for now.
LoadStream(c) ==
  \/ /\ ~stream.archived
     /\ \E op \in {"open", "upload", "complete"} : Begin(c, op, "half", FALSE)
  \/ \E op \in {"archive", "restore"} : Begin(c, op, "half", FALSE)
  \/ Begin(c, "delete", "ready", FALSE)

\* The SELECT of the offer; archive, restore and upload lock the project just
\* before it, and keep the copy of the project they have.
LoadOffer(c) ==
  /\ request[c].at = "half"
  /\ request[c].op # "patch"
  /\ request[c].op \in Locking => Free(c)
  /\ request' = [request EXCEPT ![c].at = "ready", ![c].offer = offer]
  /\ UNCHANGED <<stream, offer, evidence>>

\* The offer page's transition loads the offer by its id, then its project.
LoadOfferById(c) ==
  /\ request[c].at = "idle"
  /\ "patch" \in Served
  /\ offer # NoOffer
  /\ request' = [request EXCEPT ![c] = [NoRequest EXCEPT !.op = "patch", !.at = "half",
                                                         !.offer = offer]]
  /\ UNCHANGED <<stream, offer, evidence>>

LoadStreamOfOffer(c) ==
  /\ request[c].op = "patch" /\ request[c].at = "half"
  /\ request' = [request EXCEPT ![c].at = "ready", ![c].stream = stream]
  /\ UNCHANGED <<stream, offer, evidence>>

-----------------------------------------------------------------------------
(* Committing *)

\* uq_offers_project_id: the second of two inserts fails, and the request with it.
CanWriteOffer(c) == request[c].offer = NoOffer => offer = NoOffer /\ Free(c)

\* Where both rows were archived with the same time stamp, nothing is written.
Sync(c) ==
  LET q == request[c]
      new == OfferWith(q, Target(q.stream), q.stream.archived) IN
  /\ Ready(c, "sync")
  /\ q.due
  /\ CanWriteOffer(c)
  /\ \/ offer' = new
     \/ /\ q.offer.archived /\ q.stream.archived
        /\ offer' = [new EXCEPT !.archived = offer.archived]
  /\ Answer(c)
  /\ UNCHANGED <<stream, evidence>>

FollowUp(c, next) ==
  LET q == request[c] IN
  /\ Ready(c, "follow_up")
  /\ CanWriteOffer(c)
  /\ <<Effective(q.stream.state, evidence.proposals), next>> \in PROPOSAL_FOLLOW_UP_TRANSITIONS
  /\ stream' = [stream EXCEPT !.state = Written(q.stream.state, next, @)]
  /\ offer' = OfferWith(q, next, next \in Terminal)
  /\ Answer(c)
  /\ UNCHANGED evidence

\* Broken variant: the offer's own status is forgotten.
PatchStreamOnly(c, next) ==
  LET q == request[c] IN
  /\ Ready(c, "patch")
  /\ Free(c)
  /\ stream' = [stream EXCEPT !.state = Written(q.stream.state, next, @)]
  /\ offer' = [offer EXCEPT
                 !.archived = WrittenArchived(q.offer.archived, next \in Terminal, @)]
  /\ Answer(c)
  /\ UNCHANGED evidence

\* Any state, from any state, of an archived stream too.
Patch(c, next) ==
  LET q == request[c] IN
  /\ Ready(c, "patch")
  /\ Free(c)
  /\ stream' = [stream EXCEPT !.state = Written(q.stream.state, next, @)]
  /\ offer' = OfferWith(q, next, next \in Terminal)
  /\ Answer(c)
  /\ UNCHANGED evidence

Open(c) ==
  /\ Ready(c, "open")
  /\ CanWriteOffer(c)
  /\ offer' = EnsuredOffer(request[c])
  /\ Answer(c)
  /\ UNCHANGED <<stream, evidence>>

\* An offer document; insights refreshed on the offer's page leave the same traces.
Upload(c) ==
  /\ Ready(c, "upload")
  /\ CanWriteOffer(c)
  /\ offer' = EnsuredOffer(request[c])
  /\ evidence' = [evidence EXCEPT !.documented = TRUE]
  /\ Answer(c)
  /\ UNCHANGED stream

\* The insights this seeds are evidence from now on.
Complete(c) ==
  LET q == request[c] IN
  /\ Ready(c, "complete")
  /\ Free(c)
  /\ CanWriteOffer(c)
  /\ stream' = [stream EXCEPT !.state = IF q.stream.state = "none" THEN "uploaded" ELSE @]
  /\ offer' = EnsuredOffer(q)
  /\ \E seeded \in BOOLEAN :
       evidence' = [evidence EXCEPT !.documented = @ \/ seeded]
  /\ Answer(c)

Archive(c) ==
  LET q == request[c] IN
  /\ Ready(c, "archive")
  /\ ~q.stream.archived
  /\ CanWriteOffer(c)
  /\ stream' = [stream EXCEPT !.archived = TRUE,
                              !.marked = Written(q.stream.marked, FALSE, @)]
  /\ offer' = OfferWith(q, Target(q.stream), TRUE)
  /\ Answer(c)
  /\ UNCHANGED evidence

Restore(c) ==
  LET q == request[c] IN
  /\ Ready(c, "restore")
  /\ q.stream.archived
  /\ CanWriteOffer(c)
  /\ stream' = [stream EXCEPT !.archived = FALSE,
                              !.marked = Written(q.stream.marked, FALSE, @)]
  /\ offer' = OfferWith(q, Target(q.stream), FALSE)
  /\ Answer(c)
  /\ UNCHANGED evidence

\* The remaining proposals are counted after the lock, the state is compared with
\* the copy from before it.
DeleteProposal(c) ==
  LET q == request[c] IN
  /\ Ready(c, "delete")
  /\ Free(c)
  /\ ~q.stream.archived
  /\ evidence.proposals > 0
  /\ evidence' = [evidence EXCEPT !.proposals = @ - 1]
  /\ stream' = [stream EXCEPT !.state =
       IF evidence.proposals = 1 THEN Written(q.stream.state, "none", @) ELSE @]
  /\ Answer(c)
  /\ UNCHANGED offer

\* 404, 409, "already archived", a failed insert, nothing to sync: a rollback.
Decline(c) ==
  LET q == request[c] IN
  /\ q.at = "ready"
  /\ \/ q.op = "sync" /\ ~q.due
     \/ q.op = "follow_up"
     \/ q.op = "archive" /\ q.stream.archived
     \/ q.op = "restore" /\ ~q.stream.archived
     \/ q.op = "delete" /\ (q.stream.archived \/ evidence.proposals = 0)
     \/ q.op # "delete" /\ q.offer = NoOffer /\ offer # NoOffer
  /\ Answer(c)
  /\ UNCHANGED <<stream, offer, evidence>>

-----------------------------------------------------------------------------
(* Around the requests *)

\* The generation job locks the project before it inserts the proposal.
CreateProposal ==
  /\ \A c \in Clients : ~Holds(c)
  /\ ~stream.archived
  /\ evidence.proposals < MaxProposals
  /\ evidence' = [evidence EXCEPT !.proposals = @ + 1]
  /\ UNCHANGED <<stream, offer, request>>

DeleteDocument ==
  /\ \A c \in Clients : ~Holds(c)
  /\ ~stream.archived
  /\ evidence.documented
  /\ evidence' = [evidence EXCEPT !.documented = FALSE]
  /\ UNCHANGED <<stream, offer, request>>

\* The cascades of companies and locations do not look at offers.
ArchiveParent ==
  /\ \A c \in Clients : ~Holds(c)
  /\ ~stream.archived
  /\ stream' = [stream EXCEPT !.archived = TRUE, !.marked = TRUE]
  /\ UNCHANGED <<offer, evidence, request>>

RestoreParent ==
  /\ \A c \in Clients : ~Holds(c)
  /\ stream.marked
  /\ stream' = [stream EXCEPT !.archived = FALSE, !.marked = FALSE]
  /\ UNCHANGED <<offer, evidence, request>>

Load(c) ==
  \/ LoadForSync(c) \/ LoadForFollowUp(c) \/ LoadStream(c) \/ LoadOffer(c)
  \/ LoadOfferById(c) \/ LoadStreamOfOffer(c)

Commit(c) ==
  \/ Sync(c) \/ Open(c) \/ Upload(c) \/ Complete(c)
  \/ Archive(c) \/ Restore(c) \/ DeleteProposal(c) \/ Decline(c)
  \/ \E next \in States : FollowUp(c, next) \/ Patch(c, next)

Next ==
  \/ \E c \in Clients : Load(c) \/ Commit(c)
  \/ CreateProposal \/ DeleteDocument \/ ArchiveParent \/ RestoreParent

Spec == Init /\ [][Next]_vars

-----------------------------------------------------------------------------
(* Properties *)

\* Whatever requests overlap, a stream with a follow-up state has an offer row, so
\* that the offer pages, which list offers and not streams, can show it.
StateHasOffer == stream.state # "none" => offer # NoOffer

\* The offer repeats the state of its stream: the pipeline, which reads offers, and
\* the dashboard, which reads streams, show the same.
OfferFollowsStream ==
  stream.state # "none" => offer.status = stream.state

\* Whoever sets it, except the offer's own page: a new follow-up state is what the
\* stream has been showing or a successor of it in the table; in particular nobody
\* else takes a decision back before the last proposal is deleted.
FollowsTable(before, after, proposals) ==
  \/ after \in {before, "none"}
  \/ after = Effective(before, proposals)
  \/ <<Effective(before, proposals), after>> \in PROPOSAL_FOLLOW_UP_TRANSITIONS

PagePatches == \E c \in Clients, next \in States : Patch(c, next)

TransitionsFollowTable ==
  [][PagePatches \/ FollowsTable(stream.state, stream'.state, evidence.proposals)]_vars

\* GET /offers/archive, the list the client shows.
InArchive == offer.status \in Terminal /\ offer.archived

\* An accepted or rejected offer of an active stream is in the archive, where its
\* page says it is; no other list has it.  TLC refutes it: archive and restore the
\* stream of a decided offer.
DecidedInArchive ==
  stream.state \in Terminal /\ ~stream.archived => InArchive

=============================================================================
