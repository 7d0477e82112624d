---------------------------- MODULE ImportReview ----------------------------
(***************************************************************************)
(* The review of one import run that reached review_ready: the edits of a  *)
(* reviewer to its items, the four ways its items become locations and     *)
(* streams (finalize of the whole run, of groups of a bulk run, of groups  *)
(* of a voice run, import of orphan projects), the decision on one draft   *)
(* of the discovery flow, and the summary the run keeps of it all.         *)
(*                                                                         *)
(* A request first loads its run with all items, or its item with the run, *)
(* to check the organization (LoadRun, LoadItem).  The service then locks  *)
(* the run with SELECT FOR UPDATE in the same session, which leaves loaded *)
(* rows as they are: everything up to the commit is one step, decided on   *)
(* the copies in request[c] where a row had been loaded and on the current *)
(* row where not.  A column is written only where it differs from the copy.*)
(*                                                                         *)
(* The run's entry point is a company and it has a discovery source.  The  *)
(* counters of the run, the stored text of an item and needs_review are    *)
(* left out: a refusal for their sake is Leave.                            *)
(***************************************************************************)
EXTENDS Integers, FiniteSets

CONSTANTS
  Clients,        \* requests that can be in flight at the same time
  LocationItems,  \* items of the run that describe a location
  ProjectItems,   \* items of the run that describe a stream, with a name each
  Parent,         \* the location item of a linked project item, None of an orphan
  Places,         \* locations of the company, told apart by name, city and state
  Extracted,      \* the place the data of an item names, or None
  Keys,           \* idempotency keys
  Sendable,       \* the location resolutions reviewers send, [mode, at]
  Sent,           \* confirm_create_new as they send it: {} not at all, {TRUE}, {FALSE}
  MaxMade,        \* bound on the streams made from one item
  MaxRejected,    \* bound on the rejections the summary counts
  None

Items == LocationItems \union ProjectItems

ASSUME ItemsAssumption ==
  /\ IsFiniteSet(LocationItems) /\ IsFiniteSet(ProjectItems)
  /\ LocationItems \intersect ProjectItems = {}
  /\ Parent \in [ProjectItems -> LocationItems \union {None}]
  /\ Extracted \in [Items -> Places \union {None}]
  /\ \A i \in LocationItems : Extracted[i] \in Places
  /\ None \notin Items \union Places \union Nat
ASSUME SentAssumption ==
  /\ Sendable \subseteq [mode : {"existing", "create_new", "locked"}, at : Places]
  /\ Sent \subseteq {{}, {TRUE}, {FALSE}}
ASSUME BoundsAssumption == MaxMade \in Nat /\ MaxRejected \in Nat

VARIABLES
  source,     \* source_type of the run
  run,        \* its status and summary_data
  voice,      \* status of its voice interview, "none" for a bulk run
  item,       \* the rows of its items
  candidate,  \* items with a duplicate candidate, set by the analysis
  locations,  \* the company's locations
  streams,    \* streams[j][n]: where the n-th stream named as item j is; 0: made by hand
  answer,     \* the recorded answer to each idempotency key
  request     \* request[c]: the call in flight and the copies it holds

vars == <<source, run, voice, item, candidate, locations, streams, answer, request>>

-----------------------------------------------------------------------------
(* Rows *)

NoChoice == [mode |-> "none", at |-> None]
Choices == {NoChoice} \union Sendable

\* "accepted" is accepted and amended.
Row ==
  [status : {"pending", "accepted", "rejected", "invalid"}, confirm : BOOLEAN,
   choice : Choices, place : Places \union {None}, stream : 0..MaxMade \union {None}]

\* A linked project shares the group of its location, an orphan has its own.
Group(i) == IF i \in ProjectItems /\ Parent[i] # None THEN Parent[i] ELSE i
Groups == {Group(i) : i \in Items}

Orphans == {j \in ProjectItems : Parent[j] = None}

SummaryOf(places, made, rejected) ==
  [given |-> TRUE, places |-> places, streams |-> made, rejected |-> rejected, counted |-> {}]
NoSummary == [SummaryOf(0, 0, 0) EXCEPT !.given = FALSE]
Summary ==
  [given : BOOLEAN, places : Nat, streams : Nat, rejected : 0..MaxRejected,
   counted : SUBSET Groups]
Run == [status : {"review_ready", "completed"}, summary : Summary]
NewRun == [status |-> "review_ready", summary |-> NoSummary]

NoAnswer == [given |-> FALSE, groups |-> {}, streams |-> 0]
Idle == [op |-> "none", of |-> None, run |-> NewRun, items |-> << >>]
Loaded(q) == CASE q.op = "run" -> Items [] q.op = "item" -> {q.of} [] OTHER -> {}

TypeOK ==
  /\ source \in {"bulk_import", "voice_interview"}
  /\ run \in Run
  /\ voice \in {"none", "review_ready", "partial_finalized", "finalized"}
  /\ item \in [Items -> Row]
  /\ candidate \subseteq Items
  /\ locations \subseteq Places
  /\ streams \in [ProjectItems -> [0..MaxMade -> Places \union {None}]]
  /\ answer \in [Keys -> [given : BOOLEAN, groups : SUBSET Groups, streams : Nat]]
  /\ DOMAIN request = Clients
  /\ \A c \in Clients :
       /\ request[c].op \in {"none", "item", "run"}
       /\ request[c].of \in Items \union {None}
       /\ request[c].run \in Run
       /\ request[c].items \in [Loaded(request[c]) -> Row]

\* The analysis left valid items pending and noted what the company had already.
Init ==
  /\ source \in {"bulk_import", "voice_interview"}
  /\ run = NewRun
  /\ voice = IF source = "voice_interview" THEN "review_ready" ELSE "none"
  /\ item \in [Items -> [status : {"pending", "invalid"}, confirm : {FALSE}, choice : {NoChoice},
                         place : {None}, stream : {None}]]
  /\ locations \in SUBSET Places
  /\ streams \in [ProjectItems ->
       {[n \in 0..MaxMade |-> IF n = 0 THEN p ELSE None] : p \in locations \union {None}}]
  /\ candidate \in SUBSET Items
  /\ \A i \in LocationItems : i \in candidate <=> Extracted[i] \in locations
  /\ \A j \in ProjectItems : j \in candidate => streams[j][0] # None
  /\ answer = [k \in Keys |-> NoAnswer]
  /\ request = [c \in Clients |-> Idle]

-----------------------------------------------------------------------------
(* A request's view of the rows, and what it writes *)

Copy(c, i) == IF i \in DOMAIN request[c].items THEN request[c].items[i] ELSE item[i]

Written(copy, new, current) == IF new = copy THEN current ELSE new

Merged(copy, new, current) ==
  [status |-> Written(copy.status, new.status, current.status),
   confirm |-> Written(copy.confirm, new.confirm, current.confirm),
   choice |-> Written(copy.choice, new.choice, current.choice),
   place |-> Written(copy.place, new.place, current.place),
   stream |-> Written(copy.stream, new.stream, current.stream)]

\* The items after request c has set those of rows.
Stored(c, rows) ==
  [i \in Items |->
    IF i \in DOMAIN rows THEN Merged(Copy(c, i), rows[i], item[i]) ELSE item[i]]

StoredRun(c, status, summary) ==
  [status |-> Written(request[c].run.status, status, run.status),
   summary |-> Written(request[c].run.summary, summary, run.summary)]

Done(c) == request' = [request EXCEPT ![c] = Idle]

VoiceStatus(open) == IF open THEN "partial_finalized" ELSE "finalized"

\* Broken variant: the run's status does not follow the interview's.
UnsyncedRunStatus(open) == "review_ready"

\* run.status and voice.status are set together.
RunStatus(open) == IF open THEN "review_ready" ELSE "completed"

\* Broken variant: the summary is that of this request alone.
OwnSummary(c, places, made, rejected) == SummaryOf(places, made, rejected)

\* The summary of the run with what this request adds; its counted groups are dropped.
Accumulated(c, places, made, rejected) ==
  LET s == request[c].run.summary
  IN SummaryOf(s.places + places, s.streams + made, s.rejected + rejected)

\* How many streams were made from item j.
Made(j) == Cardinality({n \in 1..MaxMade : streams[j][n] # None})
NamedAt(j, p) == \E n \in 0..MaxMade : streams[j][n] = p

-----------------------------------------------------------------------------
LoadRun(c) ==
  /\ request[c] = Idle
  /\ request' = [request EXCEPT ![c] =
       [op |-> "run", of |-> None, run |-> run, items |-> item]]
  /\ UNCHANGED <<source, run, voice, item, candidate, locations, streams, answer>>

LoadItem(c, i) ==
  /\ request[c] = Idle
  /\ request' = [request EXCEPT ![c] =
       [op |-> "item", of |-> i, run |-> run, items |-> [k \in {i} |-> item[k]]]]
  /\ UNCHANGED <<source, run, voice, item, candidate, locations, streams, answer>>

\* Nothing is written: a refusal, the summary of a completed run, the recorded
\* answer to a key, or a process that dies before it commits.
Leave(c) ==
  /\ request[c] # Idle
  /\ Done(c)
  /\ UNCHANGED <<source, run, voice, item, candidate, locations, streams, answer>>

-----------------------------------------------------------------------------
(* PATCH of an item *)

Confirmed(r, sent) == IF sent = {} THEN r.confirm ELSE TRUE \in sent

\* A row with a location resolution applied; NoChoice is none sent.  It is
\* ignored for a linked project.
Resolved(i, r, choice) ==
  IF choice = NoChoice \/ (i \in ProjectItems /\ Parent[i] # None) THEN r
  ELSE IF i \in Orphans THEN [r EXCEPT !.choice = choice]
  ELSE [r EXCEPT !.choice = choice, !.place = None,
                 !.confirm = IF choice.mode = "locked" THEN @ ELSE choice.mode = "create_new"]

Resolvable(i, choice) ==
  /\ choice.mode = "existing" => choice.at \in locations
  /\ i \in Orphans => choice.mode # "locked"

Editing(c, i) ==
  /\ request[c].op = "item" /\ request[c].of = i
  /\ request[c].run.status = "review_ready"
  /\ Copy(c, i).status # "invalid"

Save(c, rows) ==
  /\ item' = Stored(c, rows)
  /\ Done(c)
  /\ UNCHANGED <<source, run, voice, candidate, locations, streams, answer>>

\* accept, and amend: only the latter takes a location resolution.
Accept(c, i, choice, sent) ==
  /\ Editing(c, i)
  /\ Resolvable(i, choice)
  /\ LET r == Resolved(i, Copy(c, i), choice)
         new == [r EXCEPT !.status = "accepted", !.confirm = Confirmed(r, sent)]
     IN /\ i \in candidate => new.confirm \/ source = "voice_interview"
        /\ Save(c, [k \in {i} |-> new])

\* Rejecting a location rejects its children with an UPDATE of the current rows.
Reject(c, i, sent) ==
  /\ Editing(c, i)
  /\ Save(c, [k \in {i} \union {j \in ProjectItems : Parent[j] = i} |->
               [Copy(c, k) EXCEPT !.status = "rejected",
                                  !.confirm = IF k = i THEN Confirmed(Copy(c, i), sent) ELSE @]])

Reset(c, i) ==
  /\ Editing(c, i)
  /\ Save(c, [k \in {i} |-> [Copy(c, k) EXCEPT !.status = "pending", !.confirm = FALSE]])

-----------------------------------------------------------------------------
(* What a finalize makes of the accepted ones among the items T.  With anew  *)
(* it makes them all, otherwise those that have no location or stream yet.   *)

Accepted(c, T) == {i \in T : Copy(c, i).status = "accepted"}
Unplaced(c, T, anew) ==
  {i \in Accepted(c, T) \intersect LocationItems : anew \/ Copy(c, i).place = None}
Unmade(c, T, anew) ==
  {j \in Accepted(c, T) \intersect ProjectItems : anew \/ Copy(c, j).stream = None}

Named(i, r) == IF r.choice.mode = "none" THEN Extracted[i] ELSE r.choice.at

\* A voice run takes the duplicate candidate of an item not confirmed as new.
Mapped(c, i) ==
  source = "voice_interview" /\ i \in candidate /\ ~Copy(c, i).confirm

PlaceFor(c, i) ==
  IF Mapped(c, i) /\ Copy(c, i).choice.mode # "existing"
  THEN Extracted[i] ELSE Named(i, Copy(c, i))

Home(c, i, anew) ==
  IF anew \/ Copy(c, i).place = None THEN PlaceFor(c, i) ELSE Copy(c, i).place

Target(c, j, T, anew) ==
  IF Parent[j] \in Accepted(c, T) THEN Home(c, Parent[j], anew)
  ELSE IF Parent[j] = None THEN Named(j, Copy(c, j))
  ELSE Extracted[j]

NewPlaces(c, T, anew) ==
  ({PlaceFor(c, i) : i \in Unplaced(c, T, anew)} \union
   {Copy(c, j).choice.at : j \in {j \in Unmade(c, T, anew) \intersect Orphans :
                                    Copy(c, j).choice.mode = "create_new"}}) \ locations

\* What would be made of them can be made: a new location does not exist yet,
\* every project has a location, a candidate is at the location found.
Makeable(c, T, anew) ==
  /\ \A i \in Unplaced(c, T, anew) :
       Copy(c, i).choice.mode = "create_new" /\ ~Mapped(c, i) =>
         /\ PlaceFor(c, i) \notin locations
         /\ \A k \in Unplaced(c, T, anew) \ {i} :
              Copy(c, k).choice.mode = "create_new" => PlaceFor(c, k) # PlaceFor(c, i)
  /\ \A j \in Unmade(c, T, anew) :
       /\ Target(c, j, T, anew) \in locations \union NewPlaces(c, T, anew)
       /\ IF Mapped(c, j) THEN streams[j][0] = Target(c, j, T, anew) ELSE Made(j) < MaxMade

ToMake(c, T, anew) == {j \in Unmade(c, T, anew) : ~Mapped(c, j)}

NewRows(c, T, anew) ==
  [i \in Unplaced(c, T, anew) \union Unmade(c, T, anew) |->
    IF i \in LocationItems THEN [Copy(c, i) EXCEPT !.place = PlaceFor(c, i)]
    ELSE [Copy(c, i) EXCEPT !.stream = IF Mapped(c, i) THEN 0 ELSE Made(i) + 1]]

Make(c, T, anew) ==
  /\ Makeable(c, T, anew)
  /\ item' = Stored(c, NewRows(c, T, anew))
  /\ locations' = locations \union NewPlaces(c, T, anew)
  /\ streams' = [j \in ProjectItems |->
       IF j \in ToMake(c, T, anew)
       THEN [streams[j] EXCEPT ![Made(j) + 1] = Target(c, j, T, anew)]
       ELSE streams[j]]
  /\ Done(c)

\* Where an accepted project would go, as far as it is known before anything is made.
KnownTarget(c, j, T) ==
  LET choice == Copy(c, j).choice
  IN IF Parent[j] \in Accepted(c, T) THEN None
     ELSE IF choice.mode = "existing" \/ (choice.mode = "create_new" /\ choice.at \in locations)
     THEN choice.at
     ELSE IF Extracted[j] \in locations THEN Extracted[j] ELSE None

\* No accepted item of a bulk run has met its like since the analysis.
NoLiveDuplicate(c, T) ==
  \A i \in Accepted(c, T) :
    \/ Copy(c, i).confirm
    \/ i \in LocationItems
         /\ (Copy(c, i).choice.mode = "existing" \/ Named(i, Copy(c, i)) \notin locations)
    \/ i \in ProjectItems
         /\ (KnownTarget(c, i, T) = None \/ ~NamedAt(i, KnownTarget(c, i, T)))

\* Broken variant: what is accepted counts as made.
StillUndecided(c, rows) ==
  \E i \in Items : (IF i \in DOMAIN rows THEN rows[i] ELSE Copy(c, i)).status = "pending"

\* Some item of the run is left to decide or to make, as the request sees them.
StillOpen(c, rows) ==
  \E i \in Items :
    LET r == IF i \in DOMAIN rows THEN rows[i] ELSE Copy(c, i)
    IN \/ r.status = "pending"
       \/ r.status = "accepted" /\ (IF i \in LocationItems THEN r.place ELSE r.stream) = None

Rejected(c, T) == Cardinality({i \in T : Copy(c, i).status = "rejected"})

Members(G) == {i \in Items : Group(i) \in G}

-----------------------------------------------------------------------------
(* POST finalize *)

\* The whole run: none is pending in the database, the location of an accepted
\* project is accepted, and all that is accepted is made, made before or not.
FinalizeWhole(c) ==
  /\ source = "bulk_import"
  /\ request[c].op = "run"
  /\ request[c].run.status = "review_ready"
  /\ \A i \in Items : item[i].status # "pending"
  /\ \A i \in Accepted(c, Items) :
       /\ i \in candidate => Copy(c, i).confirm
       /\ i \in ProjectItems => Parent[i] \in Accepted(c, Items) \union {None}
  /\ NoLiveDuplicate(c, Items)
  /\ Make(c, Items, TRUE)
  /\ Rejected(c, Items) <= MaxRejected
  /\ run' = StoredRun(c, "completed",
       SummaryOf(Cardinality(NewPlaces(c, Items, TRUE)),
                 Cardinality(ToMake(c, Items, TRUE)), Rejected(c, Items)))
  /\ UNCHANGED <<source, voice, candidate, answer>>

\* Broken variant: a group sent again is counted again.
SentGroups(c, G) == G

\* The groups among G whose rejections the summary has not counted yet.
Uncounted(c, G) == G \ request[c].run.summary.counted

\* The groups G of a bulk run.
FinalizeSubset(c, G) ==
  LET T == Members(G)
      rejected == Rejected(c, Members(Uncounted(c, G)))
      open == StillOpen(c, NewRows(c, T, FALSE))
  IN /\ source = "bulk_import"
     /\ request[c].op = "run"
     /\ request[c].run.status = "review_ready"
     /\ \A i \in T : Copy(c, i).status # "pending"
     /\ NoLiveDuplicate(c, T)
     /\ Make(c, T, FALSE)
     /\ request[c].run.summary.rejected + rejected <= MaxRejected
     /\ run' = StoredRun(c, RunStatus(open),
          [Accumulated(c, Cardinality(NewPlaces(c, T, FALSE)),
                       Cardinality(ToMake(c, T, FALSE)), rejected)
             EXCEPT !.counted = request[c].run.summary.counted \union G])
     /\ UNCHANGED <<source, voice, candidate, answer>>

\* Broken variant: the record of a key is not looked up.
AnyKey(k) == k \in Keys

\* The key has no recorded answer, read under the lock.
Unanswered(k) == ~answer[k].given

\* Broken variant: whether the interview is finalized is not asked.
AnyInterview == voice # "none"

\* The interview's row is read under the lock, no copy of it was loaded before.
InterviewOpen == voice \in {"review_ready", "partial_finalized"}

\* The groups G of a voice run.  The summary is that of this request alone.
FinalizeVoice(c, G, k) ==
  LET T == Members(G)
      open == StillOpen(c, NewRows(c, T, FALSE))
  IN /\ source = "voice_interview"
     /\ request[c].op = "run"
     /\ Unanswered(k)
     /\ request[c].run.status = "review_ready"
     /\ InterviewOpen
     /\ \A i \in T : Copy(c, i).status # "pending"
     /\ Make(c, T, FALSE)
     /\ Rejected(c, T) <= MaxRejected
     /\ voice' = VoiceStatus(open)
     /\ run' = StoredRun(c, RunStatus(open),
          SummaryOf(Cardinality(NewPlaces(c, T, FALSE)),
                    Cardinality(ToMake(c, T, FALSE)), Rejected(c, T)))
     /\ answer' = [answer EXCEPT ![k] =
          [given |-> TRUE, groups |-> G, streams |-> Cardinality(ToMake(c, T, FALSE))]]
     /\ UNCHANGED <<source, candidate>>

-----------------------------------------------------------------------------
(* POST orphan-projects/import: streams from the orphans J, at location p.   *)
(* The last of them is not flushed when the orphans left are counted.        *)

ImportOrphans(c, J, p, last) ==
  LET new == {j \in J : Copy(c, j).stream = None}
      left == {j \in Orphans \ (new \ {last}) :
                 item[j].status # "rejected" /\ item[j].stream = None}
  IN /\ source = "bulk_import"
     /\ request[c].op = "run"
     /\ request[c].run.status = "review_ready"
     /\ p \in locations
     /\ \A j \in J : Copy(c, j).status # "rejected"
     /\ \A j \in new : ~NamedAt(j, p) /\ Made(j) < MaxMade
     /\ last \in (IF new = {} THEN {None} ELSE new)
     /\ item' = Stored(c, [j \in new |-> [Copy(c, j) EXCEPT !.stream = Made(j) + 1]])
     /\ streams' = [j \in ProjectItems |->
          IF j \in new THEN [streams[j] EXCEPT ![Made(j) + 1] = p] ELSE streams[j]]
     /\ run' = [run EXCEPT !.status =
          IF left = {} THEN Written(request[c].run.status, "completed", @) ELSE @]
     /\ Done(c)
     /\ UNCHANGED <<source, voice, candidate, locations, answer>>

-----------------------------------------------------------------------------
(* POST discovery-decision on one project draft *)

\* Broken variant: a draft that has its stream is decided again.
DecidingAgain(c, j) ==
  /\ request[c].op = "item" /\ request[c].of = j
  /\ request[c].run.status = "review_ready"
  /\ Copy(c, j).status \in {"pending", "accepted"}

Deciding(c, j) ==
  /\ request[c].op = "item" /\ request[c].of = j
  /\ request[c].run.status = "review_ready"
  /\ Copy(c, j).stream = None
  /\ Copy(c, j).status \in {"pending", "accepted"}

\* The run is done when no project is left that was neither made nor rejected.
Settle(c, places, made, rejected) ==
  LET open == \E k \in ProjectItems :
                item'[k].stream = None /\ item'[k].status \in {"pending", "accepted"}
  IN /\ run' = StoredRun(c, RunStatus(open), Accumulated(c, places, made, rejected))
     /\ voice' = IF source = "voice_interview" THEN VoiceStatus(open) ELSE voice

RejectDraft(c, j) ==
  /\ Deciding(c, j)
  /\ request[c].run.summary.rejected < MaxRejected
  /\ item' = Stored(c, [k \in {j} |-> [Copy(c, j) EXCEPT !.status = "rejected"]])
  /\ Settle(c, 0, 0, 1)
  /\ Done(c)
  /\ UNCHANGED <<source, candidate, locations, streams, answer>>

\* Where the location item of a linked draft has or gets its location.
ParentPlace(i, r) ==
  IF r.choice.mode # "existing" /\ i \in candidate /\ ~r.confirm
  THEN Extracted[i] ELSE Named(i, r)

\* Row r of the draft or of its location item may open its location anew.
Locatable(i, r, at) ==
  r.choice.mode = "create_new" /\ i \in LocationItems =>
    at \notin locations \/ (i \in candidate /\ ~r.confirm)

ConfirmDraft(c, j, choice, sent) ==
  LET r == Resolved(j, Copy(c, j), choice)
      draft == [r EXCEPT !.status = "accepted", !.confirm = Confirmed(r, sent),
                         !.stream = Made(j) + 1]
      linked == Parent[j] # None
      kept == linked /\ item[Parent[j]].place # None
      above == Resolved(Parent[j], item[Parent[j]], choice)
      at == IF kept THEN item[Parent[j]].place
            ELSE IF linked THEN ParentPlace(Parent[j], above) ELSE draft.choice.at
      rows == [k \in {j} \union ({Parent[j]} \ {None}) |->
                IF k = j THEN draft ELSE IF kept THEN above ELSE [above EXCEPT !.place = at]]
  IN /\ Deciding(c, j)
     /\ Resolvable(IF linked THEN Parent[j] ELSE j, choice)
     /\ j \in candidate => draft.confirm
     /\ linked \/ draft.choice # NoChoice
     /\ linked /\ ~kept => Locatable(Parent[j], above, at)
     /\ Made(j) < MaxMade
     /\ item' = Stored(c, rows)
     /\ locations' = locations \union {at}
     /\ streams' = [streams EXCEPT ![j][Made(j) + 1] = at]
     /\ Settle(c, Cardinality({at} \ locations), 1, 0)
     /\ Done(c)
     /\ UNCHANGED <<source, candidate, answer>>

-----------------------------------------------------------------------------
(* Others add a location, or a stream of the same name, by hand.  The model  *)
(* has no deletion.                                                          *)

AddLocation(p) ==
  /\ p \notin locations
  /\ locations' = locations \union {p}
  /\ UNCHANGED <<source, run, voice, item, candidate, streams, answer, request>>

AddStream(j, p) ==
  /\ p \in locations
  /\ streams[j][0] = None
  /\ streams' = [streams EXCEPT ![j][0] = p]
  /\ UNCHANGED <<source, run, voice, item, candidate, locations, answer, request>>

Edit(c) ==
  \E i \in Items :
    \/ \E choice \in Choices, sent \in Sent : Accept(c, i, choice, sent)
    \/ \E sent \in Sent : Reject(c, i, sent)
    \/ Reset(c, i)

Finalize(c) ==
  \/ FinalizeWhole(c)
  \/ \E G \in SUBSET Groups \ {{}} :
       FinalizeSubset(c, G) \/ \E k \in Keys : FinalizeVoice(c, G, k)

Orphaned(c) ==
  \E J \in SUBSET Orphans \ {{}}, p \in Places, last \in Orphans \union {None} :
    ImportOrphans(c, J, p, last)

Decide(c) ==
  \E j \in ProjectItems :
    \/ RejectDraft(c, j)
    \/ \E choice \in Choices, sent \in Sent : ConfirmDraft(c, j, choice, sent)

Next ==
  \/ \E c \in Clients :
       \/ LoadRun(c)
       \/ \E i \in Items : LoadItem(c, i)
       \/ Leave(c)
       \/ Edit(c) \/ Finalize(c) \/ Orphaned(c) \/ Decide(c)
  \/ \E p \in Places : AddLocation(p)
  \/ \E j \in ProjectItems, p \in Places : AddStream(j, p)

Spec == Init /\ [][Next]_vars

\* Requests are served one after the other, except that finalizes of a voice run
\* overlap, which the idempotency keys are for.
KeyedOrAlone ==
  \A c, d \in Clients :
    c # d /\ request[c] # Idle /\ request[d] # Idle =>
      source = "voice_interview" /\ request[c].op = "run"

KeyedNext == Next /\ KeyedOrAlone'
KeyedSpec == Init /\ [][KeyedNext]_vars

-----------------------------------------------------------------------------
(* Properties *)

Total == Cardinality({m \in ProjectItems \X (1..MaxMade) : streams[m[1]][m[2]] # None})
Settled(j) == item[j].stream # None \/ item[j].status \in {"rejected", "invalid"}

\* No request makes a second stream from an item of a bulk run that has one
\* (created_project_id), however finalizes, orphan imports and decisions on
\* drafts follow each other; only finalizing the whole run does not look.
OncePerDraft ==
  [][source = "bulk_import" =>
       \A j \in ProjectItems : \A n \in 1..MaxMade :
         streams[j][n] = None /\ streams'[j][n] # None =>
           item[j].stream = None \/ \E c \in Clients : FinalizeWhole(c)]_vars

\* A run is completed only when each of its project items was made into a
\* stream, rejected, or invalid: the five ways to completed count what is open
\* in five ways.  An orphan import looks at the orphans alone.
CompletesWhenDecided ==
  [][run.status # "completed" /\ run'.status = "completed" =>
       \/ \A j \in ProjectItems : Settled(j)'
       \/ (\E c \in Clients : Orphaned(c)) /\ \A j \in Orphans : Settled(j)']_vars

\* The rejected items a finalize of groups counts, and the draft rejected just now.
RejectionsCounted ==
  {i \in Items : item'[i].status = "rejected" /\
     (item[i].status # "rejected" \/ Group(i) \in run'.summary.counted \ run.summary.counted)}

\* The summary of a bulk run changes with every finalize and decision, one sent
\* again or one that makes no stream included, and with nothing else: by exactly
\* the streams and locations the request made and by the rejections of the
\* groups not counted before.  Finalizing the whole run counts anew.
SummaryKeepsPace ==
  [][source = "bulk_import" =>
       LET whole == \E c \in Clients : FinalizeWhole(c)
           before == IF whole THEN NoSummary ELSE run.summary
           rejections == IF whole THEN {i \in Items : item[i].status = "rejected"}
                         ELSE RejectionsCounted
       IN IF \E c \in Clients : Finalize(c) \/ Decide(c)
          THEN /\ run'.summary.given
               /\ run'.summary.streams = before.streams + (Total' - Total)
               /\ run'.summary.places = before.places + Cardinality(locations' \ locations)
               /\ run'.summary.rejected = before.rejected + Cardinality(rejections)
          ELSE run'.summary = run.summary]_vars

\* Of the finalizes of a voice run that overlap or are sent again, each makes
\* its streams under a key without an answer and records how many they were;
\* an answer once given is never replaced.
KeyedOnce ==
  [][source = "voice_interview" =>
       /\ \A k \in Keys : answer[k].given => answer'[k] = answer[k]
       /\ Total' # Total =>
            \/ \E k \in Keys : ~answer[k].given /\ answer'[k].streams = Total' - Total
            \/ \E c \in Clients : Decide(c)]_vars

\* A voice run is completed exactly when its interview is finalized, although a
\* finalize that waited for another, under another key, decides on items that
\* are old and writes the run as a difference to a copy that is old.
VoiceInStep ==
  source = "voice_interview" => (voice = "finalized" <=> run.status = "completed")
=============================================================================
