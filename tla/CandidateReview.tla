-------------------------- MODULE CandidateReview --------------------------
(***************************************************************************)
(* The review of the drafts a discovery session found: the client and the  *)
(* location of every draft, prefilled from what the analysis suggested and *)
(* from the lists the dialog loads while it is open                        *)
(* (draft-confirmation-modal.tsx, discovery-confirmation-utils.ts), changed *)
(* by the reviewer, and resolved by the server when a draft is confirmed   *)
(* (decide_discovery_project_draft).  Decisions that are rejections, late  *)
(* or repeated are those of DiscoveryWizard.                               *)
(***************************************************************************)
EXTENDS Naturals, FiniteSets

CONSTANTS
  DraftCount,     \* the drafts are 1..DraftCount, in the dialog's order
  Names, Places,  \* of clients, of locations (name, city and state)
  SplitNames,     \* the names with " - ", never accepted without the reviewer
  Parents,        \* the location items a draft of the same document may share
  Companies, Locations,  \* identifiers
  None, New,
  MaxEdits        \* bound: what the reviewer changes

ASSUME ReviewAssumption ==
  /\ DraftCount \in Nat \ {0} /\ SplitNames \subseteq Names /\ MaxEdits \in Nat
  /\ IsFiniteSet(Companies) /\ IsFiniteSet(Locations)
  /\ None \notin Names \union Places \union Parents \union Companies \union Locations
  /\ New \notin Companies \union Locations \union {None}

VARIABLES
  suggested,   \* suggested[d]: the name, the place and the parent of the analysis
  candidates,  \* candidates[d]: what the dialog holds for draft d
  store,       \* the companies and locations the browser has, and what it asked for
  decision,    \* the confirmation on its way
  server,      \* companies, locations, the place of a parent item, streams
  edits

vars == <<suggested, candidates, store, decision, server, edits>>

Drafts == 1..DraftCount
Suggestion == [name : Names \union {None}, place : Places \union {None}, parent : Parents \union {None}]
Unresolved == [client |-> None, newClient |-> FALSE, location |-> None, newLocation |-> FALSE, status |-> "pending"]
NoDecision == [draft |-> 0, client |-> None, location |-> None, answer |-> "none"]

Known == {c \in Companies : server.companies[c] # None}
At(c) == {l \in Locations : server.locations[l].company = c}

Init ==
  /\ suggested \in [Drafts -> Suggestion]
  /\ candidates = [d \in Drafts |-> Unresolved]
  /\ server \in [companies : [Companies -> Names \union {None}],
                 locations : [Locations -> [company : Companies \union {None}, place : Places \union {None}]],
                 parents : [Parents -> {None}], streams : [Drafts -> {None}]]
  /\ \A l \in Locations : LET at == server.locations[l] IN
       (at.company = None <=> at.place = None) /\ at.company \in Known \union {None}
  /\ store = [companies |-> {}, scope |-> "active", loading |-> TRUE,
              locations |-> {}, requested |-> {}, asking |-> {}, loaded |-> {}]
  /\ decision = NoDecision
  /\ edits = 0

-----------------------------------------------------------------------------
(* resolveCandidatesAfterFieldChange: one field of one draft is set.        *)

SetLocation(cs, d, l) ==
  [cs EXCEPT ![d].location = IF l = New THEN None ELSE l, ![d].newLocation = (l = New)]

WithClient(candidate, c) ==
  IF c # New /\ candidate.client = c THEN [candidate EXCEPT !.newClient = FALSE]
  ELSE [candidate EXCEPT !.client = IF c = New THEN None ELSE c, !.newClient = (c = New),
                         !.location = None, !.newLocation = FALSE]

\* An existing client is given to every draft of the same suggestion that has none.
SharesClient(cs, d, e) ==
  /\ suggested[e].name = suggested[d].name /\ suggested[d].name # None
  /\ cs[e].client = None

SetClient(cs, d, c) ==
  [e \in Drafts |-> IF e = d \/ (c # New /\ SharesClient(cs, d, e)) THEN WithClient(cs[e], c) ELSE cs[e]]

-----------------------------------------------------------------------------
(* The prefill effect: what the suggestions and the lists call for, decided *)
(* for all drafts on what is shown, then set one after the other.           *)

Matches(d) == {c \in store.companies : server.companies[c] = suggested[d].name}

HasClient(d) == candidates[d].client # None \/ candidates[d].newClient
HasLocation(d) == candidates[d].location # None \/ candidates[d].newLocation

\* Broken variant: a client that appears replaces an accepted suggestion.
ClientPrefillAgain(d) ==
  IF candidates[d].client # None THEN None
  ELSE IF Cardinality(Matches(d)) = 1 THEN CHOOSE c \in Companies : c \in Matches(d)
  ELSE IF ~candidates[d].newClient /\ Matches(d) = {} /\ suggested[d].name \in Names \ SplitNames THEN New
  ELSE None

ClientPrefill(d) ==
  IF HasClient(d) THEN None
  ELSE IF Cardinality(Matches(d)) = 1 THEN CHOOSE c \in Companies : c \in Matches(d)
  ELSE IF Matches(d) = {} /\ suggested[d].name \in Names \ SplitNames THEN New
  ELSE None

\* The existing client the draft has, or is about to be given.
ExistingClient(d) ==
  IF candidates[d].client # None THEN candidates[d].client
  ELSE IF ClientPrefill(d) = New THEN None ELSE ClientPrefill(d)

\* Broken variant: a location of the same place matches whoever it belongs to.
LocationMatchesAny(d, c) == {l \in store.locations : server.locations[l].place = suggested[d].place}

LocationMatches(d, c) == {l \in store.locations \intersect At(c) : server.locations[l].place = suggested[d].place}

LocationPrefill(d) ==
  LET existing == ExistingClient(d)
      matches == IF existing = None THEN {} ELSE LocationMatches(d, existing)
  IN IF \/ candidates[d].location # None
        \/ candidates[d].newLocation /\ existing = None
        \/ existing = None /\ ~candidates[d].newClient
        \/ suggested[d].place = None
        \/ existing # None /\ existing \notin store.loaded THEN None
     ELSE IF Cardinality(matches) = 1 THEN CHOOSE l \in Locations : l \in matches
     ELSE IF candidates[d].newLocation THEN None ELSE New

\* No draft is called to change.
AtRest == \A d \in Drafts : ClientPrefill(d) = None /\ LocationPrefill(d) = None

\* What is called for of draft d, set on the candidates cs.
WithClientPrefill(cs, d) ==
  IF ClientPrefill(d) = None THEN cs ELSE SetClient(cs, d, ClientPrefill(d))

WithPrefills(cs, d) ==
  IF LocationPrefill(d) = None THEN WithClientPrefill(cs, d)
  ELSE SetLocation(WithClientPrefill(cs, d), d, LocationPrefill(d))

\* The candidates after the changes of the first n drafts.
Prefilled[n \in 0..DraftCount] ==
  IF n = 0 THEN candidates ELSE WithPrefills(Prefilled[n - 1], n)

Prefill ==
  /\ ~AtRest
  /\ candidates' = Prefilled[DraftCount]
  /\ UNCHANGED <<suggested, store, decision, server, edits>>

-----------------------------------------------------------------------------
(* The lists: the companies once when the dialog is made and again when a   *)
(* row is opened, the locations once for every client a draft has.          *)

loadCompanies(scope) ==
  [store EXCEPT !.companies = IF store.scope = scope THEN store.companies ELSE {},
                !.scope = scope, !.loading = TRUE]

CompaniesAnswered ==
  /\ store.loading
  /\ \/ store' = [store EXCEPT !.companies = Known, !.loading = FALSE]
     \/ store' = [store EXCEPT !.loading = FALSE]
  /\ UNCHANGED <<suggested, candidates, decision, server, edits>>

RequestLocations ==
  LET clients == {candidates[d].client : d \in Drafts} \ {None}
  IN /\ ~(clients \subseteq store.requested)
     /\ store' = [store EXCEPT !.requested = store.requested \union clients,
                               !.asking = store.asking \union (clients \ store.requested)]
     /\ UNCHANGED <<suggested, candidates, decision, server, edits>>

\* Broken variant: a failed request leaves the waiting for the locations.
LocationsEndedOnly(c, answered) ==
  [store EXCEPT !.asking = store.asking \ {c}, !.loaded = IF answered THEN store.loaded \union {c} ELSE store.loaded]

LocationsEnded(c, answered) ==
  [store EXCEPT !.asking = store.asking \ {c}, !.loaded = store.loaded \union {c}]

\* An opened row asks again, whatever was loaded.
LocationsAnswered(c) ==
  /\ \/ c \in store.asking /\ store' = LocationsEnded(c, FALSE)
     \/ c \in store.asking /\ store' = [LocationsEnded(c, TRUE) EXCEPT !.locations = store.locations \union At(c)]
     \/ /\ c \in store.loaded /\ store.scope = "all"
        /\ store' = [store EXCEPT !.locations = store.locations \union At(c)]
  /\ UNCHANGED <<suggested, candidates, decision, server, edits>>

-----------------------------------------------------------------------------
(* The reviewer edits a pending draft. React runs the effects of a render    *)
(* before it handles the next input.                                        *)

Editing(d) ==
  /\ AtRest /\ candidates[d].status = "pending"
  /\ edits < MaxEdits /\ edits' = edits + 1

\* The client field of an opened row loads the companies, archived ones too.
OpenRow(d) ==
  /\ decision = NoDecision /\ store.scope = "active"
  /\ Editing(d)
  /\ store' = loadCompanies("all")
  /\ UNCHANGED <<suggested, candidates, decision, server>>

\* Another client than the one shown also empties the location.
ChooseClient(d, c) ==
  LET cs == SetClient(candidates, d, c)
  IN candidates' = IF c = candidates[d].client THEN cs ELSE SetLocation(cs, d, None)

SelectClient(d) ==
  /\ decision = NoDecision /\ store.scope = "all"
  /\ Editing(d)
  /\ \/ \E c \in store.companies : ChooseClient(d, c)
     \/ /\ candidates[d].client = None /\ suggested[d].name \in Names \ SplitNames
        /\ ChooseClient(d, New)
  /\ UNCHANGED <<suggested, store, decision, server>>

AddClient(d) ==
  /\ decision = NoDecision /\ store.scope = "all"
  /\ Editing(d)
  /\ \E c \in Companies \ Known, name \in Names :
       /\ server' = [server EXCEPT !.companies[c] = name]
       /\ ChooseClient(d, c)
       /\ store' = [store EXCEPT !.companies = store.companies \union {c}, !.loading = TRUE]
  /\ UNCHANGED <<suggested, decision>>

\* The location field is open for a draft whose client is known or to be created.
SelectLocation(d) ==
  LET c == candidates[d] IN
  /\ store.scope = "all"
  /\ Editing(d)
  /\ \/ c.client # None /\ \E l \in store.locations \intersect At(c.client) : candidates' = SetLocation(candidates, d, l)
     \/ /\ c.client # None \/ (c.newClient /\ Cardinality(Matches(d)) # 1)
        /\ c.location = None /\ suggested[d].place # None
        /\ candidates' = SetLocation(candidates, d, New)
  /\ UNCHANGED <<suggested, store, decision, server>>

-----------------------------------------------------------------------------
(* Confirming: the dialog sends what it shows (validated), the server finds *)
(* or creates the company and the location in one transaction.              *)

Confirmable(d) ==
  /\ candidates[d].status = "pending"
  /\ HasClient(d)
  /\ candidates[d].location # None \/ (candidates[d].newLocation /\ suggested[d].place # None)

handleConfirmCandidate(d) ==
  LET c == candidates[d] IN
  /\ AtRest /\ decision = NoDecision /\ Confirmable(d)
  /\ decision' = [draft |-> d, answer |-> "none",
                  client |-> IF c.client # None THEN c.client ELSE New,
                  location |-> IF c.location # None THEN c.location ELSE New]
  /\ UNCHANGED <<suggested, candidates, store, server, edits>>

\* The companies a decision may stand for: reused by name before one is created.
CompanyFor(request) ==
  LET named == {c \in Known : server.companies[c] = suggested[request.draft].name}
  IN IF request.client # New THEN {request.client} ELSE IF named # {} THEN named ELSE Companies \ Known

\* Broken variant: a location of another client counts as identical.
IdenticalAnywhere(c, place) == {l \in Locations : server.locations[l].place = place}

Identical(c, place) == {l \in At(c) : server.locations[l].place = place}

\* The locations: one selected, one that is identical, or a new one.
LocationFor(request, c) ==
  LET place == suggested[request.draft].place
  IN IF request.location # New THEN {request.location} \intersect At(c)
     ELSE IF Identical(c, place) # {} THEN Identical(c, place)
     ELSE {l \in Locations : server.locations[l].company = None}

\* The draft's stream is created at location l of company c.
Created(request, c, l, parents) ==
  LET d == request.draft IN
  server' = [server EXCEPT
    !.companies[c] = IF @ = None THEN suggested[d].name ELSE @,
    !.locations[l] = IF @.company = None THEN [company |-> c, place |-> suggested[d].place] ELSE @,
    !.parents = parents,
    !.streams[d] = [client |-> c, location |-> l]]

Orphan(d) == suggested[d].parent = None

ConfirmOrphan(c) ==
  \E l \in LocationFor(decision, c) : Created(decision, c, l, server.parents)

\* A sibling's location of the parent item comes first; the resolution clears it.
ConfirmAtParent(c) ==
  LET p == suggested[decision.draft].parent IN
  /\ server.parents[p] # None
  /\ decision.location # New => decision.location \in At(c)
  /\ Created(decision, c, server.parents[p], [server.parents EXCEPT ![p] = None])

\* The parent item refuses to create a location that exists.
ConfirmLinked(c) ==
  LET d == decision.draft
      p == suggested[d].parent IN
  /\ server.parents[p] = None
  /\ decision.location = New => Identical(c, suggested[d].place) = {}
  /\ \E l \in LocationFor(decision, c) : Created(decision, c, l, [server.parents EXCEPT ![p] = l])

ServeDecision ==
  /\ decision.draft # 0 /\ decision.answer = "none"
  /\ \/ /\ server.streams[decision.draft] = None
        /\ \E c \in CompanyFor(decision) :
             IF Orphan(decision.draft) THEN ConfirmOrphan(c) ELSE ConfirmAtParent(c) \/ ConfirmLinked(c)
        /\ decision' = [decision EXCEPT !.answer = "confirmed"]
     \/ decision' = [decision EXCEPT !.answer = "refused"] /\ UNCHANGED server
  /\ UNCHANGED <<suggested, candidates, store, edits>>

DecisionAnswered ==
  /\ decision.answer # "none"
  /\ candidates' = IF decision.answer = "refused" THEN candidates
                   ELSE [candidates EXCEPT ![decision.draft].status = "confirmed"]
  /\ decision' = NoDecision
  /\ UNCHANGED <<suggested, store, server, edits>>

-----------------------------------------------------------------------------
Edit(d) == OpenRow(d) \/ SelectClient(d) \/ AddClient(d) \/ SelectLocation(d)

Load == CompaniesAnswered \/ RequestLocations \/ \E c \in Companies : LocationsAnswered(c)

Next ==
  \/ Prefill \/ Load \/ ServeDecision \/ DecisionAnswered
  \/ \E d \in Drafts : Edit(d) \/ handleConfirmCandidate(d)

Spec == Init /\ [][Next]_vars

\* Effects run when what they depend on has changed, and requests are answered or fail.
Fairness == WF_vars(Prefill) /\ WF_vars(Load) /\ WF_vars(ServeDecision) /\ WF_vars(DecisionAnswered)

FairReview == Spec /\ Fairness

-----------------------------------------------------------------------------
Stream == [client : Companies, location : Locations]

ReviewTypeOK ==
  /\ suggested \in [Drafts -> Suggestion]
  /\ candidates \in [Drafts -> [client : Companies \union {None}, newClient : BOOLEAN,
                                location : Locations \union {None}, newLocation : BOOLEAN,
                                status : {"pending", "confirmed"}]]
  /\ \A d \in Drafts : /\ candidates[d].client # None => ~candidates[d].newClient
                       /\ candidates[d].location # None => ~candidates[d].newLocation
  /\ store \in [companies : SUBSET Known, scope : {"active", "all"}, loading : BOOLEAN,
                locations : SUBSET Locations, requested : SUBSET Known,
                asking : SUBSET store.requested, loaded : SUBSET store.requested]
  /\ decision \in [draft : 0..DraftCount, client : Companies \union {None, New},
                   location : Locations \union {None, New}, answer : {"none", "confirmed", "refused"}]
  /\ server.streams \in [Drafts -> Stream \union {None}]
  /\ edits \in 0..MaxEdits

\* The location shown for a draft is one of the client shown, whoever chose which
\* first: a change of the client, of the draft or through another draft of the same
\* suggestion, takes the location with it (resolveCandidatesAfterFieldChange).
LocationOfClient ==
  \A d \in Drafts : candidates[d].location # None =>
    candidates[d].location \in At(candidates[d].client)

\* The prefill effect decides for all drafts on one snapshot, then sets them in turn,
\* each change reaching the drafts of the same suggestion: it never changes a client or
\* location that a draft has, nor does it "override already accepted AI selections"
\* of the client (draft-confirmation-modal.test.tsx) when a list changes later.
PrefillKeepsChoices ==
  [][Prefill => \A d \in Drafts :
       /\ HasClient(d) => /\ candidates'[d].client = candidates[d].client
                          /\ candidates'[d].newClient = candidates[d].newClient
       /\ candidates[d].location # None => candidates'[d] = candidates[d]]_vars

\* The effects come to rest, and then every draft with a client and a complete
\* suggestion has a location: no list that fails to load leaves it waiting.
ReviewSettles ==
  <>[](/\ AtRest
       /\ \A d \in Drafts : HasClient(d) /\ suggested[d].place # None => HasLocation(d))

Chosen(d) == server.streams[d] # None => server.streams[d].location \in At(server.streams[d].client)

\* A draft without a parent item becomes a stream at a location of the client it was
\* confirmed for, found or created, whatever was confirmed before it.
OrphanAsChosen == \A d \in Drafts : Orphan(d) => Chosen(d)

\* The same of every draft: "assert created_project.location_id == existing_location.id"
\* (test_bulk_import.py:2488) is said of a draft with a parent item.
ConfirmedAsChosen == \A d \in Drafts : Chosen(d)
=============================================================================
