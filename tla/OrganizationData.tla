-------------------------- MODULE OrganizationData --------------------------
(***************************************************************************)
(* Whose data a super admin sees: the organization store and the guard     *)
(* that keeps the pages closed until an organization is selected, the      *)
(* cache of answers kept per organization (client-data-cache.ts), the      *)
(* streams and company stores, which outlive the pages, and the two pages  *)
(* with lists of their own (offers, clients).  Lists are the organizations *)
(* whose rows they hold.                                                   *)
(***************************************************************************)
EXTENDS ApiClient

CONSTANTS
  Orgs, NoOrg,
  Gone,       \* organizations the server refuses (inactive)
  MaxMoves    \* bound: what the user does

ASSUME DataAssumption == NoOrg \notin Orgs /\ Gone \subseteq Orgs

VARIABLES
  org,     \* selectedOrgId, in the store and in the storage alike
  route,   \* the route
  guard,   \* the guard's orgsStatus, and the organizations last listed
  data,    \* the cache, the two stores, and the list of the page that is open
  filled,  \* filled[o]: the lists the server has rows of o for
  moves

dataVars == <<org, route, guard, data, filled, moves>>

OrgScopes == Orgs \union {NoOrg}
ListPages == {"offers", "clients"}
Filters == {"active", "all"}
Lists == {"streams"} \union ListPages \union Filters
Pages == {"admin", "other", "streams"} \union ListPages
CompanyLists == {"clients"} \union Filters   \* the keys "companies:list:*"
NoCall == "none"

\* data: no entry, or the last answer; inFlight: the place of the request on its way.
NoEntry == [data |-> {}, fresh |-> FALSE, inFlight |-> NoCall]
NoStreams == [rows |-> {}, loading |-> FALSE, isInitialized |-> FALSE]
NoCompanies == [rows |-> {}, loading |-> FALSE, filter |-> "active", requestId |-> 0]
NoList == [rows |-> {}, loading |-> TRUE, creating |-> FALSE]

\* An admin page is loaded; the storage remembers an organization and its companies.
DataInit ==
  /\ ApiInit
  /\ org \in OrgScopes /\ route = "admin" /\ guard = [status |-> "idle", listed |-> {}]
  /\ \E rows \in SUBSET ({org} \intersect Orgs) :
       data = [cache |-> [o \in OrgScopes |-> [l \in Lists |-> NoEntry]], streams |-> NoStreams,
               company |-> [NoCompanies EXCEPT !.rows = rows], shown |-> NoList]
  /\ filled \in [Orgs -> SUBSET Lists]
  /\ moves \in 0..MaxMoves

Moving == moves < MaxMoves /\ moves' = moves + 1

-----------------------------------------------------------------------------
(* The cache.  A step is made on s, the requests and the data together.     *)

Now == [call |-> call, data |-> data]
After(k) == [call |-> Without(k), data |-> data]
Then(s) == call' = s.call /\ data' = s.data

Entry(s, o, l) == s.data.cache[o][l]
Hit(s, o, l) == Entry(s, o, l).fresh /\ Entry(s, o, l).data # {}
Rows(s, o, l) == UNION Entry(s, o, l).data

\* fetchWithClientDataCache when it has no fresh answer, or must not use it.
Asking(s, o, l, ws) ==
  LET k == Entry(s, o, l).inFlight
      new == CHOOSE f \in Free(s.call) : TRUE
  IN IF k # NoCall THEN [s EXCEPT !.call[k].of.waits = @ \union ws]
     ELSE [call |-> [s.call EXCEPT ![new] =
                       Request([to |-> "list", list |-> l, scope |-> o, org |-> o, waits |-> ws])],
           data |-> [s.data EXCEPT !.cache[o][l].inFlight = new]]

\* The answer is kept whatever has become of the entry since the request was made.
Kept(d, r, rows) ==
  [d EXCEPT !.cache[r.scope][r.list] = [data |-> {rows}, fresh |-> TRUE, inFlight |-> NoCall]]

\* Broken variant: a failed request stays in the entry.
ReleasedNot(d, r) == d

Released(d, r) == [d EXCEPT !.cache[r.scope][r.list].inFlight = NoCall]

Invalidated(d, o, lists) ==
  [d EXCEPT !.cache[o] = [l \in Lists |-> IF l \in lists THEN NoEntry ELSE @[l]]]

-----------------------------------------------------------------------------
(* The stores and the pages ask for their lists                             *)

StreamsAre(d, rows) == [d EXCEPT !.streams = [rows |-> rows, loading |-> FALSE, isInitialized |-> TRUE]]

loadStreams(s, o, forceRefresh) ==
  LET cached == ~forceRefresh /\ Entry(s, o, "streams").data # {}
      peeked == IF cached THEN [s EXCEPT !.data = StreamsAre(@, Rows(s, o, "streams"))] ELSE s
  IN IF cached /\ Hit(s, o, "streams") THEN peeked
     ELSE Asking([peeked EXCEPT !.data.streams.loading = TRUE], o, "streams", {[for |-> "streams"]})

CompaniesAre(d, rows) == [d EXCEPT !.company.rows = rows, !.company.loading = FALSE]

loadCompanies(s, o, f) ==
  LET id == s.data.company.requestId + 1
      asked == [s EXCEPT !.data.company =
                  [rows |-> IF @.filter = f THEN @.rows ELSE {}, loading |-> TRUE, filter |-> f, requestId |-> id]]
  IN IF Hit(s, o, f) THEN [asked EXCEPT !.data = CompaniesAre(@, Rows(s, o, f))]
     ELSE Asking(asked, o, f, {[for |-> "companies", id |-> id]})

PageShows(d, rows) == [d EXCEPT !.shown.rows = rows, !.shown.loading = FALSE]

\* The effect of the offers page, fetchCompanies of the clients page.
loadPage(s, o, p, force) ==
  LET cached == Rows(s, o, p) # {}
      peeked == IF cached THEN [s EXCEPT !.data = PageShows(@, Rows(s, o, p))] ELSE [s EXCEPT !.data.shown.loading = TRUE]
  IN IF Hit(s, o, p) THEN (IF cached /\ ~force THEN peeked ELSE [s EXCEPT !.data = PageShows(@, Rows(s, o, p))])
     ELSE Asking(peeked, o, p, {[for |-> "page"]})

-----------------------------------------------------------------------------
(* Routes, the guard and the organization                                   *)

\* Broken variant: the pages are rendered as soon as the check has ended.
RenderedUnscoped(o, g, p) == IF p = "admin" \/ g = "loaded" THEN p ELSE "blocked"

\* What is rendered: the page, or nothing that loads data.
Rendered(o, g, p) == IF p = "admin" \/ (g = "loaded" /\ o # NoOrg) THEN p ELSE "blocked"

ShownPage == Rendered(org, guard.status, route)

\* Nobody waits any more on behalf of the page that was open.
PageUnmounted(s) ==
  [call |-> [k \in Calls |-> CASE s.call[k] # Idle /\ s.call[k].of.to = "list" ->
                                    [s.call[k] EXCEPT !.of.waits = {w \in @ : w.for \notin {"page", "created"}}]
                               [] s.call[k] # Idle /\ s.call[k].of.to = "offer" -> [s.call[k] EXCEPT !.of.awaited = FALSE]
                               [] OTHER -> s.call[k]],
   data |-> [s.data EXCEPT !.shown = NoList]]

Mounted(s, o, p) ==
  CASE p = "streams" /\ ~s.data.streams.isInitialized -> loadStreams(s, o, FALSE)
    [] p \in ListPages -> loadPage(s, o, p, FALSE)
    [] OTHER -> s

\* Organization o, guard g and route p, with the effects of what is rendered.
Goes(s, o, g, p) ==
  LET now == Rendered(o, g.status, p)
  IN /\ org' = o /\ guard' = g /\ route' = p
     /\ Then(IF now = ShownPage THEN s ELSE Mounted(PageUnmounted(s), o, now))

Guard(status) == [guard EXCEPT !.status = status]

\* Broken variant: the loading mark is left to the answer, which is then ignored.
ResetLoading(s) == [s EXCEPT !.data.company = [NoCompanies EXCEPT !.loading = s.data.company.loading]]

\* resetScopedStores: the streams store is not among them.
Reset(s) == [s EXCEPT !.data.company = NoCompanies]

\* The guard's effect on a protected route; it asks for the organizations.
Entering(s) == [s EXCEPT !.call = Sent(@, [to |-> "orgs"])]

Go(p) ==
  /\ Moving /\ p # route /\ (p = "admin" \/ Room(1))
  /\ CASE route = "admin" -> Goes(Entering(Now), org, Guard("loading"), p)
       [] route # "admin" /\ p = "admin" -> Goes(Now, org, Guard("idle"), p)
       [] route # "admin" /\ p # "admin" -> Goes(Now, org, guard, p)
  /\ UNCHANGED <<faults, filled>>

handleOpenWorkspace(o) ==
  /\ Moving /\ route = "admin" /\ Room(1)
  /\ Goes(Entering(Reset(Now)), o, Guard("loading"), "other")
  /\ UNCHANGED <<faults, filled>>

\* The screen that asks for an organization.
handleSelectOrg(o) ==
  /\ Moving /\ route # "admin" /\ guard.status = "loaded" /\ org = NoOrg /\ o \in guard.listed /\ Room(1)
  /\ Goes(Reset(Now), o, guard, route)
  /\ UNCHANGED <<faults, filled>>

GuardTimeout ==
  /\ guard.status = "loading" /\ Room(1)
  /\ Goes(Now, org, Guard("loaded"), route)
  /\ UNCHANGED <<faults, filled, moves>>

\* Off the protected routes the guard starts over.
Checked(listed) == [status |-> IF route = "admin" THEN "idle" ELSE "loaded", listed |-> listed]

\* loadAndValidate: the organization selected by then is checked.
OrgsAnswered(k) ==
  /\ Served(k, "orgs")
  /\ LET listed == call[k].answer
     IN IF org # NoOrg /\ listed # {} /\ org \notin listed
        THEN Goes(Reset(After(k)), NoOrg, Checked(listed), route)
        ELSE Goes(After(k), org, Checked(listed), route)
  /\ UNCHANGED <<faults, filled, moves>>

OrgsFailed(k) ==
  /\ Fails(k, "orgs") /\ Goes(After(k), org, Checked({}), route)
  /\ UNCHANGED <<filled, moves>>

-----------------------------------------------------------------------------
(* What the user does on the pages                                          *)

InOrganization == ShownPage \notin {"admin", "blocked"}

Here == UNCHANGED <<org, route, guard>>

\* After a change on the page of streams, of one stream or of one client.
RefreshStreams ==
  /\ Moving /\ ShownPage \in {"streams", "other"} /\ Room(1)
  /\ Then(loadStreams(Now, org, TRUE)) /\ Here /\ UNCHANGED <<faults, filled>>

\* The discovery wizard closes, and empties the streams store on the way.
handleGoToStreams ==
  /\ Moving /\ InOrganization /\ Room(1)
  /\ LET s == [Now EXCEPT !.data.streams = NoStreams]
     IN IF route = "streams" /\ data.streams.isInitialized
        THEN Then(loadStreams(s, org, FALSE)) /\ Here
        ELSE Goes(s, org, guard, "streams")
  /\ UNCHANGED <<faults, filled>>

RefreshClients ==
  /\ Moving /\ ShownPage = "clients" /\ Room(1)
  /\ Then(loadPage(Now, org, "clients", TRUE)) /\ Here /\ UNCHANGED <<faults, filled>>

\* A choice of company asks for all; the review of drafts for what was asked last.
ChooseCompany ==
  /\ Moving /\ InOrganization /\ Room(1)
  /\ \E f \in {"all", data.company.filter} : Then(loadCompanies(Now, org, f))
  /\ Here /\ UNCHANGED <<faults, filled>>

createCompany ==
  /\ Moving /\ InOrganization /\ Room(1)
  /\ call' = Sent(call, [to |-> "company", org |-> org])
  /\ data' = [data EXCEPT !.company.loading = TRUE]
  /\ Here /\ UNCHANGED <<faults, filled>>

handleCreateManualOffer ==
  /\ Moving /\ ShownPage = "offers" /\ ~data.shown.creating /\ Room(1)
  /\ call' = Sent(call, [to |-> "offer", org |-> org, awaited |-> TRUE])
  /\ data' = [data EXCEPT !.shown.creating = TRUE]
  /\ Here /\ UNCHANGED <<faults, filled>>

-----------------------------------------------------------------------------
(* The server.  It refuses a request without an organization it knows.      *)

ServeOrgs(k) ==
  /\ AtServer(k, "orgs") /\ Answer(k, Orgs \ Gone)
  /\ UNCHANGED <<dataVars, faults>>

Knows(r) == r.org \in Orgs \ Gone

\* No answer, or the rows.
ServeList(k) ==
  /\ AtServer(k, "list")
  /\ LET r == call[k].of
     IN Answer(k, IF ~Knows(r) THEN {} ELSE {IF r.list \in filled[r.org] THEN {r.org} ELSE {}})
  /\ UNCHANGED <<dataVars, faults>>

\* An offer comes with its stream; a new company is a lead, which the clients page leaves out.
Creates(to) == IF to = "offer" THEN {"offers", "streams"} ELSE Filters

ServeCreation(k) ==
  /\ \E to \in {"offer", "company"} :
       /\ AtServer(k, to)
       /\ LET r == call[k].of
          IN /\ filled' = IF Knows(r) THEN [filled EXCEPT ![r.org] = @ \union Creates(to)] ELSE filled
             /\ Answer(k, IF Knows(r) THEN {{r.org}} ELSE {})
  /\ Here /\ UNCHANGED <<data, moves, faults>>

-----------------------------------------------------------------------------
(* Answers.  Every step that ends a request gives its place back.           *)

Waiting(r, for) == \E w \in r.waits : w.for = for
Latest(r) == [for |-> "companies", id |-> data.company.requestId] \in r.waits

ListLoaded(d, r, rows) ==
  [d EXCEPT !.streams = IF Waiting(r, "streams") THEN StreamsAre(d, rows).streams ELSE @,
            !.company = IF Latest(r) THEN CompaniesAre(d, rows).company ELSE @,
            !.shown = [rows |-> IF Waiting(r, "page") \/ Waiting(r, "created") THEN rows ELSE @.rows,
                       loading |-> @.loading /\ ~Waiting(r, "page"),
                       creating |-> @.creating /\ ~Waiting(r, "created")]]

ListFailed(d, r) ==
  [d EXCEPT !.streams = IF Waiting(r, "streams") THEN [@ EXCEPT !.loading = FALSE, !.isInitialized = TRUE] ELSE @,
            !.company.loading = @ /\ ~Latest(r),
            !.shown.loading = @ /\ ~Waiting(r, "page"),
            !.shown.creating = @ /\ ~Waiting(r, "created")]

Elsewhere == Here /\ UNCHANGED <<filled, moves>>

ListAnswered(k) ==
  /\ Served(k, "list")
  /\ LET r == call[k].of
     IN /\ call' = Without(k)
        /\ data' = IF call[k].answer = {} THEN ListFailed(Released(data, r), r)
                   ELSE LET rows == UNION call[k].answer IN ListLoaded(Kept(data, r, rows), r, rows)
  /\ Elsewhere /\ UNCHANGED faults

ListLost(k) ==
  /\ Fails(k, "list") /\ call' = Without(k)
  /\ data' = ListFailed(Released(data, call[k].of), call[k].of)
  /\ Elsewhere

NotCreated(d, r) ==
  IF r.to = "company" THEN [d EXCEPT !.company.loading = FALSE]
  ELSE [d EXCEPT !.shown.creating = @ /\ ~r.awaited]

\* createManualOfferAndRefreshPipeline goes on also when the page is gone.
Created(k) ==
  LET r == call[k].of
  IN IF r.to = "company"
     THEN [call |-> Without(k),
           data |-> [Invalidated(data, org, CompanyLists) EXCEPT
                       !.company.rows = @ \union {r.org}, !.company.loading = FALSE]]
     ELSE Asking([call |-> Without(k), data |-> Invalidated(data, org, {"offers"})],
                 org, "offers", IF r.awaited THEN {[for |-> "created"]} ELSE {})

CreationAnswered(k) ==
  /\ Served(k, "offer") \/ Served(k, "company")
  /\ IF call[k].answer = {} THEN call' = Without(k) /\ data' = NotCreated(data, call[k].of)
     ELSE Then(Created(k))
  /\ Elsewhere /\ UNCHANGED faults

CreationFailed(k) ==
  /\ Fails(k, "offer") \/ Fails(k, "company")
  /\ call' \in Abandoned(k) /\ data' = NotCreated(data, call[k].of)
  /\ Elsewhere

\* The organization is read again for every attempt.
SentAgain(k) ==
  /\ Resent(k, IF call[k].of.to = "orgs" THEN call[k].of ELSE [call[k].of EXCEPT !.org = org])
  /\ UNCHANGED dataVars

Stale ==
  /\ \E o \in OrgScopes, l \in Lists :
       data.cache[o][l].fresh /\ data' = [data EXCEPT !.cache[o][l].fresh = FALSE]
  /\ Here /\ UNCHANGED <<apiVars, filled, moves>>

-----------------------------------------------------------------------------
DataNext ==
  \/ \E p \in Pages : Go(p)
  \/ \E o \in Orgs : handleOpenWorkspace(o) \/ handleSelectOrg(o)
  \/ GuardTimeout \/ RefreshStreams \/ handleGoToStreams \/ RefreshClients
  \/ ChooseCompany \/ createCompany \/ handleCreateManualOffer \/ Stale
  \/ \E k \in Calls :
       \/ ServeOrgs(k) \/ ServeList(k) \/ ServeCreation(k)
       \/ OrgsAnswered(k) \/ ListAnswered(k) \/ CreationAnswered(k)
       \/ OrgsFailed(k) \/ ListLost(k) \/ CreationFailed(k) \/ SentAgain(k)

Serves(k) == ServeOrgs(k) \/ ServeList(k) \/ ServeCreation(k)
Answered(k) == OrgsAnswered(k) \/ ListAnswered(k) \/ CreationAnswered(k)

\* Requests arrive and are answered, and the guard's time runs out.
DataFairness ==
  /\ WF_<<apiVars, dataVars>>(GuardTimeout)
  /\ \A k \in Calls : WF_<<apiVars, dataVars>>(Serves(k)) /\ WF_<<apiVars, dataVars>>(Answered(k))

DataSpec == DataInit /\ [][DataNext]_<<apiVars, dataVars>>
FairData == DataSpec /\ DataFairness

-----------------------------------------------------------------------------
(* Properties *)

DataTypeOK ==
  /\ org \in OrgScopes /\ route \in Pages
  /\ guard \in [status : {"idle", "loading", "loaded"}, listed : SUBSET Orgs]
  /\ data.cache \in [OrgScopes -> [Lists -> [data : SUBSET SUBSET Orgs, fresh : BOOLEAN, inFlight : Calls \union {NoCall}]]]
  /\ \A o \in OrgScopes, l \in Lists : data.cache[o][l].fresh => Cardinality(data.cache[o][l].data) = 1
  /\ data.streams \in [rows : SUBSET Orgs, loading : BOOLEAN, isInitialized : BOOLEAN]
  /\ data.company \in [rows : SUBSET Orgs, loading : BOOLEAN, filter : Filters, requestId : Nat]
  /\ data.shown \in [rows : SUBSET Orgs, loading : BOOLEAN, creating : BOOLEAN]
  /\ filled \in [Orgs -> SUBSET Lists]

\* A request that an entry of the cache would let others join is on its way: nobody joins
\* one that has ended, or one for something else.
JoinedIsOnItsWay ==
  \A o \in OrgScopes, l \in Lists : data.cache[o][l].inFlight # NoCall =>
    LET c == call[data.cache[o][l].inFlight] IN c # Idle /\ c.of.to = "list" /\ c.of.scope = o /\ c.of.list = l

\* No page and no store asks for data without an organization, whatever the guard finds
\* out late; only the refresh after a manual offer may.
NoUnscopedLoad ==
  \A k \in Calls : call[k] # Idle /\ call[k].of.to = "list" /\ call[k].of.scope = NoOrg => call[k].of.waits = {}

\* Every loading mark goes: of the guard, the stores and the page, however their requests
\* end and whatever organization is selected meanwhile.
LoadingEnds ==
  /\ guard.status = "loading" ~> guard.status # "loading"
  /\ data.streams.loading ~> ~data.streams.loading
  /\ data.company.loading ~> ~data.company.loading
  /\ data.shown.creating ~> ~data.shown.creating
  /\ ShownPage \in ListPages /\ data.shown.loading ~> ~(ShownPage \in ListPages /\ data.shown.loading)

\* The streams page shows streams of the selected organization. TLC refutes it: the
\* selection of another does not reset the streams store.
StreamsOfSelection == ShownPage = "streams" => data.streams.rows \subseteq {org}
=============================================================================
