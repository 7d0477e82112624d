-------------------------- MODULE DiscoveryWizard --------------------------
(***************************************************************************)
(* The discovery wizard in the browser (use-discovery-orchestration.ts and *)
(* discovery-wizard.tsx): it creates a session, uploads its sources,       *)
(* starts it, polls it until it is terminal, reviews the drafts it found,  *)
(* and offers to resume a session it remembers.  The server's side is one  *)
(* status per session and one per draft.                                   *)
(***************************************************************************)
EXTENDS ApiClient

CONSTANTS
  Sessions, Items,
  SessionOf,   \* SessionOf[i]: the session item i is a draft of
  NoSession, NoItem,
  MaxClicks    \* bound: what the user does, opening the wizard apart

ASSUME WizardAssumption == SessionOf \in [Items -> Sessions] /\ NoSession \notin Sessions /\ NoItem \notin Items

VARIABLES
  wizard,   \* the state, refs and storage of the wizard
  session,  \* session[s]: the server's status of a session
  draft,    \* draft[i]: what the server has for item i
  clicks

wizardVars == <<wizard, session, draft, clicks>>

TERMINAL_STATUSES == {"review_ready", "partial_failure", "failed"}
Modes == {"processing", "review", "terminal"}
NoNotice == [of |-> NoSession, mode |-> "terminal"]
NoCandidates == [i \in Items |-> "absent"]
Bulk == "bulk"

\* The page is loaded; the storage may remember a session of an earlier visit.
WizardInit ==
  /\ ApiInit
  /\ session \in [Sessions -> {"none", "draft", "processing"} \union TERMINAL_STATUSES]
  /\ draft \in [Items -> {"none", "draft", "created", "rejected"}]
  /\ \A i \in Items : draft[i] # "none" => session[SessionOf[i]] \in {"review_ready", "partial_failure"}
  /\ \E s \in {NoSession} \union {s \in Sessions : session[s] # "none"} :
       wizard = [open |-> FALSE, phase |-> "idle", interval |-> NoSession, confirming |-> FALSE,
                 expired |-> FALSE, resetDue |-> FALSE, resume |-> s, notice |-> NoNotice,
                 checking |-> FALSE, candidates |-> NoCandidates, modal |-> FALSE,
                 warning |-> FALSE, mutating |-> NoItem, cached |-> [t \in Sessions |-> {}]]
  /\ clicks \in 0..MaxClicks

Clicking == clicks < MaxClicks /\ clicks' = clicks + 1

isBlocking == wizard.phase \in {"submitting", "processing"}
PendingItems == {i \in Items : wizard.candidates[i] = "pending"}

-----------------------------------------------------------------------------
(* Every change of the wizard. The effect on [open, phase] drops the answer *)
(* of a check for a session to resume and, when the wizard is open and      *)
(* idle, makes a new one.                                                   *)

Dropped(c) ==
  [k \in Calls |-> IF c[k] # Idle /\ c[k].of.to = "check" THEN [c[k] EXCEPT !.of.dropped = TRUE] ELSE c[k]]

WizardAfter(w, c) ==
  IF <<w.open, w.phase>> = <<wizard.open, wizard.phase>> THEN wizard' = w /\ call' = c
  ELSE IF ~(w.open /\ w.phase = "idle") THEN wizard' = w /\ call' = Dropped(c)
  ELSE IF w.resume = NoSession THEN wizard' = [w EXCEPT !.notice = NoNotice] /\ call' = Dropped(c)
  ELSE /\ wizard' = [w EXCEPT !.checking = TRUE]
       /\ call' = Sent(Dropped(c), [to |-> "check", session |-> w.resume, dropped |-> FALSE])

resetState(w) ==
  [w EXCEPT !.phase = "idle", !.confirming = FALSE, !.candidates = NoCandidates,
            !.modal = FALSE, !.warning = FALSE, !.mutating = NoItem]

\* Broken variant: the mark of a confirmation in progress survives a new start.
PollingStill(w, s) ==
  [w EXCEPT !.phase = "processing", !.notice = NoNotice, !.interval = s, !.expired = FALSE]

startPolling(w, s) ==
  [w EXCEPT !.phase = "processing", !.notice = NoNotice, !.interval = s, !.expired = FALSE,
            !.confirming = FALSE]

InError(w) == [w EXCEPT !.phase = "error"]
NotPolling(w) == [w EXCEPT !.interval = NoSession]

Unchanged == UNCHANGED <<session, draft, clicks>>

-----------------------------------------------------------------------------
(* Opening, closing, and starting over                                      *)

OpenWizard ==
  /\ Room(2) /\ ~wizard.open
  /\ WizardAfter([wizard EXCEPT !.open = TRUE, !.resetDue = FALSE], call)
  /\ UNCHANGED faults /\ Unchanged

\* The cancel button of the first view works also while its sources are submitted.
CloseWizard ==
  /\ Clicking /\ wizard.open /\ ~wizard.modal /\ wizard.phase # "processing"
  /\ WizardAfter([wizard EXCEPT !.open = FALSE, !.resetDue = TRUE], call)
  /\ UNCHANGED <<faults, session, draft>>

\* 200 ms after closing, unless it is open again.
ResetAfterClose ==
  /\ wizard.resetDue
  /\ WizardAfter([resetState(wizard) EXCEPT !.resetDue = FALSE], call)
  /\ UNCHANGED faults /\ Unchanged

handleTryAgain ==
  /\ Clicking /\ Room(2) /\ wizard.open /\ wizard.phase \in {"error", "no-results"}
  /\ WizardAfter(resetState(wizard), call)
  /\ UNCHANGED <<faults, session, draft>>

handleCreateManually ==
  /\ Clicking /\ wizard.open /\ wizard.phase \in {"error", "no-results"}
  /\ WizardAfter([wizard EXCEPT !.resume = NoSession, !.notice = NoNotice, !.modal = FALSE,
                                !.warning = FALSE, !.phase = "idle"], call)
  /\ UNCHANGED <<faults, session, draft>>

-----------------------------------------------------------------------------
(* Starting a session: three requests in turn                               *)

startDiscovery ==
  /\ Clicking /\ Room(2) /\ wizard.open /\ wizard.phase = "idle"
  /\ \E s \in Sessions : session[s] = "none"
  /\ WizardAfter([wizard EXCEPT !.phase = "submitting"], Sent(call, [to |-> "create"]))
  /\ UNCHANGED <<faults, session, draft>>

ServeCreate(k) ==
  /\ AtServer(k, "create")
  /\ \E s \in Sessions :
       /\ session[s] = "none" /\ session' = [session EXCEPT ![s] = "draft"]
       /\ Answer(k, s)
  /\ UNCHANGED <<wizard, draft, clicks, faults>>

\* The storage remembers the session before it has any source.
CreateAnswered(k) ==
  /\ Served(k, "create")
  /\ LET s == call[k].answer
     IN WizardAfter([wizard EXCEPT !.resume = s], Sent(Without(k), [to |-> "sources", session |-> s]))
  /\ UNCHANGED faults /\ Unchanged

ServeSources(k) ==
  /\ AtServer(k, "sources") /\ Answer(k, "added")
  /\ UNCHANGED <<wizard, session, draft, clicks, faults>>

SourcesAnswered(k) ==
  /\ Served(k, "sources")
  /\ call' = Sent(Without(k), [to |-> "start", session |-> call[k].of.session])
  /\ UNCHANGED <<wizard, faults>> /\ Unchanged

ServeStart(k) ==
  /\ AtServer(k, "start")
  /\ session' = [session EXCEPT ![call[k].of.session] = IF @ = "draft" THEN "processing" ELSE @]
  /\ Answer(k, "started")
  /\ UNCHANGED <<wizard, draft, clicks, faults>>

StartAnswered(k) ==
  /\ Served(k, "start")
  /\ WizardAfter(startPolling(wizard, call[k].of.session), Without(k))
  /\ UNCHANGED faults /\ Unchanged

StartFailed(k) ==
  /\ \E to \in {"create", "sources", "start"} : Fails(k, to)
  /\ \E c \in Abandoned(k) : WizardAfter(InError(wizard), c)
  /\ Unchanged

\* The server works on the sources and leaves drafts to confirm.
Process(s) ==
  /\ session[s] = "processing"
  /\ \E status \in TERMINAL_STATUSES, found \in SUBSET {i \in Items : SessionOf[i] = s /\ draft[i] = "none"} :
       /\ status = "failed" => found = {}
       /\ session' = [session EXCEPT ![s] = status]
       /\ draft' = [i \in Items |-> IF i \in found THEN "draft" ELSE draft[i]]
  /\ UNCHANGED <<apiVars, wizard, clicks>>

-----------------------------------------------------------------------------
(* Polling                                                                  *)

Drafts(s) == {i \in Items : SessionOf[i] = s /\ draft[i] = "draft"}
Snapshot(s) == [status |-> session[s], found |-> Drafts(s)]

\* Requests that read a session or its drafts.
Reads == {"poll", "confirm", "fetch", "check", "resume"}

ServeRead(k) ==
  /\ \E to \in Reads : AtServer(k, to)
  /\ Answer(k, Snapshot(call[k].of.session))
  /\ UNCHANGED <<wizardVars, faults>>

\* The interval goes on while answers are outstanding.
Tick ==
  /\ wizard.interval # NoSession /\ Room(2)
  /\ call' = Sent(call, [to |-> "poll", session |-> wizard.interval])
  /\ UNCHANGED <<wizardVars, faults>>

Expire ==
  /\ wizard.interval # NoSession /\ ~wizard.expired
  /\ wizard' = [wizard EXCEPT !.expired = TRUE]
  /\ UNCHANGED apiVars /\ Unchanged

Terminal(d) == d.status \in TERMINAL_STATUSES

PollAnswered(k) ==
  /\ Served(k, "poll")
  /\ LET r == call[k].of  d == call[k].answer
     IN CASE Terminal(d) /\ ~wizard.confirming ->
               WizardAfter([wizard EXCEPT !.confirming = TRUE],
                 Sent(Without(k), [to |-> "confirm", session |-> r.session, snapshot |-> d]))
          [] ~Terminal(d) /\ wizard.expired -> WizardAfter(InError(NotPolling(wizard)), Without(k))
          [] OTHER -> WizardAfter(wizard, Without(k))
  /\ UNCHANGED faults /\ Unchanged

PollFailed(k) ==
  /\ Fails(k, "poll") /\ WizardAfter(InError(NotPolling(wizard)), Without(k))
  /\ Unchanged

\* resolveProcessingTerminalRoute
Reviewing(w, found) ==
  IF found = {} THEN [w EXCEPT !.phase = "no-results", !.modal = FALSE]
  ELSE [w EXCEPT !.phase = "review", !.modal = TRUE,
                 !.candidates = [i \in Items |-> IF i \in found THEN "pending" ELSE "absent"]]

Listed(w, resumed, found) == Reviewing(IF resumed THEN [w EXCEPT !.notice = NoNotice] ELSE w, found)

\* The list of drafts comes from the page's cache while that is fresh, which decisions do
\* not end; else from the request already on its way for it; else from a request.
fetchCandidates(w, c, s, resumed) ==
  \/ \E found \in wizard.cached[s] : WizardAfter(Listed(w, resumed, found), c)
  \/ LET joined == {k \in Calls : c[k] # Idle /\ c[k].of.to = "fetch" /\ c[k].of.session = s}
     IN WizardAfter(w, IF joined = {} THEN Sent(c, [to |-> "fetch", session |-> s, resumed |-> resumed])
                       ELSE [k \in Calls |-> IF k \in joined THEN [c[k] EXCEPT !.of.resumed = @ \/ resumed] ELSE c[k]])

\* The final status is known: the error, the drafts to fetch, or nothing found.
Concluded(k, d) ==
  LET w == NotPolling(wizard)
  IN CASE d.status = "failed" -> WizardAfter([InError(w) EXCEPT !.resume = NoSession], Without(k))
       [] d.status # "failed" /\ d.found # {} ->
            fetchCandidates(w, Without(k), call[k].of.session, FALSE)
       [] OTHER -> WizardAfter([w EXCEPT !.resume = NoSession, !.phase = "no-results"], Without(k))

ConfirmAnswered(k) ==
  /\ Served(k, "confirm")
  /\ Concluded(k, IF Terminal(call[k].answer) THEN call[k].answer ELSE call[k].of.snapshot)
  /\ UNCHANGED faults /\ Unchanged

ConfirmFailed(k) ==
  /\ Fails(k, "confirm") /\ Concluded(k, call[k].of.snapshot) /\ Unchanged

FetchAnswered(k) ==
  /\ Served(k, "fetch")
  /\ LET r == call[k].of  found == call[k].answer.found
     IN WizardAfter([Listed(wizard, r.resumed, found) EXCEPT !.cached[r.session] = {found}], Without(k))
  /\ UNCHANGED faults /\ Unchanged

FetchFailed(k) ==
  /\ Fails(k, "fetch") /\ WizardAfter(InError(wizard), Without(k)) /\ Unchanged

-----------------------------------------------------------------------------
(* Resuming the session the storage remembers                               *)

\* resolveDiscoveryResumeMode
ResumeMode(d) ==
  IF ~Terminal(d) THEN "processing" ELSE IF d.status # "failed" /\ d.found # {} THEN "review" ELSE "terminal"

CheckAnswered(k) ==
  /\ Served(k, "check")
  /\ LET r == call[k].of  notice == [of |-> r.session, mode |-> ResumeMode(call[k].answer)]
     IN WizardAfter(IF r.dropped THEN wizard ELSE [wizard EXCEPT !.notice = notice, !.checking = FALSE], Without(k))
  /\ UNCHANGED faults /\ Unchanged

\* The storage is cleared also when the answer is no longer wanted.
CheckFailed(k) ==
  /\ Fails(k, "check")
  /\ LET w == [wizard EXCEPT !.resume = NoSession]
     IN WizardAfter(IF call[k].of.dropped THEN w ELSE [w EXCEPT !.notice = NoNotice, !.checking = FALSE], Without(k))
  /\ Unchanged

dismissResumeNotice ==
  /\ Clicking /\ wizard.open /\ wizard.phase = "idle" /\ wizard.notice # NoNotice
  /\ WizardAfter([wizard EXCEPT !.resume = NoSession, !.notice = NoNotice], call)
  /\ UNCHANGED <<faults, session, draft>>

resumeDiscoverySession ==
  /\ Clicking /\ Room(2) /\ wizard.open /\ wizard.phase = "idle" /\ ~wizard.checking
  /\ wizard.notice.mode # "terminal"
  /\ IF wizard.notice.mode = "processing" THEN WizardAfter(startPolling(wizard, wizard.notice.of), call)
     ELSE WizardAfter(wizard, Sent(call, [to |-> "resume", session |-> wizard.notice.of]))
  /\ UNCHANGED <<faults, session, draft>>

ResumeAnswered(k) ==
  /\ Served(k, "resume")
  /\ LET s == call[k].of.session  mode == ResumeMode(call[k].answer)
     IN CASE mode = "processing" -> WizardAfter(startPolling(wizard, s), Without(k))
          [] mode = "terminal" -> WizardAfter([wizard EXCEPT !.notice = [of |-> s, mode |-> mode]], Without(k))
          [] OTHER -> fetchCandidates(wizard, Without(k), s, TRUE)
  /\ UNCHANGED faults /\ Unchanged

ResumeFailed(k) ==
  /\ Fails(k, "resume") /\ WizardAfter(InError(wizard), Without(k)) /\ Unchanged

-----------------------------------------------------------------------------
(* Reviewing the drafts                                                     *)

\* decide_discovery_project_draft takes a decision on a pending draft only.
Decidable(i) == draft[i] = "draft"

ServeDecide(k) ==
  /\ \E to \in {"decide", "discard"} : AtServer(k, to)
  /\ LET r == call[k].of
     IN IF Decidable(r.item)
        THEN draft' = [draft EXCEPT ![r.item] = IF r.action = "confirm" THEN "created" ELSE "rejected"] /\ Answer(k, "done")
        ELSE draft' = draft /\ Answer(k, "conflict")
  /\ UNCHANGED <<wizard, session, clicks, faults>>

Deciding(i) ==
  /\ Clicking /\ Room(2) /\ wizard.modal /\ ~wizard.warning
  /\ wizard.mutating = NoItem /\ wizard.candidates[i] = "pending"

handleConfirmCandidate(i) ==
  /\ Deciding(i)
  /\ WizardAfter([wizard EXCEPT !.mutating = i],
       Sent(call, [to |-> "decide", item |-> i, action |-> "confirm", shown |-> wizard.candidates]))
  /\ UNCHANGED <<faults, session, draft>>

handleRejectCandidate(i) ==
  /\ Deciding(i)
  /\ WizardAfter([wizard EXCEPT !.mutating = i],
       Sent(call, [to |-> "decide", item |-> i, action |-> "reject", shown |-> wizard.candidates]))
  /\ UNCHANGED <<faults, session, draft>>

Completed(w) == [w EXCEPT !.warning = FALSE, !.modal = FALSE, !.resume = NoSession, !.phase = "complete"]
Skipped(c) == [i \in Items |-> IF c[i] = "pending" THEN "skipped" ELSE c[i]]

\* Broken variant: the candidate is shown as confirmed whatever the answer.
ConfirmedAnyway(w, i, answer) == [w EXCEPT !.candidates[i] = IF @ = "absent" THEN @ ELSE "confirmed"]

\* A conflict is an error to the caller.
ConfirmedCandidate(w, i, answer) ==
  IF answer = "done" /\ w.candidates[i] # "absent" THEN [w EXCEPT !.candidates[i] = "confirmed"] ELSE w

\* The list as it was when the request was made, without the item, is shown again.
RejectedCandidate(w, r, answer) ==
  LET kept == [r.shown EXCEPT ![r.item] = "absent"]
  IN IF answer # "done" THEN w
     ELSE IF kept # NoCandidates THEN [w EXCEPT !.candidates = kept]
     ELSE [w EXCEPT !.candidates = kept, !.modal = FALSE, !.phase = "complete"]

DecideAnswered(k) ==
  /\ Served(k, "decide")
  /\ LET r == call[k].of  w == [wizard EXCEPT !.mutating = NoItem]
     IN WizardAfter(IF r.action = "confirm" THEN ConfirmedCandidate(w, r.item, call[k].answer)
                    ELSE RejectedCandidate(w, r, call[k].answer), Without(k))
  /\ UNCHANGED faults /\ Unchanged

DecideFailed(k) ==
  /\ Fails(k, "decide")
  /\ \E c \in Abandoned(k) : WizardAfter([wizard EXCEPT !.mutating = NoItem], c)
  /\ Unchanged

\* handleCandidateModalOpenChange(false): Escape and the close button work also while a
\* decision is on its way.
CloseReview ==
  /\ Clicking /\ wizard.modal /\ ~wizard.warning
  /\ WizardAfter(IF PendingItems # {} THEN [wizard EXCEPT !.warning = TRUE] ELSE Completed(wizard), call)
  /\ UNCHANGED <<faults, session, draft>>

KeepReviewing ==
  /\ Clicking /\ wizard.warning /\ WizardAfter([wizard EXCEPT !.warning = FALSE], call)
  /\ UNCHANGED <<faults, session, draft>>

handleProcessFinalizeAll ==
  /\ Clicking /\ wizard.modal /\ ~wizard.warning /\ wizard.mutating = NoItem
  /\ WizardAfter(Completed([wizard EXCEPT !.candidates = Skipped(@)]), call)
  /\ UNCHANGED <<faults, session, draft>>

handleConfirmKeepDrafts ==
  /\ Clicking /\ wizard.warning
  /\ WizardAfter(Completed([wizard EXCEPT !.candidates = Skipped(@)]), call)
  /\ UNCHANGED <<faults, session, draft>>

\* One request per pending draft, all at once.
handleDiscardRemainingCandidates ==
  /\ Clicking /\ wizard.warning /\ wizard.mutating = NoItem
  /\ \/ PendingItems = {} /\ WizardAfter(Completed(wizard), call)
     \/ PendingItems # {} /\ \E place \in [PendingItems -> Free(call)] :
          /\ \A i, j \in PendingItems : place[i] = place[j] => i = j
          /\ WizardAfter([wizard EXCEPT !.mutating = Bulk, !.warning = FALSE],
               [k \in Calls |-> IF \E i \in PendingItems : place[i] = k
                             THEN Request([to |-> "discard", action |-> "reject", awaited |-> TRUE,
                                           item |-> CHOOSE i \in PendingItems : place[i] = k,
                                           shown |-> wizard.candidates])
                             ELSE call[k]])
  /\ UNCHANGED <<faults, session, draft>>

Awaited(k) == call[k] # Idle /\ call[k].of.to = "discard" /\ call[k].of.awaited

\* The first error ends the waiting for the others.
Unawaited(c) ==
  [k \in Calls |-> IF c[k] # Idle /\ c[k].of.to = "discard" THEN [c[k] EXCEPT !.of.awaited = FALSE] ELSE c[k]]

DiscardAnswered(k) ==
  /\ Served(k, "discard")
  /\ LET r == call[k].of
         kept == [i \in Items |-> IF r.shown[i] = "pending" THEN "absent" ELSE r.shown[i]]
         done == [Completed(wizard) EXCEPT !.candidates = kept, !.mutating = NoItem]
     IN CASE ~r.awaited -> WizardAfter(wizard, Without(k))
          [] r.awaited /\ call[k].answer # "done" ->
               WizardAfter([wizard EXCEPT !.mutating = NoItem], Unawaited(Without(k)))
          [] r.awaited /\ call[k].answer = "done" ->
               WizardAfter(IF \E j \in Calls \ {k} : Awaited(j) THEN wizard ELSE done, Without(k))
  /\ UNCHANGED faults /\ Unchanged

DiscardFailed(k) ==
  /\ Fails(k, "discard")
  /\ \E c \in Abandoned(k) :
       WizardAfter(IF Awaited(k) THEN [wizard EXCEPT !.mutating = NoItem] ELSE wizard,
                   IF Awaited(k) THEN Unawaited(c) ELSE c)
  /\ Unchanged

-----------------------------------------------------------------------------
Clicks ==
  \/ OpenWizard \/ CloseWizard \/ handleTryAgain \/ handleCreateManually
  \/ startDiscovery \/ dismissResumeNotice \/ resumeDiscoverySession
  \/ \E i \in Items : handleConfirmCandidate(i) \/ handleRejectCandidate(i)
  \/ CloseReview \/ KeepReviewing \/ handleProcessFinalizeAll
  \/ handleConfirmKeepDrafts \/ handleDiscardRemainingCandidates

WizardServes(k) ==
  ServeCreate(k) \/ ServeSources(k) \/ ServeStart(k) \/ ServeRead(k) \/ ServeDecide(k)

WizardAnswered(k) ==
  \/ CreateAnswered(k) \/ SourcesAnswered(k) \/ StartAnswered(k) \/ PollAnswered(k)
  \/ ConfirmAnswered(k) \/ FetchAnswered(k) \/ CheckAnswered(k) \/ ResumeAnswered(k)
  \/ DecideAnswered(k) \/ DiscardAnswered(k)

WizardFails(k) ==
  \/ StartFailed(k) \/ PollFailed(k) \/ ConfirmFailed(k) \/ FetchFailed(k) \/ CheckFailed(k)
  \/ ResumeFailed(k) \/ DecideFailed(k) \/ DiscardFailed(k)

WizardNext ==
  \/ Clicks \/ ResetAfterClose \/ Tick \/ Expire
  \/ \E s \in Sessions : Process(s)
  \/ \E k \in Calls : WizardServes(k) \/ WizardAnswered(k) \/ WizardFails(k)
  \/ \E k \in Calls : Lost(k) /\ UNCHANGED wizardVars

\* Requests arrive and are answered, the interval ticks, and time passes. The server need
\* not come to an end with a session.
WizardFairness ==
  /\ WF_<<apiVars, wizardVars>>(Tick) /\ WF_<<apiVars, wizardVars>>(Expire)
  /\ \A k \in Calls : WF_<<apiVars, wizardVars>>(WizardServes(k)) /\ WF_<<apiVars, wizardVars>>(WizardAnswered(k))

WizardSpec == WizardInit /\ [][WizardNext]_<<apiVars, wizardVars>>
FairWizard == WizardSpec /\ WizardFairness

-----------------------------------------------------------------------------
(* Properties *)

WizardTypeOK ==
  /\ wizard \in
       [open : BOOLEAN, phase : {"idle", "submitting", "processing", "no-results", "review", "complete", "error"},
        interval : Sessions \union {NoSession}, confirming : BOOLEAN, expired : BOOLEAN, resetDue : BOOLEAN,
        resume : Sessions \union {NoSession}, notice : [of : Sessions \union {NoSession}, mode : Modes],
        checking : BOOLEAN, candidates : [Items -> {"absent", "pending", "confirmed", "skipped"}],
        modal : BOOLEAN, warning : BOOLEAN, mutating : Items \union {NoItem, Bulk},
        cached : [Sessions -> SUBSET SUBSET Items]]
  /\ session \in [Sessions -> {"none", "draft", "processing"} \union TERMINAL_STATUSES]
  /\ draft \in [Items -> {"none", "draft", "created", "rejected"}]
  /\ clicks \in Nat

\* A candidate shown as confirmed has been created on the server.
ConfirmedIsCreated ==
  \A i \in Items : wizard.candidates[i] = "confirmed" => draft[i] = "created"

\* The wizard does not stay on the processing view, whatever polls of an earlier session, a
\* reset or a second start do to the interval and to the mark of a confirmation in progress.
ProcessingEnds == wizard.phase = "processing" ~> wizard.phase # "processing"

\* A candidate the finished review shows as kept as a draft is a draft.  TLC refutes it:
\* the answer of a confirmation may be lost.
KeptIsDraft ==
  wizard.phase = "complete" /\ (\A k \in Calls : call[k] = Idle) =>
    \A i \in Items : wizard.candidates[i] = "skipped" => draft[i] = "draft"
=============================================================================
