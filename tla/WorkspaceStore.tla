--------------------------- MODULE WorkspaceStore ---------------------------
(***************************************************************************)
(* The discovery workspace of a stream in the browser: the page, the store *)
(* it shares with the quick capture dialog (workspace-store.ts), and the   *)
(* workspace endpoints on the server.  The store keeps the answers being   *)
(* edited, saves them after a pause, and refreshes from the server while   *)
(* captured files turn into evidence and suggestions.                      *)
(***************************************************************************)
EXTENDS ApiClient

CONSTANTS
  Projects, Questions, Values, Files,
  NoProject, NoAnswer,
  SESSION_HYDRATE_MAX_RETRIES,
  MaxActs   \* bound: what the user does

ASSUME StoreAssumption ==
  /\ NoProject \notin Projects /\ NoAnswer \notin Values
  /\ SESSION_HYDRATE_MAX_RETRIES \in Nat

VARIABLES
  page,       \* the project of the open page, or NoProject
  form,       \* the store
  timers,     \* timers[p]: pending retries of the hydrate of p
  workspace,  \* workspace[p]: the server's answers, suggestions and files
  typed,      \* history: what the user last typed in this page or accepted
  unsaved,    \* history: the questions whose typed answer no save of this page has returned for
  acts

storeVars == <<page, form, timers, workspace, typed, unsaved, acts>>

Answers == [Questions -> Values \union {NoAnswer}]
Blank == [q \in Questions |-> NoAnswer]
Suggestions == [value : Values, status : {"pending", "rejected"}]
NoSuggestion == [value |-> NoAnswer, status |-> "none"]
SaveStatus == {"idle", "saving", "saved", "error"}

\* createInitialState
InitialForm ==
  [project |-> NoProject, answers |-> Blank, suggestions |-> Blank, dirty |-> FALSE,
   saveStatus |-> "idle", reviewStatus |-> "idle", hydrating |-> FALSE, pending |-> FALSE,
   session |-> {}, guard |-> "idle", needed |-> FALSE, retries |-> 0, capture |-> "idle"]

StoreInit ==
  /\ ApiInit
  /\ page = NoProject /\ form = InitialForm /\ timers = [p \in Projects |-> 0]
  /\ workspace \in [Projects -> [answers : {Blank}, evidence : SUBSET Files,
                                 suggestions : [Questions -> Suggestions \union {NoSuggestion}]]]
  /\ typed = Blank /\ unsaved = {} /\ acts \in 0..MaxActs

Acting == acts < MaxActs /\ acts' = acts + 1

-----------------------------------------------------------------------------
(* The store. Its functions act on the form, the calls and the timers.     *)

Store == [form |-> form, call |-> call, timers |-> timers]
StoreAfter(s) == form' = s.form /\ call' = s.call /\ timers' = s.timers

\* The request is asked for the page `captured` came from, whose dialog asks again after it.
hydrate(s, p, captured) ==
  IF s.form.hydrating /\ s.form.project = p THEN [s EXCEPT !.form.pending = TRUE]
  ELSE [s EXCEPT !.form.hydrating = TRUE, !.form.project = p,
                 !.call = Sent(@, [to |-> "hydrate", project |-> p, captured |-> captured])]

\* The upload session ends without an analysis.
GivenUp(f) ==
  [f EXCEPT !.capture = "retry_required", !.session = {}, !.guard = "idle",
            !.needed = FALSE, !.retries = 0]

\* Broken variant: a retry is counted but its timer is not set.
RetriedUnset(s) ==
  IF s.form.retries < SESSION_HYDRATE_MAX_RETRIES THEN [s EXCEPT !.form.retries = @ + 1]
  ELSE [s EXCEPT !.form = GivenUp(@)]

Retried(s) ==
  IF s.form.retries < SESSION_HYDRATE_MAX_RETRIES
  THEN [s EXCEPT !.form.retries = @ + 1, !.timers[s.form.project] = @ + 1]
  ELSE [s EXCEPT !.form = GivenUp(@)]

Visible(f, d) == f.session \subseteq d.evidence
RunsAnalysis(f, d) == Visible(f, d) /\ f.session # {} /\ f.guard = "waiting"

\* Broken variant: the answers being edited are replaced.
ShownAlways(f, d) ==
  [f EXCEPT !.project = d.project, !.answers = d.answers,
            !.suggestions = d.suggestions, !.hydrating = FALSE, !.pending = FALSE]

\* The data of an answer of the server; a dirty form keeps its answers.
Shown(f, d) ==
  [f EXCEPT !.project = d.project, !.answers = IF f.dirty THEN @ ELSE d.answers,
            !.suggestions = d.suggestions, !.hydrating = FALSE, !.pending = FALSE]

\* The reconcile flag is cleared only once every file of the session is visible.
Reconciled(f, d) ==
  IF ~Visible(f, d) THEN f
  ELSE [f EXCEPT !.needed = FALSE, !.retries = 0,
                 !.guard = IF RunsAnalysis(f, d) THEN "ran" ELSE @,
                 !.capture = IF RunsAnalysis(f, d) THEN "analyzing" ELSE @]

applyHydrateData(s, d) ==
  LET f == s.form
      t == [s EXCEPT !.form = Reconciled(Shown(f, d), d)]
  IN CASE f.pending -> hydrate(t, d.project, FALSE)
       [] ~f.pending /\ RunsAnalysis(f, d) ->
            [t EXCEPT !.call = Sent(@, [to |-> "refresh", project |-> d.project, files |-> f.session])]
       [] ~f.pending /\ ~Visible(f, d) /\ f.needed -> Retried(t)
       [] OTHER -> t

\* The catch block of hydrate.
HydrateError(s) ==
  LET t == [s EXCEPT !.form.hydrating = FALSE, !.form.pending = FALSE]
  IN IF s.form.project = NoProject THEN t
     ELSE IF s.form.pending THEN hydrate(t, s.form.project, FALSE)
     ELSE IF s.form.needed THEN Retried(t)
     ELSE t

registerUploadedFile(f, files) ==
  [f EXCEPT !.session = @ \union files, !.guard = "waiting", !.needed = TRUE,
            !.retries = 0, !.capture = "pending"]

clearUploadSessionSubset(f, files) ==
  IF f.session \subseteq files
  THEN [f EXCEPT !.session = {}, !.guard = "idle", !.needed = FALSE, !.retries = 0,
                 !.capture = "completed"]
  ELSE [f EXCEPT !.session = @ \ files, !.guard = "waiting", !.capture = "pending"]

-----------------------------------------------------------------------------
(* The page.                                                                *)

\* Leaving the page resets the store; requests and retry timers go on.
Unmounted == IF page = NoProject THEN form ELSE InitialForm

Open(p) ==
  /\ Acting /\ Room(2) /\ page # p /\ page' = p
  /\ StoreAfter(hydrate([Store EXCEPT !.form = Unmounted], p, FALSE))
  /\ typed' = Blank /\ unsaved' = {}
  /\ UNCHANGED <<faults, workspace>>

Leave ==
  /\ Acting /\ page # NoProject /\ page' = NoProject /\ form' = Unmounted
  /\ typed' = Blank /\ unsaved' = {}
  /\ UNCHANGED <<call, faults, timers, workspace>>

updateQuestionnaireAnswer(q, v) ==
  /\ Acting /\ page # NoProject
  /\ form' = [form EXCEPT !.answers[q] = v, !.dirty = TRUE, !.saveStatus = "idle"]
  /\ typed' = [typed EXCEPT ![q] = v] /\ unsaved' = unsaved \union {q}
  /\ UNCHANGED <<page, call, faults, timers, workspace>>

\* Broken variant: the timer starts on an edit only, not after a save that failed.
ArmedByEdit == page # NoProject /\ form.dirty /\ form.saveStatus = "idle"

\* The effect of the page: its timer runs while there are edits and no save is on its way,
\* and an edit during a save starts it again.
AutosaveArmed == page # NoProject /\ form.dirty /\ form.saveStatus # "saving"

\* All answers of the form are sent, to the project of the page.
saveQuestionnaireAnswers ==
  /\ AutosaveArmed /\ Room(2)
  /\ form' = [form EXCEPT !.saveStatus = "saving"]
  /\ call' = Sent(call, [to |-> "save", project |-> page, answers |-> form.answers])
  /\ UNCHANGED <<page, faults, timers, workspace, typed, unsaved, acts>>

\* One question, or the pending suggestions of a section or phase.
Scopes == {{q} : q \in Questions} \union {Questions}
Targets(suggested, scope) ==
  IF Cardinality(scope) = 1 THEN scope ELSE {q \in scope : suggested[q] # NoAnswer}

reviewQuestionnaireSuggestions(accept, scope) ==
  /\ Acting /\ Room(2) /\ page # NoProject /\ form.reviewStatus # "saving"
  /\ \E q \in scope : form.suggestions[q] # NoAnswer
  /\ form' = [form EXCEPT !.reviewStatus = "saving"]
  /\ call' = Sent(call, [to |-> "review", project |-> page, accept |-> accept, scope |-> scope,
                         targets |-> Targets(form.suggestions, scope)])
  /\ UNCHANGED <<page, faults, timers, workspace, typed, unsaved>>

Capturing(k) ==
  /\ call[k].stage \in {"sent", "served"} /\ call[k].of.to \in {"upload", "hydrate"}
  /\ call[k].of.to = "hydrate" => call[k].of.captured

\* The dialog uploads a batch, one at a time.
uploadQuickCaptureBatch(files) ==
  /\ Acting /\ Room(2) /\ page # NoProject /\ files # {}
  /\ \A k \in Calls : ~Capturing(k)
  /\ \A p \in Projects : files \cap workspace[p].evidence = {}
  /\ call' = Sent(call, [to |-> "upload", project |-> page, files |-> files])
  /\ UNCHANGED <<page, form, faults, timers, workspace, typed, unsaved>>

RetryTimer(p) ==
  /\ timers[p] > 0 /\ Room(2)
  /\ LET s == [Store EXCEPT !.timers[p] = @ - 1]
     IN StoreAfter(IF form.needed /\ form.project = p THEN hydrate(s, p, FALSE) ELSE s)
  /\ UNCHANGED <<page, faults, workspace, typed, unsaved, acts>>

-----------------------------------------------------------------------------
(* The server.                                                              *)

Pending(w) == [q \in Questions |-> IF w.suggestions[q].status = "pending" THEN w.suggestions[q].value ELSE NoAnswer]

Data(p, w) == [project |-> p, answers |-> w.answers, suggestions |-> Pending(w), evidence |-> w.evidence]

Pruned(w) ==
  [w EXCEPT !.suggestions = [q \in Questions |-> IF w.suggestions[q].value = w.answers[q] THEN NoSuggestion ELSE w.suggestions[q]]]

\* update_questionnaire_answers
SavedWorkspace(w, answers) ==
  Pruned([w EXCEPT !.answers = [q \in Questions |-> IF answers[q] = NoAnswer THEN w.answers[q] ELSE answers[q]]])

\* review_questionnaire_suggestions
ReviewedWorkspace(w, accept, scope) ==
  LET reviewed == {q \in scope : w.suggestions[q].status = "pending"}
  IN Pruned(IF accept
     THEN [w EXCEPT !.answers = [q \in Questions |-> IF q \in reviewed THEN w.suggestions[q].value ELSE w.answers[q]],
                    !.suggestions = [q \in Questions |-> IF q \in reviewed THEN NoSuggestion ELSE w.suggestions[q]]]
     ELSE [w EXCEPT !.suggestions = [q \in Questions |-> IF q \in reviewed THEN [w.suggestions[q] EXCEPT !.status = "rejected"]
                                                         ELSE w.suggestions[q]]])

\* refresh_insights: the files may suggest a value for a question.
RefreshedWorkspace(w, q, v) ==
  Pruned(IF w.suggestions[q] = [value |-> v, status |-> "rejected"] THEN w
         ELSE [w EXCEPT !.suggestions[q] = [value |-> v, status |-> "pending"]])

Written(k, w, a) ==
  /\ workspace' = [workspace EXCEPT ![call[k].of.project] = w] /\ Answer(k, a)
  /\ UNCHANGED <<page, form, timers, faults, typed, unsaved, acts>>

ServeHydrate(k) ==
  /\ AtServer(k, "hydrate")
  /\ LET p == call[k].of.project IN Written(k, workspace[p], Data(p, workspace[p]))

ServeSave(k) ==
  /\ AtServer(k, "save")
  /\ LET p == call[k].of.project  w == SavedWorkspace(workspace[p], call[k].of.answers)
     IN Written(k, w, Data(p, w))

ServeReview(k) ==
  /\ AtServer(k, "review")
  /\ LET r == call[k].of
         w == ReviewedWorkspace(workspace[r.project], r.accept, r.scope)
         ignored == IF Cardinality(r.scope) > 1 THEN {}
                    ELSE {q \in r.scope : workspace[r.project].suggestions[q].status # "pending"}
     IN Written(k, w, [data |-> Data(r.project, w), ignored |-> ignored])

ServeUpload(k) ==
  /\ AtServer(k, "upload")
  /\ LET w == [workspace[call[k].of.project] EXCEPT !.evidence = @ \union call[k].of.files]
     IN Written(k, w, w.evidence)

ServeRefresh(k) ==
  /\ AtServer(k, "refresh")
  /\ LET p == call[k].of.project
     IN \/ Written(k, workspace[p], Pending(workspace[p]))
        \/ \E q \in Questions, v \in Values :
             LET w == RefreshedWorkspace(workspace[p], q, v) IN Written(k, w, Pending(w))

-----------------------------------------------------------------------------
(* Answers and errors reach the store.                                      *)

Returned(k) == [Store EXCEPT !.call = Without(k)]
Failed(c) == [Store EXCEPT !.call = c]

\* The dialog has the page hydrate once more after its own hydrate, whatever came of it.
Recaptured(s, r) == IF r.captured THEN hydrate(s, r.project, FALSE) ELSE s

HydrateAnswered(k) ==
  /\ Served(k, "hydrate") /\ (call[k].of.captured => Room(1))
  /\ StoreAfter(Recaptured(applyHydrateData(Returned(k), call[k].answer), call[k].of))
  /\ UNCHANGED <<page, faults, workspace, typed, unsaved, acts>>

HydrateFailed(k) ==
  /\ Fails(k, "hydrate") /\ (call[k].of.captured => Room(1))
  /\ StoreAfter(Recaptured(HydrateError(Returned(k)), call[k].of))
  /\ UNCHANGED <<page, workspace, typed, unsaved, acts>>

\* Broken variant: the answer of a save clears the edits made since.
MatchesAlways(answers) == TRUE

valuesStillMatch(answers) == form.answers = answers

\* The store does not ask whether the project of an answer is that of the page.  The
\* history does: no request of another page saves or accepts what is typed in this one.
OfThisPage(k) == call[k].of.project = page

SaveAnswered(k) ==
  /\ Served(k, "save")
  /\ LET answers == call[k].of.answers  s == [Returned(k) EXCEPT !.form.saveStatus = "saved"]
     IN /\ StoreAfter(IF ~valuesStillMatch(answers) THEN s
                      ELSE applyHydrateData([s EXCEPT !.form.dirty = FALSE], call[k].answer))
        /\ unsaved' = IF OfThisPage(k) THEN {q \in unsaved : answers[q] # typed[q]} ELSE unsaved
  /\ UNCHANGED <<page, faults, workspace, typed, acts>>

SaveFailed(k) ==
  /\ Fails(k, "save") /\ \E c \in Abandoned(k) : StoreAfter([Failed(c) EXCEPT !.form.saveStatus = "error"])
  /\ UNCHANGED <<page, workspace, typed, unsaved, acts>>

\* An accepted suggestion is shown in place of what was typed.
ReviewAnswered(k) ==
  /\ Served(k, "review")
  /\ LET d == call[k].answer.data
         accepted == IF ~call[k].of.accept THEN {}
                     ELSE {q \in call[k].of.targets \ call[k].answer.ignored : d.answers[q] # NoAnswer}
     IN /\ StoreAfter(applyHydrateData(
             [Returned(k) EXCEPT !.form.reviewStatus = "saved",
                !.form.answers = [q \in Questions |-> IF q \in accepted THEN d.answers[q] ELSE @[q]]], d))
        /\ typed' = [q \in Questions |-> IF OfThisPage(k) /\ q \in accepted THEN d.answers[q] ELSE typed[q]]
        /\ unsaved' = IF OfThisPage(k) THEN unsaved \ accepted ELSE unsaved
  /\ UNCHANGED <<page, faults, workspace, acts>>

ReviewFailed(k) ==
  /\ Fails(k, "review") /\ \E c \in Abandoned(k) : StoreAfter([Failed(c) EXCEPT !.form.reviewStatus = "error"])
  /\ UNCHANGED <<page, workspace, typed, unsaved, acts>>

UploadAnswered(k) ==
  /\ Served(k, "upload")
  /\ LET r == call[k].of  s == [Returned(k) EXCEPT !.form = registerUploadedFile(@, r.files)]
     IN StoreAfter(hydrate(s, r.project, TRUE))
  /\ UNCHANGED <<page, faults, workspace, typed, unsaved, acts>>

UploadFailed(k) ==
  /\ Fails(k, "upload") /\ call' \in Abandoned(k)
  /\ UNCHANGED storeVars

RefreshAnswered(k) ==
  /\ Served(k, "refresh")
  /\ StoreAfter([Returned(k) EXCEPT
       !.form = clearUploadSessionSubset([@ EXCEPT !.suggestions = call[k].answer], call[k].of.files)])
  /\ UNCHANGED <<page, faults, workspace, typed, unsaved, acts>>

RefreshFailed(k) ==
  /\ Fails(k, "refresh") /\ \E c \in Abandoned(k) : StoreAfter([Failed(c) EXCEPT !.form = GivenUp(@)])
  /\ UNCHANGED <<page, workspace, typed, unsaved, acts>>

-----------------------------------------------------------------------------
UserActs ==
  \/ \E p \in Projects : Open(p)
  \/ Leave
  \/ \E q \in Questions, v \in Values : updateQuestionnaireAnswer(q, v)
  \/ \E accept \in BOOLEAN, scope \in Scopes : reviewQuestionnaireSuggestions(accept, scope)
  \/ \E files \in SUBSET Files : uploadQuickCaptureBatch(files)

StoreServes(k) ==
  ServeHydrate(k) \/ ServeSave(k) \/ ServeReview(k) \/ ServeUpload(k) \/ ServeRefresh(k)

StoreAnswered(k) ==
  HydrateAnswered(k) \/ SaveAnswered(k) \/ ReviewAnswered(k) \/ UploadAnswered(k) \/ RefreshAnswered(k)

StoreFails(k) ==
  HydrateFailed(k) \/ SaveFailed(k) \/ ReviewFailed(k) \/ UploadFailed(k) \/ RefreshFailed(k)

StoreNext ==
  \/ UserActs
  \/ saveQuestionnaireAnswers
  \/ \E p \in Projects : RetryTimer(p)
  \/ \E k \in Calls : StoreServes(k) \/ StoreAnswered(k) \/ StoreFails(k)
  \/ \E k \in Calls : Lost(k) /\ UNCHANGED storeVars

\* Requests arrive, are served and answered, and timers fire.
StoreFairness ==
  /\ WF_<<apiVars, storeVars>>(saveQuestionnaireAnswers)
  /\ \A p \in Projects : WF_<<apiVars, storeVars>>(RetryTimer(p))
  /\ \A k \in Calls : WF_<<apiVars, storeVars>>(StoreServes(k)) /\ WF_<<apiVars, storeVars>>(StoreAnswered(k))

StoreSpec == StoreInit /\ [][StoreNext]_<<apiVars, storeVars>>
FairStore == StoreSpec /\ StoreFairness

-----------------------------------------------------------------------------
(* Properties *)

FormType ==
  [project : Projects \union {NoProject}, answers : Answers, suggestions : Answers, dirty : BOOLEAN,
   saveStatus : SaveStatus, reviewStatus : SaveStatus, hydrating : BOOLEAN, pending : BOOLEAN,
   session : SUBSET Files, guard : {"idle", "waiting", "ran"}, needed : BOOLEAN,
   retries : 0..SESSION_HYDRATE_MAX_RETRIES,
   capture : {"idle", "pending", "analyzing", "completed", "retry_required"}]

StoreTypeOK ==
  /\ page \in Projects \union {NoProject} /\ form \in FormType /\ timers \in [Projects -> Nat]
  /\ workspace \in [Projects -> [answers : Answers, evidence : SUBSET Files,
                                 suggestions : [Questions -> Suggestions \union {NoSuggestion}]]]
  /\ typed \in Answers /\ unsaved \subseteq Questions /\ acts \in Nat

\* An answer the user typed stays on the page, and marked as unsaved, until a save of the
\* page that carried it has returned or the page is left: no other answer, however late,
\* replaces or clears it.  Excepted are a save of another page whose answer finds the very
\* answers it sent, and suggestions accepted on another page: the store takes both for its
\* own, and the edits go although nothing has saved them.
AsTyped(q) == form.dirty /\ form.answers[q] = typed[q]

TakenForOwn(k) ==
  /\ call[k] # Idle /\ ~OfThisPage(k)
  /\ \/ SaveAnswered(k) /\ valuesStillMatch(call[k].of.answers)
     \/ ReviewAnswered(k) /\ call[k].of.accept

UnsavedShown ==
  [][(\E k \in Calls : TakenForOwn(k)) \/ \A q \in unsaved' : (q \in unsaved => AsTyped(q)) => AsTyped(q)']_<<apiVars, storeVars>>

\* Edits do not stay unsaved: the timer starts again after an error and after a save that
\* came back to a form edited since.
EditsReachServer == form.dirty ~> ~form.dirty

\* Waiting for captured files to become visible ends, by seeing them or by giving up.
ReconcileEnds == form.needed ~> ~form.needed

\* A captured batch does not stay in progress: it ends analysed, or asking for a retry.
\* TLC refutes it: a queued hydrate may take the place of the analysis.
CaptureEnds == form.capture \in {"pending", "analyzing"} ~> form.capture \notin {"pending", "analyzing"}

\* With nothing on its way and no unsaved edits, the server has what the user last typed.
\* TLC refutes it: of two saves on their way, the older may be done last.
AcknowledgedKept ==
  page # NoProject /\ ~form.dirty /\ (\A k \in Calls : call[k] = Idle) =>
    \A q \in Questions : typed[q] # NoAnswer => workspace[page].answers[q] = typed[q]
=============================================================================
