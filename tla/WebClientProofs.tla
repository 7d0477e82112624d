-------------------------- MODULE WebClientProofs --------------------------
(***************************************************************************)
(* Theorems about the web application over one API client, for any number  *)
(* of requests, attempts, faults and actions of the user: WorkspaceStore,  *)
(* DiscoveryWizard and OrganizationData, each by itself.                   *)
(***************************************************************************)
EXTENDS WorkspaceStore, DiscoveryWizard, OrganizationData, FiniteSetTheorems, TLAPS

-----------------------------------------------------------------------------
(* The workspace store *)

\* What is on its way, and what the server answers to it.
StoreRequests ==
  [to : {"hydrate"}, project : Projects, captured : BOOLEAN]
  \union [to : {"save"}, project : Projects, answers : Answers]
  \union [to : {"review"}, project : Projects, accept : BOOLEAN, scope : SUBSET Questions,
          targets : SUBSET Questions]
  \union [to : {"upload", "refresh"}, project : Projects, files : SUBSET Files]

ServerData ==
  [project : Projects, answers : Answers, suggestions : Answers, evidence : SUBSET Files]
ReviewData == [data : ServerData, ignored : SUBSET Questions]

StoreAnswers == ServerData \union ReviewData \union (SUBSET Files) \union Answers

AnswersTo(to, a) ==
  /\ to \in {"hydrate", "save"} => a \in ServerData
  /\ to = "review" => a \in ReviewData
  /\ to = "refresh" => a \in Answers

StoreWaiting == [stage : {"sent", "left"}, of : StoreRequests, tries : Nat]
StoreServed ==
  {c \in [stage : {"served"}, of : StoreRequests, tries : Nat, answer : StoreAnswers] :
     AnswersTo(c.of.to, c.answer)}
StoreCalls == [Calls -> {Idle} \union StoreWaiting \union StoreServed]

StoreState == [form : FormType, call : StoreCalls, timers : [Projects -> Nat]]

\* The answers being edited, and that they are.
SameEdits(s, t) == t.form.answers = s.form.answers /\ t.form.dirty = s.form.dirty

LEMMA SentTyped ==
  ASSUME NEW c \in StoreCalls, NEW r \in StoreRequests
  PROVE  Sent(c, r) \in StoreCalls
  <1>1. Request(r) \in StoreWaiting
    BY DEF Request, StoreWaiting
  <1> QED
    BY <1>1 DEF Sent, StoreCalls

LEMMA RequestsTyped ==
  ASSUME NEW p \in Projects
  PROVE  /\ \A captured \in BOOLEAN :
              [to |-> "hydrate", project |-> p, captured |-> captured] \in StoreRequests
         /\ \A answers \in Answers :
              [to |-> "save", project |-> p, answers |-> answers] \in StoreRequests
         /\ \A files \in SUBSET Files :
              /\ [to |-> "upload", project |-> p, files |-> files] \in StoreRequests
              /\ [to |-> "refresh", project |-> p, files |-> files] \in StoreRequests
  BY DEF StoreRequests

LEMMA HydrateTyped ==
  ASSUME NEW s \in StoreState, NEW p \in Projects, NEW captured \in BOOLEAN,
         NEW t, t = hydrate(s, p, captured)
  PROVE  t \in StoreState /\ SameEdits(s, t)
  <1>1. /\ s.form \in FormType /\ s.call \in StoreCalls
        /\ s = [form |-> s.form, call |-> s.call, timers |-> s.timers]
        /\ s.timers \in [Projects -> Nat]
    BY DEF StoreState
  <1>2. CASE s.form.hydrating /\ s.form.project = p
    <2>1. t = [s EXCEPT !.form = [s.form EXCEPT !.pending = TRUE]]
      BY <1>2 DEF hydrate
    <2>2. [s.form EXCEPT !.pending = TRUE] \in FormType
      BY <1>1 DEF FormType
    <2> QED
      BY <1>1, <2>1, <2>2 DEF StoreState, SameEdits, FormType
  <1>3. CASE ~(s.form.hydrating /\ s.form.project = p)
    <2>1. PICK c : c = Sent(s.call, [to |-> "hydrate", project |-> p, captured |-> captured])
      OBVIOUS
    <2>2. PICK f : f = [s.form EXCEPT !.hydrating = TRUE, !.project = p]
      OBVIOUS
    <2>3. t.form = f /\ t.call = c /\ t.timers = s.timers
          /\ t = [form |-> f, call |-> c, timers |-> s.timers]
      BY <1>1, <1>3, <2>1, <2>2 DEF hydrate, StoreState
    <2>4. f \in FormType /\ f.answers = s.form.answers /\ f.dirty = s.form.dirty
      BY <1>1, <2>2 DEF FormType
    <2>5. c \in StoreCalls
      BY <1>1, <2>1, RequestsTyped, SentTyped
    <2> QED
      BY <1>1, <2>3, <2>4, <2>5 DEF StoreState, SameEdits
  <1> QED
    BY <1>2, <1>3

LEMMA GivenUpTyped ==
  ASSUME NEW f \in FormType
  PROVE  /\ GivenUp(f) \in FormType
         /\ GivenUp(f).answers = f.answers /\ GivenUp(f).dirty = f.dirty
  <1>1. PICK g : g = [f EXCEPT !.capture = "retry_required", !.session = {}, !.guard = "idle",
                               !.needed = FALSE, !.retries = 0]
    OBVIOUS
  <1>2. 0 \in 0..SESSION_HYDRATE_MAX_RETRIES
    BY StoreAssumption
  <1>3. g \in FormType /\ g.answers = f.answers /\ g.dirty = f.dirty
    BY <1>1, <1>2 DEF FormType
  <1> QED
    BY <1>1, <1>3 DEF GivenUp

LEMMA RetriedTyped ==
  ASSUME NEW s \in StoreState, s.form.project \in Projects, NEW t, t = Retried(s)
  PROVE  t \in StoreState /\ SameEdits(s, t)
  <1>1. /\ s.form \in FormType
        /\ s = [form |-> s.form, call |-> s.call, timers |-> s.timers]
        /\ s.timers \in [Projects -> Nat] /\ s.call \in StoreCalls
    BY DEF StoreState
  <1>2. PICK p \in Projects : p = s.form.project
    OBVIOUS
  <1>3. CASE s.form.retries < SESSION_HYDRATE_MAX_RETRIES
    <2>1. PICK f : f = [s.form EXCEPT !.retries = @ + 1]
      OBVIOUS
    <2>2. PICK timers1 : timers1 = [s.timers EXCEPT ![p] = @ + 1]
      OBVIOUS
    <2>3. t = [form |-> f, call |-> s.call, timers |-> timers1]
      BY <1>1, <1>2, <1>3, <2>1, <2>2 DEF Retried, StoreState
    <2>4. f \in FormType /\ f.answers = s.form.answers /\ f.dirty = s.form.dirty
      BY <1>1, <1>3, <2>1, StoreAssumption DEF FormType
    <2>5. timers1 \in [Projects -> Nat]
      BY <1>1, <2>2
    <2> QED
      BY <1>1, <2>3, <2>4, <2>5 DEF StoreState, SameEdits
  <1>4. CASE ~(s.form.retries < SESSION_HYDRATE_MAX_RETRIES)
    <2>1. PICK f : f = GivenUp(s.form)
      OBVIOUS
    <2>2. t = [form |-> f, call |-> s.call, timers |-> s.timers]
      BY <1>1, <1>4, <2>1 DEF Retried, StoreState
    <2> QED
      BY <1>1, <2>1, <2>2, GivenUpTyped DEF StoreState, SameEdits
  <1> QED
    BY <1>3, <1>4

\* An answer of the server shows what it carries, but for edits.
LEMMA ShownTyped ==
  ASSUME NEW f \in FormType, NEW d \in ServerData, NEW g, g = Reconciled(Shown(f, d), d)
  PROVE  /\ g \in FormType /\ g.dirty = f.dirty /\ (f.dirty => g.answers = f.answers)
         /\ g.project = d.project
  <1>1. PICK h : h = Shown(f, d)
    OBVIOUS
  <1>2. /\ h \in FormType /\ h.dirty = f.dirty /\ (f.dirty => h.answers = f.answers)
        /\ h.project = d.project
    BY <1>1 DEF Shown, FormType, ServerData
  <1>3. g = Reconciled(h, d)
    BY <1>1
  <1>4. CASE Visible(h, d)
    <2>1. PICK ran, capture :
            /\ ran \in {"ran", h.guard} /\ capture \in {"analyzing", h.capture}
            /\ g = [h EXCEPT !.needed = FALSE, !.retries = 0, !.guard = ran, !.capture = capture]
      BY <1>3, <1>4 DEF Reconciled
    <2>2. 0 \in 0..SESSION_HYDRATE_MAX_RETRIES
      BY StoreAssumption
    <2>3. /\ ran \in {"idle", "waiting", "ran"}
          /\ capture \in {"idle", "pending", "analyzing", "completed", "retry_required"}
      BY <1>2, <2>1 DEF FormType
    <2>4. g.dirty = h.dirty /\ g.answers = h.answers /\ g.project = h.project
      BY <1>2, <2>1 DEF FormType
    <2>5. g \in FormType
      <3>1. PICK i : i = [h EXCEPT !.needed = FALSE, !.retries = 0]
        OBVIOUS
      <3>2. i \in FormType
        BY <1>2, <2>2, <3>1 DEF FormType
      <3>3. PICK j : j = [i EXCEPT !.guard = ran]
        OBVIOUS
      <3>4. j \in FormType
        BY <2>3, <3>2, <3>3 DEF FormType
      <3>5. g = [j EXCEPT !.capture = capture]
        BY <2>1, <3>1, <3>3
      <3> QED
        BY <2>3, <3>4, <3>5 DEF FormType
    <2> QED
      BY <1>2, <2>4, <2>5
  <1>5. CASE ~Visible(h, d)
    BY <1>2, <1>3, <1>5 DEF Reconciled
  <1> QED
    BY <1>4, <1>5

LEMMA ApplyTyped ==
  ASSUME NEW s \in StoreState, NEW d \in ServerData, NEW t, t = applyHydrateData(s, d)
  PROVE  t \in StoreState /\ t.form.dirty = s.form.dirty
         /\ (s.form.dirty => t.form.answers = s.form.answers)
  <1>1. /\ s.form \in FormType /\ s.call \in StoreCalls /\ s.timers \in [Projects -> Nat]
        /\ s = [form |-> s.form, call |-> s.call, timers |-> s.timers]
        /\ d.project \in Projects
        /\ s.form.session \in SUBSET Files
    BY DEF StoreState, ServerData, FormType
  <1>2. PICK g : g = Reconciled(Shown(s.form, d), d)
    OBVIOUS
  <1>3. /\ g \in FormType /\ g.dirty = s.form.dirty /\ (s.form.dirty => g.answers = s.form.answers)
        /\ g.project = d.project
    BY <1>1, <1>2, ShownTyped
  <1>4. PICK u : u = [s EXCEPT !.form = g]
    OBVIOUS
  <1>5. u = [form |-> g, call |-> s.call, timers |-> s.timers]
    BY <1>1, <1>4
  <1>6. u \in StoreState /\ u.form = g
    BY <1>1, <1>3, <1>5 DEF StoreState
  <1>7. \/ t = hydrate(u, d.project, FALSE)
        \/ t = [u EXCEPT !.call = Sent(@, [to |-> "refresh", project |-> d.project,
                                           files |-> s.form.session])]
        \/ t = Retried(u)
        \/ t = u
    <2>1. /\ u = [s EXCEPT !.form = Reconciled(Shown(s.form, d), d)]
          /\ (s.form.pending \in BOOLEAN) /\ (RunsAnalysis(s.form, d) \in BOOLEAN)
          /\ (Visible(s.form, d) \in BOOLEAN) /\ (s.form.needed \in BOOLEAN)
      BY <1>1, <1>2, <1>4 DEF RunsAnalysis, Visible, FormType
    <2>2. CASE s.form.pending
      BY <1>1, <2>1, <2>2 DEF applyHydrateData
    <2>3. CASE ~s.form.pending /\ RunsAnalysis(s.form, d)
      BY <1>1, <2>1, <2>3 DEF applyHydrateData
    <2>4. CASE ~s.form.pending /\ ~RunsAnalysis(s.form, d) /\ ~Visible(s.form, d) /\ s.form.needed
      BY <1>1, <2>1, <2>4 DEF applyHydrateData
    <2>5. CASE ~s.form.pending /\ ~RunsAnalysis(s.form, d) /\ ~(~Visible(s.form, d) /\ s.form.needed)
      BY <1>1, <2>1, <2>5 DEF applyHydrateData
    <2> QED
      BY <2>1, <2>2, <2>3, <2>4, <2>5
  <1>8. CASE t = hydrate(u, d.project, FALSE)
    <2>1. t \in StoreState /\ SameEdits(u, t)
      BY <1>1, <1>6, <1>8, HydrateTyped
    <2> QED
      BY <1>3, <1>6, <2>1 DEF SameEdits
  <1>9. CASE t = [u EXCEPT !.call = Sent(@, [to |-> "refresh", project |-> d.project,
                                             files |-> s.form.session])]
    <2>1. PICK r : r = [to |-> "refresh", project |-> d.project, files |-> s.form.session]
      OBVIOUS
    <2>2. Sent(s.call, r) \in StoreCalls
      BY <1>1, <2>1, RequestsTyped, SentTyped
    <2>3. t = [form |-> g, call |-> Sent(s.call, r), timers |-> s.timers]
      BY <1>5, <1>9, <2>1
    <2> QED
      BY <1>1, <1>3, <2>2, <2>3 DEF StoreState
  <1>10. CASE t = Retried(u)
    BY <1>1, <1>3, <1>6, <1>10, RetriedTyped DEF SameEdits
  <1>11. CASE t = u
    BY <1>3, <1>6, <1>11
  <1> QED
    BY <1>7, <1>8, <1>9, <1>10, <1>11

LEMMA HydrateErrorTyped ==
  ASSUME NEW s \in StoreState, NEW t, t = HydrateError(s)
  PROVE  t \in StoreState /\ SameEdits(s, t)
  <1>1. /\ s.form \in FormType /\ s.call \in StoreCalls /\ s.timers \in [Projects -> Nat]
        /\ s = [form |-> s.form, call |-> s.call, timers |-> s.timers]
        /\ s.form.project \in Projects \union {NoProject}
    BY DEF StoreState, FormType
  <1>2. PICK f : f = [s.form EXCEPT !.hydrating = FALSE, !.pending = FALSE]
    OBVIOUS
  <1>3. PICK u : u = [s EXCEPT !.form.hydrating = FALSE, !.form.pending = FALSE]
    OBVIOUS
  <1>4. u = [form |-> f, call |-> s.call, timers |-> s.timers]
    BY <1>1, <1>2, <1>3 DEF FormType
  <1>5. /\ f \in FormType /\ f.answers = s.form.answers /\ f.dirty = s.form.dirty
        /\ f.project = s.form.project
    BY <1>1, <1>2 DEF FormType
  <1>6. u \in StoreState /\ u.form = f /\ SameEdits(s, u)
    BY <1>1, <1>4, <1>5 DEF StoreState, SameEdits
  <1>7. \/ t = u
        \/ /\ s.form.project # NoProject
           /\ t = hydrate(u, s.form.project, FALSE) \/ t = Retried(u)
    BY <1>3 DEF HydrateError
  <1> QED
    BY <1>1, <1>5, <1>6, <1>7, HydrateTyped, RetriedTyped DEF SameEdits

-----------------------------------------------------------------------------
(* Requests on their way                                                    *)

LEMMA StageOfStoreCall ==
  ASSUME call \in StoreCalls, NEW k \in Calls
  PROVE  /\ call[k].stage \in {"sent", "left"} => call[k] \in StoreWaiting
         /\ call[k].stage = "served" => call[k] \in StoreServed
         /\ call[k].stage \in {"sent", "left", "served"} =>
              call[k] # Idle /\ call[k].of \in StoreRequests
  BY DEF StoreCalls, StoreWaiting, StoreServed, Idle

LEMMA RestTyped ==
  ASSUME call \in StoreCalls, NEW k \in Calls
  PROVE  /\ Without(k) \in StoreCalls
         /\ \A c \in Abandoned(k) : c \in StoreCalls
  <1>1. Without(k) \in StoreCalls
    BY DEF Without, StoreCalls
  <1>2. CASE call[k].stage = "sent"
    <2>1. PICK r : r = [call[k] EXCEPT !.stage = "left"]
      OBVIOUS
    <2>2. r \in StoreWaiting
      BY <1>2, <2>1, StageOfStoreCall DEF StoreWaiting
    <2>3. [call EXCEPT ![k].stage = "left"] \in StoreCalls
      BY <2>1, <2>2 DEF StoreCalls
    <2> QED
      BY <1>1, <2>3 DEF Abandoned
  <1> QED
    BY <1>1, <1>2 DEF Abandoned

LEMMA AnswerTyped ==
  ASSUME call \in StoreCalls, NEW k \in Calls, NEW a \in StoreAnswers,
         call[k].stage \in {"sent", "left"}, AnswersTo(call[k].of.to, a), Answer(k, a)
  PROVE  call' \in StoreCalls
  <1>1. CASE call[k].stage = "left"
    BY <1>1, RestTyped DEF Answer
  <1>2. CASE call[k].stage # "left"
    <2>1. PICK c : c = [stage |-> "served", of |-> call[k].of, tries |-> call[k].tries, answer |-> a]
      OBVIOUS
    <2>2. c \in StoreServed
      BY <2>1, StageOfStoreCall DEF StoreWaiting, StoreServed
    <2>3. call' = [call EXCEPT ![k] = c]
      BY <1>2, <2>1 DEF Answer
    <2> QED
      BY <2>2, <2>3 DEF StoreCalls
  <1> QED
    BY <1>1, <1>2

LEMMA LostTyped ==
  ASSUME call \in StoreCalls, NEW k \in Calls, Lost(k)
  PROVE  call' \in StoreCalls
  <1>1. call[k].of \in StoreRequests /\ call[k].tries \in Nat
    BY StageOfStoreCall DEF Lost, Resent, StoreWaiting, StoreServed
  <1>2. PICK r : r = [Request(call[k].of) EXCEPT !.tries = call[k].tries + 1]
    OBVIOUS
  <1>3. r \in StoreWaiting
    BY <1>1, <1>2 DEF Request, StoreWaiting
  <1> QED
    BY <1>2, <1>3 DEF Lost, Resent, StoreCalls

-----------------------------------------------------------------------------
(* What the server writes and answers                                       *)

Workspaces ==
  [answers : Answers, evidence : SUBSET Files,
   suggestions : [Questions -> Suggestions \union {NoSuggestion}]]

LEMMA DataTyped ==
  ASSUME NEW p \in Projects, NEW w \in Workspaces
  PROVE  Pending(w) \in Answers /\ Data(p, w) \in ServerData
  <1>1. Pending(w) \in Answers
    BY DEF Pending, Answers, Workspaces, Suggestions, NoSuggestion
  <1> QED
    BY <1>1 DEF Data, ServerData, Workspaces

LEMMA PrunedTyped ==
  ASSUME NEW w \in Workspaces
  PROVE  Pruned(w) \in Workspaces
  <1>1. PICK s : s = [q \in Questions |-> IF w.suggestions[q].value = w.answers[q] THEN NoSuggestion
                                          ELSE w.suggestions[q]]
    OBVIOUS
  <1>2. s \in [Questions -> Suggestions \union {NoSuggestion}]
    BY <1>1 DEF Workspaces
  <1> QED
    BY <1>1, <1>2 DEF Pruned, Workspaces

LEMMA SavedTyped ==
  ASSUME NEW w \in Workspaces, NEW answers \in Answers
  PROVE  SavedWorkspace(w, answers) \in Workspaces
  <1>1. PICK a : a = [q \in Questions |-> IF answers[q] = NoAnswer THEN w.answers[q] ELSE answers[q]]
    OBVIOUS
  <1>2. a \in Answers
    BY <1>1 DEF Answers, Workspaces
  <1>3. [w EXCEPT !.answers = a] \in Workspaces
    BY <1>2 DEF Workspaces
  <1> QED
    BY <1>1, <1>3, PrunedTyped DEF SavedWorkspace

LEMMA ReviewedTyped ==
  ASSUME NEW w \in Workspaces, NEW accept \in BOOLEAN, NEW scope
  PROVE  ReviewedWorkspace(w, accept, scope) \in Workspaces
  <1>1. PICK reviewed : reviewed = {q \in scope : w.suggestions[q].status = "pending"}
    OBVIOUS
  <1>2. PICK a : a = [q \in Questions |-> IF q \in reviewed THEN w.suggestions[q].value ELSE w.answers[q]]
    OBVIOUS
  <1>3. PICK s : s = [q \in Questions |-> IF q \in reviewed THEN NoSuggestion ELSE w.suggestions[q]]
    OBVIOUS
  <1>4. PICK t : t = [q \in Questions |-> IF q \in reviewed THEN [w.suggestions[q] EXCEPT !.status = "rejected"]
                                          ELSE w.suggestions[q]]
    OBVIOUS
  <1>5. a \in Answers
    BY <1>2 DEF Answers, Workspaces, Suggestions, NoSuggestion
  <1>6. s \in [Questions -> Suggestions \union {NoSuggestion}]
    BY <1>3 DEF Workspaces
  <1>7. t \in [Questions -> Suggestions \union {NoSuggestion}]
    <2>1. ASSUME NEW q \in Questions
          PROVE  t[q] \in Suggestions \union {NoSuggestion}
      BY <1>1, <1>4 DEF Workspaces, Suggestions, NoSuggestion
    <2> QED
      BY <1>4, <2>1
  <1>8. /\ [w EXCEPT !.answers = a, !.suggestions = s] \in Workspaces
        /\ [w EXCEPT !.suggestions = t] \in Workspaces
    BY <1>5, <1>6, <1>7 DEF Workspaces
  <1>9. ReviewedWorkspace(w, accept, scope)
          = Pruned(IF accept THEN [w EXCEPT !.answers = a, !.suggestions = s]
                   ELSE [w EXCEPT !.suggestions = t])
    BY <1>1, <1>2, <1>3, <1>4 DEF ReviewedWorkspace
  <1> QED
    BY <1>8, <1>9, PrunedTyped

LEMMA RefreshedTyped ==
  ASSUME NEW w \in Workspaces, NEW q \in Questions, NEW v \in Values
  PROVE  RefreshedWorkspace(w, q, v) \in Workspaces
  <1>1. PICK s : s = [w.suggestions EXCEPT ![q] = [value |-> v, status |-> "pending"]]
    OBVIOUS
  <1>2. s \in [Questions -> Suggestions \union {NoSuggestion}]
    BY <1>1 DEF Workspaces, Suggestions
  <1>3. [w EXCEPT !.suggestions = s] \in Workspaces
    BY <1>2 DEF Workspaces
  <1> QED
    BY <1>1, <1>3, PrunedTyped DEF RefreshedWorkspace

-----------------------------------------------------------------------------
(* Every step keeps the types, and what is shown of the unsaved answers     *)

StoreTypes == StoreTypeOK /\ call \in StoreCalls
\* What a step does to the edits, unless it takes another page's answer for its own.
EditsKept == \A q \in unsaved' : (q \in unsaved => AsTyped(q)) => AsTyped(q)'
StepKeeps == StoreTypes' /\ EditsKept

LEMMA StoreOfTypes ==
  ASSUME StoreTypes
  PROVE  /\ Store \in StoreState /\ Store.form = form /\ Store.call = call /\ Store.timers = timers
         /\ \A k \in Calls : Returned(k) \in StoreState /\ Returned(k).form = form
         /\ workspace \in [Projects -> Workspaces]
  <1>1. Store \in StoreState /\ Store.form = form /\ Store.call = call /\ Store.timers = timers
    BY DEF StoreTypes, StoreTypeOK, Store, StoreState
  <1>2. ASSUME NEW k \in Calls
        PROVE  Returned(k) \in StoreState /\ Returned(k).form = form
    BY <1>1, RestTyped DEF StoreTypes, Returned, StoreState, Store
  <1>3. workspace \in [Projects -> Workspaces]
    BY DEF StoreTypes, StoreTypeOK, Workspaces
  <1> QED
    BY <1>1, <1>2, <1>3

\* A step of the store that leaves the page, the server and the history alone.
LEMMA StoreStepTyped ==
  ASSUME StoreTypes, NEW s \in StoreState, StoreAfter(s),
         page' \in Projects \union {NoProject}, workspace' \in [Projects -> Workspaces],
         typed' \in Answers, unsaved' \subseteq Questions, acts' \in Nat
  PROVE  StoreTypes'
  <1>1. s.form \in FormType /\ s.call \in StoreCalls /\ s.timers \in [Projects -> Nat]
    BY DEF StoreState
  <1>2. form' = s.form /\ call' = s.call /\ timers' = s.timers
    BY DEF StoreAfter
  <1> QED
    BY <1>1, <1>2 DEF StoreTypes, StoreTypeOK, Workspaces

LEMMA InitialFormTyped == InitialForm \in FormType
  <1>1. 0 \in 0..SESSION_HYDRATE_MAX_RETRIES
    BY StoreAssumption
  <1>2. Blank \in Answers
    BY DEF Blank, Answers
  <1> QED
    BY <1>1, <1>2 DEF InitialForm, FormType, SaveStatus

LEMMA StoreInitially == StoreInit => StoreTypes
  <1> SUFFICES ASSUME StoreInit PROVE StoreTypes
    OBVIOUS
  <1>1. Blank \in Answers
    BY DEF Blank, Answers
  <1>2. acts \in Nat /\ unsaved = {} /\ typed \in Answers /\ page = NoProject /\ form \in FormType
    BY <1>1, InitialFormTyped DEF StoreInit
  <1>3. timers \in [Projects -> Nat]
    BY DEF StoreInit
  <1>4. workspace \in [Projects -> Workspaces]
    BY <1>1 DEF StoreInit, Workspaces
  <1>5. call \in StoreCalls
    BY DEF StoreInit, ApiInit, StoreCalls
  <1> QED
    BY <1>2, <1>3, <1>4, <1>5 DEF StoreTypes, StoreTypeOK, Workspaces

LEMMA UserActsKeep ==
  ASSUME StoreTypes, UserActs
  PROVE  StepKeeps
  <1>1. StoreTypes /\ workspace \in [Projects -> Workspaces] /\ Store \in StoreState
    BY StoreOfTypes
  <1>2. Blank \in Answers
    BY DEF Blank, Answers
  <1>3. /\ page \in Projects \union {NoProject} /\ typed \in Answers /\ unsaved \subseteq Questions
        /\ acts \in Nat /\ form \in FormType /\ timers \in [Projects -> Nat] /\ call \in StoreCalls
    BY <1>1 DEF StoreTypes, StoreTypeOK
  <1>4. ASSUME NEW p \in Projects, Open(p)
        PROVE  StepKeeps
    <2>1. PICK s : s = [Store EXCEPT !.form = Unmounted]
      OBVIOUS
    <2>2. s \in StoreState
      BY <1>1, <1>3, <2>1, InitialFormTyped DEF Unmounted, StoreState
    <2>3. PICK t : t = hydrate(s, p, FALSE)
      OBVIOUS
    <2>4. t \in StoreState
      BY <2>2, <2>3, HydrateTyped
    <2>5. /\ StoreAfter(t) /\ page' = p /\ typed' = Blank /\ unsaved' = {} /\ workspace' = workspace
          /\ acts' = acts + 1
      BY <1>4, <2>1, <2>3 DEF Open, Acting
    <2>6. StoreTypes'
      BY <1>1, <1>2, <1>3, <2>4, <2>5, StoreStepTyped
    <2> QED
      BY <2>5, <2>6 DEF StepKeeps, EditsKept, AsTyped
  <1>5. ASSUME Leave
        PROVE  StepKeeps
    BY <1>1, <1>2, <1>3, <1>5, InitialFormTyped
       DEF Leave, Acting, Unmounted, StepKeeps, EditsKept, AsTyped, StoreTypes, StoreTypeOK
  <1>6. ASSUME NEW q \in Questions, NEW v \in Values, updateQuestionnaireAnswer(q, v)
        PROVE  StepKeeps
    <2>1. PICK a : a = [form.answers EXCEPT ![q] = v]
      OBVIOUS
    <2>2. form' = [form EXCEPT !.answers = a, !.dirty = TRUE, !.saveStatus = "idle"]
      BY <1>6, <2>1 DEF updateQuestionnaireAnswer
    <2>3. a \in Answers /\ a[q] = v /\ \A r \in Questions \ {q} : a[r] = form.answers[r]
      BY <1>3, <2>1 DEF FormType, Answers
    <2>4. form' \in FormType /\ form'.answers = a /\ form'.dirty
      BY <1>3, <2>2, <2>3 DEF FormType, SaveStatus
    <2>5. /\ typed' \in Answers /\ typed'[q] = v /\ \A r \in Questions \ {q} : typed'[r] = typed[r]
          /\ unsaved' = unsaved \union {q} /\ acts' \in Nat
          /\ UNCHANGED <<page, call, timers, workspace>>
      BY <1>3, <1>6 DEF updateQuestionnaireAnswer, Acting, Answers
    <2>6. StoreTypes'
      BY <1>1, <1>3, <2>4, <2>5 DEF StoreTypes, StoreTypeOK
    <2>7. ASSUME NEW r \in unsaved', r \in unsaved => AsTyped(r)
          PROVE  AsTyped(r)'
      BY <1>3, <2>3, <2>4, <2>5, <2>7 DEF AsTyped
    <2> QED
      BY <2>6, <2>7 DEF StepKeeps, EditsKept
  <1>7. ASSUME NEW accept \in BOOLEAN, NEW scope \in Scopes,
               reviewQuestionnaireSuggestions(accept, scope)
        PROVE  StepKeeps
    <2>1. scope \in SUBSET Questions /\ Targets(form.suggestions, scope) \in SUBSET Questions
      BY DEF Scopes, Targets
    <2>2. PICK r : r = [to |-> "review", project |-> page, accept |-> accept, scope |-> scope,
                        targets |-> Targets(form.suggestions, scope)]
      OBVIOUS
    <2>3. r \in StoreRequests
      BY <1>3, <1>7, <2>1, <2>2 DEF reviewQuestionnaireSuggestions, StoreRequests
    <2>4. /\ call' = Sent(call, r) /\ form' = [form EXCEPT !.reviewStatus = "saving"]
          /\ acts' \in Nat /\ UNCHANGED <<page, timers, workspace, typed, unsaved>>
      BY <1>3, <1>7, <2>2 DEF reviewQuestionnaireSuggestions, Acting
    <2>5. call' \in StoreCalls
      BY <1>3, <2>3, <2>4, SentTyped
    <2>6. form' \in FormType /\ form'.answers = form.answers /\ form'.dirty = form.dirty
      BY <1>3, <2>4 DEF FormType, SaveStatus
    <2> QED
      BY <1>1, <2>4, <2>5, <2>6 DEF StepKeeps, EditsKept, AsTyped, StoreTypes, StoreTypeOK
  <1>8. ASSUME NEW files \in SUBSET Files, uploadQuickCaptureBatch(files)
        PROVE  StepKeeps
    <2>1. PICK r : r = [to |-> "upload", project |-> page, files |-> files]
      OBVIOUS
    <2>2. /\ call' = Sent(call, r) /\ r \in StoreRequests
          /\ acts' \in Nat /\ UNCHANGED <<page, form, timers, workspace, typed, unsaved>>
      BY <1>3, <1>8, <2>1 DEF uploadQuickCaptureBatch, Acting, StoreRequests
    <2>3. call' \in StoreCalls
      BY <1>3, <2>2, SentTyped
    <2> QED
      BY <1>1, <2>2, <2>3 DEF StepKeeps, EditsKept, AsTyped, StoreTypes, StoreTypeOK
  <1> QED
    BY <1>4, <1>5, <1>6, <1>7, <1>8 DEF UserActs

LEMMA PageKeeps ==
  ASSUME StoreTypes, saveQuestionnaireAnswers \/ \E p \in Projects : RetryTimer(p)
  PROVE  StepKeeps
  <1>1. StoreTypes /\ workspace \in [Projects -> Workspaces] /\ Store \in StoreState /\ Store.form = form
        /\ Store.call = call /\ Store.timers = timers
    BY StoreOfTypes
  <1>2. /\ page \in Projects \union {NoProject} /\ typed \in Answers /\ unsaved \subseteq Questions
        /\ acts \in Nat /\ form \in FormType /\ timers \in [Projects -> Nat] /\ call \in StoreCalls
    BY <1>1 DEF StoreTypes, StoreTypeOK
  <1>3. ASSUME saveQuestionnaireAnswers
        PROVE  StepKeeps
    <2>1. PICK r : r = [to |-> "save", project |-> page, answers |-> form.answers]
      OBVIOUS
    <2>2. r \in StoreRequests
      BY <1>2, <1>3, <2>1
         DEF saveQuestionnaireAnswers, AutosaveArmed, StoreRequests, FormType
    <2>3. /\ call' = Sent(call, r) /\ form' = [form EXCEPT !.saveStatus = "saving"]
          /\ UNCHANGED <<page, timers, workspace, typed, unsaved, acts>>
      BY <1>3, <2>1 DEF saveQuestionnaireAnswers
    <2>4. call' \in StoreCalls
      BY <1>2, <2>2, <2>3, SentTyped
    <2>5. form' \in FormType /\ form'.answers = form.answers /\ form'.dirty = form.dirty
      BY <1>2, <2>3 DEF FormType, SaveStatus
    <2> QED
      BY <1>1, <2>3, <2>4, <2>5 DEF StepKeeps, EditsKept, AsTyped, StoreTypes, StoreTypeOK
  <1>4. ASSUME NEW p \in Projects, RetryTimer(p)
        PROVE  StepKeeps
    <2>1. PICK s : s = [Store EXCEPT !.timers[p] = @ - 1]
      OBVIOUS
    <2>2. s \in StoreState /\ s.form = form
      <3>1. PICK t : t = [timers EXCEPT ![p] = @ - 1]
        OBVIOUS
      <3>2. t \in [Projects -> Nat]
        BY <1>2, <1>4, <3>1 DEF RetryTimer
      <3>3. s = [form |-> form, call |-> call, timers |-> t]
        BY <2>1, <3>1 DEF Store
      <3> QED
        BY <1>2, <3>2, <3>3 DEF StoreState
    <2>3. PICK t : t = IF form.needed /\ form.project = p THEN hydrate(s, p, FALSE) ELSE s
      OBVIOUS
    <2>4. t \in StoreState /\ t.form.answers = form.answers /\ t.form.dirty = form.dirty
      <3>1. PICK u : u = hydrate(s, p, FALSE)
        OBVIOUS
      <3>2. u \in StoreState /\ SameEdits(s, u)
        BY <2>2, <3>1, HydrateTyped
      <3> QED
        BY <2>2, <2>3, <3>1, <3>2 DEF SameEdits
    <2>5. StoreAfter(t) /\ UNCHANGED <<page, workspace, typed, unsaved, acts>>
      BY <1>4, <2>1, <2>3 DEF RetryTimer
    <2>6. StoreTypes'
      BY <1>1, <1>2, <2>4, <2>5, StoreStepTyped
    <2> QED
      BY <2>4, <2>5, <2>6 DEF StepKeeps, EditsKept, AsTyped, StoreAfter
  <1> QED
    BY <1>3, <1>4

LEMMA WrittenKeeps ==
  ASSUME StoreTypes, NEW k \in Calls, NEW w \in Workspaces, NEW a \in StoreAnswers,
         call[k].stage \in {"sent", "left"}, AnswersTo(call[k].of.to, a), Written(k, w, a)
  PROVE  StepKeeps
  <1>1. call' \in StoreCalls
    BY AnswerTyped DEF StoreTypes, Written
  <1>2. workspace' \in [Projects -> Workspaces]
    BY StoreOfTypes DEF Written
  <1>3. UNCHANGED <<page, form, timers, typed, unsaved, acts>>
    BY DEF Written
  <1> QED
    BY <1>1, <1>2, <1>3 DEF StepKeeps, EditsKept, AsTyped, StoreTypes, StoreTypeOK, Workspaces

LEMMA ServesKeep ==
  ASSUME StoreTypes, NEW k \in Calls, StoreServes(k)
  PROVE  StepKeeps
  <1> DEFINE p == call[k].of.project
             w0 == workspace[p]
  <1>1. call[k].stage \in {"sent", "left"}
    BY DEF StoreServes, ServeHydrate, ServeSave, ServeReview, ServeUpload, ServeRefresh, AtServer
  <1>2. call[k].of \in StoreRequests
    BY <1>1, StageOfStoreCall DEF StoreTypes
  <1>3. p \in Projects /\ w0 \in Workspaces
    BY <1>2, StoreOfTypes DEF StoreRequests
  <1> HIDE DEF p, w0
  <1>4. ASSUME ServeHydrate(k)
        PROVE  StepKeeps
    <2>1. call[k].of.to = "hydrate" /\ Written(k, w0, Data(p, w0))
      BY <1>4 DEF ServeHydrate, AtServer, p, w0
    <2>2. Data(p, w0) \in ServerData
      BY <1>3, DataTyped
    <2> QED
      BY <1>1, <1>3, <2>1, <2>2, WrittenKeeps DEF AnswersTo, StoreAnswers
  <1>5. ASSUME ServeSave(k)
        PROVE  StepKeeps
    <2>1. PICK w : w = SavedWorkspace(w0, call[k].of.answers)
      OBVIOUS
    <2>2. call[k].of.to = "save" /\ Written(k, w, Data(p, w))
      BY <1>5, <2>1 DEF ServeSave, AtServer, p, w0
    <2>3. call[k].of.answers \in Answers
      BY <1>2, <2>2 DEF StoreRequests
    <2>4. w \in Workspaces /\ Data(p, w) \in ServerData
      BY <1>3, <2>1, <2>3, SavedTyped, DataTyped
    <2> QED
      BY <1>1, <2>2, <2>4, WrittenKeeps DEF AnswersTo, StoreAnswers
  <1>6. ASSUME ServeReview(k)
        PROVE  StepKeeps
    <2>1. PICK w : w = ReviewedWorkspace(w0, call[k].of.accept, call[k].of.scope)
      OBVIOUS
    <2>2. PICK ignored : ignored = IF Cardinality(call[k].of.scope) > 1 THEN {}
                                   ELSE {q \in call[k].of.scope : w0.suggestions[q].status # "pending"}
      OBVIOUS
    <2>3. call[k].of.to = "review" /\ Written(k, w, [data |-> Data(p, w), ignored |-> ignored])
      BY <1>6, <2>1, <2>2 DEF ServeReview, AtServer, p, w0
    <2>4. call[k].of.accept \in BOOLEAN /\ call[k].of.scope \in SUBSET Questions
      BY <1>2, <2>3 DEF StoreRequests
    <2>5. w \in Workspaces /\ Data(p, w) \in ServerData
      BY <1>3, <2>1, <2>4, ReviewedTyped, DataTyped
    <2>6. [data |-> Data(p, w), ignored |-> ignored] \in ReviewData
      BY <2>2, <2>4, <2>5 DEF ReviewData
    <2> QED
      BY <1>1, <2>3, <2>5, <2>6, WrittenKeeps DEF AnswersTo, StoreAnswers
  <1>7. ASSUME ServeUpload(k)
        PROVE  StepKeeps
    <2>1. PICK w : w = [w0 EXCEPT !.evidence = @ \union call[k].of.files]
      OBVIOUS
    <2>2. call[k].of.to = "upload" /\ Written(k, w, w.evidence)
      BY <1>7, <2>1 DEF ServeUpload, AtServer, p, w0
    <2>3. call[k].of.files \in SUBSET Files
      BY <1>2, <2>2 DEF StoreRequests
    <2>4. w \in Workspaces /\ w.evidence \in SUBSET Files
      BY <1>3, <2>1, <2>3 DEF Workspaces
    <2> QED
      BY <1>1, <2>2, <2>4, WrittenKeeps DEF AnswersTo, StoreAnswers
  <1>8. ASSUME ServeRefresh(k)
        PROVE  StepKeeps
    <2>1. PICK w : /\ call[k].of.to = "refresh" /\ Written(k, w, Pending(w))
                   /\ w = w0 \/ \E q \in Questions, v \in Values : w = RefreshedWorkspace(w0, q, v)
      BY <1>8 DEF ServeRefresh, AtServer, p, w0
    <2>2. w \in Workspaces /\ Pending(w) \in Answers
      BY <1>3, <2>1, RefreshedTyped, DataTyped
    <2> QED
      BY <1>1, <2>1, <2>2, WrittenKeeps DEF AnswersTo, StoreAnswers
  <1> QED
    BY <1>4, <1>5, <1>6, <1>7, <1>8 DEF StoreServes

\* What the store is given when an answer or an error comes: the edits as they are.
LEMMA SameEditsKeep ==
  ASSUME StoreTypes, NEW s \in StoreState, StoreAfter(s),
         form.dirty => s.form.dirty /\ s.form.answers = form.answers,
         UNCHANGED <<page, workspace, typed, unsaved, acts>>
  PROVE  StepKeeps
  <1>1. StoreTypes /\ workspace \in [Projects -> Workspaces] /\ StoreTypeOK
    BY StoreOfTypes DEF StoreTypes
  <1>2. StoreTypes'
    BY <1>1, StoreStepTyped DEF StoreTypeOK
  <1> QED
    BY <1>2 DEF StepKeeps, EditsKept, AsTyped, StoreAfter

LEMMA HydrateReturns ==
  ASSUME StoreTypes, NEW k \in Calls, HydrateAnswered(k) \/ HydrateFailed(k)
  PROVE  StepKeeps
  <1> DEFINE r == call[k].of
             s == Returned(k)
  <1>1. call[k].stage \in {"sent", "served"} /\ r.to = "hydrate"
    BY DEF HydrateAnswered, HydrateFailed, Served, Fails
  <1>2. r \in StoreRequests /\ r.project \in Projects
    BY <1>1, StageOfStoreCall DEF StoreTypes, StoreRequests
  <1>3. s \in StoreState /\ s.form = form
    BY StoreOfTypes
  <1>4. PICK t : /\ \/ t = applyHydrateData(s, call[k].answer) /\ HydrateAnswered(k)
                    \/ t = HydrateError(s) /\ HydrateFailed(k)
                 /\ StoreAfter(Recaptured(t, r))
                 /\ UNCHANGED <<page, workspace, typed, unsaved, acts>>
    BY DEF HydrateAnswered, HydrateFailed
  <1>5. t \in StoreState /\ t.form.dirty = form.dirty /\ (form.dirty => t.form.answers = form.answers)
    <2>1. CASE t = applyHydrateData(s, call[k].answer) /\ HydrateAnswered(k)
      <3>1. call[k].answer \in ServerData
        BY <1>1, <2>1, StageOfStoreCall
           DEF HydrateAnswered, Served, StoreTypes, StoreServed, AnswersTo
      <3> HIDE DEF s
      <3> QED
        BY <1>3, <2>1, <3>1, ApplyTyped
    <2>2. CASE t = HydrateError(s)
      <3> HIDE DEF s
      <3>1. t \in StoreState /\ SameEdits(s, t)
        BY <1>3, <2>2, HydrateErrorTyped
      <3> QED
        BY <1>3, <3>1 DEF SameEdits
    <2> QED
      BY <1>4, <2>1, <2>2
  <1>6. PICK u : u = Recaptured(t, r)
    OBVIOUS
  <1>7. u \in StoreState /\ SameEdits(t, u)
    <2>1. PICK v : v = hydrate(t, r.project, FALSE)
      OBVIOUS
    <2>2. v \in StoreState /\ SameEdits(t, v)
      BY <1>2, <1>5, <2>1, HydrateTyped
    <2> QED
      BY <1>5, <1>6, <2>1, <2>2 DEF Recaptured, SameEdits
  <1>8. form.dirty => u.form.dirty /\ u.form.answers = form.answers
    BY <1>5, <1>7 DEF SameEdits
  <1> QED
    BY <1>4, <1>6, <1>7, <1>8, SameEditsKeep

LEMMA SaveReturns ==
  ASSUME StoreTypes, NEW k \in Calls, SaveAnswered(k) \/ SaveFailed(k)
  PROVE  StoreTypes' /\ (EditsKept \/ TakenForOwn(k))
  <1>1. /\ page \in Projects \union {NoProject} /\ typed \in Answers /\ unsaved \subseteq Questions
        /\ acts \in Nat /\ form \in FormType /\ timers \in [Projects -> Nat] /\ call \in StoreCalls
        /\ workspace \in [Projects -> Workspaces] /\ StoreTypes
    BY StoreOfTypes DEF StoreTypes, StoreTypeOK
  <1>2. ASSUME SaveAnswered(k)
        PROVE  StoreTypes' /\ (EditsKept \/ TakenForOwn(k))
    <2> DEFINE answers == call[k].of.answers
    <2>1. PICK f : f = [form EXCEPT !.saveStatus = "saved"]
      OBVIOUS
    <2>2. PICK s : s = [Returned(k) EXCEPT !.form.saveStatus = "saved"]
      OBVIOUS
    <2>3. f \in FormType /\ f.answers = form.answers /\ f.dirty = form.dirty
      BY <1>1, <2>1 DEF FormType, SaveStatus
    <2>4. s = [form |-> f, call |-> Without(k), timers |-> timers]
      BY <2>1, <2>2 DEF Returned, Store
    <2>5. s \in StoreState /\ s.form = f
      BY <1>1, <2>3, <2>4, RestTyped DEF StoreState
    <2>6. /\ unsaved' = IF OfThisPage(k) THEN {q \in unsaved : answers[q] # typed[q]} ELSE unsaved
          /\ unsaved' \subseteq unsaved /\ UNCHANGED <<page, workspace, typed, acts>>
      BY <1>2 DEF SaveAnswered
    <2>7. CASE valuesStillMatch(answers)
      <3>1. EditsKept \/ TakenForOwn(k)
        <4>1. CASE OfThisPage(k)
          <5>1. \A q \in unsaved' : q \in unsaved /\ ~AsTyped(q)
            BY <2>6, <2>7, <4>1 DEF valuesStillMatch, AsTyped
          <5> QED
            BY <5>1 DEF EditsKept
        <4>2. CASE ~OfThisPage(k)
          <5>1. call[k] # Idle
            BY <1>2 DEF SaveAnswered, Served, Idle
          <5> QED
            BY <1>2, <2>7, <4>2, <5>1 DEF TakenForOwn
        <4> QED
          BY <4>1, <4>2
      <3>2. PICK g : g = [f EXCEPT !.dirty = FALSE]
        OBVIOUS
      <3>3. PICK t : t = [s EXCEPT !.form.dirty = FALSE]
        OBVIOUS
      <3>4. g \in FormType /\ t = [form |-> g, call |-> Without(k), timers |-> timers]
        BY <2>3, <2>4, <3>2, <3>3 DEF FormType
      <3>5. t \in StoreState
        BY <1>1, <3>4, RestTyped DEF StoreState
      <3>6. call[k].answer \in ServerData
        BY <1>1, <1>2, StageOfStoreCall DEF SaveAnswered, Served, StoreServed, AnswersTo
      <3>7. PICK u : u = applyHydrateData(t, call[k].answer)
        OBVIOUS
      <3>8. u \in StoreState
        BY <3>5, <3>6, <3>7, ApplyTyped
      <3>9. StoreAfter(u)
        BY <1>2, <2>2, <2>7, <3>3, <3>7 DEF SaveAnswered
      <3>10. StoreTypes'
        BY <1>1, <2>6, <3>8, <3>9, StoreStepTyped
      <3> QED
        BY <3>1, <3>10
    <2>8. CASE ~valuesStillMatch(answers)
      <3>1. StoreAfter(s)
        BY <1>2, <2>2, <2>8 DEF SaveAnswered
      <3>2. StoreTypes'
        BY <1>1, <2>5, <2>6, <3>1, StoreStepTyped
      <3> QED
        BY <2>3, <2>5, <2>6, <3>1, <3>2 DEF EditsKept, AsTyped, StoreAfter
    <2> QED
      BY <2>7, <2>8
  <1>3. ASSUME SaveFailed(k)
        PROVE  StepKeeps
    <2>1. PICK c \in Abandoned(k) : /\ StoreAfter([Failed(c) EXCEPT !.form.saveStatus = "error"])
                                    /\ UNCHANGED <<page, workspace, typed, unsaved, acts>>
      BY <1>3 DEF SaveFailed
    <2>2. PICK f : f = [form EXCEPT !.saveStatus = "error"]
      OBVIOUS
    <2>3. f \in FormType /\ f.answers = form.answers /\ f.dirty = form.dirty
      BY <1>1, <2>2 DEF FormType, SaveStatus
    <2>4. PICK s : s = [Failed(c) EXCEPT !.form.saveStatus = "error"]
      OBVIOUS
    <2>5. s = [form |-> f, call |-> c, timers |-> timers]
      BY <2>2, <2>4 DEF Failed, Store
    <2>6. s \in StoreState /\ s.form = f
      BY <1>1, <2>1, <2>3, <2>5, RestTyped DEF StoreState
    <2> QED
      BY <2>1, <2>3, <2>4, <2>6, SameEditsKeep
  <1> QED
    BY <1>2, <1>3 DEF StepKeeps

LEMMA ReviewReturns ==
  ASSUME StoreTypes, NEW k \in Calls, ReviewAnswered(k) \/ ReviewFailed(k)
  PROVE  StoreTypes' /\ (EditsKept \/ TakenForOwn(k))
  <1>1. /\ page \in Projects \union {NoProject} /\ typed \in Answers /\ unsaved \subseteq Questions
        /\ acts \in Nat /\ form \in FormType /\ timers \in [Projects -> Nat] /\ call \in StoreCalls
        /\ workspace \in [Projects -> Workspaces] /\ StoreTypes
    BY StoreOfTypes DEF StoreTypes, StoreTypeOK
  <1>2. ASSUME ReviewAnswered(k)
        PROVE  StoreTypes' /\ (EditsKept \/ TakenForOwn(k))
    <2>1. call[k].answer \in ReviewData
      BY <1>1, <1>2, StageOfStoreCall DEF ReviewAnswered, Served, StoreServed, AnswersTo
    <2>2. PICK d : d = call[k].answer.data
      OBVIOUS
    <2>3. d \in ServerData /\ d.answers \in Answers
      BY <2>1, <2>2 DEF ReviewData, ServerData
    <2>4. PICK accepted : accepted = IF ~call[k].of.accept THEN {}
                     ELSE {q \in call[k].of.targets \ call[k].answer.ignored : d.answers[q] # NoAnswer}
      OBVIOUS
    <2>5. PICK a : a = [q \in Questions |-> IF q \in accepted THEN d.answers[q] ELSE form.answers[q]]
      OBVIOUS
    <2>6. a \in Answers
      BY <1>1, <2>3, <2>5 DEF Answers, FormType
    <2>7. PICK f : f = [form EXCEPT !.reviewStatus = "saved", !.answers = a]
      OBVIOUS
    <2>8. f \in FormType /\ f.answers = a /\ f.dirty = form.dirty
      BY <1>1, <2>6, <2>7 DEF FormType, SaveStatus
    <2>9. PICK s : s = [Returned(k) EXCEPT !.form.reviewStatus = "saved",
                          !.form.answers = [q \in Questions |-> IF q \in accepted THEN d.answers[q] ELSE @[q]]]
      OBVIOUS
    <2>10. s = [form |-> f, call |-> Without(k), timers |-> timers]
      BY <1>1, <2>5, <2>7, <2>9 DEF Returned, Store, FormType
    <2>11. s \in StoreState /\ s.form = f
      BY <1>1, <2>8, <2>10, RestTyped DEF StoreState
    <2>12. PICK u : u = applyHydrateData(s, d)
      OBVIOUS
    <2>13. /\ u \in StoreState /\ u.form.dirty = form.dirty
           /\ (form.dirty => u.form.answers = a)
      BY <2>3, <2>8, <2>11, <2>12, ApplyTyped
    <2>14. /\ StoreAfter(u)
           /\ typed' = [q \in Questions |-> IF OfThisPage(k) /\ q \in accepted THEN d.answers[q] ELSE typed[q]]
           /\ unsaved' = IF OfThisPage(k) THEN unsaved \ accepted ELSE unsaved
           /\ UNCHANGED <<page, workspace, acts>>
      BY <1>2, <2>2, <2>4, <2>9, <2>12 DEF ReviewAnswered
    <2>15. typed' \in Answers
      BY <1>1, <2>3, <2>14 DEF Answers
    <2>16. StoreTypes'
      BY <1>1, <2>13, <2>14, <2>15, StoreStepTyped
    <2>17. ASSUME OfThisPage(k) \/ ~call[k].of.accept, NEW q \in unsaved', q \in unsaved => AsTyped(q)
           PROVE  AsTyped(q)'
      <3>1. q \in unsaved /\ q \in Questions /\ q \notin accepted
        BY <1>1, <2>4, <2>14, <2>17
      <3>2. form.dirty /\ form.answers[q] = typed[q]
        BY <2>17, <3>1 DEF AsTyped
      <3>3. a[q] = form.answers[q] /\ typed'[q] = typed[q]
        BY <2>5, <2>14, <3>1
      <3> QED
        BY <2>13, <2>14, <3>2, <3>3 DEF AsTyped, StoreAfter
    <2>18. CASE OfThisPage(k) \/ ~call[k].of.accept
      BY <2>16, <2>17, <2>18 DEF EditsKept
    <2>19. CASE ~OfThisPage(k) /\ call[k].of.accept
      <3>1. call[k] # Idle
        BY <1>2 DEF ReviewAnswered, Served, Idle
      <3> QED
        BY <1>2, <2>16, <2>19, <3>1 DEF TakenForOwn
    <2> QED
      BY <2>18, <2>19
  <1>3. ASSUME ReviewFailed(k)
        PROVE  StepKeeps
    <2>1. PICK c \in Abandoned(k) : /\ StoreAfter([Failed(c) EXCEPT !.form.reviewStatus = "error"])
                                    /\ UNCHANGED <<page, workspace, typed, unsaved, acts>>
      BY <1>3 DEF ReviewFailed
    <2>2. PICK f : f = [form EXCEPT !.reviewStatus = "error"]
      OBVIOUS
    <2>3. f \in FormType /\ f.answers = form.answers /\ f.dirty = form.dirty
      BY <1>1, <2>2 DEF FormType, SaveStatus
    <2>4. PICK s : s = [Failed(c) EXCEPT !.form.reviewStatus = "error"]
      OBVIOUS
    <2>5. s = [form |-> f, call |-> c, timers |-> timers]
      BY <2>2, <2>4 DEF Failed, Store
    <2>6. s \in StoreState /\ s.form = f
      BY <1>1, <2>1, <2>3, <2>5, RestTyped DEF StoreState
    <2> QED
      BY <2>1, <2>3, <2>4, <2>6, SameEditsKeep
  <1> QED
    BY <1>2, <1>3 DEF StepKeeps

LEMMA UploadReturns ==
  ASSUME StoreTypes, NEW k \in Calls, UploadAnswered(k) \/ UploadFailed(k)
  PROVE  StepKeeps
  <1>1. form \in FormType /\ timers \in [Projects -> Nat] /\ call \in StoreCalls /\ StoreTypes
    BY DEF StoreTypes, StoreTypeOK
  <1>2. ASSUME UploadAnswered(k)
        PROVE  StepKeeps
    <2>1. PICK r : r = call[k].of
      OBVIOUS
    <2>2. r.project \in Projects /\ r.files \in SUBSET Files
      BY <1>1, <1>2, <2>1, StageOfStoreCall DEF UploadAnswered, Served, StoreRequests
    <2>3. PICK f : f = registerUploadedFile(form, r.files)
      OBVIOUS
    <2>4. 0 \in 0..SESSION_HYDRATE_MAX_RETRIES
      BY StoreAssumption
    <2>5. f \in FormType /\ f.answers = form.answers /\ f.dirty = form.dirty
      BY <1>1, <2>2, <2>3, <2>4 DEF registerUploadedFile, FormType
    <2>6. PICK s : s = [Returned(k) EXCEPT !.form = registerUploadedFile(@, r.files)]
      OBVIOUS
    <2>7. s = [form |-> f, call |-> Without(k), timers |-> timers]
      BY <2>3, <2>6 DEF Returned, Store
    <2>8. s \in StoreState /\ s.form = f
      BY <1>1, <2>5, <2>7, RestTyped DEF StoreState
    <2>9. PICK t : t = hydrate(s, r.project, TRUE)
      OBVIOUS
    <2>10. t \in StoreState /\ SameEdits(s, t)
      BY <2>2, <2>8, <2>9, HydrateTyped
    <2>11. StoreAfter(t) /\ UNCHANGED <<page, workspace, typed, unsaved, acts>>
      BY <1>2, <2>1, <2>6, <2>9 DEF UploadAnswered
    <2> QED
      BY <2>5, <2>8, <2>10, <2>11, SameEditsKeep DEF SameEdits
  <1>3. ASSUME UploadFailed(k)
        PROVE  StepKeeps
    BY <1>1, <1>3, RestTyped
       DEF UploadFailed, storeVars, StepKeeps, EditsKept, AsTyped, StoreTypes, StoreTypeOK
  <1> QED
    BY <1>2, <1>3

LEMMA RefreshReturns ==
  ASSUME StoreTypes, NEW k \in Calls, RefreshAnswered(k) \/ RefreshFailed(k)
  PROVE  StepKeeps
  <1>1. form \in FormType /\ timers \in [Projects -> Nat] /\ call \in StoreCalls /\ StoreTypes
    BY DEF StoreTypes, StoreTypeOK
  <1>2. ASSUME RefreshAnswered(k)
        PROVE  StepKeeps
    <2>1. PICK files : files = call[k].of.files
      OBVIOUS
    <2>2. call[k].answer \in Answers
      BY <1>1, <1>2, StageOfStoreCall DEF RefreshAnswered, Served, StoreServed, AnswersTo
    <2>3. PICK g : g = [form EXCEPT !.suggestions = call[k].answer]
      OBVIOUS
    <2>4. g \in FormType /\ g.answers = form.answers /\ g.dirty = form.dirty
      BY <1>1, <2>2, <2>3 DEF FormType
    <2>5. PICK f : f = clearUploadSessionSubset(g, files)
      OBVIOUS
    <2>6. 0 \in 0..SESSION_HYDRATE_MAX_RETRIES
      BY StoreAssumption
    <2>7. f \in FormType /\ f.answers = form.answers /\ f.dirty = form.dirty
      <3>1. CASE g.session \subseteq files
        BY <2>4, <2>5, <2>6, <3>1 DEF clearUploadSessionSubset, FormType
      <3>2. CASE ~(g.session \subseteq files)
        BY <2>4, <2>5, <3>2 DEF clearUploadSessionSubset, FormType
      <3> QED
        BY <3>1, <3>2
    <2>8. PICK s : s = [Returned(k) EXCEPT
              !.form = clearUploadSessionSubset([@ EXCEPT !.suggestions = call[k].answer], call[k].of.files)]
      OBVIOUS
    <2>9. s = [form |-> f, call |-> Without(k), timers |-> timers]
      BY <2>1, <2>3, <2>5, <2>8 DEF Returned, Store
    <2>10. s \in StoreState /\ s.form = f
      BY <1>1, <2>7, <2>9, RestTyped DEF StoreState
    <2>11. StoreAfter(s) /\ UNCHANGED <<page, workspace, typed, unsaved, acts>>
      BY <1>2, <2>8 DEF RefreshAnswered
    <2> QED
      BY <2>7, <2>10, <2>11, SameEditsKeep
  <1>3. ASSUME RefreshFailed(k)
        PROVE  StepKeeps
    <2>1. PICK c \in Abandoned(k) : /\ StoreAfter([Failed(c) EXCEPT !.form = GivenUp(@)])
                                    /\ UNCHANGED <<page, workspace, typed, unsaved, acts>>
      BY <1>3 DEF RefreshFailed
    <2>2. PICK f : f = GivenUp(form)
      OBVIOUS
    <2>3. PICK s : s = [Failed(c) EXCEPT !.form = GivenUp(@)]
      OBVIOUS
    <2>4. s = [form |-> f, call |-> c, timers |-> timers]
      BY <2>2, <2>3 DEF Failed, Store
    <2>5. f \in FormType /\ f.answers = form.answers /\ f.dirty = form.dirty
      BY <1>1, <2>2, GivenUpTyped
    <2>6. s \in StoreState /\ s.form = f
      BY <1>1, <2>1, <2>4, <2>5, RestTyped DEF StoreState
    <2> QED
      BY <2>1, <2>3, <2>5, <2>6, SameEditsKeep
  <1> QED
    BY <1>2, <1>3

LEMMA StoreStepsKeep ==
  ASSUME StoreTypes, [StoreNext]_<<apiVars, storeVars>>
  PROVE  StoreTypes' /\ (EditsKept \/ \E k \in Calls : TakenForOwn(k))
  <1>1. CASE UNCHANGED <<apiVars, storeVars>>
    BY <1>1 DEF apiVars, storeVars, EditsKept, AsTyped, StoreTypes, StoreTypeOK
  <1>2. CASE UserActs
    BY <1>2, UserActsKeep DEF StepKeeps
  <1>3. CASE saveQuestionnaireAnswers \/ \E p \in Projects : RetryTimer(p)
    BY <1>3, PageKeeps DEF StepKeeps
  <1>4. ASSUME NEW k \in Calls, StoreServes(k)
        PROVE  StepKeeps
    BY <1>4, ServesKeep
  <1>5. ASSUME NEW k \in Calls, StoreAnswered(k) \/ StoreFails(k)
        PROVE  StoreTypes' /\ (EditsKept \/ TakenForOwn(k))
    BY <1>5, HydrateReturns, SaveReturns, ReviewReturns, UploadReturns, RefreshReturns
       DEF StoreAnswered, StoreFails, StepKeeps
  <1>6. ASSUME NEW k \in Calls, Lost(k), UNCHANGED storeVars
        PROVE  StepKeeps
    BY <1>6, LostTyped DEF storeVars, StepKeeps, EditsKept, AsTyped, StoreTypes, StoreTypeOK
  <1> QED
    BY <1>1, <1>2, <1>3, <1>4, <1>5, <1>6 DEF StoreNext, StepKeeps

\* The store and the page keep their types (workspace-store.ts, StoreTypeOK).
THEOREM StoreTypeCorrect == StoreSpec => []StoreTypeOK
  <1>1. StoreTypes => StoreTypeOK
    BY DEF StoreTypes
  <1> QED
    BY StoreInitially, StoreStepsKeep, <1>1, PTL DEF StoreSpec

\* What the user has typed stays on the page, and marked, until a save of the page that
\* carried it has returned or the page is left, unless the store takes the answer to another
\* page's save or acceptance for its own (applyHydrateData, valuesStillMatch of workspace-store.ts).
THEOREM EditsAreKept == StoreSpec => UnsavedShown
  <1>1. ASSUME StoreTypes, [StoreNext]_<<apiVars, storeVars>>
        PROVE  [(\E k \in Calls : TakenForOwn(k)) \/ EditsKept]_<<apiVars, storeVars>>
    BY <1>1, StoreStepsKeep
  <1> QED
    BY StoreInitially, StoreStepsKeep, <1>1, PTL DEF StoreSpec, UnsavedShown, EditsKept

-----------------------------------------------------------------------------
(* The discovery wizard                                                     *)

Statuses == {"none", "draft", "processing"} \union TERMINAL_STATUSES
Snapshots == [status : Statuses, found : SUBSET Items]
Candidates == [Items -> {"absent", "pending", "confirmed", "skipped"}]
Draftings == [Items -> {"none", "draft", "created", "rejected"}]

\* Candidates that are shown as confirmed only where d has them created.
SoundCandidates(d) == {c \in Candidates : \A i \in Items : c[i] = "confirmed" => d[i] = "created"}

\* What is on its way when the server's drafts are d, and what is answered to it.
DecisionRequests(d) ==
  [to : {"decide"}, item : Items, action : {"confirm", "reject"}, shown : SoundCandidates(d)]
  \union [to : {"discard"}, item : Items, action : {"reject"}, awaited : BOOLEAN,
          shown : SoundCandidates(d)]

WizardRequests(d) ==
  [to : {"create"}]
  \union [to : {"sources", "start", "poll", "resume"}, session : Sessions]
  \union [to : {"confirm"}, session : Sessions, snapshot : Snapshots]
  \union [to : {"fetch"}, session : Sessions, resumed : BOOLEAN]
  \union [to : {"check"}, session : Sessions, dropped : BOOLEAN]
  \union DecisionRequests(d)

SoundAnswer(d, r, a) ==
  /\ r.to = "create" => a \in Sessions
  /\ r.to \in Reads => a \in Snapshots
  /\ r.to = "decide" /\ r.action = "confirm" /\ a = "done" => d[r.item] = "created"

WizardReplies == Sessions \union Snapshots \union {"added", "started", "done", "conflict"}

WizardWaiting(d) == [stage : {"sent", "left"}, of : WizardRequests(d), tries : Nat]
WizardServed(d) ==
  {c \in [stage : {"served"}, of : WizardRequests(d), tries : Nat, answer : WizardReplies] :
     SoundAnswer(d, c.of, c.answer)}
WizardCalls(d) == [Calls -> {Idle} \union WizardWaiting(d) \union WizardServed(d)]

Wizards(d) ==
  {w \in [open : BOOLEAN, phase : {"idle", "submitting", "processing", "no-results", "review", "complete", "error"},
          interval : Sessions \union {NoSession}, confirming : BOOLEAN, expired : BOOLEAN, resetDue : BOOLEAN,
          resume : Sessions \union {NoSession}, notice : [of : Sessions \union {NoSession}, mode : Modes],
          checking : BOOLEAN, candidates : SoundCandidates(d),
          modal : BOOLEAN, warning : BOOLEAN, mutating : Items \union {NoItem, Bulk},
          cached : [Sessions -> SUBSET SUBSET Items]] :
     w.notice.of = NoSession => w.notice.mode = "terminal"}

\* The inductive invariant: a candidate is shown as confirmed, also in the list a decision
\* on its way will show again, and a confirmation is answered as done, only where the
\* server has created the project; and only a check that ended offers to resume a session.
WizardInv ==
  /\ draft \in Draftings /\ session \in [Sessions -> Statuses] /\ clicks \in Nat
  /\ wizard \in Wizards(draft) /\ call \in WizardCalls(draft)

-----------------------------------------------------------------------------
(* Requests of the wizard                                                   *)

LEMMA WizardSentSound ==
  ASSUME NEW d, NEW c \in WizardCalls(d), NEW r \in WizardRequests(d)
  PROVE  Sent(c, r) \in WizardCalls(d)
  <1>1. Request(r) \in WizardWaiting(d)
    BY DEF Request, WizardWaiting
  <1> QED
    BY <1>1 DEF Sent, WizardCalls

LEMMA WizardRequestsMade ==
  ASSUME NEW d, NEW s \in Sessions
  PROVE  /\ [to |-> "create"] \in WizardRequests(d)
         /\ [to |-> "sources", session |-> s] \in WizardRequests(d)
         /\ [to |-> "start", session |-> s] \in WizardRequests(d)
         /\ [to |-> "poll", session |-> s] \in WizardRequests(d)
         /\ [to |-> "resume", session |-> s] \in WizardRequests(d)
         /\ \A snapshot \in Snapshots :
              [to |-> "confirm", session |-> s, snapshot |-> snapshot] \in WizardRequests(d)
         /\ \A resumed \in BOOLEAN :
              [to |-> "fetch", session |-> s, resumed |-> resumed] \in WizardRequests(d)
         /\ [to |-> "check", session |-> s, dropped |-> FALSE] \in WizardRequests(d)
  BY DEF WizardRequests

\* What the kind of a request says of the rest of it.
LEMMA WizardRequestKinds ==
  ASSUME NEW d, NEW r \in WizardRequests(d)
  PROVE  /\ r.to \in {"sources", "start"} \union Reads => r.session \in Sessions
         /\ r.to = "confirm" => r.snapshot \in Snapshots
         /\ r.to = "fetch" => r.resumed \in BOOLEAN
         /\ r.to = "check" => r.dropped \in BOOLEAN
         /\ r.to \in {"decide", "discard"} =>
              r.item \in Items /\ r.action \in {"confirm", "reject"} /\ r.shown \in SoundCandidates(d)
         /\ r.to = "discard" => r.awaited \in BOOLEAN /\ r.action = "reject"
  BY DEF WizardRequests, DecisionRequests, Reads

LEMMA StageOfWizardCall ==
  ASSUME NEW d, NEW c \in WizardCalls(d), NEW k \in Calls
  PROVE  /\ c[k].stage \in {"sent", "left"} => c[k] \in WizardWaiting(d)
         /\ c[k].stage = "served" => c[k] \in WizardServed(d)
         /\ c[k].stage \in {"sent", "left", "served"} <=> c[k] # Idle
         /\ c[k] # Idle => c[k].of \in WizardRequests(d) /\ c[k].tries \in Nat
  BY DEF WizardCalls, WizardWaiting, WizardServed, Idle

\* A change of the mark of a request: of who waits for it.
LEMMA MarkSound ==
  ASSUME NEW d, NEW c \in WizardCalls(d), NEW k \in Calls, c[k] # Idle, NEW b \in BOOLEAN
  PROVE  /\ c[k].of.to = "check" =>
              [c[k] EXCEPT !.of.dropped = b] \in WizardWaiting(d) \union WizardServed(d)
         /\ c[k].of.to = "discard" =>
              [c[k] EXCEPT !.of.awaited = b] \in WizardWaiting(d) \union WizardServed(d)
         /\ c[k].of.to = "fetch" =>
              [c[k] EXCEPT !.of.resumed = b] \in WizardWaiting(d) \union WizardServed(d)
  <1>1. c[k].of \in WizardRequests(d) /\ c[k] \in WizardWaiting(d) \union WizardServed(d)
    BY StageOfWizardCall DEF WizardCalls
  <1>2. ASSUME NEW r \in WizardRequests(d), r.to = c[k].of.to, r.to \in {"check", "discard", "fetch"}
        PROVE  [c[k] EXCEPT !.of = r] \in WizardWaiting(d) \union WizardServed(d)
    <2>1. CASE c[k] \in WizardWaiting(d)
      BY <1>2, <2>1 DEF WizardWaiting
    <2>2. CASE c[k] \in WizardServed(d)
      <3>1. SoundAnswer(d, r, c[k].answer)
        BY <1>2, <2>2 DEF WizardServed, SoundAnswer, Reads
      <3> QED
        BY <1>2, <2>2, <3>1 DEF WizardServed
    <2> QED
      BY <1>1, <2>1, <2>2
  <1>3. ASSUME c[k].of.to = "check"
        PROVE  [c[k] EXCEPT !.of.dropped = b] \in WizardWaiting(d) \union WizardServed(d)
    <2>1. PICK r : r = [c[k].of EXCEPT !.dropped = b]
      OBVIOUS
    <2>2. r \in WizardRequests(d) /\ r.to = "check"
      BY <1>1, <1>3, <2>1 DEF WizardRequests, DecisionRequests
    <2>3. [c[k] EXCEPT !.of.dropped = b] = [c[k] EXCEPT !.of = r]
      BY <2>1
    <2> QED
      BY <1>2, <1>3, <2>2, <2>3
  <1>4. ASSUME c[k].of.to = "discard"
        PROVE  [c[k] EXCEPT !.of.awaited = b] \in WizardWaiting(d) \union WizardServed(d)
    <2>1. PICK r : r = [c[k].of EXCEPT !.awaited = b]
      OBVIOUS
    <2>2. r \in WizardRequests(d) /\ r.to = "discard"
      BY <1>1, <1>4, <2>1 DEF WizardRequests, DecisionRequests
    <2>3. [c[k] EXCEPT !.of.awaited = b] = [c[k] EXCEPT !.of = r]
      BY <2>1
    <2> QED
      BY <1>2, <1>4, <2>2, <2>3
  <1>5. ASSUME c[k].of.to = "fetch"
        PROVE  [c[k] EXCEPT !.of.resumed = b] \in WizardWaiting(d) \union WizardServed(d)
    <2>1. PICK r : r = [c[k].of EXCEPT !.resumed = b]
      OBVIOUS
    <2>2. r \in WizardRequests(d) /\ r.to = "fetch"
      BY <1>1, <1>5, <2>1 DEF WizardRequests, DecisionRequests
    <2>3. [c[k] EXCEPT !.of.resumed = b] = [c[k] EXCEPT !.of = r]
      BY <2>1
    <2> QED
      BY <1>2, <1>5, <2>2, <2>3
  <1> QED
    BY <1>3, <1>4, <1>5

LEMMA DroppedSound ==
  ASSUME NEW d, NEW c \in WizardCalls(d)
  PROVE  Dropped(c) \in WizardCalls(d)
  <1>1. ASSUME NEW k \in Calls
        PROVE  (IF c[k] # Idle /\ c[k].of.to = "check" THEN [c[k] EXCEPT !.of.dropped = TRUE] ELSE c[k])
                 \in {Idle} \union WizardWaiting(d) \union WizardServed(d)
    BY MarkSound DEF WizardCalls
  <1> QED
    BY <1>1 DEF Dropped, WizardCalls

LEMMA UnawaitedSound ==
  ASSUME NEW d, NEW c \in WizardCalls(d)
  PROVE  Unawaited(c) \in WizardCalls(d)
  <1>1. ASSUME NEW k \in Calls
        PROVE  (IF c[k] # Idle /\ c[k].of.to = "discard" THEN [c[k] EXCEPT !.of.awaited = FALSE] ELSE c[k])
                 \in {Idle} \union WizardWaiting(d) \union WizardServed(d)
    BY MarkSound DEF WizardCalls
  <1> QED
    BY <1>1 DEF Unawaited, WizardCalls

LEMMA WizardRestSound ==
  ASSUME NEW d, call \in WizardCalls(d), NEW k \in Calls
  PROVE  /\ Without(k) \in WizardCalls(d)
         /\ \A c \in Abandoned(k) : c \in WizardCalls(d)
         /\ Lost(k) => call' \in WizardCalls(d)
  <1>1. Without(k) \in WizardCalls(d)
    BY DEF Without, WizardCalls
  <1>2. ASSUME call[k].stage = "sent"
        PROVE  [call EXCEPT ![k].stage = "left"] \in WizardCalls(d)
    <2>1. PICK r : r = [call[k] EXCEPT !.stage = "left"]
      OBVIOUS
    <2>2. r \in WizardWaiting(d)
      BY <1>2, <2>1, StageOfWizardCall DEF WizardWaiting
    <2> QED
      BY <2>1, <2>2 DEF WizardCalls
  <1>3. ASSUME Lost(k)
        PROVE  call' \in WizardCalls(d)
    <2>1. call[k].of \in WizardRequests(d) /\ call[k].tries \in Nat
      BY <1>3, StageOfWizardCall DEF Lost, Resent
    <2>2. PICK r : r = [Request(call[k].of) EXCEPT !.tries = call[k].tries + 1]
      OBVIOUS
    <2>3. r \in WizardWaiting(d)
      BY <2>1, <2>2 DEF Request, WizardWaiting
    <2> QED
      BY <1>3, <2>2, <2>3 DEF Lost, Resent, WizardCalls
  <1> QED
    BY <1>1, <1>2, <1>3 DEF Abandoned

LEMMA WizardAnswerSound ==
  ASSUME NEW d, call \in WizardCalls(d), NEW k \in Calls, NEW a \in WizardReplies,
         call[k].stage \in {"sent", "left"}, SoundAnswer(d, call[k].of, a), Answer(k, a)
  PROVE  call' \in WizardCalls(d)
  <1>1. CASE call[k].stage = "left"
    BY <1>1, WizardRestSound DEF Answer
  <1>2. CASE call[k].stage # "left"
    <2>1. PICK c : c = [stage |-> "served", of |-> call[k].of, tries |-> call[k].tries, answer |-> a]
      OBVIOUS
    <2>2. c \in WizardServed(d)
      BY <2>1, StageOfWizardCall DEF WizardWaiting, WizardServed
    <2>3. call' = [call EXCEPT ![k] = c]
      BY <1>2, <2>1 DEF Answer
    <2> QED
      BY <2>2, <2>3 DEF WizardCalls
  <1> QED
    BY <1>1, <1>2

\* What is created stays created, so what was sound stays so.
LEMMA CreatedStays ==
  ASSUME NEW d \in Draftings, NEW e \in Draftings, \A i \in Items : d[i] = "created" => e[i] = "created"
  PROVE  WizardCalls(d) \subseteq WizardCalls(e) /\ Wizards(d) \subseteq Wizards(e)
  <1>1. SoundCandidates(d) \subseteq SoundCandidates(e)
    BY DEF SoundCandidates
  <1>2. WizardRequests(d) \subseteq WizardRequests(e)
    <2>1. DecisionRequests(d) \subseteq DecisionRequests(e)
      BY <1>1 DEF DecisionRequests
    <2> QED
      BY <2>1 DEF WizardRequests
  <1>3. WizardWaiting(d) \subseteq WizardWaiting(e)
    BY <1>2 DEF WizardWaiting
  <1>4. WizardServed(d) \subseteq WizardServed(e)
    <2>1. ASSUME NEW c \in WizardServed(d)
          PROVE  SoundAnswer(e, c.of, c.answer)
      <3>1. c.of \in WizardRequests(d) /\ SoundAnswer(d, c.of, c.answer)
        BY <2>1 DEF WizardServed
      <3> QED
        BY <3>1, WizardRequestKinds DEF SoundAnswer
    <2> QED
      BY <1>2, <2>1 DEF WizardServed
  <1>5. Wizards(d) \subseteq Wizards(e)
    BY <1>1 DEF Wizards
  <1> QED
    BY <1>3, <1>4, <1>5 DEF WizardCalls

-----------------------------------------------------------------------------
(* The wizard itself                                                        *)

LEMMA NothingShown ==
  ASSUME NEW d
  PROVE  /\ NoCandidates \in SoundCandidates(d)
         /\ NoNotice \in [of : Sessions \union {NoSession}, mode : Modes]
         /\ NoNotice.mode = "terminal"
  BY DEF NoCandidates, SoundCandidates, Candidates, NoNotice, Modes

LEMMA WizardAfterSound ==
  ASSUME NEW d, NEW w \in Wizards(d), NEW c \in WizardCalls(d), WizardAfter(w, c)
  PROVE  wizard' \in Wizards(d) /\ call' \in WizardCalls(d)
  <1>1. Dropped(c) \in WizardCalls(d)
    BY DroppedSound
  <1>2. CASE wizard' = w /\ call' \in {c, Dropped(c)}
    BY <1>1, <1>2
  <1>3. CASE wizard' = [w EXCEPT !.notice = NoNotice] /\ call' = Dropped(c)
    BY <1>1, <1>3, NothingShown DEF Wizards
  <1>4. CASE /\ w.resume # NoSession /\ wizard' = [w EXCEPT !.checking = TRUE]
             /\ call' = Sent(Dropped(c), [to |-> "check", session |-> w.resume, dropped |-> FALSE])
    <2>1. w.resume \in Sessions
      BY <1>4 DEF Wizards
    <2>2. PICK r : r = [to |-> "check", session |-> w.resume, dropped |-> FALSE]
      OBVIOUS
    <2>3. call' \in WizardCalls(d)
      BY <1>1, <1>4, <2>1, <2>2, WizardRequestsMade, WizardSentSound
    <2> QED
      BY <1>4, <2>3 DEF Wizards
  <1> QED
    BY <1>2, <1>3, <1>4 DEF WizardAfter

\* A step of the wizard that leaves the server alone.
LEMMA WizardStepKeeps ==
  ASSUME WizardInv, NEW w \in Wizards(draft), NEW c \in WizardCalls(draft), WizardAfter(w, c),
         UNCHANGED <<session, draft>>, clicks' = clicks \/ Clicking
  PROVE  WizardInv'
  <1>1. wizard' \in Wizards(draft) /\ call' \in WizardCalls(draft)
    BY WizardAfterSound
  <1>2. clicks' \in Nat
    BY DEF WizardInv, Clicking
  <1> QED
    BY <1>1, <1>2 DEF WizardInv

LEMMA ResetSound ==
  ASSUME NEW d, NEW w \in Wizards(d)
  PROVE  /\ resetState(w) \in Wizards(d)
         /\ [resetState(w) EXCEPT !.resetDue = FALSE] \in Wizards(d)
  <1>1. resetState(w) \in Wizards(d)
    BY NothingShown DEF resetState, Wizards
  <1>2. PICK v : v = resetState(w)
    OBVIOUS
  <1>3. v \in Wizards(d)
    BY <1>1, <1>2
  <1>4. [v EXCEPT !.resetDue = FALSE] \in Wizards(d)
    BY <1>3 DEF Wizards
  <1> QED
    BY <1>1, <1>2, <1>4

LEMMA PollingSound ==
  ASSUME NEW d, NEW w \in Wizards(d), NEW s \in Sessions \union {NoSession}
  PROVE  startPolling(w, s) \in Wizards(d)
  BY NothingShown DEF startPolling, Wizards

LEMMA ErrorSound ==
  ASSUME NEW d, NEW w \in Wizards(d)
  PROVE  InError(w) \in Wizards(d) /\ NotPolling(w) \in Wizards(d)
  BY DEF InError, NotPolling, Wizards

LEMMA CompletedSound ==
  ASSUME NEW d, NEW w \in Wizards(d)
  PROVE  Completed(w) \in Wizards(d)
  BY DEF Completed, Wizards

LEMMA CandidatesSound ==
  ASSUME NEW d, NEW w \in Wizards(d), NEW c \in SoundCandidates(d)
  PROVE  [w EXCEPT !.candidates = c] \in Wizards(d)
  BY DEF Wizards

LEMMA ListedSound ==
  ASSUME NEW d, NEW w \in Wizards(d), NEW resumed \in BOOLEAN, NEW found
  PROVE  Listed(w, resumed, found) \in Wizards(d)
  <1>1. PICK v : v = IF resumed THEN [w EXCEPT !.notice = NoNotice] ELSE w
    OBVIOUS
  <1>2. v \in Wizards(d)
    BY <1>1, NothingShown DEF Wizards
  <1>3. PICK c : c = [i \in Items |-> IF i \in found THEN "pending" ELSE "absent"]
    OBVIOUS
  <1>4. c \in SoundCandidates(d)
    BY <1>3 DEF SoundCandidates, Candidates
  <1>5. [v EXCEPT !.phase = "no-results", !.modal = FALSE] \in Wizards(d)
    BY <1>2 DEF Wizards
  <1>6. [v EXCEPT !.phase = "review", !.modal = TRUE, !.candidates = c] \in Wizards(d)
    BY <1>2, <1>4 DEF Wizards
  <1> QED
    BY <1>1, <1>3, <1>5, <1>6 DEF Listed, Reviewing

LEMMA SkippedSound ==
  ASSUME NEW d, NEW w \in Wizards(d)
  PROVE  [w EXCEPT !.candidates = Skipped(@)] \in Wizards(d)
  <1>1. PICK c : c = Skipped(w.candidates)
    OBVIOUS
  <1>2. w.candidates \in SoundCandidates(d)
    BY DEF Wizards
  <1>3. c \in SoundCandidates(d)
    BY <1>1, <1>2 DEF Skipped, SoundCandidates, Candidates
  <1> QED
    BY <1>1, <1>3, CandidatesSound

LEMMA FetchSound ==
  ASSUME WizardInv, NEW w \in Wizards(draft), NEW c \in WizardCalls(draft), NEW s \in Sessions,
         NEW resumed \in BOOLEAN, fetchCandidates(w, c, s, resumed),
         UNCHANGED <<session, draft, clicks>>
  PROVE  WizardInv'
  <1>1. ASSUME NEW found \in wizard.cached[s], WizardAfter(Listed(w, resumed, found), c)
        PROVE  WizardInv'
    BY <1>1, ListedSound, WizardStepKeeps
  <1>2. PICK joined : joined = {k \in Calls : c[k] # Idle /\ c[k].of.to = "fetch" /\ c[k].of.session = s}
    OBVIOUS
  <1>3. ASSUME WizardAfter(w, Sent(c, [to |-> "fetch", session |-> s, resumed |-> resumed]))
        PROVE  WizardInv'
    <2>1. Sent(c, [to |-> "fetch", session |-> s, resumed |-> resumed]) \in WizardCalls(draft)
      BY WizardRequestsMade, WizardSentSound
    <2> QED
      BY <1>3, <2>1, WizardStepKeeps
  <1>4. ASSUME WizardAfter(w, [k \in Calls |-> IF k \in joined THEN [c[k] EXCEPT !.of.resumed = @ \/ resumed]
                                               ELSE c[k]])
        PROVE  WizardInv'
    <2>1. ASSUME NEW k \in Calls
          PROVE  (IF k \in joined THEN [c[k] EXCEPT !.of.resumed = @ \/ resumed] ELSE c[k])
                   \in {Idle} \union WizardWaiting(draft) \union WizardServed(draft)
      <3>1. CASE k \in joined
        <4>1. PICK b : b = (c[k].of.resumed \/ resumed)
          OBVIOUS
        <4>2. c[k] # Idle /\ c[k].of.to = "fetch" /\ b \in BOOLEAN
          BY <1>2, <3>1, <4>1, StageOfWizardCall, WizardRequestKinds
        <4>3. [c[k] EXCEPT !.of.resumed = b] \in WizardWaiting(draft) \union WizardServed(draft)
          BY <4>2, MarkSound
        <4>4. [c[k] EXCEPT !.of.resumed = @ \/ resumed] = [c[k] EXCEPT !.of.resumed = b]
          BY <4>1
        <4> QED
          BY <3>1, <4>3, <4>4
      <3>2. CASE k \notin joined
        BY <3>2 DEF WizardCalls
      <3> QED
        BY <3>1, <3>2
    <2>2. [k \in Calls |-> IF k \in joined THEN [c[k] EXCEPT !.of.resumed = @ \/ resumed] ELSE c[k]]
            \in WizardCalls(draft)
      BY <2>1 DEF WizardCalls
    <2> QED
      BY <1>4, <2>2, WizardStepKeeps
  <1> QED
    BY <1>1, <1>2, <1>3, <1>4 DEF fetchCandidates

LEMMA WizardInitially == WizardInit => WizardInv
  <1> SUFFICES ASSUME WizardInit PROVE WizardInv
    OBVIOUS
  <1>1. call \in WizardCalls(draft)
    BY DEF WizardInit, ApiInit, WizardCalls
  <1>2. draft \in Draftings /\ session \in [Sessions -> Statuses] /\ clicks \in Nat
    BY DEF WizardInit, Draftings, Statuses
  <1>3. PICK s \in {NoSession} \union {s \in Sessions : session[s] # "none"} :
          wizard = [open |-> FALSE, phase |-> "idle", interval |-> NoSession, confirming |-> FALSE,
                    expired |-> FALSE, resetDue |-> FALSE, resume |-> s, notice |-> NoNotice,
                    checking |-> FALSE, candidates |-> NoCandidates, modal |-> FALSE,
                    warning |-> FALSE, mutating |-> NoItem, cached |-> [t \in Sessions |-> {}]]
    BY DEF WizardInit
  <1>4. [t \in Sessions |-> {}] \in [Sessions -> SUBSET SUBSET Items]
    OBVIOUS
  <1>5. wizard \in Wizards(draft)
    BY <1>3, <1>4, NothingShown DEF Wizards
  <1> QED
    BY <1>1, <1>2, <1>5 DEF WizardInv

-----------------------------------------------------------------------------
(* Every step of the wizard                                                 *)

LEMMA OpeningKeeps ==
  ASSUME WizardInv,
         \/ OpenWizard \/ CloseWizard \/ ResetAfterClose \/ handleTryAgain \/ handleCreateManually
         \/ dismissResumeNotice \/ KeepReviewing
  PROVE  WizardInv'
  <1> DEFINE w == wizard
  <1>1. w \in Wizards(draft) /\ call \in WizardCalls(draft)
    BY DEF WizardInv
  <1>2. ASSUME NEW v \in Wizards(draft), WizardAfter(v, call), UNCHANGED <<session, draft>>,
               clicks' = clicks \/ Clicking
        PROVE  WizardInv'
    BY <1>1, <1>2, WizardStepKeeps
  <1>3. CASE OpenWizard \/ CloseWizard
    <2>1. /\ [wizard EXCEPT !.open = TRUE, !.resetDue = FALSE] \in Wizards(draft)
          /\ [wizard EXCEPT !.open = FALSE, !.resetDue = TRUE] \in Wizards(draft)
      BY <1>1 DEF Wizards
    <2> QED
      BY <1>2, <1>3, <2>1 DEF OpenWizard, CloseWizard, Unchanged
  <1>4. CASE ResetAfterClose \/ handleTryAgain
    BY <1>1, <1>2, <1>4, ResetSound DEF ResetAfterClose, handleTryAgain, Unchanged
  <1>5. CASE handleCreateManually
    <2>1. [wizard EXCEPT !.resume = NoSession, !.notice = NoNotice, !.modal = FALSE,
                         !.warning = FALSE, !.phase = "idle"] \in Wizards(draft)
      BY <1>1, NothingShown DEF Wizards
    <2> QED
      BY <1>2, <1>5, <2>1 DEF handleCreateManually
  <1>6. CASE dismissResumeNotice
    <2>1. [wizard EXCEPT !.resume = NoSession, !.notice = NoNotice] \in Wizards(draft)
      BY <1>1, NothingShown DEF Wizards
    <2> QED
      BY <1>2, <1>6, <2>1 DEF dismissResumeNotice
  <1>7. CASE KeepReviewing
    <2>1. [wizard EXCEPT !.warning = FALSE] \in Wizards(draft)
      BY <1>1 DEF Wizards
    <2> QED
      BY <1>2, <1>7, <2>1 DEF KeepReviewing
  <1> QED
    BY <1>3, <1>4, <1>5, <1>6, <1>7

LEMMA StartingKeeps ==
  ASSUME WizardInv, startDiscovery \/ resumeDiscoverySession \/ Tick \/ Expire
  PROVE  WizardInv'
  <1>1. wizard \in Wizards(draft) /\ call \in WizardCalls(draft)
    BY DEF WizardInv
  <1>2. CASE startDiscovery
    <2>1. [wizard EXCEPT !.phase = "submitting"] \in Wizards(draft)
      BY <1>1 DEF Wizards
    <2>2. [to |-> "create"] \in WizardRequests(draft)
      BY DEF WizardRequests
    <2>3. Sent(call, [to |-> "create"]) \in WizardCalls(draft)
      BY <1>1, <2>2, WizardSentSound
    <2> QED
      BY <1>2, <2>1, <2>3, WizardStepKeeps DEF startDiscovery
  <1>3. CASE resumeDiscoverySession
    <2>1. PICK s : s = wizard.notice.of
      OBVIOUS
    <2>2. s \in Sessions
      BY <1>1, <1>3, <2>1 DEF resumeDiscoverySession, Wizards
    <2>3. startPolling(wizard, s) \in Wizards(draft)
      BY <1>1, <2>2, PollingSound
    <2>4. Sent(call, [to |-> "resume", session |-> s]) \in WizardCalls(draft)
      BY <1>1, <2>2, WizardRequestsMade, WizardSentSound
    <2>5. \/ WizardAfter(startPolling(wizard, s), call)
          \/ WizardAfter(wizard, Sent(call, [to |-> "resume", session |-> s]))
      BY <1>3, <2>1 DEF resumeDiscoverySession
    <2>6. UNCHANGED <<session, draft>> /\ Clicking
      BY <1>3 DEF resumeDiscoverySession
    <2> QED
      BY <1>1, <2>3, <2>4, <2>5, <2>6, WizardStepKeeps
  <1>4. CASE Tick
    <2>1. wizard.interval \in Sessions
      BY <1>1, <1>4 DEF Tick, Wizards
    <2>2. PICK s \in Sessions : s = wizard.interval
      BY <2>1
    <2>3. Sent(call, [to |-> "poll", session |-> s]) \in WizardCalls(draft)
      BY <1>1, WizardRequestsMade, WizardSentSound
    <2> QED
      BY <1>4, <2>2, <2>3 DEF Tick, wizardVars, WizardInv
  <1>5. CASE Expire
    <2>1. wizard' \in Wizards(draft)
      BY <1>1, <1>5 DEF Expire, Wizards
    <2> QED
      BY <1>5, <2>1 DEF Expire, Unchanged, apiVars, WizardInv
  <1> QED
    BY <1>2, <1>3, <1>4, <1>5

LEMMA DecidingKeeps ==
  ASSUME WizardInv, NEW i \in Items, handleConfirmCandidate(i) \/ handleRejectCandidate(i)
  PROVE  WizardInv'
  <1>1. wizard \in Wizards(draft) /\ call \in WizardCalls(draft)
    BY DEF WizardInv
  <1>2. [wizard EXCEPT !.mutating = i] \in Wizards(draft)
    BY <1>1 DEF Wizards
  <1>3. wizard.candidates \in SoundCandidates(draft)
    BY <1>1 DEF Wizards
  <1>4. ASSUME NEW action \in {"confirm", "reject"}
        PROVE  Sent(call, [to |-> "decide", item |-> i, action |-> action, shown |-> wizard.candidates])
                 \in WizardCalls(draft)
    <2>1. [to |-> "decide", item |-> i, action |-> action, shown |-> wizard.candidates]
            \in WizardRequests(draft)
      BY <1>3 DEF WizardRequests, DecisionRequests
    <2> QED
      BY <1>1, <2>1, WizardSentSound
  <1> QED
    BY <1>2, <1>4, WizardStepKeeps DEF handleConfirmCandidate, handleRejectCandidate, Deciding

LEMMA ReviewEndKeeps ==
  ASSUME WizardInv,
         CloseReview \/ handleProcessFinalizeAll \/ handleConfirmKeepDrafts
           \/ handleDiscardRemainingCandidates
  PROVE  WizardInv'
  <1>1. wizard \in Wizards(draft) /\ call \in WizardCalls(draft)
    BY DEF WizardInv
  <1>2. ASSUME NEW v \in Wizards(draft), WizardAfter(v, call), UNCHANGED <<session, draft>>, Clicking
        PROVE  WizardInv'
    BY <1>1, <1>2, WizardStepKeeps
  <1>3. CASE CloseReview
    <2>1. [wizard EXCEPT !.warning = TRUE] \in Wizards(draft)
      BY <1>1 DEF Wizards
    <2>2. Completed(wizard) \in Wizards(draft)
      BY <1>1, CompletedSound
    <2> QED
      BY <1>2, <1>3, <2>1, <2>2 DEF CloseReview
  <1>4. CASE handleProcessFinalizeAll \/ handleConfirmKeepDrafts
    <2>1. PICK v : v = [wizard EXCEPT !.candidates = Skipped(@)]
      OBVIOUS
    <2>2. Completed(v) \in Wizards(draft)
      BY <1>1, <2>1, SkippedSound, CompletedSound
    <2> QED
      BY <1>2, <1>4, <2>1, <2>2 DEF handleProcessFinalizeAll, handleConfirmKeepDrafts
  <1>5. CASE handleDiscardRemainingCandidates
    <2>1. CASE PendingItems = {} /\ WizardAfter(Completed(wizard), call)
      BY <1>1, <1>2, <1>5, <2>1, CompletedSound DEF handleDiscardRemainingCandidates
    <2>2. ASSUME NEW place \in [PendingItems -> Free(call)],
                 WizardAfter([wizard EXCEPT !.mutating = Bulk, !.warning = FALSE],
               [k \in Calls |-> IF \E i \in PendingItems : place[i] = k
                             THEN Request([to |-> "discard", action |-> "reject", awaited |-> TRUE,
                                           item |-> CHOOSE i \in PendingItems : place[i] = k,
                                           shown |-> wizard.candidates])
                             ELSE call[k]])
          PROVE  WizardInv'
      <3>1. [wizard EXCEPT !.mutating = Bulk, !.warning = FALSE] \in Wizards(draft)
        BY <1>1 DEF Wizards
      <3>2. PICK c : c = [k \in Calls |-> IF \E i \in PendingItems : place[i] = k
                             THEN Request([to |-> "discard", action |-> "reject", awaited |-> TRUE,
                                           item |-> CHOOSE i \in PendingItems : place[i] = k,
                                           shown |-> wizard.candidates])
                             ELSE call[k]]
        OBVIOUS
      <3>3. ASSUME NEW k \in Calls
            PROVE  c[k] \in {Idle} \union WizardWaiting(draft) \union WizardServed(draft)
        <4>1. CASE \E i \in PendingItems : place[i] = k
          <5>1. PICK i : i = CHOOSE j \in PendingItems : place[j] = k
            OBVIOUS
          <5>2. i \in Items
            BY <4>1, <5>1 DEF PendingItems
          <5>3. wizard.candidates \in SoundCandidates(draft)
            BY <1>1 DEF Wizards
          <5>4. PICK r : r = [to |-> "discard", action |-> "reject", awaited |-> TRUE, item |-> i,
                              shown |-> wizard.candidates]
            OBVIOUS
          <5>5. r \in WizardRequests(draft)
            BY <5>2, <5>3, <5>4 DEF WizardRequests, DecisionRequests
          <5>6. c[k] = Request(r)
            BY <3>2, <4>1, <5>1, <5>4
          <5> QED
            BY <5>5, <5>6 DEF Request, WizardWaiting
        <4>2. CASE ~\E i \in PendingItems : place[i] = k
          BY <1>1, <3>2, <4>2 DEF WizardCalls
        <4> QED
          BY <4>1, <4>2
      <3>4. c \in WizardCalls(draft)
        BY <3>2, <3>3 DEF WizardCalls
      <3>5. UNCHANGED <<session, draft>> /\ Clicking
        BY <1>5 DEF handleDiscardRemainingCandidates
      <3> QED
        BY <2>2, <3>1, <3>2, <3>4, <3>5, WizardStepKeeps
    <2> QED
      BY <1>5, <2>1, <2>2 DEF handleDiscardRemainingCandidates
  <1> QED
    BY <1>3, <1>4, <1>5

LEMMA ProcessKeeps ==
  ASSUME WizardInv, NEW s \in Sessions, Process(s)
  PROVE  WizardInv'
  <1>1. PICK status \in TERMINAL_STATUSES, found \in SUBSET {i \in Items : SessionOf[i] = s /\ draft[i] = "none"} :
          /\ session' = [session EXCEPT ![s] = status]
          /\ draft' = [i \in Items |-> IF i \in found THEN "draft" ELSE draft[i]]
    BY DEF Process
  <1>2. draft' \in Draftings /\ \A i \in Items : draft[i] = "created" => draft'[i] = "created"
    BY <1>1 DEF WizardInv, Draftings
  <1>3. session' \in [Sessions -> Statuses]
    BY <1>1 DEF WizardInv, Statuses
  <1>4. UNCHANGED <<call, wizard, clicks>>
    BY DEF Process, apiVars
  <1>5. wizard \in Wizards(draft') /\ call \in WizardCalls(draft')
    BY <1>2, CreatedStays DEF WizardInv
  <1> QED
    BY <1>2, <1>3, <1>4, <1>5 DEF WizardInv

LEMMA WizardServesKeep ==
  ASSUME WizardInv, NEW k \in Calls, WizardServes(k)
  PROVE  WizardInv'
  <1>1. /\ call[k].stage \in {"sent", "left"} /\ call \in WizardCalls(draft) /\ wizard \in Wizards(draft)
        /\ session \in [Sessions -> Statuses] /\ draft \in Draftings /\ clicks \in Nat
    BY DEF WizardInv, WizardServes, ServeCreate, ServeSources, ServeStart, ServeRead, ServeDecide, AtServer
  <1>2. call[k].of \in WizardRequests(draft)
    BY <1>1, StageOfWizardCall
  <1>3. CASE ServeCreate(k)
    <2>1. PICK s \in Sessions : session' = [session EXCEPT ![s] = "draft"] /\ Answer(k, s)
      BY <1>3 DEF ServeCreate
    <2>2. SoundAnswer(draft, call[k].of, s) /\ s \in WizardReplies
      BY <1>3 DEF ServeCreate, AtServer, SoundAnswer, WizardReplies, Reads
    <2>3. call' \in WizardCalls(draft)
      BY <1>1, <2>1, <2>2, WizardAnswerSound
    <2>4. session' \in [Sessions -> Statuses]
      BY <1>1, <2>1 DEF Statuses
    <2> QED
      BY <1>1, <1>3, <2>3, <2>4 DEF ServeCreate, WizardInv
  <1>4. CASE ServeSources(k)
    <2>1. SoundAnswer(draft, call[k].of, "added") /\ "added" \in WizardReplies
      BY <1>4 DEF ServeSources, AtServer, SoundAnswer, WizardReplies, Reads
    <2>2. call' \in WizardCalls(draft)
      BY <1>1, <1>4, <2>1, WizardAnswerSound DEF ServeSources
    <2> QED
      BY <1>1, <1>4, <2>2 DEF ServeSources, WizardInv
  <1>5. CASE ServeStart(k)
    <2>1. SoundAnswer(draft, call[k].of, "started") /\ "started" \in WizardReplies
      BY <1>5 DEF ServeStart, AtServer, SoundAnswer, WizardReplies, Reads
    <2>2. call' \in WizardCalls(draft)
      BY <1>1, <1>5, <2>1, WizardAnswerSound DEF ServeStart
    <2>3. session' \in [Sessions -> Statuses]
      BY <1>1, <1>5 DEF ServeStart, Statuses
    <2> QED
      BY <1>1, <1>5, <2>2, <2>3 DEF ServeStart, WizardInv
  <1>6. CASE ServeRead(k)
    <2>1. call[k].of.to \in Reads
      BY <1>6 DEF ServeRead, AtServer
    <2>2. call[k].of.session \in Sessions
      BY <1>2, <2>1, WizardRequestKinds
    <2>3. PICK a : a = Snapshot(call[k].of.session)
      OBVIOUS
    <2>4. a \in Snapshots
      BY <1>1, <2>2, <2>3 DEF Snapshot, Snapshots, Drafts
    <2>5. SoundAnswer(draft, call[k].of, a) /\ a \in WizardReplies
      BY <2>1, <2>4 DEF SoundAnswer, WizardReplies, Reads
    <2>6. call' \in WizardCalls(draft)
      BY <1>1, <1>6, <2>3, <2>5, WizardAnswerSound DEF ServeRead
    <2> QED
      BY <1>1, <1>6, <2>6 DEF ServeRead, wizardVars, WizardInv
  <1>7. CASE ServeDecide(k)
    <2>1. PICK r : r = call[k].of
      OBVIOUS
    <2>2. r.to \in {"decide", "discard"}
      BY <1>7, <2>1 DEF ServeDecide, AtServer
    <2>3. r.item \in Items
      BY <1>2, <2>1, <2>2, WizardRequestKinds
    <2>4. PICK a \in {"done", "conflict"} :
            /\ Answer(k, a)
            /\ \/ /\ a = "done" /\ Decidable(r.item)
                  /\ draft' = [draft EXCEPT ![r.item] = IF r.action = "confirm" THEN "created" ELSE "rejected"]
               \/ a = "conflict" /\ draft' = draft
      BY <1>7, <2>1 DEF ServeDecide
    <2>5. /\ draft' \in Draftings
          /\ \A i \in Items : draft[i] = "created" => draft'[i] = "created"
          /\ a = "done" /\ r.action = "confirm" => draft'[r.item] = "created"
      BY <1>1, <2>3, <2>4 DEF Draftings, Decidable
    <2>6. call \in WizardCalls(draft') /\ wizard \in Wizards(draft')
      BY <1>1, <2>5, CreatedStays
    <2>7. SoundAnswer(draft', r, a) /\ a \in WizardReplies
      BY <2>2, <2>4, <2>5 DEF SoundAnswer, WizardReplies, Reads
    <2>8. PICK d : d = draft'
      OBVIOUS
    <2>9. call' \in WizardCalls(d)
      BY <1>1, <2>1, <2>4, <2>6, <2>7, <2>8, WizardAnswerSound
    <2> QED
      BY <1>1, <1>7, <2>5, <2>6, <2>8, <2>9 DEF ServeDecide, WizardInv
  <1> QED
    BY <1>3, <1>4, <1>5, <1>6, <1>7 DEF WizardServes

LEMMA StartReturns ==
  ASSUME WizardInv, NEW k \in Calls,
         CreateAnswered(k) \/ SourcesAnswered(k) \/ StartAnswered(k) \/ StartFailed(k)
  PROVE  WizardInv'
  <1>1. wizard \in Wizards(draft) /\ call \in WizardCalls(draft) /\ Without(k) \in WizardCalls(draft)
    BY WizardRestSound DEF WizardInv
  <1>2. CASE CreateAnswered(k)
    <2>1. PICK s : s = call[k].answer
      OBVIOUS
    <2>2. s \in Sessions
      BY <1>1, <1>2, <2>1, StageOfWizardCall DEF CreateAnswered, Served, WizardServed, SoundAnswer
    <2>3. [wizard EXCEPT !.resume = s] \in Wizards(draft)
      BY <1>1, <2>2 DEF Wizards
    <2>4. Sent(Without(k), [to |-> "sources", session |-> s]) \in WizardCalls(draft)
      BY <1>1, <2>2, WizardRequestsMade, WizardSentSound
    <2> QED
      BY <1>2, <2>1, <2>3, <2>4, WizardStepKeeps DEF CreateAnswered, Unchanged
  <1>3. CASE SourcesAnswered(k)
    <2>1. PICK s : s = call[k].of.session
      OBVIOUS
    <2>2. s \in Sessions
      BY <1>1, <1>3, <2>1, StageOfWizardCall, WizardRequestKinds DEF SourcesAnswered, Served
    <2>3. Sent(Without(k), [to |-> "start", session |-> s]) \in WizardCalls(draft)
      BY <1>1, <2>2, WizardRequestsMade, WizardSentSound
    <2> QED
      BY <1>3, <2>1, <2>3 DEF SourcesAnswered, Unchanged, WizardInv
  <1>4. CASE StartAnswered(k)
    <2>1. PICK s : s = call[k].of.session
      OBVIOUS
    <2>2. s \in Sessions
      BY <1>1, <1>4, <2>1, StageOfWizardCall, WizardRequestKinds DEF StartAnswered, Served
    <2>3. startPolling(wizard, s) \in Wizards(draft)
      BY <1>1, <2>2, PollingSound
    <2> QED
      BY <1>1, <1>4, <2>1, <2>3, WizardStepKeeps DEF StartAnswered, Unchanged
  <1>5. CASE StartFailed(k)
    <2>1. PICK c \in Abandoned(k) : WizardAfter(InError(wizard), c)
      BY <1>5 DEF StartFailed
    <2>2. c \in WizardCalls(draft) /\ InError(wizard) \in Wizards(draft)
      BY <1>1, <2>1, WizardRestSound, ErrorSound
    <2> QED
      BY <1>5, <2>1, <2>2, WizardStepKeeps DEF StartFailed, Unchanged
  <1> QED
    BY <1>2, <1>3, <1>4, <1>5

LEMMA PollReturns ==
  ASSUME WizardInv, NEW k \in Calls, PollAnswered(k) \/ PollFailed(k)
  PROVE  WizardInv'
  <1>1. wizard \in Wizards(draft) /\ call \in WizardCalls(draft) /\ Without(k) \in WizardCalls(draft)
    BY WizardRestSound DEF WizardInv
  <1>2. InError(NotPolling(wizard)) \in Wizards(draft)
    BY <1>1, ErrorSound
  <1>3. CASE PollAnswered(k)
    <2>1. PICK s, d : s = call[k].of.session /\ d = call[k].answer
      OBVIOUS
    <2>2. s \in Sessions /\ d \in Snapshots
      BY <1>1, <1>3, <2>1, StageOfWizardCall, WizardRequestKinds
         DEF PollAnswered, Served, WizardServed, SoundAnswer, Reads
    <2>3. [wizard EXCEPT !.confirming = TRUE] \in Wizards(draft)
      BY <1>1 DEF Wizards
    <2>4. Sent(Without(k), [to |-> "confirm", session |-> s, snapshot |-> d]) \in WizardCalls(draft)
      BY <1>1, <2>2, WizardRequestsMade, WizardSentSound
    <2>5. UNCHANGED <<session, draft, clicks>>
      BY <1>3 DEF PollAnswered, Unchanged
    <2>6. wizard.confirming \in BOOLEAN /\ wizard.expired \in BOOLEAN /\ Terminal(d) \in BOOLEAN
      BY <1>1 DEF Wizards, Terminal
    <2>7. \/ WizardAfter([wizard EXCEPT !.confirming = TRUE],
               Sent(Without(k), [to |-> "confirm", session |-> s, snapshot |-> d]))
          \/ WizardAfter(InError(NotPolling(wizard)), Without(k))
          \/ WizardAfter(wizard, Without(k))
      <3>1. CASE Terminal(d) /\ ~wizard.confirming
        BY <1>3, <2>1, <3>1 DEF PollAnswered
      <3>2. CASE ~Terminal(d) /\ wizard.expired
        BY <1>3, <2>1, <3>2 DEF PollAnswered
      <3>3. CASE ~(Terminal(d) /\ ~wizard.confirming) /\ ~(~Terminal(d) /\ wizard.expired)
        BY <1>3, <2>1, <3>3 DEF PollAnswered
      <3> QED
        BY <3>1, <3>2, <3>3
    <2> QED
      BY <1>1, <1>2, <2>3, <2>4, <2>5, <2>7, WizardStepKeeps
  <1>4. CASE PollFailed(k)
    BY <1>1, <1>2, <1>4, WizardStepKeeps DEF PollFailed, Unchanged
  <1> QED
    BY <1>3, <1>4

LEMMA ConcludedKeeps ==
  ASSUME WizardInv, NEW k \in Calls, NEW d \in Snapshots, call[k].of.session \in Sessions,
         Concluded(k, d), UNCHANGED <<session, draft, clicks>>
  PROVE  WizardInv'
  <1>1. wizard \in Wizards(draft) /\ call \in WizardCalls(draft) /\ Without(k) \in WizardCalls(draft)
    BY WizardRestSound DEF WizardInv
  <1>2. PICK w : w = NotPolling(wizard)
    OBVIOUS
  <1>3. w \in Wizards(draft) /\ InError(w) \in Wizards(draft)
    BY <1>1, <1>2, ErrorSound
  <1>4. PICK v : v = InError(w)
    OBVIOUS
  <1>5. v \in Wizards(draft)
    BY <1>3, <1>4
  <1>6. /\ [v EXCEPT !.resume = NoSession] \in Wizards(draft)
        /\ [w EXCEPT !.resume = NoSession, !.phase = "no-results"] \in Wizards(draft)
    <2>1. [v EXCEPT !.resume = NoSession] \in Wizards(draft)
      BY <1>5 DEF Wizards
    <2>2. [w EXCEPT !.resume = NoSession, !.phase = "no-results"] \in Wizards(draft)
      BY <1>3 DEF Wizards
    <2> QED
      BY <2>1, <2>2
  <1>7. CASE d.status = "failed"
    BY <1>1, <1>2, <1>4, <1>6, <1>7, WizardStepKeeps DEF Concluded
  <1>8. CASE d.status # "failed" /\ d.found # {}
    <2>1. fetchCandidates(w, Without(k), call[k].of.session, FALSE)
      BY <1>2, <1>8 DEF Concluded
    <2> QED
      BY <1>1, <1>3, <2>1, FetchSound
  <1>9. CASE d.status # "failed" /\ d.found = {}
    BY <1>1, <1>2, <1>6, <1>9, WizardStepKeeps DEF Concluded
  <1> QED
    BY <1>7, <1>8, <1>9

LEMMA ConfirmReturns ==
  ASSUME WizardInv, NEW k \in Calls, ConfirmAnswered(k) \/ ConfirmFailed(k)
  PROVE  WizardInv'
  <1>1. call \in WizardCalls(draft) /\ call[k].stage \in {"sent", "served"} /\ call[k].of.to = "confirm"
    BY DEF WizardInv, ConfirmAnswered, ConfirmFailed, Served, Fails
  <1>2. call[k].of.session \in Sessions /\ call[k].of.snapshot \in Snapshots
    BY <1>1, StageOfWizardCall, WizardRequestKinds DEF Reads
  <1>3. UNCHANGED <<session, draft, clicks>>
    BY DEF ConfirmAnswered, ConfirmFailed, Unchanged
  <1>4. CASE ConfirmAnswered(k)
    <2>1. PICK d : d = IF Terminal(call[k].answer) THEN call[k].answer ELSE call[k].of.snapshot
      OBVIOUS
    <2>2. call[k].answer \in Snapshots
      BY <1>1, <1>4, StageOfWizardCall
         DEF ConfirmAnswered, Served, WizardServed, SoundAnswer, Reads
    <2>3. d \in Snapshots /\ Concluded(k, d)
      BY <1>2, <1>4, <2>1, <2>2 DEF ConfirmAnswered
    <2> QED
      BY <1>2, <1>3, <2>3, ConcludedKeeps
  <1>5. CASE ConfirmFailed(k)
    BY <1>2, <1>3, <1>5, ConcludedKeeps DEF ConfirmFailed
  <1> QED
    BY <1>4, <1>5

LEMMA FetchReturns ==
  ASSUME WizardInv, NEW k \in Calls, FetchAnswered(k) \/ FetchFailed(k)
  PROVE  WizardInv'
  <1>1. wizard \in Wizards(draft) /\ call \in WizardCalls(draft) /\ Without(k) \in WizardCalls(draft)
    BY WizardRestSound DEF WizardInv
  <1>2. CASE FetchAnswered(k)
    <2>1. PICK r, found : r = call[k].of /\ found = call[k].answer.found
      OBVIOUS
    <2>2. r.session \in Sessions /\ r.resumed \in BOOLEAN /\ found \in SUBSET Items
      BY <1>1, <1>2, <2>1, StageOfWizardCall, WizardRequestKinds
         DEF FetchAnswered, Served, WizardServed, SoundAnswer, Reads, Snapshots
    <2>3. PICK w : w = Listed(wizard, r.resumed, found)
      OBVIOUS
    <2>4. w \in Wizards(draft)
      BY <1>1, <2>2, <2>3, ListedSound
    <2>5. PICK cached : cached = [w.cached EXCEPT ![r.session] = {found}]
      OBVIOUS
    <2>6. cached \in [Sessions -> SUBSET SUBSET Items]
      BY <2>2, <2>4, <2>5 DEF Wizards
    <2>7. [w EXCEPT !.cached = cached] \in Wizards(draft)
      BY <2>4, <2>6 DEF Wizards
    <2>8. WizardAfter([w EXCEPT !.cached = cached], Without(k)) /\ UNCHANGED <<session, draft, clicks>>
      BY <1>2, <2>1, <2>3, <2>5 DEF FetchAnswered, Unchanged
    <2> QED
      BY <1>1, <2>7, <2>8, WizardStepKeeps
  <1>3. CASE FetchFailed(k)
    BY <1>1, <1>3, ErrorSound, WizardStepKeeps DEF FetchFailed, Unchanged
  <1> QED
    BY <1>2, <1>3

LEMMA CheckReturns ==
  ASSUME WizardInv, NEW k \in Calls, CheckAnswered(k) \/ CheckFailed(k)
  PROVE  WizardInv'
  <1>1. wizard \in Wizards(draft) /\ call \in WizardCalls(draft) /\ Without(k) \in WizardCalls(draft)
    BY WizardRestSound DEF WizardInv
  <1>2. CASE CheckAnswered(k)
    <2>1. PICK r : r = call[k].of
      OBVIOUS
    <2>2. r.session \in Sessions
      BY <1>1, <1>2, <2>1, StageOfWizardCall, WizardRequestKinds DEF CheckAnswered, Served, Reads
    <2>3. PICK notice : notice = [of |-> r.session, mode |-> ResumeMode(call[k].answer)]
      OBVIOUS
    <2>4. /\ notice \in [of : Sessions \union {NoSession}, mode : Modes]
          /\ notice.of # NoSession
      BY <2>2, <2>3, WizardAssumption DEF ResumeMode, Modes
    <2>5. [wizard EXCEPT !.notice = notice, !.checking = FALSE] \in Wizards(draft)
      BY <1>1, <2>4 DEF Wizards
    <2>6. /\ WizardAfter(IF r.dropped THEN wizard ELSE [wizard EXCEPT !.notice = notice, !.checking = FALSE], Without(k))
          /\ UNCHANGED <<session, draft, clicks>>
      BY <1>2, <2>1, <2>3 DEF CheckAnswered, Unchanged
    <2> QED
      BY <1>1, <2>5, <2>6, WizardStepKeeps
  <1>3. CASE CheckFailed(k)
    <2>1. PICK w : w = [wizard EXCEPT !.resume = NoSession]
      OBVIOUS
    <2>2. w \in Wizards(draft)
      BY <1>1, <2>1 DEF Wizards
    <2>3. [w EXCEPT !.notice = NoNotice, !.checking = FALSE] \in Wizards(draft)
      BY <2>2, NothingShown DEF Wizards
    <2>4. /\ WizardAfter(IF call[k].of.dropped THEN w ELSE [w EXCEPT !.notice = NoNotice, !.checking = FALSE], Without(k))
          /\ UNCHANGED <<session, draft, clicks>>
      BY <1>3, <2>1 DEF CheckFailed, Unchanged
    <2> QED
      BY <1>1, <2>2, <2>3, <2>4, WizardStepKeeps
  <1> QED
    BY <1>2, <1>3

LEMMA ResumeReturns ==
  ASSUME WizardInv, NEW k \in Calls, ResumeAnswered(k) \/ ResumeFailed(k)
  PROVE  WizardInv'
  <1>1. wizard \in Wizards(draft) /\ call \in WizardCalls(draft) /\ Without(k) \in WizardCalls(draft)
    BY WizardRestSound DEF WizardInv
  <1>2. CASE ResumeAnswered(k)
    <2>1. PICK s, mode : s = call[k].of.session /\ mode = ResumeMode(call[k].answer)
      OBVIOUS
    <2>2. s \in Sessions /\ mode \in Modes
      BY <1>1, <1>2, <2>1, StageOfWizardCall, WizardRequestKinds
         DEF ResumeAnswered, Served, Reads, ResumeMode, Modes
    <2>3. UNCHANGED <<session, draft, clicks>>
      BY <1>2 DEF ResumeAnswered, Unchanged
    <2>4. CASE mode = "processing"
      <3>1. WizardAfter(startPolling(wizard, s), Without(k))
        BY <1>2, <2>1, <2>4 DEF ResumeAnswered
      <3> QED
        BY <1>1, <2>2, <2>3, <3>1, PollingSound, WizardStepKeeps
    <2>5. CASE mode = "terminal"
      <3>1. WizardAfter([wizard EXCEPT !.notice = [of |-> s, mode |-> mode]], Without(k))
        BY <1>2, <2>1, <2>5 DEF ResumeAnswered
      <3>2. [wizard EXCEPT !.notice = [of |-> s, mode |-> mode]] \in Wizards(draft)
        BY <1>1, <2>2, <2>5 DEF Wizards
      <3> QED
        BY <1>1, <2>3, <3>1, <3>2, WizardStepKeeps
    <2>6. CASE mode = "review"
      <3>1. fetchCandidates(wizard, Without(k), s, TRUE)
        BY <1>2, <2>1, <2>6 DEF ResumeAnswered
      <3> QED
        BY <1>1, <2>2, <2>3, <3>1, FetchSound
    <2> QED
      BY <2>2, <2>4, <2>5, <2>6 DEF Modes
  <1>3. CASE ResumeFailed(k)
    BY <1>1, <1>3, ErrorSound, WizardStepKeeps DEF ResumeFailed, Unchanged
  <1> QED
    BY <1>2, <1>3

LEMMA DecideReturns ==
  ASSUME WizardInv, NEW k \in Calls, DecideAnswered(k) \/ DecideFailed(k)
  PROVE  WizardInv'
  <1>1. wizard \in Wizards(draft) /\ call \in WizardCalls(draft) /\ Without(k) \in WizardCalls(draft)
    BY WizardRestSound DEF WizardInv
  <1>2. PICK w : w = [wizard EXCEPT !.mutating = NoItem]
    OBVIOUS
  <1>3. w \in Wizards(draft) /\ w.candidates \in SoundCandidates(draft)
    BY <1>1, <1>2 DEF Wizards
  <1>4. CASE DecideAnswered(k)
    <2>1. PICK r, answer : r = call[k].of /\ answer = call[k].answer
      OBVIOUS
    <2>2. r.item \in Items /\ r.action \in {"confirm", "reject"} /\ r.shown \in SoundCandidates(draft)
      BY <1>1, <1>4, <2>1, StageOfWizardCall, WizardRequestKinds DEF DecideAnswered, Served
    <2>3. r.action = "confirm" /\ answer = "done" => draft[r.item] = "created"
      <3>1. call[k].stage = "served" /\ r.to = "decide"
        BY <1>4, <2>1 DEF DecideAnswered, Served
      <3>2. call[k] \in WizardServed(draft)
        BY <1>1, <3>1, StageOfWizardCall
      <3>3. SoundAnswer(draft, r, answer)
        BY <2>1, <3>2 DEF WizardServed
      <3> QED
        BY <3>1, <3>3 DEF SoundAnswer
    <2>4. r.action = "confirm" => ConfirmedCandidate(w, r.item, answer) \in Wizards(draft)
      <3>1. PICK c : c = [w.candidates EXCEPT ![r.item] = "confirmed"]
        OBVIOUS
      <3>2. draft[r.item] = "created" => c \in SoundCandidates(draft)
        BY <1>3, <3>1 DEF SoundCandidates, Candidates
      <3>3. draft[r.item] = "created" => [w EXCEPT !.candidates = c] \in Wizards(draft)
        BY <1>3, <3>2, CandidatesSound
      <3> QED
        BY <1>3, <2>3, <3>1, <3>3 DEF ConfirmedCandidate
    <2>5. RejectedCandidate(w, r, answer) \in Wizards(draft)
      <3>1. PICK kept : kept = [r.shown EXCEPT ![r.item] = "absent"]
        OBVIOUS
      <3>2. kept \in SoundCandidates(draft)
        BY <2>2, <3>1 DEF SoundCandidates, Candidates
      <3>3. PICK v : v = [w EXCEPT !.candidates = kept]
        OBVIOUS
      <3>4. v \in Wizards(draft)
        BY <1>3, <3>2, <3>3, CandidatesSound
      <3>5. [v EXCEPT !.modal = FALSE, !.phase = "complete"] \in Wizards(draft)
        BY <3>4 DEF Wizards
      <3>6. [w EXCEPT !.candidates = kept, !.modal = FALSE, !.phase = "complete"]
              = [v EXCEPT !.modal = FALSE, !.phase = "complete"]
        BY <3>3
      <3> QED
        BY <1>3, <3>1, <3>3, <3>4, <3>5, <3>6 DEF RejectedCandidate
    <2>6. /\ WizardAfter(IF r.action = "confirm" THEN ConfirmedCandidate(w, r.item, answer)
                         ELSE RejectedCandidate(w, r, answer), Without(k))
          /\ UNCHANGED <<session, draft, clicks>>
      BY <1>2, <1>4, <2>1 DEF DecideAnswered, Unchanged
    <2> QED
      BY <1>1, <2>4, <2>5, <2>6, WizardStepKeeps
  <1>5. CASE DecideFailed(k)
    <2>1. PICK c \in Abandoned(k) : WizardAfter(w, c)
      BY <1>2, <1>5 DEF DecideFailed
    <2>2. c \in WizardCalls(draft)
      BY <1>1, <2>1, WizardRestSound
    <2> QED
      BY <1>3, <1>5, <2>1, <2>2, WizardStepKeeps DEF DecideFailed, Unchanged
  <1> QED
    BY <1>4, <1>5

LEMMA DiscardReturns ==
  ASSUME WizardInv, NEW k \in Calls, DiscardAnswered(k) \/ DiscardFailed(k)
  PROVE  WizardInv'
  <1>1. wizard \in Wizards(draft) /\ call \in WizardCalls(draft) /\ Without(k) \in WizardCalls(draft)
    BY WizardRestSound DEF WizardInv
  <1>2. [wizard EXCEPT !.mutating = NoItem] \in Wizards(draft)
    BY <1>1 DEF Wizards
  <1>3. UNCHANGED <<session, draft, clicks>>
    BY DEF DiscardAnswered, DiscardFailed, Unchanged
  <1>4. CASE DiscardAnswered(k)
    <2>1. PICK r : r = call[k].of
      OBVIOUS
    <2>2. r.shown \in SoundCandidates(draft) /\ r.awaited \in BOOLEAN
      BY <1>1, <1>4, <2>1, StageOfWizardCall, WizardRequestKinds DEF DiscardAnswered, Served
    <2>3. PICK kept : kept = [i \in Items |-> IF r.shown[i] = "pending" THEN "absent" ELSE r.shown[i]]
      OBVIOUS
    <2>4. kept \in SoundCandidates(draft)
      BY <2>2, <2>3 DEF SoundCandidates, Candidates
    <2>5. PICK v : v = Completed(wizard)
      OBVIOUS
    <2>6. v \in Wizards(draft)
      BY <1>1, <2>5, CompletedSound
    <2>7. PICK done : done = [v EXCEPT !.candidates = kept, !.mutating = NoItem]
      OBVIOUS
    <2>8. done \in Wizards(draft)
      BY <2>4, <2>6, <2>7 DEF Wizards
    <2>9. \/ WizardAfter(wizard, Without(k))
          \/ WizardAfter([wizard EXCEPT !.mutating = NoItem], Unawaited(Without(k)))
          \/ WizardAfter(done, Without(k))
      <3>1. CASE ~r.awaited
        BY <1>4, <2>1, <3>1 DEF DiscardAnswered
      <3>2. CASE r.awaited /\ call[k].answer # "done"
        BY <1>4, <2>1, <3>2 DEF DiscardAnswered
      <3>3. CASE r.awaited /\ call[k].answer = "done"
        BY <1>4, <2>1, <2>3, <2>5, <2>7, <3>3 DEF DiscardAnswered
      <3> QED
        BY <2>2, <3>1, <3>2, <3>3
    <2>10. Unawaited(Without(k)) \in WizardCalls(draft)
      BY <1>1, UnawaitedSound
    <2> QED
      BY <1>1, <1>2, <1>3, <2>8, <2>9, <2>10, WizardStepKeeps
  <1>5. CASE DiscardFailed(k)
    <2>1. PICK c \in Abandoned(k) :
            WizardAfter(IF Awaited(k) THEN [wizard EXCEPT !.mutating = NoItem] ELSE wizard,
                        IF Awaited(k) THEN Unawaited(c) ELSE c)
      BY <1>5 DEF DiscardFailed
    <2>2. c \in WizardCalls(draft) /\ Unawaited(c) \in WizardCalls(draft)
      BY <1>1, <2>1, WizardRestSound, UnawaitedSound
    <2>3. CASE Awaited(k)
      BY <1>2, <1>3, <2>1, <2>2, <2>3, WizardStepKeeps
    <2>4. CASE ~Awaited(k)
      BY <1>1, <1>3, <2>1, <2>2, <2>4, WizardStepKeeps
    <2> QED
      BY <2>3, <2>4
  <1> QED
    BY <1>4, <1>5

LEMMA WizardStepsKeep == WizardInv /\ [WizardNext]_<<apiVars, wizardVars>> => WizardInv'
  <1> SUFFICES ASSUME WizardInv, [WizardNext]_<<apiVars, wizardVars>> PROVE WizardInv'
    OBVIOUS
  <1>1. CASE UNCHANGED <<apiVars, wizardVars>>
    BY <1>1 DEF apiVars, wizardVars, WizardInv
  <1>2. CASE Clicks
    BY <1>2, OpeningKeeps, StartingKeeps, DecidingKeeps, ReviewEndKeeps DEF Clicks
  <1>3. CASE ResetAfterClose \/ Tick \/ Expire
    BY <1>3, OpeningKeeps, StartingKeeps
  <1>4. ASSUME NEW s \in Sessions, Process(s)
        PROVE  WizardInv'
    BY <1>4, ProcessKeeps
  <1>5. ASSUME NEW k \in Calls, WizardServes(k)
        PROVE  WizardInv'
    BY <1>5, WizardServesKeep
  <1>6. ASSUME NEW k \in Calls, WizardAnswered(k)
        PROVE  WizardInv'
    BY <1>6, StartReturns, PollReturns, ConfirmReturns, FetchReturns, CheckReturns, ResumeReturns,
       DecideReturns, DiscardReturns DEF WizardAnswered
  <1>7. ASSUME NEW k \in Calls, WizardFails(k)
        PROVE  WizardInv'
    BY <1>7, StartReturns, PollReturns, ConfirmReturns, FetchReturns, CheckReturns, ResumeReturns,
       DecideReturns, DiscardReturns DEF WizardFails
  <1>8. ASSUME NEW k \in Calls, Lost(k), UNCHANGED wizardVars
        PROVE  WizardInv'
    BY <1>8, WizardRestSound DEF wizardVars, WizardInv
  <1> QED
    BY <1>1, <1>2, <1>3, <1>4, <1>5, <1>6, <1>7, <1>8 DEF WizardNext

\* The wizard and the server's records keep their types (WizardTypeOK).
THEOREM WizardTypeCorrect == WizardSpec => []WizardTypeOK
  <1>1. WizardInv => WizardTypeOK
    BY DEF WizardInv, WizardTypeOK, Wizards, SoundCandidates, Candidates, Draftings, Statuses
  <1> QED
    BY WizardInitially, WizardStepsKeep, <1>1, PTL DEF WizardSpec

\* A candidate the wizard shows as confirmed has been created, however late the answer of a
\* decision comes and whatever list a rejection puts back (use-discovery-orchestration.ts).
THEOREM ConfirmedAreCreated == WizardSpec => []ConfirmedIsCreated
  <1>1. WizardInv => ConfirmedIsCreated
    BY DEF WizardInv, ConfirmedIsCreated, Wizards, SoundCandidates
  <1> QED
    BY WizardInitially, WizardStepsKeep, <1>1, PTL DEF WizardSpec

-----------------------------------------------------------------------------
(* The selected organization and the cached lists                           *)

Waits == [for : {"streams", "page", "created"}] \union [for : {"companies"}, id : Nat]

\* Without an organization a list is asked for on nobody's behalf.
ListRequests ==
  {r \in [to : {"list"}, list : Lists, scope : OrgScopes, org : OrgScopes, waits : SUBSET Waits] :
     r.scope = NoOrg => r.waits = {}}
PlainRequests ==
  [to : {"orgs"}] \union [to : {"company"}, org : OrgScopes]
  \union [to : {"offer"}, org : OrgScopes, awaited : BOOLEAN]
DataRequests == ListRequests \union PlainRequests

DataReplies == (SUBSET Orgs) \union (SUBSET SUBSET Orgs)
ReplyTo(r, a) ==
  /\ r.to = "orgs" => a \in SUBSET Orgs
  /\ r.to # "orgs" => a \in SUBSET SUBSET Orgs
  /\ r.to = "company" /\ a # {} => r.org \in Orgs

\* The client does not give a list up before its answer or its error.
DataWaiting ==
  {c \in [stage : {"sent", "left"}, of : DataRequests, tries : Nat] :
     c.of.to = "list" => c.stage = "sent"}
DataServed ==
  {c \in [stage : {"served"}, of : DataRequests, tries : Nat, answer : DataReplies] :
     ReplyTo(c.of, c.answer)}
DataCalls == [Calls -> {Idle} \union DataWaiting \union DataServed]

CacheEntries ==
  {e \in [data : SUBSET SUBSET Orgs, fresh : BOOLEAN, inFlight : Calls \union {NoCall}] :
     e.fresh => Cardinality(e.data) = 1}
Caches == [OrgScopes -> [Lists -> CacheEntries]]
StreamStores == [rows : SUBSET Orgs, loading : BOOLEAN, isInitialized : BOOLEAN]
CompanyStores == [rows : SUBSET Orgs, loading : BOOLEAN, filter : Filters, requestId : Nat]
PageLists == [rows : SUBSET Orgs, loading : BOOLEAN, creating : BOOLEAN]
DataRecords == [cache : Caches, streams : StreamStores, company : CompanyStores, shown : PageLists]

\* The request c is for the list l of o.
IsFor(c, o, l) == c # Idle /\ c.of.to = "list" /\ c.of.scope = o /\ c.of.list = l

Joinable(c, cache) ==
  \A o \in OrgScopes, l \in Lists :
    cache[o][l].inFlight # NoCall => IsFor(c[cache[o][l].inFlight], o, l)

DataStates == {s \in [call : DataCalls, data : DataRecords] : Joinable(s.call, s.data.cache)}

\* The offers being created whose answer the offers page waits for.
AwaitedOffers(c) == {k \in Calls : c[k] # Idle /\ c[k].of.to = "offer" /\ c[k].of.awaited}

\* A change of the requests and the data that makes no page wait for an offer.
Follows(s, t) == t \in DataStates /\ AwaitedOffers(t.call) \subseteq AwaitedOffers(s.call)

\* The inductive invariant: what an entry lets others join is on its way; a list asked for
\* without an organization is nobody's; only the offers page waits for a new offer.
DataInv ==
  /\ org \in OrgScopes /\ route \in Pages /\ moves \in Nat /\ filled \in [Orgs -> SUBSET Lists]
  /\ guard \in [status : {"idle", "loading", "loaded"}, listed : SUBSET Orgs]
  /\ Now \in DataStates
  /\ AwaitedOffers(call) # {} => ShownPage = "offers"

-----------------------------------------------------------------------------
(* Requests                                                                 *)

LEMMA StageOfDataCall ==
  ASSUME NEW c \in DataCalls, NEW k \in Calls
  PROVE  /\ c[k].stage \in {"sent", "left"} => c[k] \in DataWaiting
         /\ c[k].stage = "served" => c[k] \in DataServed
         /\ c[k].stage \in {"sent", "left", "served"} <=> c[k] # Idle
         /\ c[k] # Idle => c[k].of \in DataRequests /\ c[k].tries \in Nat
  BY DEF DataCalls, DataWaiting, DataServed, Idle

LEMMA DataRequestKinds ==
  ASSUME NEW r \in DataRequests
  PROVE  /\ r.to \in {"list", "orgs", "company", "offer"}
         /\ r.to = "list" => r \in ListRequests
         /\ r.to = "company" => r.org \in OrgScopes
         /\ r.to = "offer" => r.org \in OrgScopes /\ r.awaited \in BOOLEAN
  BY DEF DataRequests, ListRequests, PlainRequests

\* One request replaced by another of the same kind, and for the same list.
LEMMA ReplacedSound ==
  ASSUME NEW c \in DataCalls, NEW k \in Calls, NEW e \in DataWaiting \union DataServed,
         c[k] # Idle, c[k].of.to = e.of.to,
         e.of.to = "list" => e.of.scope = c[k].of.scope /\ e.of.list = c[k].of.list,
         e.of.to = "offer" /\ e.of.awaited => c[k].of.awaited,
         NEW d \in DataRecords, Joinable(c, d.cache), NEW t, t = [c EXCEPT ![k] = e]
  PROVE  /\ t \in DataCalls /\ Joinable(t, d.cache)
         /\ AwaitedOffers(t) \subseteq AwaitedOffers(c)
  <1>1. t = [c EXCEPT ![k] = e]
    OBVIOUS
  <1>2. t \in DataCalls /\ t[k] = e /\ e # Idle /\ \A j \in Calls \ {k} : t[j] = c[j]
    BY <1>1 DEF DataCalls, DataWaiting, DataServed, Idle
  <1>3. ASSUME NEW o \in OrgScopes, NEW l \in Lists, d.cache[o][l].inFlight # NoCall
        PROVE  IsFor(t[d.cache[o][l].inFlight], o, l)
    <2>1. d.cache[o][l].inFlight \in Calls
      BY <1>3 DEF DataRecords, Caches, CacheEntries
    <2>2. IsFor(c[d.cache[o][l].inFlight], o, l)
      BY <1>3 DEF Joinable
    <2> QED
      BY <1>2, <2>1, <2>2 DEF IsFor
  <1>4. AwaitedOffers(t) \subseteq AwaitedOffers(c)
    BY <1>2 DEF AwaitedOffers
  <1> QED
    BY <1>1, <1>2, <1>3, <1>4 DEF Joinable

\* A new request in a place that is free.
LEMMA PlacedSound ==
  ASSUME NEW c \in DataCalls, NEW k, NEW r \in DataRequests, k \in Calls => c[k] = Idle,
         NEW d \in DataRecords, Joinable(c, d.cache), NEW t, t = [c EXCEPT ![k] = Request(r)]
  PROVE  /\ t \in DataCalls /\ Joinable(t, d.cache)
         /\ r.to # "offer" => AwaitedOffers(t) \subseteq AwaitedOffers(c)
         /\ k \in Calls => t[k] = Request(r)
  <1>1. t = [c EXCEPT ![k] = Request(r)]
    OBVIOUS
  <1>2. Request(r) \in DataWaiting /\ Request(r).of = r
    BY DEF Request, DataWaiting
  <1>3. t \in DataCalls /\ (k \in Calls => t[k] = Request(r)) /\ \A j \in Calls : j # k => t[j] = c[j]
    BY <1>1, <1>2 DEF DataCalls
  <1>4. ASSUME NEW o \in OrgScopes, NEW l \in Lists, d.cache[o][l].inFlight # NoCall
        PROVE  IsFor(t[d.cache[o][l].inFlight], o, l)
    <2>1. d.cache[o][l].inFlight \in Calls
      BY <1>4 DEF DataRecords, Caches, CacheEntries
    <2>2. IsFor(c[d.cache[o][l].inFlight], o, l)
      BY <1>4 DEF Joinable
    <2> QED
      BY <1>3, <2>1, <2>2 DEF IsFor
  <1>5. r.to # "offer" => AwaitedOffers(t) \subseteq AwaitedOffers(c)
    BY <1>2, <1>3 DEF AwaitedOffers
  <1> QED
    BY <1>1, <1>3, <1>4, <1>5 DEF Joinable

LEMMA FreePlace ==
  ASSUME NEW c, NEW k, k = CHOOSE f \in Free(c) : TRUE
  PROVE  /\ Free(c) # {} => k \in Free(c)
         /\ Room(1) /\ c = call => Free(c) # {}
  BY FS_EmptySet DEF Room

LEMMA SentData ==
  ASSUME NEW s \in DataStates, NEW r \in DataRequests, Free(s.call) # {},
         NEW t, t = Sent(s.call, r)
  PROVE  /\ t \in DataCalls /\ Joinable(t, s.data.cache)
         /\ r.to # "offer" => AwaitedOffers(t) \subseteq AwaitedOffers(s.call)
  <1>1. PICK k : k = CHOOSE f \in Free(s.call) : TRUE
    OBVIOUS
  <1>2. k \in Calls /\ s.call[k] = Idle
    BY <1>1, FreePlace DEF Free
  <1>3. s.call \in DataCalls /\ s.data \in DataRecords /\ Joinable(s.call, s.data.cache)
    BY DEF DataStates
  <1>4. t = [s.call EXCEPT ![k] = Request(r)]
    BY <1>1 DEF Sent
  <1>5. PICK c, d : c = s.call /\ d = s.data
    OBVIOUS
  <1> QED
    BY <1>2, <1>3, <1>4, <1>5, PlacedSound

-----------------------------------------------------------------------------
(* The data                                                                 *)

LEMMA PartsTyped ==
  ASSUME NEW d \in DataRecords
  PROVE  /\ d.cache \in Caches /\ d.streams \in StreamStores /\ d.company \in CompanyStores
         /\ d.shown \in PageLists
         /\ \A x \in StreamStores : [d EXCEPT !.streams = x] \in DataRecords
         /\ \A x \in CompanyStores : [d EXCEPT !.company = x] \in DataRecords
         /\ \A x \in PageLists : [d EXCEPT !.shown = x] \in DataRecords
         /\ \A x : /\ [d EXCEPT !.streams = x].cache = d.cache
                   /\ [d EXCEPT !.company = x].cache = d.cache
                   /\ [d EXCEPT !.shown = x].cache = d.cache
  BY DEF DataRecords

\* The stores and the page change, the cache does not.
LEMMA SameCacheFollows ==
  ASSUME NEW s \in DataStates, NEW d \in DataRecords, d.cache = s.data.cache
  PROVE  /\ [s EXCEPT !.data = d] \in DataStates /\ Follows(s, [s EXCEPT !.data = d])
         /\ [s EXCEPT !.data = d].call = s.call /\ [s EXCEPT !.data = d].data = d
  <1>1. PICK t : t = [s EXCEPT !.data = d]
    OBVIOUS
  <1>2. t.call = s.call /\ t.data = d /\ t \in [call : DataCalls, data : DataRecords]
    BY <1>1 DEF DataStates
  <1>3. t \in DataStates
    BY <1>2 DEF DataStates
  <1> QED
    BY <1>1, <1>2, <1>3 DEF Follows

LEMMA FollowsOn ==
  ASSUME NEW s, NEW t, NEW u, Follows(s, t), Follows(t, u)
  PROVE  Follows(s, u)
  BY DEF Follows

LEMMA EntryTyped ==
  ASSUME NEW s \in DataStates, NEW o \in OrgScopes, NEW l \in Lists
  PROVE  /\ Entry(s, o, l) \in CacheEntries /\ Rows(s, o, l) \in SUBSET Orgs
         /\ Entry(s, o, l).inFlight # NoCall =>
              Entry(s, o, l).inFlight \in Calls /\ IsFor(s.call[Entry(s, o, l).inFlight], o, l)
  <1>1. Entry(s, o, l) \in CacheEntries
    BY DEF DataStates, DataRecords, Caches, Entry
  <1>2. Rows(s, o, l) \in SUBSET Orgs
    BY <1>1 DEF Rows, CacheEntries
  <1> QED
    BY <1>1, <1>2 DEF DataStates, Joinable, Entry, CacheEntries

LEMMA StoresTyped ==
  ASSUME NEW d \in DataRecords, NEW rows \in SUBSET Orgs
  PROVE  /\ StreamsAre(d, rows) \in DataRecords /\ StreamsAre(d, rows).cache = d.cache
         /\ CompaniesAre(d, rows) \in DataRecords /\ CompaniesAre(d, rows).cache = d.cache
         /\ PageShows(d, rows) \in DataRecords /\ PageShows(d, rows).cache = d.cache
  <1>1. PICK a : a = [rows |-> rows, loading |-> FALSE, isInitialized |-> TRUE]
    OBVIOUS
  <1>2. PICK b : b = [d.company EXCEPT !.rows = rows, !.loading = FALSE]
    OBVIOUS
  <1>3. PICK c : c = [d.shown EXCEPT !.rows = rows, !.loading = FALSE]
    OBVIOUS
  <1>4. a \in StreamStores /\ b \in CompanyStores /\ c \in PageLists
    <2>1. d.company \in CompanyStores /\ d.shown \in PageLists
      BY DEF DataRecords
    <2>2. a \in StreamStores
      BY <1>1 DEF StreamStores
    <2>3. b \in CompanyStores
      BY <1>2, <2>1 DEF CompanyStores
    <2>4. c \in PageLists
      BY <1>3, <2>1 DEF PageLists
    <2> QED
      BY <2>2, <2>3, <2>4
  <1>5. StreamsAre(d, rows) = [d EXCEPT !.streams = a]
    BY <1>1 DEF StreamsAre
  <1>6. CompaniesAre(d, rows) = [d EXCEPT !.company = b]
    BY <1>2 DEF CompaniesAre, DataRecords
  <1>7. PageShows(d, rows) = [d EXCEPT !.shown = c]
    BY <1>3 DEF PageShows, DataRecords
  <1> QED
    BY <1>4, <1>5, <1>6, <1>7, PartsTyped

WithEntry(d, o, l, e) == [d EXCEPT !.cache[o][l] = e]

LEMMA EntryReplaced ==
  ASSUME NEW d \in DataRecords, NEW o \in OrgScopes, NEW l \in Lists, NEW e \in CacheEntries,
         NEW g, g = WithEntry(d, o, l, e)
  PROVE  /\ g \in DataRecords /\ g.cache[o][l] = e
         /\ \A p \in OrgScopes, m \in Lists : p # o \/ m # l => g.cache[p][m] = d.cache[p][m]
  <1>1. d.cache \in Caches
    BY DEF DataRecords
  <1>2. PICK row : row = [d.cache[o] EXCEPT ![l] = e]
    OBVIOUS
  <1>3. row \in [Lists -> CacheEntries] /\ row[l] = e /\ \A m \in Lists : m # l => row[m] = d.cache[o][m]
    BY <1>1, <1>2 DEF Caches
  <1>4. PICK cache : cache = [d.cache EXCEPT ![o] = row]
    OBVIOUS
  <1>5. /\ cache \in Caches /\ cache[o] = row
        /\ \A p \in OrgScopes : p # o => cache[p] = d.cache[p]
    BY <1>1, <1>3, <1>4 DEF Caches
  <1>6. g = [d EXCEPT !.cache = cache]
    BY <1>2, <1>4 DEF WithEntry
  <1>7. g \in DataRecords /\ g.cache = cache
    BY <1>5, <1>6 DEF DataRecords
  <1> QED
    BY <1>3, <1>5, <1>7

LEMMA AskingSound ==
  ASSUME NEW s \in DataStates, NEW o \in OrgScopes, NEW l \in Lists, NEW ws \in SUBSET Waits,
         o = NoOrg => ws = {}, Free(s.call) # {}, NEW t, t = Asking(s, o, l, ws)
  PROVE  Follows(s, t)
  <1>1. PICK k : k = Entry(s, o, l).inFlight
    OBVIOUS
  <1>2. s.call \in DataCalls /\ s.data \in DataRecords /\ Joinable(s.call, s.data.cache)
    BY DEF DataStates
  <1>3. CASE k # NoCall
    <2>1. k \in Calls /\ IsFor(s.call[k], o, l)
      BY <1>1, <1>3, EntryTyped
    <2>2. PICK r : r = [s.call[k].of EXCEPT !.waits = @ \union ws]
      OBVIOUS
    <2>3. s.call[k].of \in ListRequests
      BY <1>2, <2>1, StageOfDataCall, DataRequestKinds DEF IsFor
    <2>4. r \in ListRequests /\ r.to = "list" /\ r.scope = o /\ r.list = l
      BY <2>1, <2>2, <2>3 DEF ListRequests, IsFor
    <2>5. PICK e : e = [s.call[k] EXCEPT !.of = r]
      OBVIOUS
    <2>6. e \in DataWaiting \union DataServed /\ e.of = r
      <3>1. s.call[k] \in DataWaiting \union DataServed
        BY <1>2, <2>1 DEF DataCalls, IsFor
      <3>2. r \in DataRequests
        BY <2>4 DEF DataRequests
      <3>3. CASE s.call[k] \in DataWaiting
        BY <2>1, <2>4, <2>5, <3>2, <3>3 DEF DataWaiting, IsFor
      <3>4. CASE s.call[k] \in DataServed
        <4>1. ReplyTo(r, s.call[k].answer)
          BY <2>1, <2>4, <3>4 DEF DataServed, ReplyTo, IsFor
        <4> QED
          BY <2>5, <3>2, <3>4, <4>1 DEF DataServed
      <3> QED
        BY <3>1, <3>3, <3>4
    <2>7. PICK c : c = [s.call EXCEPT ![k] = e]
      OBVIOUS
    <2>8. c \in DataCalls /\ Joinable(c, s.data.cache) /\ AwaitedOffers(c) \subseteq AwaitedOffers(s.call)
      <3>1. PICK c0, d0 : c0 = s.call /\ d0 = s.data
        OBVIOUS
      <3>2. /\ c0[k] # Idle /\ c0[k].of.to = e.of.to /\ e.of.to # "offer"
            /\ e.of.scope = c0[k].of.scope /\ e.of.list = c0[k].of.list
        BY <2>1, <2>4, <2>6, <3>1 DEF IsFor
      <3> QED
        BY <1>2, <2>1, <2>6, <2>7, <3>1, <3>2, ReplacedSound
    <2>9. t = [s EXCEPT !.call[k].of.waits = @ \union ws]
      BY <1>1, <1>3 DEF Asking
    <2>10. t = [s EXCEPT !.call = c]
      BY <2>2, <2>5, <2>7, <2>9
    <2>11. t.call = c /\ t.data = s.data /\ t \in [call : DataCalls, data : DataRecords]
      BY <2>8, <2>10 DEF DataStates
    <2> QED
      BY <2>8, <2>11 DEF Follows, DataStates
  <1>4. CASE k = NoCall
    <2>1. PICK new : new = CHOOSE f \in Free(s.call) : TRUE
      OBVIOUS
    <2>2. new \in Calls /\ s.call[new] = Idle
      BY <2>1, FreePlace DEF Free
    <2>3. PICK r : r = [to |-> "list", list |-> l, scope |-> o, org |-> o, waits |-> ws]
      OBVIOUS
    <2>4. r \in DataRequests /\ r.to = "list" /\ r.scope = o /\ r.list = l
      BY <2>3 DEF DataRequests, ListRequests
    <2>5. PICK c : c = [s.call EXCEPT ![new] = Request(r)]
      OBVIOUS
    <2>6. /\ c \in DataCalls /\ Joinable(c, s.data.cache) /\ c[new] = Request(r)
          /\ AwaitedOffers(c) \subseteq AwaitedOffers(s.call)
      <3>1. PICK c0, d0 : c0 = s.call /\ d0 = s.data
        OBVIOUS
      <3>2. /\ c0 \in DataCalls /\ d0 \in DataRecords /\ Joinable(c0, d0.cache)
            /\ new \in Calls /\ c0[new] = Idle /\ r \in DataRequests
            /\ c = [c0 EXCEPT ![new] = Request(r)]
        BY <1>2, <2>2, <2>4, <2>5, <3>1
      <3>3. /\ c \in DataCalls /\ Joinable(c, d0.cache) /\ c[new] = Request(r)
            /\ r.to # "offer" => AwaitedOffers(c) \subseteq AwaitedOffers(c0)
        BY <3>2, PlacedSound
      <3> QED
        BY <2>4, <3>1, <3>3
    <2>7. PICK e : e = [Entry(s, o, l) EXCEPT !.inFlight = new]
      OBVIOUS
    <2>8. e \in CacheEntries /\ e.inFlight = new
      <3>1. PICK e0 : e0 = Entry(s, o, l)
        OBVIOUS
      <3>2. e0 \in CacheEntries
        BY <3>1, EntryTyped
      <3> QED
        BY <2>2, <2>7, <3>1, <3>2 DEF CacheEntries
    <2>9. PICK d : d = WithEntry(s.data, o, l, e)
      OBVIOUS
    <2>10. /\ d \in DataRecords /\ d.cache[o][l] = e
           /\ \A p \in OrgScopes, m \in Lists : p # o \/ m # l => d.cache[p][m] = s.data.cache[p][m]
      <3>1. PICK d0 : d0 = s.data
        OBVIOUS
      <3>2. d0 \in DataRecords /\ d = WithEntry(d0, o, l, e)
        BY <1>2, <2>9, <3>1
      <3>3. /\ d \in DataRecords /\ d.cache[o][l] = e
            /\ \A p \in OrgScopes, m \in Lists : p # o \/ m # l => d.cache[p][m] = d0.cache[p][m]
        BY <2>8, <3>2, EntryReplaced
      <3> QED
        BY <3>1, <3>3
    <2>11. IsFor(c[new], o, l)
      BY <2>4, <2>6 DEF IsFor, Request, Idle
    <2>12. Joinable(c, d.cache)
      BY <2>6, <2>8, <2>10, <2>11 DEF Joinable
    <2>13. t = [call |-> c, data |-> d]
      <3>1. t = [call |-> [s.call EXCEPT ![new] = Request(r)],
                 data |-> [s.data EXCEPT !.cache[o][l].inFlight = new]]
        BY <1>1, <1>4, <2>1, <2>3 DEF Asking
      <3>2. d = [s.data EXCEPT !.cache[o][l].inFlight = new]
        BY <2>7, <2>9 DEF Entry, WithEntry
      <3> QED
        BY <2>5, <3>1, <3>2
    <2> QED
      BY <2>6, <2>10, <2>12, <2>13 DEF Follows, DataStates
  <1> QED
    BY <1>3, <1>4

\* The end of a request for a list: its entry, if it is its, is given back.
LEMMA EndedSound ==
  ASSUME Now \in DataStates, NEW k \in Calls, call[k] # Idle, NEW d \in DataRecords,
         \A o \in OrgScopes, l \in Lists :
           d.cache[o][l].inFlight # NoCall =>
             d.cache[o][l].inFlight = data.cache[o][l].inFlight /\ ~IsFor(call[k], o, l)
  PROVE  /\ Without(k) \in DataCalls /\ Joinable(Without(k), d.cache)
         /\ AwaitedOffers(Without(k)) \subseteq AwaitedOffers(call)
         /\ Free(Without(k)) # {}
  <1>1. call \in DataCalls /\ data \in DataRecords /\ Joinable(call, data.cache)
    BY DEF Now, DataStates
  <1>2. PICK c : c = Without(k)
    OBVIOUS
  <1>3. c \in DataCalls /\ c[k] = Idle /\ \A j \in Calls \ {k} : c[j] = call[j]
    BY <1>1, <1>2 DEF DataCalls, Without
  <1>4. ASSUME NEW o \in OrgScopes, NEW l \in Lists, d.cache[o][l].inFlight # NoCall
        PROVE  IsFor(c[d.cache[o][l].inFlight], o, l)
    <2>1. d.cache[o][l].inFlight \in Calls
      BY <1>4 DEF DataRecords, Caches, CacheEntries
    <2>2. IsFor(call[d.cache[o][l].inFlight], o, l) /\ ~IsFor(call[k], o, l)
      BY <1>1, <1>4 DEF Joinable
    <2> QED
      BY <1>3, <2>1, <2>2
  <1>5. AwaitedOffers(c) \subseteq AwaitedOffers(call)
    BY <1>3 DEF AwaitedOffers
  <1>6. k \in Free(c)
    BY <1>3 DEF Free
  <1> QED
    BY <1>2, <1>3, <1>4, <1>5, <1>6 DEF Joinable

LEMMA OtherEndedSound ==
  ASSUME Now \in DataStates, NEW k \in Calls, call[k] # Idle, call[k].of.to # "list"
  PROVE  /\ After(k) \in DataStates /\ After(k).call = Without(k) /\ After(k).data = data
         /\ AwaitedOffers(Without(k)) \subseteq AwaitedOffers(call) /\ Free(Without(k)) # {}
  <1>1. data \in DataRecords
    BY DEF Now, DataStates
  <1>2. Without(k) \in DataCalls /\ Joinable(Without(k), data.cache)
        /\ AwaitedOffers(Without(k)) \subseteq AwaitedOffers(call) /\ Free(Without(k)) # {}
    BY <1>1, EndedSound DEF IsFor
  <1> QED
    BY <1>1, <1>2 DEF After, DataStates

LEMMA InvalidatedSound ==
  ASSUME NEW s \in DataStates, NEW o \in OrgScopes, NEW lists, NEW d, d = Invalidated(s.data, o, lists),
         NEW t, t = [s EXCEPT !.data = d]
  PROVE  /\ Follows(s, t) /\ t.call = s.call /\ t.data = d /\ d \in DataRecords
         /\ Joinable(s.call, d.cache) /\ d.company = s.data.company
  <1>1. s.call \in DataCalls /\ s.data \in DataRecords /\ Joinable(s.call, s.data.cache) /\ s.data.cache \in Caches
    BY DEF DataStates, DataRecords
  <1>2. PICK row : row = [l \in Lists |-> IF l \in lists THEN NoEntry ELSE s.data.cache[o][l]]
    OBVIOUS
  <1>3. row \in [Lists -> CacheEntries]
    BY <1>1, <1>2 DEF Caches, NoEntry, CacheEntries
  <1>4. PICK cache : cache = [s.data.cache EXCEPT ![o] = row]
    OBVIOUS
  <1>5. cache \in Caches /\ cache[o] = row /\ \A p \in OrgScopes \ {o} : cache[p] = s.data.cache[p]
    BY <1>1, <1>3, <1>4 DEF Caches
  <1>6. d = [s.data EXCEPT !.cache = cache]
    BY <1>1, <1>2, <1>4 DEF Invalidated, Caches
  <1>7. d \in DataRecords /\ d.cache = cache /\ d.company = s.data.company
    BY <1>1, <1>5, <1>6 DEF DataRecords
  <1>8. Joinable(s.call, cache)
    BY <1>1, <1>2, <1>5 DEF Joinable, NoEntry
  <1>9. t.call = s.call /\ t.data = d /\ t \in [call : DataCalls, data : DataRecords]
    BY <1>1, <1>7 DEF DataStates
  <1>10. t \in DataStates
    BY <1>7, <1>8, <1>9 DEF DataStates
  <1> QED
    BY <1>7, <1>8, <1>9, <1>10 DEF Follows

-----------------------------------------------------------------------------
(* The stores and the pages ask for their lists                             *)

LEMMA MarksTyped ==
  ASSUME NEW d \in DataRecords, NEW b \in BOOLEAN
  PROVE  /\ [d EXCEPT !.streams.loading = b] \in DataRecords
         /\ [d EXCEPT !.streams.loading = b].cache = d.cache
         /\ [d EXCEPT !.company.loading = b] \in DataRecords
         /\ [d EXCEPT !.company.loading = b].cache = d.cache
         /\ [d EXCEPT !.shown.loading = b] \in DataRecords
         /\ [d EXCEPT !.shown.loading = b].cache = d.cache
         /\ [d EXCEPT !.shown.creating = b] \in DataRecords
         /\ [d EXCEPT !.shown.creating = b].cache = d.cache
  <1>1. /\ d.streams \in StreamStores /\ d.company \in CompanyStores /\ d.shown \in PageLists
    BY PartsTyped
  <1>2. PICK x : x = [d.streams EXCEPT !.loading = b]
    OBVIOUS
  <1>3. PICK y : y = [d.company EXCEPT !.loading = b]
    OBVIOUS
  <1>4. PICK z : z = [d.shown EXCEPT !.loading = b]
    OBVIOUS
  <1>5. PICK v : v = [d.shown EXCEPT !.creating = b]
    OBVIOUS
  <1>6. x \in StreamStores
    BY <1>1, <1>2 DEF StreamStores
  <1>7. y \in CompanyStores
    BY <1>1, <1>3 DEF CompanyStores
  <1>8. z \in PageLists /\ v \in PageLists
    BY <1>1, <1>4, <1>5 DEF PageLists
  <1>9. /\ [d EXCEPT !.streams.loading = b] = [d EXCEPT !.streams = x]
        /\ [d EXCEPT !.company.loading = b] = [d EXCEPT !.company = y]
        /\ [d EXCEPT !.shown.loading = b] = [d EXCEPT !.shown = z]
        /\ [d EXCEPT !.shown.creating = b] = [d EXCEPT !.shown = v]
    BY <1>2, <1>3, <1>4, <1>5
  <1> QED
    BY <1>6, <1>7, <1>8, <1>9, PartsTyped

LEMMA StateTyped ==
  ASSUME NEW s \in DataStates
  PROVE  /\ s.call \in DataCalls /\ s.data \in DataRecords /\ Joinable(s.call, s.data.cache)
         /\ s = [call |-> s.call, data |-> s.data] /\ Follows(s, s)
  BY DEF DataStates, Follows

LEMMA LoadStreamsSound ==
  ASSUME NEW s \in DataStates, NEW o \in Orgs, NEW force \in BOOLEAN, Free(s.call) # {},
         NEW t, t = loadStreams(s, o, force)
  PROVE  Follows(s, t)
  <1>1. o \in OrgScopes /\ o # NoOrg /\ "streams" \in Lists
    BY DataAssumption DEF OrgScopes, Lists
  <1>2. PICK rows : rows = Rows(s, o, "streams")
    OBVIOUS
  <1>3. rows \in SUBSET Orgs
    BY <1>1, <1>2, EntryTyped
  <1>4. PICK d : d \in {s.data, StreamsAre(s.data, rows)}
                 /\ LET peeked == [s EXCEPT !.data = d]
                    IN \/ t = peeked
                       \/ t = Asking([peeked EXCEPT !.data.streams.loading = TRUE], o, "streams",
                                     {[for |-> "streams"]})
    <2>1. s = [s EXCEPT !.data = s.data]
      BY StateTyped
    <2>2. CASE ~force /\ Entry(s, o, "streams").data # {}
      BY <1>2, <2>2 DEF loadStreams
    <2>3. CASE ~(~force /\ Entry(s, o, "streams").data # {})
      BY <2>1, <2>3 DEF loadStreams
    <2> QED
      BY <2>2, <2>3
  <1>5. d \in DataRecords /\ d.cache = s.data.cache
    BY <1>3, <1>4, StateTyped, StoresTyped
  <1>6. PICK peeked : peeked = [s EXCEPT !.data = d]
    OBVIOUS
  <1>7. Follows(s, peeked) /\ peeked.call = s.call /\ peeked.data = d
    BY <1>5, <1>6, SameCacheFollows
  <1>8. PICK e : e = [d EXCEPT !.streams.loading = TRUE]
    OBVIOUS
  <1>9. PICK u : u = [s EXCEPT !.data = e]
    OBVIOUS
  <1>10. e \in DataRecords /\ e.cache = s.data.cache
    BY <1>5, <1>8, MarksTyped
  <1>11. u \in DataStates /\ Follows(s, u) /\ u.call = s.call
    BY <1>9, <1>10, SameCacheFollows
  <1>12. u = [peeked EXCEPT !.data.streams.loading = TRUE]
    BY <1>6, <1>8, <1>9, StateTyped
  <1>13. PICK ws : ws = {[for |-> "streams"]}
    OBVIOUS
  <1>14. ws \in SUBSET Waits
    BY <1>13 DEF Waits
  <1>15. t = peeked \/ t = Asking(u, o, "streams", ws)
    BY <1>4, <1>6, <1>12, <1>13
  <1>16. CASE t = Asking(u, o, "streams", ws)
    BY <1>1, <1>11, <1>14, <1>16, AskingSound, FollowsOn
  <1> QED
    BY <1>7, <1>15, <1>16

LEMMA LoadCompaniesSound ==
  ASSUME NEW s \in DataStates, NEW o \in Orgs, NEW f \in Filters, Free(s.call) # {},
         NEW t, t = loadCompanies(s, o, f)
  PROVE  Follows(s, t)
  <1>1. o \in OrgScopes /\ o # NoOrg /\ f \in Lists
    BY DataAssumption DEF OrgScopes, Lists
  <1>2. PICK id : id = s.data.company.requestId + 1
    OBVIOUS
  <1>3. s.data.company \in CompanyStores /\ s.data \in DataRecords
    BY StateTyped, PartsTyped
  <1>4. id \in Nat
    BY <1>2, <1>3 DEF CompanyStores
  <1>5. PICK x : x = [rows |-> IF s.data.company.filter = f THEN s.data.company.rows ELSE {},
                      loading |-> TRUE, filter |-> f, requestId |-> id]
    OBVIOUS
  <1>6. x \in CompanyStores
    BY <1>3, <1>4, <1>5 DEF CompanyStores
  <1>7. PICK d : d = [s.data EXCEPT !.company = x]
    OBVIOUS
  <1>8. d \in DataRecords /\ d.cache = s.data.cache
    BY <1>3, <1>6, <1>7, PartsTyped
  <1>9. PICK asked : asked = [s EXCEPT !.data = d]
    OBVIOUS
  <1>10. asked \in DataStates /\ Follows(s, asked) /\ asked.call = s.call /\ asked.data = d
    BY <1>8, <1>9, SameCacheFollows
  <1>11. PICK rows : rows = Rows(s, o, f)
    OBVIOUS
  <1>12. rows \in SUBSET Orgs
    BY <1>1, <1>11, EntryTyped
  <1>13. PICK e : e = CompaniesAre(d, rows)
    OBVIOUS
  <1>14. e \in DataRecords /\ e.cache = d.cache
    BY <1>8, <1>12, <1>13, StoresTyped
  <1>15. PICK ws : ws = {[for |-> "companies", id |-> id]}
    OBVIOUS
  <1>16. ws \in SUBSET Waits
    BY <1>4, <1>15 DEF Waits
  <1>17. t = [asked EXCEPT !.data = e] \/ t = Asking(asked, o, f, ws)
    <2>1. asked = [s EXCEPT !.data.company =
                  [rows |-> IF @.filter = f THEN @.rows ELSE {}, loading |-> TRUE, filter |-> f, requestId |-> id]]
      BY <1>3, <1>5, <1>7, <1>9, StateTyped
    <2>2. [asked EXCEPT !.data = e] = [asked EXCEPT !.data = CompaniesAre(@, Rows(s, o, f))]
      BY <1>10, <1>11, <1>13, StateTyped
    <2> QED
      BY <1>2, <1>15, <2>1, <2>2 DEF loadCompanies
  <1>18. CASE t = [asked EXCEPT !.data = e]
    BY <1>10, <1>14, <1>18, SameCacheFollows, FollowsOn
  <1>19. CASE t = Asking(asked, o, f, ws)
    BY <1>1, <1>10, <1>16, <1>19, AskingSound, FollowsOn
  <1> QED
    BY <1>17, <1>18, <1>19

LEMMA LoadPageSound ==
  ASSUME NEW s \in DataStates, NEW o \in Orgs, NEW p \in ListPages, NEW force, Free(s.call) # {},
         NEW t, t = loadPage(s, o, p, force)
  PROVE  Follows(s, t)
  <1>1. o \in OrgScopes /\ o # NoOrg /\ p \in Lists
    BY DataAssumption DEF OrgScopes, Lists
  <1>2. PICK rows : rows = Rows(s, o, p)
    OBVIOUS
  <1>3. rows \in SUBSET Orgs
    BY <1>1, <1>2, EntryTyped
  <1>4. s.data \in DataRecords
    BY StateTyped
  <1>5. PICK d : d = PageShows(s.data, rows)
    OBVIOUS
  <1>6. PICK e : e = [s.data EXCEPT !.shown.loading = TRUE]
    OBVIOUS
  <1>7. /\ d \in DataRecords /\ d.cache = s.data.cache
        /\ e \in DataRecords /\ e.cache = s.data.cache
    BY <1>3, <1>4, <1>5, <1>6, StoresTyped, MarksTyped
  <1>8. PICK shows : shows = [s EXCEPT !.data = d]
    OBVIOUS
  <1>9. PICK waits : waits = [s EXCEPT !.data = e]
    OBVIOUS
  <1>10. /\ shows \in DataStates /\ Follows(s, shows) /\ shows.call = s.call
         /\ waits \in DataStates /\ Follows(s, waits) /\ waits.call = s.call
    BY <1>7, <1>8, <1>9, SameCacheFollows
  <1>11. PICK ws : ws = {[for |-> "page"]}
    OBVIOUS
  <1>12. ws \in SUBSET Waits
    BY <1>11 DEF Waits
  <1>13. \/ t = shows
         \/ \E u \in {shows, waits} : t = Asking(u, o, p, ws)
    <2>1. shows = [s EXCEPT !.data = PageShows(@, Rows(s, o, p))]
      BY <1>2, <1>5, <1>8
    <2>2. waits = [s EXCEPT !.data.shown.loading = TRUE]
      BY <1>6, <1>9
    <2>3. CASE Hit(s, o, p)
      BY <2>1, <2>3 DEF loadPage
    <2>4. CASE ~Hit(s, o, p) /\ Rows(s, o, p) # {}
      BY <1>11, <2>1, <2>4 DEF loadPage
    <2>5. CASE ~Hit(s, o, p) /\ Rows(s, o, p) = {}
      BY <1>11, <2>2, <2>5 DEF loadPage
    <2> QED
      BY <2>3, <2>4, <2>5
  <1>14. ASSUME NEW u \in {shows, waits}, t = Asking(u, o, p, ws)
         PROVE  Follows(s, t)
    <2>1. u \in DataStates /\ Follows(s, u) /\ Free(u.call) # {}
      BY <1>10, <1>14
    <2>2. Follows(u, t)
      BY <1>1, <1>12, <1>14, <2>1, AskingSound
    <2> QED
      BY <2>1, <2>2, FollowsOn
  <1> QED
    BY <1>10, <1>13, <1>14

\* Nobody waits any more for an offer once the page is gone.
LEMMA PageUnmountedSound ==
  ASSUME NEW s \in DataStates, NEW t, t = PageUnmounted(s)
  PROVE  /\ t \in DataStates /\ AwaitedOffers(t.call) = {}
         /\ Free(s.call) # {} => Free(t.call) # {}
  <1>1. s.call \in DataCalls /\ s.data \in DataRecords /\ Joinable(s.call, s.data.cache)
    BY StateTyped
  <1>2. PICK c : c = t.call
    OBVIOUS
  <1>3. ASSUME NEW k \in Calls
        PROVE  /\ c[k] \in {Idle} \union DataWaiting \union DataServed
               /\ s.call[k] = Idle => c[k] = Idle
               /\ \A o, l : IsFor(s.call[k], o, l) => IsFor(c[k], o, l)
               /\ c[k] # Idle /\ c[k].of.to = "offer" => ~c[k].of.awaited
    <2>1. s.call[k] \in {Idle} \union DataWaiting \union DataServed
      BY <1>1 DEF DataCalls
    <2>2. CASE s.call[k] = Idle
      BY <1>2, <2>2 DEF PageUnmounted, IsFor
    <2>3. CASE s.call[k] # Idle /\ s.call[k].of.to = "list"
      <3>1. PICK r : r = [s.call[k].of EXCEPT !.waits = {w \in @ : w.for \notin {"page", "created"}}]
        OBVIOUS
      <3>2. s.call[k].of \in ListRequests
        BY <1>1, <2>3, StageOfDataCall, DataRequestKinds
      <3>3. /\ r \in ListRequests /\ r \in DataRequests /\ r.to = "list" /\ r.scope = s.call[k].of.scope
            /\ r.list = s.call[k].of.list
        BY <3>1, <3>2 DEF ListRequests, DataRequests
      <3>4. c[k] = [s.call[k] EXCEPT !.of = r]
        BY <1>2, <2>3, <3>1 DEF PageUnmounted
      <3>5. c[k] \in DataWaiting \union DataServed /\ c[k].of = r
        <4>1. CASE s.call[k] \in DataWaiting
          BY <2>3, <3>3, <3>4, <4>1 DEF DataWaiting
        <4>2. CASE s.call[k] \in DataServed
          <5>1. ReplyTo(r, s.call[k].answer)
            BY <2>3, <3>3, <4>2 DEF DataServed, ReplyTo
          <5> QED
            BY <3>3, <3>4, <4>2, <5>1 DEF DataServed
        <4> QED
          BY <2>1, <2>3, <4>1, <4>2
      <3>6. c[k] # Idle
        BY <3>5 DEF DataWaiting, DataServed, Idle
      <3> QED
        BY <2>3, <3>3, <3>5, <3>6 DEF IsFor
    <2>4. CASE s.call[k] # Idle /\ s.call[k].of.to = "offer"
      <3>1. PICK r : r = [s.call[k].of EXCEPT !.awaited = FALSE]
        OBVIOUS
      <3>2. r \in DataRequests /\ r.to = "offer" /\ ~r.awaited
        <4>1. s.call[k].of \in DataRequests
          BY <1>1, <2>4, StageOfDataCall
        <4>2. s.call[k].of \in [to : {"offer"}, org : OrgScopes, awaited : BOOLEAN]
          BY <2>4, <4>1 DEF DataRequests, ListRequests, PlainRequests
        <4>3. r \in [to : {"offer"}, org : OrgScopes, awaited : BOOLEAN] /\ ~r.awaited
          BY <3>1, <4>2
        <4> QED
          BY <4>3 DEF DataRequests, PlainRequests
      <3>3. c[k] = [s.call[k] EXCEPT !.of = r]
        BY <1>2, <2>4, <3>1 DEF PageUnmounted
      <3>4. c[k] \in DataWaiting \union DataServed /\ c[k].of = r
        <4>1. CASE s.call[k] \in DataWaiting
          BY <2>4, <3>2, <3>3, <4>1 DEF DataWaiting
        <4>2. CASE s.call[k] \in DataServed
          <5>1. ReplyTo(r, s.call[k].answer)
            BY <2>4, <3>2, <4>2 DEF DataServed, ReplyTo
          <5> QED
            BY <3>2, <3>3, <4>2, <5>1 DEF DataServed
        <4> QED
          BY <2>1, <2>4, <4>1, <4>2
      <3> QED
        BY <2>4, <3>2, <3>4 DEF IsFor
    <2>5. CASE s.call[k] # Idle /\ s.call[k].of.to \notin {"list", "offer"}
      <3>1. c[k] = s.call[k]
        BY <1>2, <2>5 DEF PageUnmounted
      <3> QED
        BY <2>1, <2>5, <3>1
    <2> QED
      BY <2>2, <2>3, <2>4, <2>5
  <1>4. c \in DataCalls
    <2>1. c = [k \in Calls |-> c[k]]
      BY <1>2 DEF PageUnmounted
    <2> QED
      BY <1>3, <2>1 DEF DataCalls
  <1>5. Joinable(c, s.data.cache)
    <2>1. ASSUME NEW o \in OrgScopes, NEW l \in Lists, s.data.cache[o][l].inFlight # NoCall
          PROVE  IsFor(c[s.data.cache[o][l].inFlight], o, l)
      <3>1. s.data.cache[o][l].inFlight \in Calls
        BY <1>1, <2>1 DEF DataRecords, Caches, CacheEntries
      <3> QED
        BY <1>1, <1>3, <2>1, <3>1 DEF Joinable
    <2> QED
      BY <2>1 DEF Joinable
  <1>6. NoList \in PageLists
    BY DEF NoList, PageLists
  <1>7. PICK d : d = [s.data EXCEPT !.shown = NoList]
    OBVIOUS
  <1>8. d \in DataRecords /\ d.cache = s.data.cache
    BY <1>1, <1>6, <1>7, PartsTyped
  <1>9. t = [call |-> c, data |-> d]
    BY <1>2, <1>7 DEF PageUnmounted
  <1>10. t \in DataStates
    BY <1>4, <1>5, <1>8, <1>9 DEF DataStates
  <1>11. AwaitedOffers(c) = {}
    BY <1>3 DEF AwaitedOffers
  <1>12. Free(s.call) # {} => Free(c) # {}
    BY <1>3 DEF Free
  <1> QED
    BY <1>2, <1>10, <1>11, <1>12

LEMMA MountedSound ==
  ASSUME NEW s \in DataStates, NEW o \in OrgScopes, NEW p,
         p \in {"streams"} \union ListPages => o \in Orgs /\ Free(s.call) # {},
         NEW t, t = Mounted(s, o, p)
  PROVE  Follows(s, t)
  <1>1. CASE p = "streams" /\ ~s.data.streams.isInitialized
    <2>1. t = loadStreams(s, o, FALSE) /\ FALSE \in BOOLEAN
      BY <1>1 DEF Mounted, ListPages
    <2> QED
      BY <1>1, <2>1, LoadStreamsSound
  <1>2. CASE ~(p = "streams" /\ ~s.data.streams.isInitialized) /\ p \in ListPages
    BY <1>2, LoadPageSound DEF Mounted
  <1>3. CASE ~(p = "streams" /\ ~s.data.streams.isInitialized) /\ p \notin ListPages
    BY <1>3, StateTyped DEF Mounted
  <1> QED
    BY <1>1, <1>2, <1>3

-----------------------------------------------------------------------------
(* Every step                                                               *)

Guards == [status : {"idle", "loading", "loaded"}, listed : SUBSET Orgs]

LEMMA NowTyped ==
  ASSUME DataInv
  PROVE  /\ Now \in DataStates /\ Now.call = call /\ Now.data = data
         /\ call \in DataCalls /\ data \in DataRecords /\ Joinable(call, data.cache)
         /\ guard \in Guards /\ org \in OrgScopes /\ route \in Pages
         /\ org # NoOrg => org \in Orgs
  BY DEF DataInv, Now, DataStates, Guards, OrgScopes

LEMMA HereKeeps ==
  ASSUME DataInv, NEW t, Follows(Now, t), Then(t), Here, filled' \in [Orgs -> SUBSET Lists],
         moves' \in Nat
  PROVE  DataInv'
  <1>1. Now.call = call /\ t \in DataStates /\ t = [call |-> t.call, data |-> t.data]
    BY StateTyped DEF Now, Follows
  <1>2. Now' = t
    BY <1>1 DEF Then, Now
  <1>3. AwaitedOffers(call') \subseteq AwaitedOffers(call)
    BY <1>1 DEF Follows, Then
  <1>4. UNCHANGED ShownPage
    BY DEF Here, ShownPage
  <1> QED
    BY <1>1, <1>2, <1>3, <1>4 DEF DataInv, Here

LEMMA GoesKeeps ==
  ASSUME DataInv, NEW s \in DataStates, AwaitedOffers(s.call) \subseteq AwaitedOffers(call),
         NEW o \in OrgScopes, NEW g \in Guards, NEW p \in Pages,
         Rendered(o, g.status, p) \in {"streams"} \union ListPages => Free(s.call) # {},
         Goes(s, o, g, p), filled' = filled, moves' \in Nat
  PROVE  DataInv'
  <1>1. PICK now : now = Rendered(o, g.status, p)
    OBVIOUS
  <1>2. ShownPage' = now
    BY <1>1 DEF Goes, ShownPage
  <1>3. now \in {"streams"} \union ListPages => o \in Orgs
    BY <1>1 DEF Rendered, OrgScopes, ListPages
  <1>4. PICK t : /\ t = IF now = ShownPage THEN s ELSE Mounted(PageUnmounted(s), o, now)
                 /\ Then(t)
    BY <1>1 DEF Goes
  <1>5. /\ t \in DataStates
        /\ AwaitedOffers(t.call) # {} => now = ShownPage /\ AwaitedOffers(call) # {}
    <2>1. CASE now = ShownPage
      BY <1>4, <2>1
    <2>2. CASE now # ShownPage
      <3>1. PICK u : u = PageUnmounted(s)
        OBVIOUS
      <3>2. u \in DataStates /\ AwaitedOffers(u.call) = {} /\ (Free(s.call) # {} => Free(u.call) # {})
        BY <3>1, PageUnmountedSound
      <3>3. Follows(u, t)
        BY <1>1, <1>3, <1>4, <2>2, <3>1, <3>2, MountedSound
      <3> QED
        BY <3>2, <3>3 DEF Follows
    <2> QED
      BY <2>1, <2>2
  <1>6. Now' = t /\ call' = t.call
    <2>1. t = [call |-> t.call, data |-> t.data]
      BY <1>5, StateTyped
    <2> QED
      BY <1>4, <2>1 DEF Then, Now
  <1>7. org' = o /\ guard' = g /\ route' = p
    BY DEF Goes
  <1> QED
    BY <1>2, <1>5, <1>6, <1>7 DEF DataInv, Guards

LEMMA ResetSoundOfStores ==
  ASSUME NEW s \in DataStates, NEW t, t = Reset(s)
  PROVE  t \in DataStates /\ t.call = s.call
  <1>1. NoCompanies \in CompanyStores
    BY DEF NoCompanies, CompanyStores, Filters
  <1>2. PICK d : d = [s.data EXCEPT !.company = NoCompanies]
    OBVIOUS
  <1>3. d \in DataRecords /\ d.cache = s.data.cache
    BY <1>1, <1>2, StateTyped, PartsTyped
  <1>4. t = [s EXCEPT !.data = d]
    BY <1>2 DEF Reset
  <1> QED
    BY <1>3, <1>4, SameCacheFollows

LEMMA EnteringSound ==
  ASSUME NEW s \in DataStates, Free(s.call) # {}, NEW t, t = Entering(s)
  PROVE  t \in DataStates /\ AwaitedOffers(t.call) \subseteq AwaitedOffers(s.call)
  <1>1. PICK r : r = [to |-> "orgs"]
    OBVIOUS
  <1>2. r \in DataRequests /\ r.to # "offer"
    BY <1>1 DEF DataRequests, PlainRequests
  <1>3. PICK c : c = Sent(s.call, r)
    OBVIOUS
  <1>4. c \in DataCalls /\ Joinable(c, s.data.cache) /\ AwaitedOffers(c) \subseteq AwaitedOffers(s.call)
    BY <1>2, <1>3, SentData
  <1>5. t = [call |-> c, data |-> s.data]
    BY <1>1, <1>3, StateTyped DEF Entering
  <1>6. s.data \in DataRecords
    BY StateTyped
  <1> QED
    BY <1>4, <1>5, <1>6 DEF DataStates

LEMMA RoutesKeep ==
  ASSUME DataInv,
         \/ \E p \in Pages : Go(p)
         \/ \E o \in Orgs : handleOpenWorkspace(o) \/ handleSelectOrg(o)
         \/ GuardTimeout
  PROVE  DataInv'
  <1>1. /\ Now \in DataStates /\ Now.call = call /\ guard \in Guards /\ org \in OrgScopes
        /\ route \in Pages /\ moves \in Nat /\ Orgs \subseteq OrgScopes
    BY NowTyped DEF DataInv, OrgScopes
  <1>2. ASSUME NEW status \in {"idle", "loading", "loaded"}
        PROVE  Guard(status) \in Guards /\ Guard(status).status = status
    BY <1>1 DEF Guard, Guards
  <1>3. Room(1) => Free(call) # {}
    BY FreePlace
  <1>4. \A o \in OrgScopes, p \in Pages : Rendered(o, "loading", p) \notin {"streams"} \union ListPages
    BY DEF Rendered, ListPages
  <1>5. ASSUME NEW p \in Pages, Go(p)
        PROVE  DataInv'
    <2>1. moves' \in Nat /\ filled' = filled /\ p # route
      BY <1>1, <1>5 DEF Go, Moving
    <2>2. CASE route = "admin"
      <3>1. Goes(Entering(Now), org, Guard("loading"), p) /\ Free(Now.call) # {}
        BY <1>1, <1>3, <1>5, <2>1, <2>2 DEF Go
      <3>2. PICK s : s = Entering(Now)
        OBVIOUS
      <3>3. s \in DataStates /\ AwaitedOffers(s.call) \subseteq AwaitedOffers(call)
        BY <1>1, <3>1, <3>2, EnteringSound
      <3>4. PICK g \in Guards : g = Guard("loading") /\ g.status = "loading"
        BY <1>2
      <3> QED
        BY <1>1, <1>4, <2>1, <3>1, <3>2, <3>3, <3>4, GoesKeeps
    <2>3. CASE route # "admin" /\ p = "admin"
      <3>1. Goes(Now, org, Guard("idle"), p)
        BY <1>5, <2>3 DEF Go
      <3>2. PICK g \in Guards : g = Guard("idle") /\ g.status = "idle"
        BY <1>2
      <3>3. Rendered(org, g.status, p) \notin {"streams"} \union ListPages
        BY <2>3 DEF Rendered, ListPages
      <3> QED
        BY <1>1, <2>1, <3>1, <3>2, <3>3, GoesKeeps
    <2>4. CASE route # "admin" /\ p # "admin"
      <3>1. Goes(Now, org, guard, p) /\ Free(Now.call) # {}
        BY <1>1, <1>3, <1>5, <2>4 DEF Go
      <3> QED
        BY <1>1, <2>1, <3>1, GoesKeeps
    <2> QED
      BY <2>2, <2>3, <2>4
  <1>6. ASSUME NEW o \in Orgs, handleOpenWorkspace(o)
        PROVE  DataInv'
    <2>1. /\ moves' \in Nat /\ filled' = filled /\ Free(call) # {}
          /\ Goes(Entering(Reset(Now)), o, Guard("loading"), "other")
      BY <1>1, <1>3, <1>6 DEF handleOpenWorkspace, Moving
    <2>2. PICK u : u = Reset(Now)
      OBVIOUS
    <2>3. u \in DataStates /\ u.call = call
      BY <1>1, <2>2, ResetSoundOfStores
    <2>4. PICK s : s = Entering(u)
      OBVIOUS
    <2>5. s \in DataStates /\ AwaitedOffers(s.call) \subseteq AwaitedOffers(call)
      BY <2>1, <2>3, <2>4, EnteringSound
    <2>6. PICK g \in Guards : g = Guard("loading") /\ g.status = "loading"
      BY <1>2
    <2>7. "other" \in Pages
      BY DEF Pages
    <2> QED
      BY <1>1, <1>4, <2>1, <2>2, <2>4, <2>5, <2>6, <2>7, GoesKeeps
  <1>7. ASSUME NEW o \in Orgs, handleSelectOrg(o)
        PROVE  DataInv'
    <2>1. /\ moves' \in Nat /\ filled' = filled /\ Free(call) # {}
          /\ Goes(Reset(Now), o, guard, route)
      BY <1>1, <1>3, <1>7 DEF handleSelectOrg, Moving
    <2>2. PICK u : u = Reset(Now)
      OBVIOUS
    <2>3. u \in DataStates /\ u.call = call
      BY <1>1, <2>2, ResetSoundOfStores
    <2> QED
      BY <1>1, <2>1, <2>2, <2>3, GoesKeeps
  <1>8. ASSUME GuardTimeout
        PROVE  DataInv'
    <2>1. /\ moves' \in Nat /\ filled' = filled /\ Free(call) # {}
          /\ Goes(Now, org, Guard("loaded"), route)
      BY <1>1, <1>3, <1>8 DEF GuardTimeout
    <2>2. PICK g \in Guards : g = Guard("loaded")
      BY <1>2
    <2> QED
      BY <1>1, <2>1, <2>2, GoesKeeps
  <1> QED
    BY <1>5, <1>6, <1>7, <1>8

LEMMA OrgsReturn ==
  ASSUME DataInv, NEW k \in Calls, OrgsAnswered(k) \/ OrgsFailed(k)
  PROVE  DataInv'
  <1>1. /\ Now \in DataStates /\ call \in DataCalls /\ guard \in Guards /\ org \in OrgScopes
        /\ route \in Pages /\ moves \in Nat
    BY NowTyped DEF DataInv
  <1>2. call[k].stage \in {"sent", "served"} /\ call[k].of.to = "orgs"
    BY DEF OrgsAnswered, OrgsFailed, Served, Fails
  <1>3. call[k] # Idle
    BY <1>1, <1>2, StageOfDataCall
  <1>4. PICK s : s = After(k)
    OBVIOUS
  <1>5. s \in DataStates /\ AwaitedOffers(s.call) \subseteq AwaitedOffers(call) /\ Free(s.call) # {}
    BY <1>1, <1>2, <1>3, <1>4, OtherEndedSound
  <1>6. ASSUME NEW listed \in SUBSET Orgs
        PROVE  Checked(listed) \in Guards
    BY DEF Checked, Guards
  <1>7. PICK u : u = Reset(s)
    OBVIOUS
  <1>8. u \in DataStates /\ u.call = s.call
    BY <1>5, <1>7, ResetSoundOfStores
  <1>9. filled' = filled /\ moves' \in Nat
    BY <1>1 DEF OrgsAnswered, OrgsFailed
  <1>10. NoOrg \in OrgScopes
    BY DEF OrgScopes
  <1>11. CASE OrgsAnswered(k)
    <2>1. PICK listed : listed = call[k].answer
      OBVIOUS
    <2>2. listed \in SUBSET Orgs
      BY <1>1, <1>11, <2>1, StageOfDataCall DEF OrgsAnswered, Served, DataServed, ReplyTo
    <2>3. Goes(u, NoOrg, Checked(listed), route) \/ Goes(s, org, Checked(listed), route)
      BY <1>4, <1>7, <1>11, <2>1 DEF OrgsAnswered
    <2>4. PICK g \in Guards : g = Checked(listed)
      BY <1>6, <2>2
    <2> QED
      BY <1>1, <1>5, <1>8, <1>9, <1>10, <2>3, <2>4, GoesKeeps
  <1>12. CASE OrgsFailed(k)
    <2>1. Goes(s, org, Checked({}), route)
      BY <1>4, <1>12 DEF OrgsFailed
    <2>2. PICK g \in Guards : g = Checked({})
      BY <1>6
    <2> QED
      BY <1>1, <1>5, <1>9, <2>1, <2>2, GoesKeeps
  <1> QED
    BY <1>11, <1>12

LEMMA PagesKeep ==
  ASSUME DataInv, RefreshStreams \/ handleGoToStreams \/ RefreshClients \/ ChooseCompany
  PROVE  DataInv'
  <1>1. /\ Now \in DataStates /\ Now.call = call /\ Now.data = data /\ org \in OrgScopes
        /\ data \in DataRecords /\ guard \in Guards
        /\ moves \in Nat /\ filled \in [Orgs -> SUBSET Lists] /\ (org # NoOrg => org \in Orgs)
    BY NowTyped DEF DataInv
  <1>2. moves' \in Nat /\ filled' = filled /\ Free(call) # {}
    <2>1. Moving /\ filled' = filled /\ Room(1)
      BY DEF RefreshStreams, handleGoToStreams, RefreshClients, ChooseCompany
    <2>2. Free(call) # {}
      BY <2>1, FreePlace
    <2> QED
      BY <1>1, <2>1, <2>2 DEF Moving
  <1>3. ShownPage \notin {"admin", "blocked"}
    BY DEF RefreshStreams, handleGoToStreams, RefreshClients, ChooseCompany, InOrganization
  <1>4. org \in Orgs
    BY <1>1, <1>3 DEF ShownPage, Rendered
  <1>5. CASE RefreshStreams
    <2>1. PICK t : t = loadStreams(Now, org, TRUE)
      OBVIOUS
    <2>2. Follows(Now, t)
      BY <1>1, <1>2, <1>4, <2>1, LoadStreamsSound
    <2> QED
      BY <1>1, <1>2, <1>5, <2>1, <2>2, HereKeeps DEF RefreshStreams
  <1>6. CASE handleGoToStreams
    <2>1. NoStreams \in StreamStores
      BY DEF NoStreams, StreamStores
    <2>2. PICK d : d = [data EXCEPT !.streams = NoStreams]
      OBVIOUS
    <2>3. d \in DataRecords /\ d.cache = data.cache
      BY <1>1, <2>1, <2>2, PartsTyped
    <2>4. PICK s : s = [Now EXCEPT !.data = d]
      OBVIOUS
    <2>5. s \in DataStates /\ Follows(Now, s) /\ s.call = call
      BY <1>1, <2>3, <2>4, SameCacheFollows
    <2>6. s = [Now EXCEPT !.data.streams = NoStreams]
      BY <1>1, <2>2, <2>4, StateTyped
    <2>7. \/ Then(loadStreams(s, org, FALSE)) /\ Here
          \/ Goes(s, org, guard, "streams")
      BY <1>6, <2>6 DEF handleGoToStreams
    <2>8. CASE Then(loadStreams(s, org, FALSE)) /\ Here
      <3>1. PICK t : t = loadStreams(s, org, FALSE)
        OBVIOUS
      <3>2. Follows(s, t)
        BY <1>2, <1>4, <2>5, <3>1, LoadStreamsSound
      <3>3. Follows(Now, t)
        BY <2>5, <3>2, FollowsOn
      <3> QED
        BY <1>1, <1>2, <2>8, <3>1, <3>3, HereKeeps
    <2>9. CASE Goes(s, org, guard, "streams")
      <3>1. "streams" \in Pages /\ AwaitedOffers(s.call) \subseteq AwaitedOffers(call)
        BY <2>5 DEF Pages
      <3> QED
        BY <1>1, <1>2, <2>5, <2>9, <3>1, GoesKeeps
    <2> QED
      BY <2>7, <2>8, <2>9
  <1>7. CASE RefreshClients
    <2>1. PICK t : t = loadPage(Now, org, "clients", TRUE)
      OBVIOUS
    <2>2. "clients" \in ListPages
      BY DEF ListPages
    <2>3. Follows(Now, t)
      BY <1>1, <1>2, <1>4, <2>1, <2>2, LoadPageSound
    <2> QED
      BY <1>1, <1>2, <1>7, <2>1, <2>3, HereKeeps DEF RefreshClients
  <1>8. CASE ChooseCompany
    <2>1. PICK f \in {"all", data.company.filter} : Then(loadCompanies(Now, org, f))
      BY <1>8 DEF ChooseCompany
    <2>2. f \in Filters
      <3>1. data.company \in CompanyStores
        BY <1>1, PartsTyped
      <3> QED
        BY <2>1, <3>1 DEF CompanyStores, Filters
    <2>3. PICK t : t = loadCompanies(Now, org, f)
      OBVIOUS
    <2>4. Follows(Now, t)
      BY <1>1, <1>2, <1>4, <2>2, <2>3, LoadCompaniesSound
    <2> QED
      BY <1>1, <1>2, <1>8, <2>1, <2>3, <2>4, HereKeeps DEF ChooseCompany
  <1> QED
    BY <1>5, <1>6, <1>7, <1>8

LEMMA CreatesKeep ==
  ASSUME DataInv, createCompany \/ handleCreateManualOffer
  PROVE  DataInv'
  <1>1. /\ Now \in DataStates /\ Now.call = call /\ Now.data = data /\ org \in OrgScopes
        /\ data \in DataRecords /\ moves \in Nat /\ filled \in [Orgs -> SUBSET Lists]
    BY NowTyped DEF DataInv
  <1>2. Moving /\ filled' = filled /\ Room(1) /\ Here
    BY DEF createCompany, handleCreateManualOffer
  <1>3. moves' \in Nat /\ Free(call) # {} /\ UNCHANGED ShownPage
    <2>1. Free(call) # {}
      BY <1>2, FreePlace
    <2> QED
      BY <1>1, <1>2, <2>1 DEF Moving, Here, ShownPage
  <1>4. PICK r, d :
          /\ call' = Sent(call, r) /\ data' = d
          /\ \/ /\ r = [to |-> "company", org |-> org]
                /\ d = [data EXCEPT !.company.loading = TRUE]
             \/ /\ r = [to |-> "offer", org |-> org, awaited |-> TRUE]
                /\ d = [data EXCEPT !.shown.creating = TRUE] /\ ShownPage = "offers"
    BY DEF createCompany, handleCreateManualOffer
  <1>5. r \in DataRequests /\ (r.to = "offer" => ShownPage = "offers")
    <2>1. CASE r = [to |-> "company", org |-> org]
      <3>1. r \in PlainRequests /\ r.to # "offer"
        BY <1>1, <2>1 DEF PlainRequests
      <3> QED
        BY <3>1 DEF DataRequests
    <2>2. CASE r = [to |-> "offer", org |-> org, awaited |-> TRUE] /\ ShownPage = "offers"
      <3>1. r \in [to : {"offer"}, org : OrgScopes, awaited : BOOLEAN]
        BY <1>1, <2>2
      <3> QED
        BY <2>2, <3>1 DEF DataRequests, PlainRequests
    <2> QED
      BY <1>4, <2>1, <2>2
  <1>6. d \in DataRecords /\ d.cache = data.cache
    BY <1>1, <1>4, MarksTyped
  <1>7. PICK c : c = Sent(Now.call, r)
    OBVIOUS
  <1>8. /\ c \in DataCalls /\ Joinable(c, data.cache)
        /\ r.to # "offer" => AwaitedOffers(c) \subseteq AwaitedOffers(call)
    <2>1. Free(Now.call) # {}
      BY <1>1, <1>3
    <2> QED
      BY <1>1, <1>5, <1>7, <2>1, SentData
  <1>9. call' = c /\ Now' = [call |-> c, data |-> d]
    BY <1>1, <1>4, <1>7 DEF Now
  <1>10. Now' \in DataStates
    BY <1>6, <1>8, <1>9 DEF DataStates
  <1>11. AwaitedOffers(call') # {} => ShownPage' = "offers"
    BY <1>3, <1>5, <1>8, <1>9 DEF DataInv
  <1> QED
    BY <1>1, <1>2, <1>3, <1>10, <1>11 DEF DataInv, Here

LEMMA DataAnswerSound ==
  ASSUME DataInv, NEW k \in Calls, NEW a \in DataReplies, call[k].stage \in {"sent", "left"},
         ReplyTo(call[k].of, a), Answer(k, a), data' = data, Here,
         filled' \in [Orgs -> SUBSET Lists], moves' = moves
  PROVE  DataInv'
  <1>1. /\ Now \in DataStates /\ call \in DataCalls /\ data \in DataRecords /\ Joinable(call, data.cache)
        /\ moves \in Nat /\ Now.call = call
    BY NowTyped DEF DataInv
  <1>2. call[k] # Idle /\ call[k] \in DataWaiting
    BY <1>1, StageOfDataCall
  <1>3. call' \in DataCalls /\ Joinable(call', data.cache) /\ AwaitedOffers(call') \subseteq AwaitedOffers(call)
    <2>1. CASE call[k].stage = "left"
      <3>1. call[k].of.to # "list"
        BY <1>2, <2>1 DEF DataWaiting
      <3>2. After(k) \in DataStates /\ After(k).call = Without(k) /\ After(k).data = data
            /\ AwaitedOffers(Without(k)) \subseteq AwaitedOffers(call)
        BY <1>1, <1>2, <3>1, OtherEndedSound
      <3> QED
        BY <2>1, <3>2 DEF Answer, DataStates
    <2>2. CASE call[k].stage # "left"
      <3>1. PICK e : e = [stage |-> "served", of |-> call[k].of, tries |-> call[k].tries, answer |-> a]
        OBVIOUS
      <3>2. e \in DataServed /\ e.of = call[k].of
        BY <1>2, <3>1 DEF DataWaiting, DataServed
      <3>3. call' = [call EXCEPT ![k] = e]
        BY <2>2, <3>1 DEF Answer
      <3> QED
        BY <1>1, <1>2, <3>2, <3>3, ReplacedSound
    <2> QED
      BY <2>1, <2>2
  <1>4. PICK t : t = [call |-> call', data |-> data]
    OBVIOUS
  <1>5. Follows(Now, t) /\ Then(t)
    BY <1>1, <1>3, <1>4 DEF Follows, DataStates, Then
  <1> QED
    BY <1>1, <1>5, HereKeeps

LEMMA DataServesKeep ==
  ASSUME DataInv, NEW k \in Calls, Serves(k)
  PROVE  DataInv'
  <1>1. call \in DataCalls /\ filled \in [Orgs -> SUBSET Lists] /\ call[k].stage \in {"sent", "left"}
    BY NowTyped DEF DataInv, Serves, ServeOrgs, ServeList, ServeCreation, AtServer
  <1>2. call[k].of \in DataRequests
    BY <1>1, StageOfDataCall
  <1>3. CASE ServeOrgs(k)
    <2>1. PICK a : a = Orgs \ Gone
      OBVIOUS
    <2>2. a \in DataReplies /\ ReplyTo(call[k].of, a) /\ Answer(k, a)
      BY <1>3, <2>1 DEF ServeOrgs, AtServer, DataReplies, ReplyTo
    <2> QED
      BY <1>1, <1>3, <2>2, DataAnswerSound DEF ServeOrgs, dataVars, Here
  <1>4. CASE ServeList(k)
    <2>1. PICK r : r = call[k].of
      OBVIOUS
    <2>2. PICK a : a = IF ~Knows(r) THEN {} ELSE {IF r.list \in filled[r.org] THEN {r.org} ELSE {}}
      OBVIOUS
    <2>3. a \in SUBSET SUBSET Orgs
      BY <2>2 DEF Knows
    <2>4. a \in DataReplies /\ ReplyTo(r, a) /\ Answer(k, a)
      BY <1>4, <2>1, <2>2, <2>3 DEF ServeList, AtServer, DataReplies, ReplyTo
    <2> QED
      BY <1>1, <1>4, <2>1, <2>4, DataAnswerSound DEF ServeList, dataVars, Here
  <1>5. CASE ServeCreation(k)
    <2>1. PICK to \in {"offer", "company"} :
            /\ call[k].of.to = to
            /\ filled' = IF Knows(call[k].of) THEN [filled EXCEPT ![call[k].of.org] = @ \union Creates(to)]
                         ELSE filled
            /\ Answer(k, IF Knows(call[k].of) THEN {{call[k].of.org}} ELSE {})
      BY <1>5 DEF ServeCreation, AtServer
    <2>2. PICK a : a = IF Knows(call[k].of) THEN {{call[k].of.org}} ELSE {}
      OBVIOUS
    <2>3. a \in DataReplies /\ ReplyTo(call[k].of, a)
      BY <2>1, <2>2 DEF DataReplies, ReplyTo, Knows
    <2>4. Creates(to) \in SUBSET Lists
      BY DEF Creates, Lists, ListPages
    <2>5. filled' \in [Orgs -> SUBSET Lists]
      BY <1>1, <2>1, <2>4
    <2> QED
      BY <1>1, <1>5, <2>1, <2>2, <2>3, <2>5, DataAnswerSound DEF ServeCreation
  <1> QED
    BY <1>3, <1>4, <1>5 DEF Serves

LEMMA LoadedTyped ==
  ASSUME NEW d \in DataRecords, NEW r, NEW rows \in SUBSET Orgs
  PROVE  /\ ListLoaded(d, r, rows) \in DataRecords /\ ListLoaded(d, r, rows).cache = d.cache
         /\ ListFailed(d, r) \in DataRecords /\ ListFailed(d, r).cache = d.cache
  <1>1. /\ d.streams \in StreamStores /\ d.company \in CompanyStores /\ d.shown \in PageLists
    BY PartsTyped
  <1>2. /\ StreamsAre(d, rows).streams = [rows |-> rows, loading |-> FALSE, isInitialized |-> TRUE]
        /\ CompaniesAre(d, rows).company = [d.company EXCEPT !.rows = rows, !.loading = FALSE]
    BY DEF StreamsAre, CompaniesAre, DataRecords
  <1>3. PICK a : a = IF Waiting(r, "streams") THEN StreamsAre(d, rows).streams ELSE d.streams
    OBVIOUS
  <1>4. PICK b : b = IF Latest(r) THEN CompaniesAre(d, rows).company ELSE d.company
    OBVIOUS
  <1>5. PICK c : c = [rows |-> IF Waiting(r, "page") \/ Waiting(r, "created") THEN rows ELSE d.shown.rows,
                      loading |-> d.shown.loading /\ ~Waiting(r, "page"),
                      creating |-> d.shown.creating /\ ~Waiting(r, "created")]
    OBVIOUS
  <1>6. a \in StreamStores
    BY <1>1, <1>2, <1>3 DEF StreamStores
  <1>7. b \in CompanyStores
    BY <1>1, <1>2, <1>4 DEF CompanyStores
  <1>8. c \in PageLists
    BY <1>1, <1>5 DEF PageLists
  <1>9. ListLoaded(d, r, rows) = [d EXCEPT !.streams = a, !.company = b, !.shown = c]
    BY <1>3, <1>4, <1>5 DEF ListLoaded
  <1>10. ListLoaded(d, r, rows) \in DataRecords /\ ListLoaded(d, r, rows).cache = d.cache
    BY <1>6, <1>7, <1>8, <1>9 DEF DataRecords
  <1>11. PICK u : u = IF Waiting(r, "streams") THEN [d.streams EXCEPT !.loading = FALSE, !.isInitialized = TRUE]
                      ELSE d.streams
    OBVIOUS
  <1>12. PICK v : v = [d.company EXCEPT !.loading = @ /\ ~Latest(r)]
    OBVIOUS
  <1>13. PICK w : w = [d.shown EXCEPT !.loading = @ /\ ~Waiting(r, "page"),
                                      !.creating = @ /\ ~Waiting(r, "created")]
    OBVIOUS
  <1>14. u \in StreamStores
    BY <1>1, <1>11 DEF StreamStores
  <1>15. v \in CompanyStores
    BY <1>1, <1>12 DEF CompanyStores
  <1>16. w \in PageLists
    BY <1>1, <1>13 DEF PageLists
  <1>17. ListFailed(d, r) = [d EXCEPT !.streams = u, !.company = v, !.shown = w]
    BY <1>11, <1>12, <1>13 DEF ListFailed
  <1>18. ListFailed(d, r) \in DataRecords /\ ListFailed(d, r).cache = d.cache
    BY <1>14, <1>15, <1>16, <1>17 DEF DataRecords
  <1> QED
    BY <1>10, <1>18

LEMMA ListReturns ==
  ASSUME DataInv, NEW k \in Calls, ListAnswered(k) \/ ListLost(k)
  PROVE  DataInv'
  <1>1. /\ Now \in DataStates /\ call \in DataCalls /\ data \in DataRecords /\ Now.call = call
        /\ moves \in Nat /\ filled \in [Orgs -> SUBSET Lists]
    BY NowTyped DEF DataInv
  <1>2. call[k].stage \in {"sent", "served"} /\ call[k].of.to = "list"
    BY DEF ListAnswered, ListLost, Served, Fails
  <1>3. PICK r : r = call[k].of
    OBVIOUS
  <1>4. call[k] # Idle /\ r \in ListRequests
    BY <1>1, <1>2, <1>3, StageOfDataCall, DataRequestKinds
  <1>5. r.scope \in OrgScopes /\ r.list \in Lists
    BY <1>4 DEF ListRequests
  <1>6. PICK e0 : e0 = data.cache[r.scope][r.list]
    OBVIOUS
  <1>7. e0 \in CacheEntries
    BY <1>1, <1>5, <1>6 DEF DataRecords, Caches
  <1>8a. PICK e \in CacheEntries, rows \in SUBSET Orgs :
          /\ e.inFlight = NoCall
          /\ \/ data' = ListLoaded(WithEntry(data, r.scope, r.list, e), r, rows)
             \/ data' = ListFailed(WithEntry(data, r.scope, r.list, e), r)
    <2>1. PICK e1 : e1 = [e0 EXCEPT !.inFlight = NoCall]
      OBVIOUS
    <2>2. e1 \in CacheEntries /\ e1.inFlight = NoCall
      BY <1>7, <2>1 DEF CacheEntries
    <2>3. Released(data, r) = WithEntry(data, r.scope, r.list, e1)
      BY <1>6, <2>1 DEF Released, WithEntry
    <2>4. CASE data' = ListFailed(Released(data, r), r)
      <3>1. data' = ListFailed(WithEntry(data, r.scope, r.list, e1), r) /\ {} \in SUBSET Orgs
        BY <2>3, <2>4
      <3> QED
        BY <2>2, <3>1
    <2>5. CASE ListAnswered(k) /\ call[k].answer # {}
      <3>1. PICK rows : rows = UNION call[k].answer
        OBVIOUS
      <3>2. call[k].answer \in SUBSET SUBSET Orgs
        BY <1>1, <1>2, <2>5, StageOfDataCall DEF ListAnswered, Served, DataServed, ReplyTo
      <3>3. PICK e2 : e2 = [data |-> {rows}, fresh |-> TRUE, inFlight |-> NoCall]
        OBVIOUS
      <3>4. Cardinality({rows}) = 1
        BY FS_Singleton
      <3>5. rows \in SUBSET Orgs /\ e2 \in CacheEntries /\ e2.inFlight = NoCall
        BY <3>1, <3>2, <3>3, <3>4 DEF CacheEntries
      <3>6. Kept(data, r, rows) = WithEntry(data, r.scope, r.list, e2)
        BY <3>3 DEF Kept, WithEntry
      <3>7. data' = ListLoaded(Kept(data, r, rows), r, rows)
        BY <1>3, <2>5, <3>1 DEF ListAnswered
      <3>8. data' = ListLoaded(WithEntry(data, r.scope, r.list, e2), r, rows)
        BY <3>6, <3>7
      <3> QED
        BY <3>5, <3>8
    <2> QED
      BY <1>3, <2>4, <2>5 DEF ListAnswered, ListLost
  <1>8b. PICK d : d = WithEntry(data, r.scope, r.list, e)
    OBVIOUS
  <1>8c. PICK g : g = data'
    OBVIOUS
  <1>8. /\ e \in CacheEntries /\ e.inFlight = NoCall
        /\ g = ListLoaded(d, r, rows) \/ g = ListFailed(d, r)
    BY <1>8a, <1>8b, <1>8c
  <1>9. /\ d \in DataRecords /\ d.cache[r.scope][r.list] = e
        /\ \A p \in OrgScopes, m \in Lists : p # r.scope \/ m # r.list => d.cache[p][m] = data.cache[p][m]
    BY <1>1, <1>5, <1>8, <1>8b, EntryReplaced
  <1>10. g \in DataRecords /\ g.cache = d.cache
    BY <1>8, <1>9, LoadedTyped
  <1>11. ASSUME NEW o \in OrgScopes, NEW l \in Lists, g.cache[o][l].inFlight # NoCall
         PROVE  g.cache[o][l].inFlight = data.cache[o][l].inFlight /\ ~IsFor(call[k], o, l)
    BY <1>3, <1>8, <1>9, <1>10, <1>11 DEF IsFor
  <1>12. /\ Without(k) \in DataCalls /\ Joinable(Without(k), g.cache)
         /\ AwaitedOffers(Without(k)) \subseteq AwaitedOffers(call)
    BY <1>1, <1>4, <1>10, <1>11, EndedSound
  <1>13. PICK t : t = [call |-> Without(k), data |-> g]
    OBVIOUS
  <1>14. Follows(Now, t)
    BY <1>1, <1>10, <1>12, <1>13 DEF Follows, DataStates
  <1>15. Then(t) /\ Here /\ filled' = filled /\ moves' = moves
    BY <1>8c, <1>13 DEF ListAnswered, ListLost, Then, Elsewhere
  <1> QED
    BY <1>1, <1>14, <1>15, HereKeeps

LEMMA CreationReturns ==
  ASSUME DataInv, NEW k \in Calls, CreationAnswered(k) \/ CreationFailed(k)
  PROVE  DataInv'
  <1>1. /\ Now \in DataStates /\ call \in DataCalls /\ data \in DataRecords /\ Now.call = call
        /\ moves \in Nat /\ filled \in [Orgs -> SUBSET Lists] /\ org \in OrgScopes
    BY NowTyped DEF DataInv
  <1>2. call[k].stage \in {"sent", "served"} /\ call[k].of.to \in {"offer", "company"}
    BY DEF CreationAnswered, CreationFailed, Served, Fails
  <1>3. PICK r : r = call[k].of
    OBVIOUS
  <1>4. call[k] # Idle /\ r \in DataRequests /\ r.to # "list"
    BY <1>1, <1>2, <1>3, StageOfDataCall
  <1>5. PICK s : s = After(k)
    OBVIOUS
  <1>6. s \in DataStates /\ Follows(Now, s) /\ s.call = Without(k) /\ s.data = data /\ Free(s.call) # {}
    BY <1>1, <1>3, <1>4, <1>5, OtherEndedSound DEF Follows
  <1>7. filled' = filled /\ moves' = moves /\ Here
    BY DEF CreationAnswered, CreationFailed, Elsewhere
  <1>8. PICK d : d = NotCreated(data, r)
    OBVIOUS
  <1>9. d \in DataRecords /\ d.cache = data.cache
    <2>1. CASE r.to = "company"
      BY <1>1, <1>8, <2>1, MarksTyped DEF NotCreated
    <2>2. CASE r.to # "company"
      <3>1. PICK b : b = (data.shown.creating /\ ~r.awaited)
        OBVIOUS
      <3>2. d = [data EXCEPT !.shown.creating = b] /\ b \in BOOLEAN
        BY <1>8, <2>2, <3>1 DEF NotCreated
      <3> QED
        BY <1>1, <3>2, MarksTyped
    <2> QED
      BY <2>1, <2>2
  <1>10. CASE CreationAnswered(k) /\ call[k].answer = {}
    <2>1. PICK t : t = [s EXCEPT !.data = d]
      OBVIOUS
    <2>2. Follows(s, t) /\ t.call = s.call /\ t.data = d
      BY <1>6, <1>9, <2>1, SameCacheFollows
    <2>3. Follows(Now, t) /\ Then(t)
      BY <1>3, <1>6, <1>8, <1>10, <2>2, FollowsOn DEF CreationAnswered, Then
    <2> QED
      BY <1>1, <1>7, <2>3, HereKeeps
  <1>11. CASE CreationAnswered(k) /\ call[k].answer # {} /\ r.to = "company"
    <2>1. r.org \in Orgs
      BY <1>1, <1>2, <1>3, <1>11, StageOfDataCall DEF CreationAnswered, Served, DataServed, ReplyTo
    <2>2. PICK d1 : d1 = Invalidated(s.data, org, CompanyLists)
      OBVIOUS
    <2>3. PICK t1 : t1 = [s EXCEPT !.data = d1]
      OBVIOUS
    <2>4. /\ Follows(s, t1) /\ t1.call = s.call /\ t1.data = d1 /\ d1 \in DataRecords
      BY <1>1, <1>6, <2>2, <2>3, InvalidatedSound
    <2>5. PICK x : x = [d1.company EXCEPT !.rows = @ \union {r.org}, !.loading = FALSE]
      OBVIOUS
    <2>6. x \in CompanyStores
      <3>1. d1.company \in CompanyStores
        BY <2>4, PartsTyped
      <3> QED
        BY <2>1, <2>5, <3>1 DEF CompanyStores
    <2>7. PICK d2 : d2 = [d1 EXCEPT !.company = x]
      OBVIOUS
    <2>8. d2 \in DataRecords /\ d2.cache = d1.cache
      BY <2>4, <2>6, <2>7, PartsTyped
    <2>9. PICK t : t = [t1 EXCEPT !.data = d2]
      OBVIOUS
    <2>10. t1 \in DataStates
      BY <2>4 DEF Follows
    <2>11. Follows(t1, t) /\ t.call = s.call /\ t.data = d2
      BY <2>4, <2>8, <2>9, <2>10, SameCacheFollows
    <2>12. Follows(Now, t)
      BY <1>6, <2>4, <2>11, FollowsOn
    <2>13. Created(k) = [call |-> Without(k), data |-> d2]
      <3>1. Created(k) = [call |-> Without(k),
                          data |-> [d1 EXCEPT !.company.rows = @ \union {r.org}, !.company.loading = FALSE]]
        BY <1>3, <1>6, <1>11, <2>2 DEF Created
      <3>2. d2 = [d1 EXCEPT !.company.rows = @ \union {r.org}, !.company.loading = FALSE]
        BY <2>4, <2>5, <2>7 DEF DataRecords
      <3> QED
        BY <3>1, <3>2
    <2>14. Then(t)
      BY <1>6, <1>11, <2>11, <2>13 DEF CreationAnswered, Then
    <2> QED
      BY <1>1, <1>7, <2>12, <2>14, HereKeeps
  <1>12. CASE CreationAnswered(k) /\ call[k].answer # {} /\ r.to = "offer"
    <2>1. PICK d1 : d1 = Invalidated(s.data, org, {"offers"})
      OBVIOUS
    <2>2. PICK t1 : t1 = [s EXCEPT !.data = d1]
      OBVIOUS
    <2>3. /\ Follows(s, t1) /\ t1.call = s.call /\ t1.data = d1
      BY <1>1, <1>6, <2>1, <2>2, InvalidatedSound
    <2>4. t1 \in DataStates /\ t1 = [call |-> Without(k), data |-> d1]
      <3>1. t1 \in DataStates
        BY <2>3 DEF Follows
      <3> QED
        BY <1>6, <2>3, <3>1, StateTyped
    <2>5. PICK ws : ws = IF r.awaited THEN {[for |-> "created"]} ELSE {}
      OBVIOUS
    <2>6. ws \in SUBSET Waits
      BY <2>5 DEF Waits
    <2>7. org = NoOrg => ws = {}
      <3>1. r.awaited => k \in AwaitedOffers(call)
        BY <1>3, <1>4, <1>12 DEF AwaitedOffers
      <3>2. r.awaited => ShownPage = "offers"
        BY <3>1 DEF DataInv
      <3>3. r.awaited => org # NoOrg
        BY <3>2 DEF ShownPage, Rendered
      <3> QED
        BY <2>5, <3>3
    <2>8. PICK t : t = Asking(t1, org, "offers", ws)
      OBVIOUS
    <2>9. "offers" \in Lists
      BY DEF Lists, ListPages
    <2>10. Follows(t1, t)
      BY <1>1, <1>6, <2>3, <2>4, <2>6, <2>7, <2>8, <2>9, AskingSound
    <2>11. Created(k) = t
      BY <1>3, <1>6, <1>12, <2>1, <2>4, <2>5, <2>8 DEF Created
    <2>12. Then(t)
      BY <1>12, <2>11 DEF CreationAnswered
    <2>13. Follows(Now, t)
      BY <1>6, <2>3, <2>10, FollowsOn
    <2> QED
      BY <1>1, <1>7, <2>12, <2>13, HereKeeps
  <1>13. CASE CreationFailed(k)
    <2>1. call' \in Abandoned(k) /\ data' = d
      BY <1>3, <1>8, <1>13 DEF CreationFailed
    <2>2. /\ call' \in DataCalls /\ Joinable(call', data.cache)
          /\ AwaitedOffers(call') \subseteq AwaitedOffers(call)
      <3>1. CASE call' = Without(k)
        BY <1>6, <3>1 DEF DataStates, Follows, Now
      <3>2. CASE call[k].stage = "sent" /\ call' = [call EXCEPT ![k].stage = "left"]
        <4>1. PICK e : e = [call[k] EXCEPT !.stage = "left"]
          OBVIOUS
        <4>2. call[k] \in DataWaiting
          BY <1>1, <3>2, StageOfDataCall
        <4>3. e \in DataWaiting /\ e.of = call[k].of
          BY <1>3, <1>4, <4>1, <4>2 DEF DataWaiting
        <4>4. call' = [call EXCEPT ![k] = e] /\ Joinable(call, data.cache)
          BY <3>2, <4>1, NowTyped
        <4> QED
          BY <1>1, <1>3, <1>4, <4>3, <4>4, ReplacedSound
      <3> QED
        BY <2>1, <3>1, <3>2 DEF Abandoned
    <2>3. PICK t : t = [call |-> call', data |-> d]
      OBVIOUS
    <2>4. Follows(Now, t) /\ Then(t)
      BY <1>1, <1>9, <2>1, <2>2, <2>3 DEF Follows, DataStates, Then
    <2> QED
      BY <1>1, <1>7, <2>4, HereKeeps
  <1> QED
    BY <1>2, <1>3, <1>10, <1>11, <1>12, <1>13

LEMMA SentAgainKeeps ==
  ASSUME DataInv, NEW k \in Calls, SentAgain(k)
  PROVE  DataInv'
  <1>1. /\ Now \in DataStates /\ call \in DataCalls /\ data \in DataRecords /\ Now.call = call
        /\ moves \in Nat /\ filled \in [Orgs -> SUBSET Lists] /\ org \in OrgScopes
        /\ Joinable(call, data.cache)
    BY NowTyped DEF DataInv
  <1>2. PICK r : /\ r = IF call[k].of.to = "orgs" THEN call[k].of ELSE [call[k].of EXCEPT !.org = org]
                 /\ Resent(k, r)
    BY DEF SentAgain
  <1>3. call[k] # Idle /\ call[k].of \in DataRequests /\ call[k].tries \in Nat
    BY <1>1, <1>2, StageOfDataCall DEF Resent
  <1>4. /\ r \in DataRequests /\ r.to = call[k].of.to
        /\ r.to = "list" => r.scope = call[k].of.scope /\ r.list = call[k].of.list
        /\ r.to = "offer" /\ r.awaited => call[k].of.awaited
    <2>1. CASE call[k].of.to = "orgs"
      BY <1>2, <1>3, <2>1
    <2>2. CASE call[k].of \in ListRequests
      <3>1. r = [call[k].of EXCEPT !.org = org]
        BY <1>2, <2>2 DEF ListRequests
      <3> QED
        BY <1>1, <2>2, <3>1 DEF ListRequests, DataRequests
    <2>3. CASE call[k].of \in [to : {"company"}, org : OrgScopes]
      <3>1. r = [call[k].of EXCEPT !.org = org]
        BY <1>2, <2>3
      <3> QED
        BY <1>1, <2>3, <3>1 DEF PlainRequests, DataRequests
    <2>4. CASE call[k].of \in [to : {"offer"}, org : OrgScopes, awaited : BOOLEAN]
      <3>1. r = [call[k].of EXCEPT !.org = org]
        BY <1>2, <2>4
      <3> QED
        BY <1>1, <2>4, <3>1 DEF PlainRequests, DataRequests
    <2> QED
      BY <1>3, <2>1, <2>2, <2>3, <2>4 DEF DataRequests, PlainRequests
  <1>5. PICK e : e = [Request(r) EXCEPT !.tries = call[k].tries + 1]
    OBVIOUS
  <1>6. e \in DataWaiting /\ e.of = r
    BY <1>3, <1>4, <1>5 DEF Request, DataWaiting
  <1>7. call' = [call EXCEPT ![k] = e]
    BY <1>2, <1>5 DEF Resent
  <1>8. /\ call' \in DataCalls /\ Joinable(call', data.cache)
        /\ AwaitedOffers(call') \subseteq AwaitedOffers(call)
    BY <1>1, <1>3, <1>4, <1>6, <1>7, ReplacedSound
  <1>9. PICK t : t = [call |-> call', data |-> data]
    OBVIOUS
  <1>10. UNCHANGED dataVars
    BY DEF SentAgain
  <1>11. Follows(Now, t) /\ Then(t) /\ Here
    BY <1>1, <1>8, <1>9, <1>10 DEF Follows, DataStates, Then, dataVars, Here
  <1> QED
    BY <1>1, <1>10, <1>11, HereKeeps DEF dataVars

LEMMA StaleKeeps ==
  ASSUME DataInv, Stale
  PROVE  DataInv'
  <1>1. /\ Now \in DataStates /\ call \in DataCalls /\ data \in DataRecords /\ Now.call = call
        /\ moves \in Nat /\ filled \in [Orgs -> SUBSET Lists] /\ Joinable(call, data.cache)
    BY NowTyped DEF DataInv
  <1>2. PICK o \in OrgScopes, l \in Lists : data' = [data EXCEPT !.cache[o][l].fresh = FALSE]
    BY DEF Stale
  <1>3. PICK e : e = [data.cache[o][l] EXCEPT !.fresh = FALSE]
    OBVIOUS
  <1>4. data.cache[o][l] \in CacheEntries
    BY <1>1 DEF DataRecords, Caches
  <1>5. e \in CacheEntries /\ e.inFlight = data.cache[o][l].inFlight
    BY <1>3, <1>4 DEF CacheEntries
  <1>6. PICK d : d = WithEntry(data, o, l, e)
    OBVIOUS
  <1>7. /\ d \in DataRecords /\ d.cache[o][l] = e
        /\ \A p \in OrgScopes, m \in Lists : p # o \/ m # l => d.cache[p][m] = data.cache[p][m]
    BY <1>1, <1>5, <1>6, EntryReplaced
  <1>8. Joinable(call, d.cache)
    BY <1>1, <1>5, <1>7 DEF Joinable
  <1>9. PICK t : t = [call |-> call, data |-> d]
    OBVIOUS
  <1>10. data' = d
    BY <1>2, <1>3, <1>6 DEF WithEntry
  <1>11. Follows(Now, t) /\ Then(t)
    BY <1>1, <1>7, <1>8, <1>9, <1>10 DEF Follows, DataStates, Then, Stale, apiVars
  <1> QED
    BY <1>1, <1>11, HereKeeps DEF Stale

LEMMA DataInitially == DataInit => DataInv
  <1> SUFFICES ASSUME DataInit PROVE DataInv
    OBVIOUS
  <1>1. PICK rows \in SUBSET ({org} \intersect Orgs) :
          data = [cache |-> [o \in OrgScopes |-> [l \in Lists |-> NoEntry]], streams |-> NoStreams,
                  company |-> [NoCompanies EXCEPT !.rows = rows], shown |-> NoList]
    BY DEF DataInit
  <1>2. NoEntry \in CacheEntries /\ NoEntry.inFlight = NoCall
    BY DEF NoEntry, CacheEntries
  <1>3. NoStreams \in StreamStores /\ NoList \in PageLists
    BY DEF NoStreams, StreamStores, NoList, PageLists
  <1>4. [NoCompanies EXCEPT !.rows = rows] \in CompanyStores
    BY DEF NoCompanies, CompanyStores, Filters
  <1>5. PICK cache : cache = [o \in OrgScopes |-> [l \in Lists |-> NoEntry]]
    OBVIOUS
  <1>6. cache \in Caches /\ \A o \in OrgScopes, l \in Lists : cache[o][l].inFlight = NoCall
    BY <1>2, <1>5 DEF Caches
  <1>7. data \in DataRecords /\ data.cache = cache
    BY <1>1, <1>3, <1>4, <1>5, <1>6 DEF DataRecords
  <1>8. call \in DataCalls /\ AwaitedOffers(call) = {}
    BY DEF DataInit, ApiInit, DataCalls, AwaitedOffers
  <1>9. Now \in DataStates
    BY <1>6, <1>7, <1>8 DEF Now, DataStates, Joinable
  <1> QED
    BY <1>8, <1>9 DEF DataInit, DataInv, Pages

LEMMA DataStepsKeep == DataInv /\ [DataNext]_<<apiVars, dataVars>> => DataInv'
  <1> SUFFICES ASSUME DataInv, [DataNext]_<<apiVars, dataVars>> PROVE DataInv'
    OBVIOUS
  <1>1. CASE UNCHANGED <<apiVars, dataVars>>
    BY <1>1 DEF apiVars, dataVars, DataInv, Now, ShownPage
  <1>2. CASE \/ \E p \in Pages : Go(p)
             \/ \E o \in Orgs : handleOpenWorkspace(o) \/ handleSelectOrg(o)
             \/ GuardTimeout
    BY <1>2, RoutesKeep
  <1>3. CASE RefreshStreams \/ handleGoToStreams \/ RefreshClients \/ ChooseCompany
    BY <1>3, PagesKeep
  <1>4. CASE createCompany \/ handleCreateManualOffer
    BY <1>4, CreatesKeep
  <1>5. CASE Stale
    BY <1>5, StaleKeeps
  <1>6. ASSUME NEW k \in Calls, Serves(k)
        PROVE  DataInv'
    BY <1>6, DataServesKeep
  <1>7. ASSUME NEW k \in Calls,
               \/ OrgsAnswered(k) \/ ListAnswered(k) \/ CreationAnswered(k)
               \/ OrgsFailed(k) \/ ListLost(k) \/ CreationFailed(k) \/ SentAgain(k)
        PROVE  DataInv'
    BY <1>7, OrgsReturn, ListReturns, CreationReturns, SentAgainKeeps
  <1> QED
    BY <1>1, <1>2, <1>3, <1>4, <1>5, <1>6, <1>7 DEF DataNext, Serves

\* The organization store, the guard, the cache, the stores and the lists keep their types.
THEOREM DataTypeCorrect == DataSpec => []DataTypeOK
  <1>1. DataInv => DataTypeOK
    <2> SUFFICES ASSUME DataInv PROVE DataTypeOK
      OBVIOUS
    <2>1. data \in DataRecords /\ data.cache \in Caches
      BY NowTyped DEF DataRecords
    <2>2. data.cache \in [OrgScopes -> [Lists -> [data : SUBSET SUBSET Orgs, fresh : BOOLEAN,
                                                  inFlight : Calls \union {NoCall}]]]
      BY <2>1 DEF Caches, CacheEntries
    <2>3. \A o \in OrgScopes, l \in Lists : data.cache[o][l].fresh => Cardinality(data.cache[o][l].data) = 1
      BY <2>1 DEF Caches, CacheEntries
    <2> QED
      BY <2>1, <2>2, <2>3 DEF DataInv, DataTypeOK, DataRecords, StreamStores, CompanyStores, PageLists
  <1> QED
    BY DataInitially, DataStepsKeep, <1>1, PTL DEF DataSpec

\* Whoever joins the request of an entry of the cache joins one that is on its way for that
\* list of that organization (fetchWithClientDataCache of client-data-cache.ts).
THEOREM JoinedAreOnTheirWay == DataSpec => []JoinedIsOnItsWay
  <1>1. DataInv => JoinedIsOnItsWay
    <2>1. DataInv => Joinable(call, data.cache)
      BY NowTyped
    <2> QED
      BY <2>1 DEF Joinable, IsFor, JoinedIsOnItsWay
  <1> QED
    BY DataInitially, DataStepsKeep, <1>1, PTL DEF DataSpec

\* No page and no store asks for rows without an organization, whatever the guard finds out
\* and however late (the guard of the pages and the effects that load their lists).
THEOREM LoadsAreScoped == DataSpec => []NoUnscopedLoad
  <1>1. DataInv => NoUnscopedLoad
    <2> SUFFICES ASSUME DataInv PROVE NoUnscopedLoad
      OBVIOUS
    <2>1. ASSUME NEW k \in Calls, call[k] # Idle, call[k].of.to = "list", call[k].of.scope = NoOrg
          PROVE  call[k].of.waits = {}
      BY <2>1, NowTyped, StageOfDataCall, DataRequestKinds DEF ListRequests
    <2> QED
      BY <2>1 DEF NoUnscopedLoad
  <1> QED
    BY DataInitially, DataStepsKeep, <1>1, PTL DEF DataSpec
=============================================================================
