-------------------------- MODULE DiscoverySession --------------------------
(***************************************************************************)
(* One discovery wizard session: discovery_session_service.py with the     *)
(* endpoints and the worker loop that drive it.  A user adds sources and   *)
(* starts the session; every source gets an import run.  File and audio    *)
(* runs are worked on as ImportRunLifecycle promises, text sources form a  *)
(* queue of their own inside the same worker.  The status of the session   *)
(* is derived from its sources, whose statuses are derived from the runs:  *)
(* by whoever settles a run, and by every GET, which takes no lock.        *)
(*                                                                         *)
(* Sessions do not touch each other, so there is one.  A transaction is an *)
(* action, except that copies are loaded earlier: SQLAlchemy returns the   *)
(* object it holds when the session row is locked later, and writes a      *)
(* column only if its value differs from the loaded copy.  An expired      *)
(* lease or backoff is a matter of time passing: whatever is not locked    *)
(* may have expired.                                                       *)
(***************************************************************************)
EXTENDS Naturals

CONSTANTS
  FileSources, AudioSources, TextSources,
  Workers,       \* bulk import worker processes
  Clients,       \* callers of GET /discovery-sessions/{id}
  MaxAttempts,   \* MAX_PROCESSING_ATTEMPTS, also TEXT_SOURCE_MAX_ATTEMPTS
  NoSource

Sources == FileSources \union AudioSources \union TextSources

ASSUME MaxAttemptsAssumption == MaxAttempts \in Nat \ {0}
ASSUME SourcesAssumption ==
  /\ FileSources \intersect AudioSources = {}
  /\ TextSources \intersect (FileSources \union AudioSources) = {}
  /\ NoSource \notin Sources

VARIABLES
  session,   \* the row: status, and whether started_at is set
  source,    \* source[s]: discovery_sources.status
  run,       \* run[s]: the import run of the source
  worker,    \* worker[w]: what the process is doing and the copies it holds
  request,   \* request[c]: the GET in flight
  retried    \* the audio sources a user has retried after a failure

vars == <<session, source, run, worker, request, retried>>

-----------------------------------------------------------------------------
(* Rows, copies and the derivation of statuses *)

SessionStatus ==
  {"draft", "uploading", "processing", "review_ready", "partial_failure", "failed"}
TerminalStatuses == {"review_ready", "partial_failure", "failed"}
SourceStatus == {"absent", "uploaded", "processing", "review_ready", "failed"}
RunStatus == {"none", "uploaded", "processing", "review_ready", "completed", "failed", "no_data"}
TextSteps == {"discovery_text_pending", "discovery_text_extracting"}

SessionRow == [status: SessionStatus, started: BOOLEAN]
RunRow == [status: RunStatus, step: TextSteps \union {"none"}, attempts: 0..MaxAttempts]
NoRunRow == [status |-> "none", step |-> "none", attempts |-> 0]

\* The session and the statuses of its sources as a database session loaded them.
View == [session: SessionRow, sources: [Sources -> SourceStatus]]
Current == [session |-> session, sources |-> source]
NoView == [session |-> [status |-> "draft", started |-> FALSE],
           sources |-> [s \in Sources |-> "absent"]]

\* What an UPDATE changes; "keep" is a column that is left out of it.
Update == [status: SessionStatus \union {"keep"},
           sources: [Sources -> SourceStatus \union {"keep"}]]
NoUpdate == [status |-> "keep", sources |-> [s \in Sources |-> "keep"]]

InReview == {"review_ready", "completed", "no_data"}
Settled == InReview \union {"failed"}

\* A text source waits for its run to settle; the others follow their run.
SyncedSource(s, known, status) ==
  IF status \in InReview THEN "review_ready"
  ELSE IF status = "failed" THEN "failed"
  ELSE IF status = "none" \/ s \in TextSources THEN known
  ELSE "processing"

\* Broken variant: queued text sources are not counted.
PendingIgnoringQueue(statuses) == \E s \in Sources : statuses[s] = "processing"

Pending(statuses) == \E s \in Sources : statuses[s] \in {"uploaded", "processing"}

Some(statuses, status) == \E s \in Sources : statuses[s] = status

DeriveSessionStatus(started, statuses) ==
  IF ~started
  THEN IF \A s \in Sources : statuses[s] = "absent" THEN "draft" ELSE "uploading"
  ELSE IF Pending(statuses) THEN "processing"
  ELSE IF Some(statuses, "review_ready")
  THEN IF Some(statuses, "failed") THEN "partial_failure" ELSE "review_ready"
  ELSE IF Some(statuses, "failed") THEN "failed" ELSE "processing"

\* sync_session_status on loaded copies, some sources assigned since, and the runs
\* as they are when it reads them.
SyncSessionStatus(loaded, assigned, runs) ==
  LET synced == [s \in Sources |-> SyncedSource(s, assigned[s], runs[s].status)]
      derived == DeriveSessionStatus(loaded.session.started, synced) IN
  [status |-> IF derived = loaded.session.status THEN "keep" ELSE derived,
   sources |-> [s \in Sources |->
                  IF synced[s] = loaded.sources[s] THEN "keep" ELSE synced[s]]]

Write(update) ==
  /\ session' = [session EXCEPT !.status = IF update.status = "keep" THEN @ ELSE update.status]
  /\ source' = [s \in Sources |->
                  IF update.sources[s] = "keep" THEN source[s] ELSE update.sources[s]]

-----------------------------------------------------------------------------
(* Workers and requests *)

WorkerSteps == {"text_claimed", "text_extracting", "text_failing", "run_busy", "run_ending"}
Idle == [pc |-> "idle", source |-> NoSource, view |-> NoView]
WorkerState == {Idle} \union [pc: WorkerSteps, source: Sources, view: View]

NoRequest == [pc |-> "idle", seen |-> NoView.session, update |-> NoUpdate]
Request ==
  {NoRequest} \union [pc: {"loaded", "synced"}, seen: SessionRow, update: Update]

TypeOK ==
  /\ session \in SessionRow
  /\ source \in [Sources -> SourceStatus]
  /\ run \in [Sources -> RunRow]
  /\ worker \in [Workers -> WorkerState]
  /\ request \in [Clients -> Request]
  /\ retried \subseteq AudioSources

\* create_session
Init ==
  /\ session = [status |-> "draft", started |-> FALSE]
  /\ source = [s \in Sources |-> "absent"]
  /\ run = [s \in Sources |-> NoRunRow]
  /\ worker = [w \in Workers |-> Idle]
  /\ request = [c \in Clients |-> NoRequest]
  /\ retried = {}

GoTo(w, pc, s, view) == worker' = [worker EXCEPT ![w] = [pc |-> pc, source |-> s, view |-> view]]
Release(w) == worker' = [worker EXCEPT ![w] = Idle]
SetRun(s, row) == run' = [run EXCEPT ![s] = row]

\* A worker in one of these transactions holds FOR UPDATE locks on the text source
\* and its run.
TextLocked(s) ==
  \E w \in Workers : worker[w].source = s /\ worker[w].pc \in {"text_extracting", "text_failing"}
Busy(s) == \E w \in Workers : worker[w].source = s

-----------------------------------------------------------------------------
(* Adding sources and starting: the session row is locked from the first read *)

AddSource(s) ==
  /\ ~session.started
  /\ source[s] = "absent"
  /\ source' = [source EXCEPT ![s] = "uploaded"]
  /\ session' = [session EXCEPT !.status = IF @ = "draft" THEN "uploading" ELSE @]
  /\ UNCHANGED <<run, worker, request, retried>>

Started(s) ==
  IF source[s] = "absent" THEN NoRunRow
  ELSE [status |-> "uploaded", attempts |-> 0,
        step |-> IF s \in TextSources THEN "discovery_text_pending" ELSE "none"]

\* Broken variant: every call creates the runs, not only the first.
StartSessionAgain ==
  /\ \E s \in Sources : source[s] # "absent"
  /\ session' = [status |-> "processing", started |-> TRUE]
  /\ run' = [s \in Sources |-> Started(s)]
  /\ source' = [s \in Sources |->
                  IF source[s] = "absent" \/ s \in TextSources THEN source[s] ELSE "processing"]
  /\ UNCHANGED <<worker, request, retried>>

\* The two syncs that follow in the same call work on the objects of this
\* transaction, runs included, and find nothing to change.
StartSession ==
  /\ ~session.started
  /\ \E s \in Sources : source[s] # "absent"
  /\ session' = [status |-> "processing", started |-> TRUE]
  /\ run' = [s \in Sources |-> Started(s)]
  /\ source' = [s \in Sources |->
                  IF source[s] = "absent" \/ s \in TextSources THEN source[s] ELSE "processing"]
  /\ UNCHANGED <<worker, request, retried>>

\* Starting a started session only synchronises it, on rows read under the lock.
StartAgain ==
  /\ session.started
  /\ Write(SyncSessionStatus(Current, source, run))
  /\ UNCHANGED <<run, worker, request, retried>>

-----------------------------------------------------------------------------
(* GET: loads the session, then its sources and runs, and writes at the end *)

LoadSession(c) ==
  /\ request[c].pc = "idle"
  /\ request' = [request EXCEPT ![c] = [NoRequest EXCEPT !.pc = "loaded", !.seen = session]]
  /\ UNCHANGED <<session, source, run, worker, retried>>

BuildResponse(c) ==
  LET view == [session |-> request[c].seen, sources |-> source] IN
  /\ request[c].pc = "loaded"
  /\ request' = [request EXCEPT ![c].pc = "synced",
                                ![c].update = SyncSessionStatus(view, source, run)]
  /\ UNCHANGED <<session, source, run, worker, retried>>

CommitResponse(c) ==
  /\ request[c].pc = "synced"
  /\ Write(request[c].update)
  /\ request' = [request EXCEPT ![c] = NoRequest]
  /\ UNCHANGED <<run, worker, retried>>

-----------------------------------------------------------------------------
(* Text sources *)

CanRetry(s, retryable) == retryable /\ run[s].attempts < MaxAttempts

FailedRow(s) == [run[s] EXCEPT !.status = "failed", !.step = "none"]
PendingRow(s) == [run[s] EXCEPT !.status = "uploaded", !.step = "discovery_text_pending"]

\* A run without an attempt left is failed instead, and the session is not told.
\* The claim leaves the session and all its sources in the worker's memory.
ClaimNextTextSource(w, s) ==
  LET exhausted == run[s].attempts >= MaxAttempts
      claimed == [source EXCEPT ![s] = IF exhausted THEN "failed" ELSE "processing"] IN
  /\ worker[w] = Idle
  /\ s \in TextSources
  /\ source[s] = "uploaded"
  /\ run[s].status = "uploaded"
  /\ run[s].step = "discovery_text_pending"
  /\ ~TextLocked(s)
  /\ source' = claimed
  /\ SetRun(s, IF exhausted THEN FailedRow(s)
               ELSE [status |-> "processing", step |-> "discovery_text_extracting",
                     attempts |-> run[s].attempts + 1])
  /\ IF exhausted THEN UNCHANGED worker
     ELSE GoTo(w, "text_claimed", s, [session |-> session, sources |-> claimed])
  /\ UNCHANGED <<session, request, retried>>

\* Locks source and run; the check that the source is still being processed reads
\* the claimed object, so it always succeeds.
BeginText(w) ==
  /\ worker[w].pc = "text_claimed"
  /\ ~TextLocked(worker[w].source)
  /\ worker' = [worker EXCEPT ![w].pc = "text_extracting"]
  /\ UNCHANGED <<session, source, run, request, retried>>

FinishText(w) ==
  LET s == worker[w].source
      view == worker[w].view IN
  /\ worker[w].pc = "text_extracting"
  /\ \E status \in {"review_ready", "no_data"} :
       LET settled == [run EXCEPT ![s] = [@ EXCEPT !.status = status, !.step = "none"]] IN
       /\ run' = settled
       /\ Write(SyncSessionStatus(view, [view.sources EXCEPT ![s] = "review_ready"], settled))
  /\ Release(w)
  /\ UNCHANGED <<request, retried>>

\* Any exception: rollback, after which the rows are locked and loaded afresh.
FailText(w) ==
  LET s == worker[w].source IN
  /\ \/ worker[w].pc = "text_extracting"
     \/ worker[w].pc = "text_claimed" /\ ~TextLocked(s)
  /\ GoTo(w, "text_failing", s, Current)
  /\ UNCHANGED <<session, source, run, request, retried>>

HandleTextProcessingFailure(w) ==
  LET s == worker[w].source
      view == worker[w].view IN
  /\ worker[w].pc = "text_failing"
  /\ \E retryable \in BOOLEAN :
       LET again == CanRetry(s, retryable)
           rows == [run EXCEPT ![s] = IF again THEN PendingRow(s) ELSE FailedRow(s)] IN
       /\ run' = rows
       /\ Write(SyncSessionStatus(
            view, [view.sources EXCEPT ![s] = IF again THEN "uploaded" ELSE "failed"], rows))
  /\ Release(w)
  /\ UNCHANGED <<request, retried>>

\* Broken variant: the run is left as it is.
RequeueSourceOnly(w, s) ==
  /\ worker[w] = Idle
  /\ s \in TextSources
  /\ source[s] = "processing"
  /\ ~TextLocked(s)
  /\ source' = [source EXCEPT ![s] = "uploaded"]
  /\ UNCHANGED <<session, run, worker, request, retried>>

\* The reaper takes sources whose lease has expired.  Only when it fails one does
\* it synchronise the session.
RequeueStaleTextSource(w, s) ==
  /\ worker[w] = Idle
  /\ s \in TextSources
  /\ source[s] = "processing"
  /\ ~TextLocked(s)
  /\ IF run[s].attempts >= MaxAttempts
     THEN LET rows == [run EXCEPT ![s] = FailedRow(s)] IN
          /\ run' = rows
          /\ Write(SyncSessionStatus(Current, [source EXCEPT ![s] = "failed"], rows))
     ELSE /\ SetRun(s, PendingRow(s))
          /\ source' = [source EXCEPT ![s] = "uploaded"]
          /\ UNCHANGED session
  /\ UNCHANGED <<worker, request, retried>>

-----------------------------------------------------------------------------
(* File and audio runs, as ImportRunLifecycle has them *)

\* Broken variant: the text queue's runs are not left out.
ClaimableAny(s) ==
  /\ run[s].status = "uploaded"
  /\ run[s].attempts < MaxAttempts

Claimable(s) ==
  /\ run[s].status = "uploaded"
  /\ run[s].step # "discovery_text_pending"
  /\ run[s].attempts < MaxAttempts

ClaimNextRun(w, s) ==
  /\ worker[w] = Idle
  /\ Claimable(s)
  /\ SetRun(s, [run[s] EXCEPT !.status = "processing", !.attempts = @ + 1])
  /\ GoTo(w, "run_busy", s, NoView)
  /\ UNCHANGED <<session, source, request, retried>>

\* The last transaction finds the source of its run, and with it loads the session.
EndRun(w) ==
  /\ worker[w].pc = "run_busy"
  /\ GoTo(w, "run_ending", worker[w].source, Current)
  /\ UNCHANGED <<session, source, run, request, retried>>

Outcomes(s) ==
  {"review_ready", "failed"}
  \union (IF s \in FileSources THEN {"no_data"} ELSE {})
  \union (IF CanRetry(s, TRUE) THEN {"uploaded"} ELSE {})

FinishRun(w) ==
  LET s == worker[w].source
      view == worker[w].view IN
  /\ worker[w].pc = "run_ending"
  /\ \E status \in Outcomes(s) :
       LET rows == [run EXCEPT ![s].status = status] IN
       /\ run' = rows
       /\ Write(SyncSessionStatus(view, view.sources, rows))
  /\ Release(w)
  /\ UNCHANGED <<request, retried>>

\* The worker dies; its transaction is rolled back.
Crash(w) ==
  /\ worker[w] # Idle
  /\ Release(w)
  /\ UNCHANGED <<session, source, run, request, retried>>

RequeueStaleRun(w, s) ==
  /\ worker[w] = Idle
  /\ run[s].status = "processing"
  /\ run[s].step # "discovery_text_extracting"
  /\ run[s].attempts < MaxAttempts
  /\ ~Busy(s)
  /\ SetRun(s, [run[s] EXCEPT !.status = "uploaded"])
  /\ UNCHANGED <<session, source, worker, request, retried>>

FailExhaustedRun(w, s) ==
  LET rows == [run EXCEPT ![s].status = "failed"] IN
  /\ worker[w] = Idle
  /\ run[s].status \in {"uploaded", "processing"}
  /\ run[s].step \notin TextSteps
  /\ run[s].attempts >= MaxAttempts
  /\ ~Busy(s)
  /\ run' = rows
  /\ Write(SyncSessionStatus(Current, source, rows))
  /\ UNCHANGED <<worker, request, retried>>

\* Neither a retry nor the end of a review tells the session.
RetryVoiceInterview(s) ==
  /\ s \in AudioSources
  /\ run[s].status = "failed"
  /\ run[s].attempts < MaxAttempts
  /\ SetRun(s, [run[s] EXCEPT !.status = "uploaded"])
  /\ retried' = retried \union {s}
  /\ UNCHANGED <<session, source, worker, request>>

CompleteRun(s) ==
  /\ run[s].status = "review_ready"
  /\ SetRun(s, [run[s] EXCEPT !.status = "completed"])
  /\ UNCHANGED <<session, source, worker, request, retried>>

-----------------------------------------------------------------------------
TextStep(w) ==
  BeginText(w) \/ FinishText(w) \/ FailText(w) \/ HandleTextProcessingFailure(w)

LoopStep(w) ==
  \E s \in Sources :
    \/ ClaimNextTextSource(w, s)
    \/ ClaimNextRun(w, s)
    \/ RequeueStaleTextSource(w, s)
    \/ RequeueStaleRun(w, s)
    \/ FailExhaustedRun(w, s)

WorkerStep(w) == TextStep(w) \/ EndRun(w) \/ FinishRun(w) \/ LoopStep(w)

GetStep(c) == LoadSession(c) \/ BuildResponse(c) \/ CommitResponse(c)

UserStep ==
  \/ \E s \in Sources : AddSource(s) \/ RetryVoiceInterview(s) \/ CompleteRun(s)
  \/ StartSession
  \/ StartAgain

Next ==
  \/ UserStep
  \/ \E c \in Clients : GetStep(c)
  \/ \E w \in Workers : WorkerStep(w) \/ Crash(w)

Spec == Init /\ [][Next]_vars

\* A worker keeps looping (the service manager restarts it) and the wizard polls.
FairSpec ==
  /\ Spec
  /\ \A w \in Workers : WF_vars(WorkerStep(w))
  /\ \A c \in Clients : WF_vars(GetStep(c))

-----------------------------------------------------------------------------
(* Properties *)

\* A text source and its run always say the same, whoever wrote last: the worker,
\* the reaper, its failure handler or a GET that works on older copies.
TextInStep ==
  \A s \in TextSources :
    LET row == run[s] IN
    /\ source[s] = "processing" <=> row.status = "processing"
    /\ source[s] = "review_ready" <=> row.status \in InReview
    /\ source[s] = "failed" <=> row.status = "failed"
    /\ row.status = "uploaded" <=> row.step = "discovery_text_pending"
    /\ row.status = "processing" <=> row.step = "discovery_text_extracting"

\* The wizard stops polling at a terminal status: no session shows one while the
\* run of a source is still to be worked on, unless a user retried that source.
TerminalMeansSettled ==
  session.status \in TerminalStatuses =>
    \A s \in Sources \ retried : run[s].status \in Settled \union {"none"}

\* Requeueing never leaves a text source without an attempt: the branch of the
\* claim that fails such a source, and does not tell the session, is never taken.
QueuedTextHasAttemptLeft ==
  \A s \in TextSources : run[s].status = "uploaded" => run[s].attempts < MaxAttempts

StatusNow ==
  DeriveSessionStatus(
    session.started, [s \in Sources |-> SyncedSource(s, source[s], run[s].status)])

\* A started session comes to an end, whatever crashes and failures hit it, and its
\* row then shows how its sources ended, although GETs write it with old copies.
StartedSessionShown ==
  session.started ~> session.status \in TerminalStatuses /\ session.status = StatusNow

Lifecycle ==
  INSTANCE ImportRunLifecycle WITH
    Runs <- Sources,
    RetryableRuns <- AudioSources,
    status <- [s \in Sources |->
                 IF run[s].status = "none" THEN "uploaded" ELSE run[s].status],
    attempts <- [s \in Sources |-> run[s].attempts]

\* With one worker every run of the session follows the lifecycle of an import run,
\* those of text sources included: nothing that was reviewed is extracted again.
FollowsLifecycle == Lifecycle!Spec

=============================================================================
