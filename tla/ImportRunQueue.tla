--------------------------- MODULE ImportRunQueue ---------------------------
(***************************************************************************)
(* The queue of import runs: bulk_import_worker.py and the part of         *)
(* BulkImportService it drives, over the import_runs and voice_interviews  *)
(* tables.  A worker claims a run, leases it, works on it over several     *)
(* transactions (file) or one long transaction (voice), and either stages  *)
(* drafts for review or puts the run back in the queue or fails it.  Idle  *)
(* workers reap expired leases and exhausted runs.  Users review, finalize *)
(* and retry at the same time; a worker may die at any step.               *)
(*                                                                         *)
(* Every action is one committed database transaction, except the steps of *)
(* a voice worker, which keep both rows locked until the last one.  Rows   *)
(* are the committed values.  The wall clock is abstracted to the boolean  *)
(* "due": whether processing_available_at (the lease of a processing run,  *)
(* the backoff of a queued one) has passed.                                *)
(***************************************************************************)
EXTENDS Naturals

CONSTANTS
  Workers,              \* bulk import worker processes
  FileRuns,             \* runs with source_type "bulk_import"
  UploadedInterviews,   \* voice runs posted to /voice-interviews
  DiscoveryInterviews,  \* voice runs created by a discovery session's start
  MaxAttempts,          \* MAX_PROCESSING_ATTEMPTS
  Clients,              \* concurrent callers of the voice retry endpoint
  Keys,                 \* Idempotency-Key header values
  NoRun, NoKey

VoiceRuns == UploadedInterviews \union DiscoveryInterviews
Runs == FileRuns \union VoiceRuns

ASSUME MaxAttemptsAssumption == MaxAttempts \in Nat \ {0}
ASSUME RunsAssumption ==
  /\ FileRuns \intersect VoiceRuns = {}
  /\ UploadedInterviews \intersect DiscoveryInterviews = {}
  /\ NoRun \notin Runs
  /\ NoKey \notin Keys

VARIABLES
  run,       \* run[r]: the row of import_runs
  voice,     \* voice[r]: the row of voice_interviews of a voice run
  items,     \* items[r]: how far its import_items have come in review
  worker,    \* worker[w]: the step the process is at, and its run
  posting,   \* interviews whose POST has committed the rows once, not twice
  request,   \* request[c]: the retry call the client has in flight
  keyHash    \* keyHash[r][k]: import_run_idempotency_keys, operation "retry"

queueVars == <<run, voice, items, worker>>
apiVars == <<posting, request, keyHash>>
vars == <<run, voice, items, worker, posting, request, keyHash>>

-----------------------------------------------------------------------------
(* Rows and process states *)

RunStatus ==
  {"uploaded", "processing", "review_ready", "completed", "failed", "no_data"}
FileSteps ==
  {"reading_file", "identifying_locations", "extracting_streams", "categorizing"}
Errors ==
  {"none", "processing_failed", "lease_expired_requeued", "max_attempts_reached"}
RunRow ==
  [status: RunStatus, step: FileSteps \union {"none"},
   attempts: 0..MaxAttempts, due: BOOLEAN, error: Errors]

VoiceStatus ==
  {"uploaded", "queued", "transcribing", "review_ready",
   "partial_finalized", "finalized", "failed"}
Stages == {"transcribing", "extracting"}
VoiceRow ==
  [status: VoiceStatus, stage: Stages \union {"none"}, attempts: 0..MaxAttempts]

\* VOICE_TO_RUN_STATUS ("extracting" is never committed).
RunStatusOfVoice(s) ==
  CASE s \in {"uploaded", "queued"} -> "uploaded"
    [] s = "transcribing" -> "processing"
    [] s \in {"review_ready", "partial_finalized"} -> "review_ready"
    [] s = "finalized" -> "completed"
    [] s = "failed" -> "failed"

\* staged: drafts nobody has touched; decided: a user accepted, amended or
\* rejected some; imported: finalizing created projects from some.
ItemsState == {"none", "staged", "decided", "imported"}
HumanWork == {"decided", "imported"}

VoiceTxnSteps == {"transcribing", "extracting"}
BusySteps == {"claimed", "failing"} \union FileSteps \union VoiceTxnSteps
Idle == [pc |-> "idle", run |-> NoRun]
WorkerState == {Idle} \union [pc: BusySteps, run: Runs]

NoVoiceRow == [status |-> "uploaded", stage |-> "none", attempts |-> 0]
NoRequest ==
  [pc |-> "idle", run |-> NoRun, key |-> NoKey, seen |-> NoVoiceRow, reply |-> "none"]
Replies == {"none", "accepted", "replayed", "mismatch", "refused"}
Request ==
  {NoRequest} \union
  [pc: {"idle", "probed"}, run: VoiceRuns, key: Keys, seen: VoiceRow, reply: Replies]

TypeOK ==
  /\ run \in [Runs -> RunRow]
  /\ voice \in [VoiceRuns -> VoiceRow]
  /\ items \in [Runs -> ItemsState]
  /\ worker \in [Workers -> WorkerState]
  /\ posting \subseteq UploadedInterviews
  /\ request \in [Clients -> Request]
  /\ keyHash \in [VoiceRuns -> [Keys -> Stages \union {"unused"}]]

NewRun == [status |-> "uploaded", step |-> "none", attempts |-> 0, due |-> TRUE, error |-> "none"]
FinishedRun ==
  [status |-> "completed", step |-> "none", attempts |-> 1, due |-> TRUE, error |-> "none"]

\* Every run has been inserted, and some have come to their end; a posted interview
\* is between its two commits.
Init ==
  \E finished \in SUBSET Runs :
    /\ run = [r \in Runs |-> IF r \in finished THEN FinishedRun ELSE NewRun]
    /\ voice = [r \in VoiceRuns |->
         IF r \in finished THEN [status |-> "finalized", stage |-> "none", attempts |-> 1]
         ELSE [status |-> IF r \in UploadedInterviews THEN "uploaded" ELSE "queued",
               stage |-> "none", attempts |-> 0]]
    /\ items = [r \in Runs |-> IF r \in finished THEN "imported" ELSE "none"]
    /\ worker = [w \in Workers |-> Idle]
    /\ posting = UploadedInterviews \ finished
    /\ request = [c \in Clients |-> NoRequest]
    /\ keyHash = [r \in VoiceRuns |-> [k \in Keys |-> "unused"]]

\* A voice worker keeps FOR UPDATE locks on both rows until it commits.
RowsLocked(r) ==
  \E w \in Workers : worker[w].run = r /\ worker[w].pc \in VoiceTxnSteps

SetRun(r, row) == run' = [run EXCEPT ![r] = row]
\* A file run has no voice row.
SetVoice(r, row) == voice' = IF r \in VoiceRuns THEN [voice EXCEPT ![r] = row] ELSE voice
RunWith(r, s) == [run[r] EXCEPT !.status = s]
VoiceWith(r, s) == [voice[r] EXCEPT !.status = s]

GoTo(w, step) == worker' = [worker EXCEPT ![w].pc = step]
Release(w) == worker' = [worker EXCEPT ![w] = Idle]

-----------------------------------------------------------------------------
(* The worker's main loop on one run *)

Claimable(r) ==
  /\ run[r].status = "uploaded"
  /\ run[r].attempts < MaxAttempts
  /\ run[r].due
  /\ ~RowsLocked(r)

\* Broken variant: the stage of the last failure is left alone.
ClaimKeepsStage(w, r) ==
  /\ worker[w] = Idle
  /\ Claimable(r)
  /\ SetRun(r, [status |-> "processing", step |-> "reading_file",
                attempts |-> run[r].attempts + 1, due |-> FALSE, error |-> "none"])
  /\ SetVoice(r, VoiceWith(r, "transcribing"))
  /\ worker' = [worker EXCEPT ![w] = [pc |-> "claimed", run |-> r]]
  /\ UNCHANGED <<items, apiVars>>

\* The claim commits before processing starts; it takes the lease.
ClaimNextRun(w, r) ==
  /\ worker[w] = Idle
  /\ Claimable(r)
  /\ SetRun(r, [status |-> "processing", step |-> "reading_file",
                attempts |-> run[r].attempts + 1, due |-> FALSE, error |-> "none"])
  /\ SetVoice(r, [VoiceWith(r, "transcribing") EXCEPT !.stage = "none"])
  /\ worker' = [worker EXCEPT ![w] = [pc |-> "claimed", run |-> r]]
  /\ UNCHANGED <<items, apiVars>>

StepAfter(step) ==
  CASE step = "claimed" -> "reading_file"
    [] step = "reading_file" -> "identifying_locations"
    [] step = "identifying_locations" -> "extracting_streams"
    [] step = "extracting_streams" -> "categorizing"

\* A file worker commits the name of each stage it enters.  The row is not
\* read again: the worker trusts the object it claimed.
PersistProgressCheckpoint(w) ==
  LET r == worker[w].run IN
  /\ r \in FileRuns
  /\ worker[w].pc \in {"claimed"} \union (FileSteps \ {"categorizing"})
  /\ SetRun(r, [run[r] EXCEPT !.step = StepAfter(worker[w].pc)])
  /\ GoTo(w, StepAfter(worker[w].pc))
  /\ UNCHANGED <<voice, items, apiVars>>

\* The last transaction of process_run replaces the items and settles the run.
\* processing_error stays out of the UPDATE: the claimed object holds None.
FinishFileRun(w) ==
  LET r == worker[w].run IN
  /\ r \in FileRuns
  /\ worker[w].pc = "categorizing"
  /\ \E found \in BOOLEAN :
       /\ SetRun(r, [run[r] EXCEPT !.status = IF found THEN "review_ready" ELSE "no_data",
                                   !.step = "none"])
       /\ items' = [items EXCEPT ![r] = IF found THEN "staged" ELSE "none"]
  /\ Release(w)
  /\ UNCHANGED <<voice, apiVars>>

\* A voice worker locks both rows and keeps them through transcription and
\* extraction; nothing it writes is visible before its only commit.
BeginVoiceRun(w) ==
  LET r == worker[w].run IN
  /\ r \in VoiceRuns
  /\ worker[w].pc = "claimed"
  /\ ~RowsLocked(r)
  /\ GoTo(w, "transcribing")
  /\ UNCHANGED <<run, voice, items, apiVars>>

StoreTranscript(w) ==
  /\ worker[w].pc = "transcribing"
  /\ GoTo(w, "extracting")
  /\ UNCHANGED <<run, voice, items, apiVars>>

\* A transcript without drafts is reviewed too (and closed as empty).
FinishVoiceRun(w) ==
  LET r == worker[w].run IN
  /\ worker[w].pc = "extracting"
  /\ SetRun(r, [run[r] EXCEPT !.status = "review_ready", !.step = "none"])
  /\ SetVoice(r, VoiceWith(r, "review_ready"))
  /\ \E left \in {"none", "staged"} : items' = [items EXCEPT ![r] = left]
  /\ Release(w)
  /\ UNCHANGED apiVars

\* Any exception: the transaction is rolled back, locks included.
FailStep(w) ==
  /\ worker[w].pc \notin {"idle", "failing"}
  /\ GoTo(w, "failing")
  /\ UNCHANGED <<run, voice, items, apiVars>>

CanRetry(r, retryable) == retryable /\ run[r].attempts < MaxAttempts

\* The failure transaction locks and reads the rows afresh, whatever their
\* status has become.
HandleProcessingFailure(w) ==
  LET r == worker[w].run IN
  /\ worker[w].pc = "failing"
  /\ ~RowsLocked(r)
  /\ \E retryable \in BOOLEAN, stage \in Stages \union {"none"} :
       LET again == CanRetry(r, retryable) IN
       /\ SetRun(r, [run[r] EXCEPT !.status = IF again THEN "uploaded" ELSE "failed",
                                   !.step = "none",
                                   !.error = "processing_failed",
                                   !.due = ~again /\ @])
       /\ SetVoice(r, [status |-> IF again THEN "queued" ELSE "failed",
                       stage |-> stage, attempts |-> run[r].attempts])
  /\ Release(w)
  /\ UNCHANGED <<items, apiVars>>

\* The process dies; the database rolls its transaction back.
Crash(w) ==
  /\ worker[w] # Idle
  /\ Release(w)
  /\ UNCHANGED <<run, voice, items, apiVars>>

-----------------------------------------------------------------------------
(* The reaper, run by an idle worker *)

\* Broken variant: a lease of whatever status is taken back.
LeaseExpiredAnyStatus(r) ==
  /\ run[r].due
  /\ run[r].attempts < MaxAttempts
  /\ ~RowsLocked(r)

LeaseExpired(r) ==
  /\ run[r].status = "processing"
  /\ run[r].due
  /\ run[r].attempts < MaxAttempts
  /\ ~RowsLocked(r)

\* Broken variant: the interview is forgotten.
RequeueRunRowOnly(w, r) ==
  /\ worker[w] = Idle
  /\ LeaseExpired(r)
  /\ SetRun(r, [run[r] EXCEPT !.status = "uploaded", !.step = "none",
                              !.due = TRUE, !.error = "lease_expired_requeued"])
  /\ UNCHANGED <<voice, items, worker, apiVars>>

RequeueStaleRun(w, r) ==
  /\ worker[w] = Idle
  /\ LeaseExpired(r)
  /\ SetRun(r, [run[r] EXCEPT !.status = "uploaded", !.step = "none",
                              !.due = TRUE, !.error = "lease_expired_requeued"])
  /\ SetVoice(r, VoiceWith(r, "queued"))
  /\ UNCHANGED <<items, worker, apiVars>>

\* Broken variant: one attempt too early.
ExhaustedTooEarly(r) ==
  /\ run[r].status \in {"uploaded", "processing"}
  /\ run[r].attempts >= MaxAttempts - 1
  /\ ~RowsLocked(r)

\* Broken variant: runs that were being processed are left out.
ExhaustedQueuedOnly(r) ==
  /\ run[r].status = "uploaded"
  /\ run[r].attempts >= MaxAttempts
  /\ ~RowsLocked(r)

\* No lease is looked at: a run on its last attempt is failed even while a
\* worker is busy with it.
Exhausted(r) ==
  /\ run[r].status \in {"uploaded", "processing"}
  /\ run[r].attempts >= MaxAttempts
  /\ ~RowsLocked(r)

FailExhaustedRun(w, r) ==
  /\ worker[w] = Idle
  /\ Exhausted(r)
  /\ SetRun(r, [run[r] EXCEPT !.status = "failed", !.step = "none",
                              !.error = "max_attempts_reached"])
  /\ SetVoice(r, VoiceWith(r, "failed"))
  /\ UNCHANGED <<items, worker, apiVars>>

\* The lease or the backoff of a run ends.
TimePasses(r) ==
  /\ run[r].status \in {"uploaded", "processing"}
  /\ ~run[r].due
  /\ SetRun(r, [run[r] EXCEPT !.due = TRUE])
  /\ UNCHANGED <<voice, items, worker, apiVars>>

-----------------------------------------------------------------------------
(* Users: review, finalize, post and retry *)

\* A decision on one item, to be imported when the run is finalized.
UpdateItemDecision(r) ==
  /\ run[r].status = "review_ready"
  /\ ~RowsLocked(r)
  /\ items[r] = "staged"
  /\ items' = [items EXCEPT ![r] = "decided"]
  /\ UNCHANGED <<run, voice, worker, apiVars>>

\* Finalizing a group leaves the run in review; finalizing the last one, or
\* the whole run, completes it.
FinalizeFileRun(r) ==
  /\ r \in FileRuns
  /\ run[r].status = "review_ready"
  /\ items[r] \in HumanWork
  /\ \E done \in BOOLEAN :
       SetRun(r, RunWith(r, IF done THEN "completed" ELSE "review_ready"))
  /\ items' = [items EXCEPT ![r] = "imported"]
  /\ UNCHANGED <<voice, worker, apiVars>>

FinalizeVoiceRun(r) ==
  /\ r \in VoiceRuns
  /\ run[r].status = "review_ready"
  /\ voice[r].status \in {"review_ready", "partial_finalized"}
  /\ ~RowsLocked(r)
  /\ \/ /\ items[r] \in HumanWork
        /\ \E s \in {"partial_finalized", "finalized"} :
             /\ SetVoice(r, VoiceWith(r, s))
             /\ SetRun(r, RunWith(r, RunStatusOfVoice(s)))
        /\ items' = [items EXCEPT ![r] = "imported"]
     \/ /\ items[r] = "none"   \* close_reason "empty_extraction"
        /\ SetVoice(r, VoiceWith(r, "finalized"))
        /\ SetRun(r, RunWith(r, "completed"))
        /\ UNCHANGED items
  /\ UNCHANGED <<worker, apiVars>>

\* On a discovery run the user may confirm one draft at a time: the decision, the
\* import and, for the last draft, the end of the run are one transaction.
DecideDiscoveryProjectDraft(r) ==
  /\ r \notin UploadedInterviews
  /\ run[r].status = "review_ready"
  /\ ~RowsLocked(r)
  /\ items[r] # "none"
  /\ items' = [items EXCEPT ![r] = "imported"]
  /\ \E s \in {"partial_finalized", "finalized"} :
       /\ SetVoice(r, VoiceWith(r, s))
       /\ SetRun(r, RunWith(r, RunStatusOfVoice(s)))
  /\ UNCHANGED <<worker, apiVars>>

\* The second commit of POST /voice-interviews writes voice_interviews.status
\* alone, waiting for whoever holds the row; or the API process dies first.
QueuePostedInterview(r) ==
  /\ r \in posting
  /\ posting' = posting \ {r}
  /\ \/ ~RowsLocked(r) /\ SetVoice(r, VoiceWith(r, "queued"))
     \/ UNCHANGED voice
  /\ UNCHANGED <<run, items, worker, request, keyHash>>

\* POST /voice-interviews/{id}/retry first reads the interview without a lock;
\* that object is what every later check and write of the call works on.
ProbeInterview(c, r, k) ==
  /\ request[c].pc = "idle"
  /\ request' = [request EXCEPT
       ![c] = [pc |-> "probed", run |-> r, key |-> k, seen |-> voice[r], reply |-> "none"]]
  /\ UNCHANGED <<queueVars, posting, keyHash>>

Retryable(seen) ==
  /\ seen.status = "failed"
  /\ seen.stage \in Stages
  /\ seen.attempts < MaxAttempts

Answer(c, reply) ==
  request' = [request EXCEPT ![c] = [pc |-> "idle", run |-> @.run, key |-> @.key,
                                     seen |-> NoVoiceRow, reply |-> reply]]

\* A known key is answered from its record when the request hash (made of the
\* interview's failed_stage) still matches, before any other check.
ReplayRetry(c) ==
  LET q == request[c]
      known == keyHash[q.run][q.key] IN
  /\ q.pc = "probed"
  /\ ~RowsLocked(q.run)
  /\ known # "unused"
  /\ Answer(c, IF known = q.seen.stage THEN "replayed" ELSE "mismatch")
  /\ UNCHANGED <<queueVars, posting, keyHash>>

RetryVoiceInterview(c) ==
  LET q == request[c]
      r == q.run IN
  /\ q.pc = "probed"
  /\ ~RowsLocked(r)
  /\ keyHash[r][q.key] = "unused"
  /\ IF Retryable(q.seen)
     THEN /\ SetVoice(r, [VoiceWith(r, "queued") EXCEPT !.attempts = q.seen.attempts + 1])
          /\ SetRun(r, [run[r] EXCEPT !.status = "uploaded", !.due = TRUE, !.error = "none"])
          /\ keyHash' = [keyHash EXCEPT ![r][q.key] = q.seen.stage]
          /\ Answer(c, "accepted")
     ELSE Answer(c, "refused") /\ UNCHANGED <<run, voice, keyHash>>
  /\ UNCHANGED <<items, worker, posting>>

\* The caller or the API process goes away before the transaction.
AbandonRequest(c) ==
  /\ request[c].pc = "probed"
  /\ request' = [request EXCEPT ![c] = NoRequest]
  /\ UNCHANGED <<queueVars, posting, keyHash>>

-----------------------------------------------------------------------------
ProcessStep(w) ==
  \/ PersistProgressCheckpoint(w)
  \/ FinishFileRun(w)
  \/ BeginVoiceRun(w)
  \/ StoreTranscript(w)
  \/ FinishVoiceRun(w)
  \/ FailStep(w)
  \/ HandleProcessingFailure(w)

LoopStep(w) ==
  \E r \in Runs : ClaimNextRun(w, r) \/ RequeueStaleRun(w, r) \/ FailExhaustedRun(w, r)

UserStep(r) ==
  \/ UpdateItemDecision(r)
  \/ FinalizeFileRun(r)
  \/ FinalizeVoiceRun(r)
  \/ DecideDiscoveryProjectDraft(r)

RetryStep(c) ==
  \/ \E r \in VoiceRuns, k \in Keys : ProbeInterview(c, r, k)
  \/ ReplayRetry(c)
  \/ RetryVoiceInterview(c)
  \/ AbandonRequest(c)

Next ==
  \/ \E w \in Workers : ProcessStep(w) \/ LoopStep(w) \/ Crash(w)
  \/ \E r \in Runs : TimePasses(r) \/ UserStep(r)
  \/ \E r \in UploadedInterviews : QueuePostedInterview(r)
  \/ \E c \in Clients : RetryStep(c)

Spec == Init /\ [][Next]_vars

\* A live worker process keeps looping (it may die, but the service manager
\* starts it again) and the clock advances.
Fairness ==
  /\ \A w \in Workers : WF_vars(ProcessStep(w) \/ LoopStep(w))
  /\ \A r \in Runs : WF_vars(TimePasses(r))

FairSpec == Spec /\ Fairness

-----------------------------------------------------------------------------
(* Properties *)

\* A queued run can always be claimed: neither a failure, an expired lease nor
\* a user's retry puts a run that has used its attempts back in the queue,
\* where claim_next_run would never look at it.
QueuedRunHasAttemptLeft ==
  \A r \in Runs : run[r].status = "uploaded" => run[r].attempts < MaxAttempts

\* The two attempt counters of a voice run agree whenever the user is offered a
\* retry, so the limit checked on the interview is the limit of the run.
RetryableCountsAgree ==
  \A r \in VoiceRuns :
    Retryable(voice[r]) => voice[r].attempts = run[r].attempts

\* What a reviewer decided, and what finalizing imported, is never replaced by
\* freshly extracted drafts: no second attempt runs behind a finished one.
HumanWorkKept ==
  [][\A r \in Runs : items[r] \in HumanWork => items'[r] \in HumanWork]_vars

\* The run row shows the status of its interview (VOICE_TO_RUN_STATUS) whoever
\* wrote last: worker, reaper, retry or finalize.
DiscoveryInterviewInStep ==
  \A r \in DiscoveryInterviews : run[r].status = RunStatusOfVoice(voice[r].status)

\* The same, once work on it has settled, for interviews posted to
\* /voice-interviews, whose creation commits twice while the worker is looking.  TLC
\* refutes it: the second commit may come after the worker's.
PostedInterviewInStep ==
  \A r \in UploadedInterviews :
    run[r].status \notin {"uploaded", "processing"} =>
      run[r].status = RunStatusOfVoice(voice[r].status)

\* A settled run tells the user the truth: a failed one carries the reason, one
\* that reached review carries none left over from an earlier attempt, and no
\* progress is shown once work has stopped.
SettledRunExplained ==
  \A r \in Runs :
    /\ run[r].status = "failed" => run[r].error # "none"
    /\ run[r].status \in {"review_ready", "completed", "no_data"} => run[r].error = "none"
    /\ run[r].status # "processing" => run[r].step = "none"

\* Drafts exist only for a run that reached review: a failed, requeued or empty
\* attempt leaves none behind, and a requeued run starts from a clean slate.
DraftsOnlyInReview ==
  \A r \in Runs : items[r] # "none" => run[r].status \in {"review_ready", "completed"}

\* Only the worker holding a run works on it: nobody requeues, fails or claims a
\* run behind the back of the process that is busy with it.
WorkedOnByItsOwner ==
  \A w \in Workers :
    worker[w] # Idle =>
      /\ run[worker[w].run].status = "processing"
      /\ \A v \in Workers \ {w} : worker[v].run # worker[w].run

\* A retry call answered by "accepted" really queues the run, and replaying its
\* Idempotency-Key is answered from the record, never refused.  TLC refutes it: the
\* claim changes what the record's hash was made of.
RetryReplayAnswered ==
  \A c \in Clients : request[c].reply # "mismatch"

\* Every queued run is eventually settled, whatever crashes and failures hit it.
QueuedRunSettles ==
  \A r \in Runs :
    run[r].status = "uploaded" ~> run[r].status \notin {"uploaded", "processing"}

Lifecycle ==
  INSTANCE ImportRunLifecycle WITH
    RetryableRuns <- VoiceRuns,
    status <- [r \in Runs |-> run[r].status],
    attempts <- [r \in Runs |-> run[r].attempts]

\* One worker and one retry call at a time: every run follows its lifecycle.
FollowsLifecycle == Lifecycle!Spec

=============================================================================
