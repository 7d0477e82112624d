# Second Stream: what its state does under concurrency

TLA+ models of the parts of Second Stream whose state several actors change at the same time: rows
of the backend under overlapping requests and workers, and stores of the web client under answers that
come late, twice or never. TLC checks them on small instances; TLAPS proves theorems about the backend's.

Second Stream is a FastAPI application (`src/backend/app`) over PostgreSQL, two polling worker
processes (`src/backend/scripts`), S3 for files, Redis for job status, and a Next.js client
(`src/frontend`). Waste-management consultants add companies, locations and streams (projects),
upload documents and voice interviews, review what AI extracts from them, and turn streams into
proposals and offers.

How the code keeps state, and what every model takes from it:

- A request or a worker pass is one database transaction (`app/core/database.py` 46-52, `get_async_db`),
  READ COMMITTED, committed at the end; a few handlers and all worker steps commit in between.
  A model's action is one transaction, or the part of one between two points where others are seen.
- SQLAlchemy keeps an identity map. `SELECT ... FOR UPDATE` on a row the session has loaded before
  locks it but returns the **old object**; columns are written only where they differ from that
  object. The dependencies of `api/dependencies.py` load rows without a lock in the same session.
  Copies therefore are state (`request[c].seen`, `worker[w].view`) and not an afterthought.
- Workers poll, take rows with `FOR UPDATE SKIP LOCKED`, and hold them afterwards by a lease that a
  reaper takes back. One bulk import worker task is deployed; two overlap during a deploy.

## Inventory

| component | state | operations | what makes it hard | what would make it correct | module |
|---|---|---|---|---|---|
| import run queue (`bulk_import_service.py`, `voice_interviews.py`, `bulk_import_worker.py`) | `import_runs`, `voice_interviews`, `import_items`, idempotency keys, leases | upload, claim, checkpoint, finish, fail, requeue, exhaust, review, finalize, retry | two rows with one status, leases against slow workers, retries checked on a stale copy, attempts counted twice | a run is worked on by one worker, ends, says why it failed, and never loses a human decision | `ImportRunQueue` |
| archive, restore, purge (`companies.py`, `projects.py`) | `archived_at`, `archived_by_parent_id` on three levels | create, archive, restore, purge | cascades in SQL, decisions on copies read before the lock | a restore brings back exactly what its archive put away | `ArchiveCascade` |
| discovery sessions (`discovery_session_service.py`) | `discovery_sessions`, `discovery_sources`, their runs | add sources, start, GET (which writes), text queue, sync | a status derived from rows others change, written by readers | a session that looks finished is finished, and comes to show its end | `DiscoverySession` |
| review and finalize (`bulk_import_service.py` 693-1744, 2105-3219) | items, their resolutions, summary, interview, idempotency keys, created locations and projects | edit, finalize a run, groups or a voice run, import orphans, decide a draft | four ways to make the same streams, five to complete a run, copies loaded before the lock | nothing is imported twice; a run is completed when all is decided | `ImportReview`; clients of drafts: `CandidateReview` |
| file ingestion queue (`intake_ingestion_service.py`, `files.py`) | `project_files`, leases, stored analyses | upload, delete, claim, complete (three ways), fail, requeue, exhaust | a worker that outlives its lease, reuse of the analysis of a twin, deletion under a worker | each file settles; a settled file changes only by a late worker | `FileIngestion` |
| intake suggestions and notes (`intake_service.py`) | `intake_suggestions`, unmapped notes, intake text | apply, reject, batch, map, dismiss, save, analyse | statements under READ COMMITTED, row locks in no order, batches that commit after an error | at most one applied suggestion per field, decisions stay | `ProjectIntake` |
| project document (`project_data_service.py`) | one JSON column, progress | patch, replace, parameters, custom sections, apply | a lock that returns the old copy | what was answered as done is in the row | `ProjectIntake` |
| offers (`offer_service.py`, `offers.py`, `projects.py`) | `offers` row mirroring the project | follow-up, status patch, sync on list, archive | GETs write; two endpoints with different rules for the same column | the offer repeats its stream's state, which changes along the transition table | `OfferFollowUp` |
| API client (`lib/api/client.ts`) | requests on their way, retries, time limits | request, retry, give up | writes are sent again; an error does not mean not done | what the pages above it can rely on | `ApiClient` |
| stream workspace (`workspace-store.ts`, stream page, quick capture) | form, dirty mark, save and hydrate marks, timers, capture session | type, autosave, accept and reject suggestions, capture, reconcile, analyse, leave | answers overtake each other and edits; one branch decides between three next steps | what is typed stays and is saved; waiting ends | `WorkspaceStore` |
| discovery wizard (`use-discovery-orchestration.ts`) | phase, interval, candidates, remembered session | start, resume, poll, confirm, reject, finalize, discard, close | one interval for several sessions, lost answers of writes | what is shown as created exists; processing ends | `DiscoveryWizard` |
| review of drafts in the browser (`draft-confirmation-modal.tsx`, `discovery-confirmation-utils.ts`) | candidates, lists, requests | prefill, choose, accept, confirm | prefill runs on every render and reaches siblings; lists load and fail in any order | a choice is not overwritten and is what gets created | `CandidateReview` |
| selected organization (`organization-store.ts`, `client-data-cache.ts`, stores, pages) | selection, guard, cache, lists | select, open, check, load, refresh, create | requests and lists outlive the selection | nothing unscoped is asked for; loading ends | `OrganizationData` |
| artifact and voice retention (`voice_retention_service.py`, 401-443) | storage keys, expiry marks | purge artifacts, audio, transcripts, audit events | deletes from S3 inside a database transaction | no row names a deleted object | not modelled |
| proposal generation (`proposal_service.py`, `cache_service.py`) | proposals, job status in Redis | start, generate, status, PDF, delete | background task in the request's process, status expires | a started job ends in a status the client sees | not modelled |
| chat (`chat_service.py`) | threads, messages, attachments, resume buffer | start a turn, stream, resume, delete | a turn spans transactions, the stream can be cut at any point | a user message gets one answer or one error | not modelled |
| organization lifecycle, user transfer | organizations, users, sessions | archive, restore, purge, transfer | last admin, purge across storage and rows | an organization keeps an admin; a purge leaves nothing | not modelled |
| dashboard, detail pages; feedback, ratings; authentication; AI agents; parsing, PDF, e-mail; S3 client; infrastructure; scripts | | | single rows, lists of one answer, pure functions or I/O | | not modelled |

How they interact: discovery sessions create import runs and are told when a run ends; the import
queue creates the drafts that review turns into companies, locations and projects; projects own the
document, the files, the offers and the chat threads; archiving a project by name also archives its offer, which its restore and the offer's own page bring back;
one worker process runs the import queue, the text queue of discovery and all retention purges. An
ingested file replaces what it gave the intake panel in the transaction that stores its results; an applied
suggestion writes the document. Every page of the client goes through one API client; the wizard polls the
session that the queue and the text queue move, and its review sends the decisions that create companies,
locations and projects.

`PROJECT.json` lists the hazards of this code line by line, with the properties that would catch each.

## Modules

    ImportRunLifecycle          abstract: what one import run may do
      ^ implemented by
    ImportRunQueue              the queue in detail      <- MCImportRunQueue     <- ImportRunQueueProofs
    ImportReview                the review of a run      <- MCImportReview       <- ImportReviewProofs
    DiscoverySession            a session and its runs   <- MCDiscoverySession   <- DiscoverySessionProofs
    ArchiveCascade              the hierarchy            <- MCArchiveCascade     <- ArchiveCascadeProofs
    OfferFollowUp               a stream and its offer   <- MCOfferFollowUp      <- OfferFollowUpProofs
    ProjectFiles                identities of files
      ProjectIntake             the panel and document
      FileIngestion             the queue of files
        IntakePipeline          both on one database     <- MCIntakePipeline       <- IntakePipelineProofs
    ApiClient                   a request, its retries and its loss              <- WebClientProofs, of the three below
      WorkspaceStore            the stream workspace     <- MCWorkspaceStore
      DiscoveryWizard           the discovery wizard     <- MCDiscoveryWizard
      OrganizationData          whose data is shown      <- MCOrganizationData
    CandidateReview             drafts, from prefill to what is created  <- MCCandidateReview <- CandidateReviewProofs

Definitions that begin "Broken variant" in their comment are never used by a specification: each is a
plausible bug, kept next to the definition it would replace, and shows that a property notices it.

### ImportRunLifecycle

The status graph of one run: claim spends one of `MaxAttempts` attempts; an attempt releases, stages,
finds nothing or fails; voice runs may be retried while attempts are left; completed is final.
Both `ImportRunQueue` and `DiscoverySession` are shown to implement it.

### ImportRunQueue

`run[r]` is the row of `import_runs` (status, progress step, attempts, error, whether
`processing_available_at` has passed), `voice[r]` the interview's row, `items[r]` how far the staged
items have come (none, staged, decided, imported), `worker[w]` the step a process is at. File runs
commit at each of four checkpoints; a voice run is one transaction that holds both rows' locks from
`BeginVoiceRun` to its end. The reaper's three statements are actions of an idle worker. The retry
endpoint is three steps (probe without lock, lock, answer from the idempotency record), because it
decides on the probe. Time is one boolean per row and the action `TimePasses`, which makes a lease or a
backoff expire.

### ImportReview

What happens to one run after the queue has made it review_ready; `ImportRunQueue` has that as two steps on its status.
`item[i]` is a row of `import_items`: its status, `confirm_create_new`, the location resolution sent with it, and
what was made of it (a place, or the number of a stream: `streams[j][n]` says where the n-th stream named as item j is,
the 0-th one made by hand). `request[c]` is a call between its probe and its commit, with the rows the probe loaded:
loading an item loads its run, loading a run loads its items (`lazy="selectin"`), and the locking SELECT of the service
leaves both as they are. `Copy` is the row the service decides on, `Stored` and `StoredRun` what its flush writes.

`NewPlaces`, `Target`, `Makeable`, `NewRows` and `Make` are what the three finalizes share: where each accepted item
goes, what that creates, and when the code refuses it (a new location that exists, a project without a location, an
ambiguous duplicate). `FinalizeWhole` makes all that is accepted (`anew`), the others what has not been made;
`FinalizeVoice` maps an item to its duplicate candidate and answers under an idempotency key; `ImportOrphans` counts what
is left before the last item is flushed; `ConfirmDraft` resolves the location of a draft or of its location item. Locations
are compared by name, city and state, as the code does, so a place is both the location and its name.

### DiscoverySession

`session`, `source[s]` and `run[s]` are rows; `worker[w].view` is the copy of session and sources that a
worker's transaction loaded with the row it claimed, `request[c]` a GET between its loads and its commit.
`SyncSessionStatus` yields what an UPDATE would contain: only columns that differ from the loaded copy
("keep" otherwise). That is how a GET with old rows can overwrite what a worker wrote a moment before, and
why the next GET repairs it. File and audio runs do here what `ImportRunLifecycle` allows, so the two
modules compose through that abstraction; text runs are modelled action by action.

### ArchiveCascade

`row[e]` is `archived_at` and `archived_by_parent_id` of a company, location or project; `request[c].seen`
the copy the dependency loaded; `wish[e]` is a history variable: what a user last asked of the row itself and
was told is done. The bulk updates of rows below work on committed values. A project's offer has an `archived_at`
of its own, which the project's handlers and the offer's page both write: `OfferFollowUp` has it.

### OfferFollowUp

`stream` is the part of one project's row that follow-up reads or writes, `offer` the row of `offers` that repeats
it, `evidence` what makes the syncing GETs create one. A request loads the stream, then the offer (the offer page's
transition the other way round), then commits; `Written` writes only columns that differ from the copy. The
dashboard's transition locks the project as it loads it, so its copy is the row; archive, restore and upload lock a
project they already hold a copy of. `uq_offers_project_id` makes the second of two inserts fail (`CanWriteOffer`,
`Decline`). The cascades of `ArchiveCascade` appear as `ArchiveParent` and `RestoreParent`, because they pass by
the offer.

### ProjectIntake, FileIngestion, IntakePipeline

`ProjectIntake`: `suggestion[s]`, `note[n]` and `project` are rows; `session[c]` is a request in flight: its phase,
the rows it has updated and therefore locks (`writes`, unseen by others until `Commit`), its place in the partial
unique index of applied suggestions (`Index`, `Clash`), and the copy of the document it loaded. Applying is
`Select` (the one applied before is rejected), `Mark`, `Index`, `WriteField`, `RejectSiblings`, `Commit`, because each of these
statements sees what others have committed before it; a request that waits for a row in a circle is the one
the database ends. A batch goes through its items in one transaction and commits after an item's error.
Requests of one statement are one action. The analysis of the notes compares versions first and writes later.

`FileIngestion`: `file[f]` is the row of the queue (status, attempts, whether its backoff or lease is over, whether an
analysis is stored), `worker[w]` the copy a worker decides by. A worker that is late is not stopped: it completes or
fails a file by its own copy. `IntakePipeline` joins the two where the code does: completion replaces the file's
suggestions and notes in the same transaction, deletion takes the suggestions along.

### ApiClient

`call[k]` is a request on its way, and where it is: sent, done and answered, or left (the caller has given up, the
server may still do it). `Lost` sends it again whatever its method; `Fails` gives the caller an error, and
`Abandoned` says what may still happen. Requests overtake each other. The three modules that extend it say which
requests there are (`call[k].of`) and what an answer does.

### WorkspaceStore

`form` is the store, `page` the open project, `timers` the pending retries of a hydrate, `workspace[p]` the server.
`hydrate`, its answer, the capture session with its follow-up and its limit of retries, the single analysis, the
autosave timer and the save, the review of suggestions and leaving the page are actions; a promise's continuation
is one action, since nothing else runs in between. `typed` and `unsaved` are history: what the user typed in the open page, and what
of it no save of that page has carried and returned. The store does not ask which page an answer is of; the history does (`OfThisPage`).

### DiscoveryWizard

`wizard` holds the component's state, refs and storage; `session[s]` and `draft[i]` are the server. One interval and
one mark (`confirming`) serve whatever session is polled, as in the code. The two requests that can hide each other's
end (the poll and the confirmation fetch after a terminal status), the check and the resume of a remembered session, the
decisions, and the parallel discards of which the first error ends the waiting, are kinds of requests.

### CandidateReview

`suggested` is what the analysis found, `candidates` what the dialog holds, `store` the lists it has and has asked for,
`server` the clients, locations and streams. `Prefill` is one run of the effect: it decides for all drafts on one
snapshot and then sets the changes of one draft after the other (`Prefilled`), each of which may reach the drafts of
the same suggestion (`SharesClient`). `ServeDecision` is the server's resolution of client and location in its three ways (a
draft without a parent item, with one, and with one a sibling has been created at).

### OrganizationData

`org` is the selection, `guard` the organization guard, `data` the cache (per organization and list: last answer, whether
it is fresh, the request to join), the streams and company stores and the list of the open page. Lists
are the sets of organizations whose rows they hold. Answers go to everyone who joined (`call[k].of.waits`); a retry
reads the selected organization again (`SentAgain`), since the header is built per attempt.

## Runs

| run | instance | shows |
|---|---|---|
| `queue_one_worker` | a posted interview; or a file run with a discovery interview; 1 worker, 1 caller, 2 attempts | as deployed: counters and statuses agree, human work is kept, the lifecycle, and every queued run is settled |
| `archive_one_client` | 1 company, 2 locations, 3 projects, 1 request at a time | a cascade and its restore, by-hand archives, purges |
| `purge_race` | 1 company, 1 location, 1 project, 2 requests | finding: a purge decides on an old copy |
| `import_review` | 1 location item, 1 linked project, 1 orphan, 2 places, 2 keys; 2 requests, which overlap only as finalizes of a voice run | one stream per draft, completed when decided, summary, interview and answers in step |
| `discovery_session` | 1 file, 1 audio, 1 text source, 1 worker, 1 GET, 2 attempts | statuses agree, no early end, the lifecycle, and a started session shows its end |
| `offer_follow_up` | 1 stream, all operations, up to 2 proposals; 2 requests where they decide under the lock, else 1 | a state comes with an offer that repeats it, and changes along the table |
| `intake` | 2 requests on one field; 1 request beside 1 file; 2 files of one content with 2 workers | one applied suggestion per field, decisions and deletions, late workers; requests and files come to an end |
| `stream_workspace` | 2 questions being edited, or 1 file captured, with 3 acts and 1 lost request; or 4 acts over 2 pages, nothing lost | what is typed stays until saved, but for answers of another page taken for its own, and is saved; reconciling ends |
| `discovery_wizard` | 2 sessions started in turn; 1 with a lost request; the drafts of a remembered session; one still in process | what is shown as confirmed exists; the processing view ends |
| `candidate_review` | 2 drafts, of one suggestion or of two, with a common parent item or none, 2 edits | prefill keeps choices, locations fit clients, drafts without a parent item are created as confirmed, prefill settles |
| `sibling_place` | the same | finding: a sibling's location is taken over the one confirmed |
| `organization_data` | 2 organizations, one perhaps refused, all pages; 4 moves, or 3 with a lost request | joined requests exist, nothing is loaded unscoped, loading ends |

An instance that names alternatives has them as initial states of one run: the `Instance` of its MC module picks
one, and a behaviour stays in it. That leaves out only what the alternatives would do together, and they share no
state there (a finished run, an unused file, a used-up bound).

Why these bounds suffice to see the interesting cases. Runs never touch each other's rows, and neither do
sessions, companies or projects, so one of each kind shows every interleaving that involves it; two kinds at once show a
worker that is busy elsewhere. `MaxAttempts` is 3 in the code; 2 has an
attempt that fails with another one left, and one that fails as the last. Two locations with unequal numbers of
projects distinguish "below the company" from "below the location". A second request is what a race
needs; a third would only repeat it. `MaxProposals` is 2 because a deletion that is not the last one matters. Two
suggestions of one field have a rival; a location item with a project and an orphan are the two kinds of group, one finalized
before the other; `MaxMade` 2 has room for the second stream that must not be made, `MaxRejected` 2 for a rejection counted twice; a second key lets
a finalize that waited for another commit on its old copy, where one key would have it answered from the record; two files with one content have a twin. In the client two places of requests
(three with a save, a hydrate and an analysis) let one answer overtake another, `MaxFaults` is one lost request or
answer, and `MAX_ATTEMPTS` 2 keeps the retry after a retry. Edit, save, change of page and edit again take four acts. `MaxActs`, `MaxClicks`, `MaxMoves`, `MaxEdits`, `MaxCalls` and
`MaxVersion` bound what users do; where every click has its own answer, three or four reach every action.

Two workers of the import queue overlap for seconds during a deploy, and then a worker that outlives its lease (minutes)
can overwrite the result of the one that took over: `HumanWorkKept`, `SettledRunExplained`, `WorkedOnByItsOwner` and
`FollowsLifecycle` are false there, and the queue and session runs have one worker. What does hold with any number of
workers and requests is proved (below): that run and interview, and text source
and run, show the same, that text sources keep an attempt, that marks lead to an archived parent, that a restore
undoes its archive, that a state has an offer, that a field has one applied suggestion. Invariants that are
proved for every instance and are no more than steps of another property (`QueuedRunHasAttemptLeft`,
`SettledRunExplained`, `MarkedParentArchived`, `ClaimsAreCounted` and others) are not repeated in a run. Nor are the type
invariants: each module states its own, and every one is proved, by the theorem whose name ends in `TypeCorrect`.

`CHECK_DEADLOCK FALSE`: when every run is completed, or the users' clicks are used up and everything is answered,
nothing is left to do; in `import_review` the bounds on streams and rejections stop it too.

What `import_review` leaves out beyond its bounds. `KeyedOrAlone` serves requests one after the other, except finalizes
of a voice run: overlapping requests of any other kind break its properties (next section), and the idempotency
keys are there for these. `MCInit` and `MCNext` keep the analysis from having found more than the linked items' place and
stream, have one kind of location resolution while both projects are valid (every kind occurs while one is not), and let
others add only the place the items name, not the one a resolution opens, and a stream named as the orphan only to a bulk
run (a voice run looks at none). The two clients are interchangeable, and so are the two keys (`SYMMETRY`); the run has no liveness property.

Fairness. Each worker process has weak fairness for its own steps together with its loop: the
service is restarted when it dies and the loop never blocks (`SKIP LOCKED`). Crashes are not fair and not
limited: they spend attempts. Leases and backoffs expire. For the session, each
GET in flight finishes and the wizard polls again (it polls every few seconds until it sees a terminal status). A
request of the intake panel goes on, or is ended by the database when it waits in a circle. In the client, requests
are done and answered (a fault is not fair: it need not happen, and `MaxFaults` bounds it), timers and intervals run, effects run when
what they depend on has changed, and the guard's time limit passes. The server need not end a session the
wizard polls: the wizard's own time limit does. No user action is fair.

## Findings

Each has a run in which TLC shows it; `PROJECT.json` quotes the lines it contradicts.

- `purge_race` `companies.py:763`: "must be archived before purge" is decided on a copy loaded before the lock.
- `sibling_place` `bulk_import_service.py:2261`: the location a sibling was created at is taken for a draft that was
  confirmed for another client.

More disagreements between code and its own words, met while modelling. The property of each is stated in its module,
is false, and is in no run; give it to TLC with a small instance (one project, file, item or request pair) to see
the steps.

| property (module) | where | what happens |
|---|---|---|
| `PostedInterviewInStep` (ImportRunQueue) | `voice_interviews.py:168` | the second commit of POST overwrites the interview's status after the worker has finished the run |
| `RetryReplayAnswered` (ImportRunQueue) | `voice_interviews.py:247` | the payload hash contains a column the claim clears: the same Idempotency-Key gets a mismatch |
| `ArchivedByHandStays` (ArchiveCascade), two requests | `companies.py:473` | a row archived by hand while a cascade archives it keeps the parent's mark, and the parent's restore revives it |
| `ActiveUnderArchived` (ArchiveCascade), two requests | `dependencies.py:233` | a parent archived after the check gets an active child |
| `FollowsTable` on every step (OfferFollowUp) | `offers.py:672` | the offer page's transition ignores the table, the lock and the archive, so that the offer of a stream archived by hand is back in the pipeline; completing discovery (`workspace_service.py:791`) overwrites a state set after its load |
| `DecidedInArchive` (OfferFollowUp) | `projects.py:1398` | a restore takes an accepted offer out of the archive, into no list |
| `AppliedIsWritten` (ProjectIntake) | `intake_service.py:708` | a batch commits a suggestion as applied although its field could not be written |
| `ProgressIsCompletion` (ProjectIntake) | `project_data_service.py:130` | of two overlapping saves, one gives the document and the other the progress |
| `CaptureEnds` (WorkspaceStore) | `workspace-store.ts:407` | a queued hydrate takes the place of the analysis, and the capture stays on analyzing |
| `UnsavedShown` without its exceptions (WorkspaceStore) | `workspace-store.ts:613` | a late save of another page that finds the very answers it sent clears the mark and the edits of this one, which no save has carried; accepting a suggestion on another page does the same (line 559) |
| `AcknowledgedKept` (WorkspaceStore) | `workspace-store.ts:533` | of two saves on their way, the older is done last |
| `StreamsOfSelection` (OrganizationData) | `organization-store.ts:9` | selecting an organization does not reset the streams store: its streams page shows those of the one before ("All data will be scoped to your selection", `org-required-screen.tsx:47`) |
| `OncePerDraft` on every step (ImportReview) | `bulk_import_service.py:815` | finalizing the whole run after some of its groups makes their streams a second time |
| `OncePerDraft` with plain `Next` (ImportReview) | `bulk_import_service.py:2167` | of two overlapping decisions on a draft the second still sees it undecided: two streams, or one from a draft rejected meanwhile |
| `OncePerDraft` of a voice run (ImportReview) | `bulk_import_service.py:1418` | of two finalizes under two keys, the one that waited still sees its items without streams and makes them again |
| `SummaryKeepsPace` of a voice run (ImportReview) | `bulk_import_service.py:1734` | its summary is that of its last finalize, not of all of them |
| `SummaryKeepsPace` per run and not per step (ImportReview) | `bulk_import_service.py:2456` | a decision on a draft rewrites the summary without the list of groups counted, and a later finalize of such a group counts its rejections again |
| `CompletesWhenDecided` without its exception (ImportReview) | `bulk_import_service.py:3201` | importing the last orphans completes a run with linked projects still pending; the call that imports the last of them does not complete it (line 3200 says "if all orphan project items now have created_project_id, mark run completed") |
| `KeptIsDraft` (DiscoveryWizard) | `use-discovery-orchestration.ts:782` | a confirmation whose answer is lost leaves a created draft among the kept ones |

## Theorems

For every value of the constants that satisfies the modules' ASSUMEs. Where the table says "sole", the theorem
assumes `SoleWorker` (at most one worker) or `SoleClient` (at most one request in flight), which is the
deployment the runs of the same name check; the races between two are what the findings and hazards are about.

| module | theorem | for |
|---|---|---|
| ImportRunQueueProofs | `TypeCorrect` | any workers, callers |
| | `InterviewInStep` (run and interview show the same) | any workers, callers |
| | `QueuedRunCanBeClaimed`, `CountsAgree`, `SettledExplained`, `OwnedAndClean`, `ReviewIsKept` | sole worker, sole caller |
| | `QueueImplementsLifecycle` | sole worker, sole caller |
| ArchiveCascadeProofs | `TypeCorrect`, `NoneLeftBehind`, `ArchiveIsUndone` | any requests |
| | `ByHandStays`, `NothingHidden`, `PurgeIsSafe` | sole request |
| ImportReviewProofs | `TypeCorrect`, `AnswersAreFinal` | any items, groups, keys and requests, overlapping in any way |
| | `CopiesStayCurrent`, `DraftMadeOnce`, `VoiceStaysInStep`, `CompletedIsDecided`, `SummaryIsExact` | the same, overlapping only as finalizes of a voice run |
| DiscoverySessionProofs | `TypeCorrect`, `TextStaysInStep`, `TextKeepsAnAttempt` | any workers, requests |
| | `SessionImplementsLifecycle`, `PollingMayStop` | sole worker, any requests |
| OfferFollowUpProofs | `TypeCorrect`, `StreamIsOnOfferPages` | any requests |
| | `LockedTransitions` | any requests without the completion of discovery (`LockedOnly`) |
| | `OfferRepeatsStream` | sole request |
| IntakePipelineProofs, panel | `TypeCorrect`, `OneApplied`, `DecisionsStay`, `ReportsHold` | any suggestions, fields, batches, overlapping requests |
| IntakePipelineProofs, files | `IngestionTypeCorrect`, `AttemptsAreCounted`, `NoEmptyCompletion`, `FirstOutcomeStays` | any files, workers, attempts, late workers included |
| both | `PipelineKeepsPanel`, `PipelineKeepsQueue`, `PipelineTypeCorrect`, `PanelFollows`, `PipelineIsSafe` | the same, all at once on one database |
| CandidateReviewProofs | `TypeCorrect`, `LocationFollowsClient`, `PrefillLeavesChoices`, `OrphansAreChosen` | any drafts, suggestions, companies and locations |
| WebClientProofs, workspace | `StoreTypeCorrect`, `EditsAreKept` | any projects, questions, files, requests, retries, faults and acts |
| wizard | `WizardTypeCorrect`, `ConfirmedAreCreated` | any sessions, items, requests, faults and clicks |
| organization | `DataTypeCorrect`, `JoinedAreOnTheirWay`, `LoadsAreScoped` | any organizations, requests, faults and moves |

The arguments:

- *Queue.* `IInv` strengthens the properties by what a worker knows: a busy worker's run is `processing`, its
  step column says where the worker is, items are "none" until the last step, and a probe taken by a retry call
  still describes the interview unless a worker has claimed the run. None of the properties is inductive
  without it: that a failed run carries a reason needs to know that no worker is still busy with it.
  The refinement uses the same invariant: each step changes at most one run's status, along an edge of the graph.
- *Archive.* `MarkInv` says a mark names the row's own parent and that parent is archived; bulk updates and single
  rows keep it even when the single row's handler decides on an old copy. It also makes a restore the inverse of
  its archive: under an active row, the only marks that name it are those the archive has just made. With one
  request, `SeenIsCurrent` makes the copy equal to the row, and the other three follow.
- *Review.* `CopiesCurrent` says that a request that overlaps no other holds the current rows. It is inductive because a
  request that shares its time with another is a finalize of a voice run, about whose copies it says nothing
  (`CommitKeepsCurrent`). `MakesOnly` says of each of the four ways what its test of earlier streams is worth on
  copies; on current ones that is `OncePerDraft`. That run and interview stay in step needs more than
  their common write: a finalize that waited for another decides on old items and an old copy of the run, but on the interview's row (`InterviewOpen`), and what it writes of the
  run is a difference to review_ready (`StatusWritten`). That a completed run is decided needs `StillSeen`: what a
  finalize that overlaps others has loaded of an item, its status and that it was made, is still so at its commit, since
  the finalizes it overlaps with change no status and unmake nothing (`FinalizeKeeps`).
  Counting rests on `FilledInOrder`: the streams of an item fill its slots from the first, so the next one's slot is free and a
  step that makes one stream of each item of a set adds the size of that set to the total (`AddsCount`). Every step is
  such a step (`NextCounted`). The summary is exact because the copy a request adds to is the current row: `SubsetCounts`, `RejectCounts`
and `ConfirmCounts` say so of each request, those that make nothing included, and that the rejections it adds are those of the groups
not counted before (`RejectionsCounted`), or the one draft; no other step writes it (`OthersLeaveSummary`). An answer is exact because
  its key is looked up in the row itself, whoever else is under way.
- *Discovery.* `TextInv` adds to "text source and run agree" what makes it inductive although readers and workers
  write with old copies: a worker that claimed a text source has "processing" in its copy, a failure handler
  that locked it has the current value, two workers never hold the same lock, and a GET that loaded a text source
  in step with its run leaves it out of its UPDATE. `SyncKeepsText` is the heart of it: a synchronisation leaves
  a text source in step untouched whatever copy it works on.
  With one worker, what it holds is `processing` (`OnProcessing`), since the reaper that could take the run away is the same
  process; so a step moves at most one run, along an edge of the lifecycle (`NextMoves`), which is the refinement.
  It also means that a run that has ended stays so unless a user retries it (`OverStays`), and that makes old copies harmless:
  a text source remembered as settled has a settled run (`ViewsEndLate`), the other sources are derived from the
  rows of their runs, and a terminal status a GET is about to write is still true when it lands (`UpdatesEndLate`).
- *Offers.* Offers are never deleted, and a request that sets a state writes the offer in the same transaction
  (`StateComesWithOffer`). `LockInv` says that one request holds the project and that a transition in progress
  has its current state; `StateWriters` lists who can change the state, which leaves the holder, the deletion and the
  offer's page, and the last two wait for the holder.
  With one request, `CopiesCurrent` makes what is written what was asked for.

- *File ingestion.* `ClaimInv` relates a worker's copy to the row it no longer owns: a copy never has more attempts than
  the row (`ClaimsAreCounted`), two workers on one file hold different numbers of it (`ClaimsDiffer`), and a file
  completed at its first claim is in nobody's hands (`FirstClaimEnded`). That a completed file changes only after a second
  claim follows: the only worker that could undo it holds an earlier number.
- *Intake.* `OneInv` is what the locks and the index give at every statement: the row locks of two requests are
  disjoint, at most one row of a field is applied for those who read committed rows and for each request that
  sees its own writes (`OnePerView`), and the index has one entry per field (`OneEntry`), be it committed or a
  transaction's. The committed rows alone are not inductive: a commit publishes many rows at once.
  `RequestInv` says of each request what makes its commit safe: a row it has written is locked and was pending, or
  applied if it is rejected (`WritesFollow`); a single request has rejected an applied row only for the one it applies
  itself (`SingleReplaces`); an item it has done is applied in its writes and in its copy of the document, and no item
  still to do can take the field away (`AppliesStay`). A step of another request leaves all of this alone (`Calm`): it
  changes no locked row, and the identities a request still names are not used for new rows.
- *Intake pipeline.* Each component goes on in the composition as it would alone (`PipelineKeepsPanel`,
  `PipelineKeepsQueue`), so its theorems carry over. `PanelFollowsFiles` is inductive with the types: a source is copied only
  from a row that is there, `Finish` writes rows of a file that exists in the step that completes it, and the only two ways a
  file can go, `Remove` and the offers `Upload` replaces, clear the panel of it in the same step.

- *Candidate review.* A prefill sets the changes of all drafts one after the other, each decided on what was shown before the first
  and each reaching the drafts of the same suggestion. `Prefilled` is that recursion over the drafts; its equation is proved by
  induction over a set of numbers (`PrefilledExists`), and so is what holds after the first n drafts (`PrefillOK`): locations are of
  their clients, and choices are kept. That a change reaches no draft with a choice (`PrefillReaches`) needs
  `NewIsShared`: if one draft of a suggestion has accepted the new client, the others have a client too, or two
  companies of that name are loaded and no prefill is called for. Of the server the proofs need only that it adds
  (`ServerGrows`): a location once given to a company stays there.

- *Web client.* Every handler of the browser is a function of what is shown and what is on its way, so the proofs go
  along those functions: one lemma per function says which states it keeps (`StoreState`, `Wizards`, `DataStates`), and
  the step of a handler composes them.
  Of the workspace, `EditsKept` is proved of every step from the types (`StepKeeps`): an answer replaces the questionnaire only where
  nothing is edited, and the answer of a save takes the mark of an edit away only where the form still holds what was
  saved. If it is a save of this page, nothing typed is left unsaved then; if it is of another, the step is the exception.
  Of the wizard, `WizardInv` carries "confirmed exists" back along the way it is learnt: a confirmation answered as done has a project
  (`WizardCalls`), a decision on its way remembers a list of candidates to show again that is itself sound
  (`SoundCandidates`), and what the server has created stays (`draft` only grows in that sense).
  Of the organization, `DataInv` says of every entry of the cache that its request is on its way for that list of that
  organization, and of every request without an organization that nobody waits for it. The step that needs an
  invariant of its own is a created offer, whose refresh may be asked for without an organization: if the answer is still awaited, the
  offers page is shown (`AwaitedOffers`), hence an organization is selected.

Model-checked only: liveness (`QueuedRunSettles`, `StartedSessionShown`, `RequestEnds`, `FileSettles` and those of the
client, `EditsReachServer`, `ReconcileEnds`, `ProcessingEnds`, `LoadingEnds`, `ReviewSettles`), and what the violation runs show. Every invariant and every action
property of a passing run is proved, with `SoleWorker` or `SoleClient` where the table says so.

## Plan

What would come next, most important first:

1. Retention and the lock order of voice worker, retry and reaper, where a deadlock is the property.
2. Proposal generation with its job status in Redis, and the client's polling of it across reloads; a chat turn.

## Not modelled

- Retention purges, proposal generation, chat, and the lifecycle of organizations and users: each is a component of its
  own with state of its own, and none of the modelled ones depends on it beyond what their inputs say (a proposal
  appears or is deleted, an organization is gone).
- Of the review: runs whose entry point is a location or an organization (`CandidateReview` has the clients of the
  latter), closing an empty extraction, counters, `needs_review`, amended texts, and locations or streams deleted or
  archived between two decisions.
- Extraction by language models, parsing of spreadsheets, PDF and chart rendering, e-mail (their success or failure
  is an input), authentication (stateless checks per request), S3 itself, Terraform, one-off scripts, single-row
  create/read/update/delete of feedback and ratings.
- In the client: the dashboard and the pages of one stream, client or offer, which show one answer; the
  technical-data, dashboard, intake and project stores and the organization switcher, which no page mounts; a
  second browser tab that selects another organization.

Within the modelled components: limits on sizes and counts, permissions of the owner, texts of errors beyond their
kind, audit events, quotas, values of fields beyond their identity, filters and sorting of lists.
