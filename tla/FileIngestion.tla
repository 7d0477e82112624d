--------------------------- MODULE FileIngestion ---------------------------
(***************************************************************************)
(* The queue of uploaded files the intake worker analyses: a file is       *)
(* claimed with a lease, analysed, and completed, requeued with a backoff  *)
(* or failed; a reaper takes back the files whose lease has expired.       *)
(*                                                                         *)
(* A worker whose lease has expired is not stopped.  It holds the row as   *)
(* it was when it claimed it, decides by that copy, and nothing checks at  *)
(* the end that the file is still its own.                                 *)
(***************************************************************************)
EXTENDS Naturals, ProjectFiles

CONSTANTS
  Workers,     \* worker processes; two overlap while a deployment replaces one
  Content,     \* Content[f]: files with the same value have the same file_hash
  MAX_PROCESSING_ATTEMPTS

ASSUME AttemptsAssumption == MAX_PROCESSING_ATTEMPTS \in Nat \ {0}

VARIABLES
  file,    \* file[f]: the row of project_files
  worker   \* worker[w]: the file it processes and the copy of its row

ingestionVars == <<file, worker>>

-----------------------------------------------------------------------------
Attempts == 0..MAX_PROCESSING_ATTEMPTS

\* due: processing_available_at has passed.  It is the end of the backoff of a
\* queued file and of the lease of one in process.  results: an analysis is stored.
\* offer: the category is that of offer documents, of which a project keeps one.
Row ==
  [status: {"absent", "queued", "processing", "completed", "failed", "deleted"},
   attempts: Attempts, due: BOOLEAN, results: BOOLEAN, offer: BOOLEAN]
AbsentFile ==
  [status |-> "absent", attempts |-> 0, due |-> FALSE, results |-> FALSE, offer |-> FALSE]

Free == [file |-> "none", attempts |-> 0, results |-> FALSE]
Worker == [file: Files \union {"none"}, attempts: Attempts, results: BOOLEAN]

IngestionTypeOK ==
  /\ file \in [Files -> Row]
  /\ worker \in [Workers -> Worker]

\* A file with the status deleted is an identity that is not used.
DeletedFile == [AbsentFile EXCEPT !.status = "deleted"]
AbsentOffer == [AbsentFile EXCEPT !.offer = TRUE]

IngestionInit ==
  /\ file \in [Files -> {AbsentFile, AbsentOffer, DeletedFile}]
  /\ worker = [w \in Workers |-> Free]

-----------------------------------------------------------------------------
(* The user's requests *)

Exists(f) == file[f].status \notin {"absent", "deleted"}

\* replace_single_active_category_file
ReplacedOffers(f) == {g \in Files \ {f} : file[f].offer /\ Exists(g) /\ file[g].offer}

\* Without AI processing, a file is completed at once.
upload_file(f, process_with_ai) ==
  /\ file[f].status = "absent"
  /\ file' = [g \in Files |->
       IF g = f
       THEN [file[f] EXCEPT !.status = IF process_with_ai THEN "queued" ELSE "completed",
                            !.due = process_with_ai]
       ELSE IF g \in ReplacedOffers(f) THEN DeletedFile ELSE file[g]]
  /\ UNCHANGED worker

delete_file(f) ==
  /\ Exists(f)
  /\ file' = [file EXCEPT ![f] = DeletedFile]
  /\ UNCHANGED worker

-----------------------------------------------------------------------------
(* The worker *)

\* Broken variant: the attempts are not counted when the file is claimed.
ClaimedUncounted(row) == [row EXCEPT !.status = "processing", !.due = FALSE]

Claimed(row) ==
  [row EXCEPT !.status = "processing", !.attempts = @ + 1, !.due = FALSE]

Claimable(row) ==
  row.status = "queued" /\ row.due /\ row.attempts < MAX_PROCESSING_ATTEMPTS

claim_next_file(w, f) ==
  /\ worker[w] = Free
  /\ Claimable(file[f])
  /\ file' = [file EXCEPT ![f] = Claimed(@)]
  /\ worker' = [worker EXCEPT ![w] =
       [file |-> f, attempts |-> Claimed(file[f]).attempts, results |-> file[f].results]]

\* The worker's transaction ends; it takes the next file.
Done(w) == worker' = [worker EXCEPT ![w] = Free]

Working(w, f) == worker[w].file = f

\* An update of a row that has been deleted fails and is rolled back.
Gone(w, f) ==
  /\ Working(w, f) /\ ~Exists(f)
  /\ Done(w)
  /\ UNCHANGED file

HasRow(w, f) == Working(w, f) /\ Exists(f)

Completed(f) == [file[f] EXCEPT !.status = "completed", !.results = TRUE]

\* The copy already has the results of an earlier attempt.
CompleteWithResults(w, f) ==
  /\ HasRow(w, f) /\ worker[w].results
  /\ file' = [file EXCEPT ![f] = Completed(f)]
  /\ Done(w)

\* A completed file with the same hash: its results are copied.
CompleteFromTwin(w, f) ==
  /\ HasRow(w, f) /\ ~worker[w].results
  /\ \E g \in Files \ {f} :
       Content[g] = Content[f] /\ file[g].status = "completed" /\ file[g].results
  /\ file' = [file EXCEPT ![f] = Completed(f)]
  /\ Done(w)

Analyse(w, f) ==
  /\ HasRow(w, f) /\ ~worker[w].results
  /\ file' = [file EXCEPT ![f] = Completed(f)]
  /\ Done(w)

\* A retry is decided by the attempts of the copy.
Retried(w) == worker[w].attempts < MAX_PROCESSING_ATTEMPTS

\* _handle_ingestion_failure: a temporary error is retried after a backoff.
Fail(w, f, retryable) ==
  /\ HasRow(w, f) /\ ~worker[w].results
  /\ file' = [file EXCEPT ![f] =
       IF retryable /\ Retried(w)
       THEN [@ EXCEPT !.status = "queued", !.due = FALSE]
       ELSE [@ EXCEPT !.status = "failed"]]
  /\ Done(w)

\* The process ends, or the database refuses the commit.
Stop(w) ==
  /\ worker[w] # Free
  /\ Done(w)
  /\ UNCHANGED file

-----------------------------------------------------------------------------
(* The reaper and the clock *)

Expired(row) == row.status = "processing" /\ row.due
Exhausted(row) == row.attempts >= MAX_PROCESSING_ATTEMPTS

\* Broken variant: exhausted files in the queue are left where they are.
ReapedLeases(row) ==
  IF Expired(row)
  THEN [row EXCEPT !.status = IF Exhausted(row) THEN "failed" ELSE "queued"]
  ELSE row

\* requeue_stale_processing_files, then fail_exhausted_files.
Reaped(row) ==
  IF Expired(row) \/ (row.status = "queued" /\ Exhausted(row))
  THEN [row EXCEPT !.status = IF Exhausted(row) THEN "failed" ELSE "queued"]
  ELSE row

Reap(w) ==
  /\ worker[w] = Free
  /\ file' = [f \in Files |-> Reaped(file[f])]
  /\ file' # file
  /\ UNCHANGED worker

Elapse(f) ==
  /\ file[f].status \in {"queued", "processing"}
  /\ ~file[f].due
  /\ file' = [file EXCEPT ![f].due = TRUE]
  /\ UNCHANGED worker

-----------------------------------------------------------------------------
\* Steps that end the processing of a file and replace what it gave the panel.
Outputs(w, f) == CompleteFromTwin(w, f) \/ Analyse(w, f)

\* Steps of the worker that leave the panel alone.
Quiet(w, f) ==
  \/ claim_next_file(w, f) \/ Gone(w, f) \/ CompleteWithResults(w, f)
  \/ \E retryable \in BOOLEAN : Fail(w, f, retryable)

IngestionNext ==
  \/ \E f \in Files :
       delete_file(f) \/ Elapse(f) \/ \E ai \in BOOLEAN : upload_file(f, ai)
  \/ \E w \in Workers :
       Stop(w) \/ Reap(w) \/ \E f \in Files : Outputs(w, f) \/ Quiet(w, f)

IngestionSpec == IngestionInit /\ [][IngestionNext]_ingestionVars

-----------------------------------------------------------------------------
(* Properties *)

Unsettled(row) == row.status \in {"queued", "processing"}

\* A file is completed after an analysis only with results: its own, those of an
\* earlier attempt, or those of a file with the same content.
CompletedHasResults ==
  \A f \in Files :
    file[f].status = "completed" /\ file[f].attempts > 0 => file[f].results

\* A file in process has a claim that is counted, and no worker holds a claim
\* that is not: the attempts bound how often a file that stops its worker is tried.
ClaimsAreCounted ==
  /\ \A f \in Files : file[f].status = "processing" => file[f].attempts > 0
  /\ \A w \in Workers : worker[w] # Free /\ Exists(worker[w].file) =>
       worker[w].attempts \in 1..file[worker[w].file].attempts

\* The outcome of a completed file is undone only if the file was claimed more than
\* once: a second claim needs a lease that expired or a retry, and only then does
\* another worker, or the first one's late error, overwrite what was completed.
UndoneOnlyAfterRetry ==
  [][\A f \in Files : file[f].status = "completed" /\ file'[f].status # "completed" =>
       file'[f].status = "deleted" \/ file[f].attempts > 1]_ingestionVars

\* The analysis of every uploaded file comes to an end, however often workers are
\* stopped, lose their lease or fail.
FileSettles == \A f \in Files : Unsettled(file[f]) ~> ~Unsettled(file[f])
=============================================================================
