------------------------- MODULE ImportRunLifecycle -------------------------
(***************************************************************************)
(* What the import pipeline promises about one import run, whatever the    *)
(* worker, the reaper and the API do behind it: the status column moves    *)
(* along one graph, each claim spends one of MaxAttempts attempts, and a   *)
(* completed run never moves again.  ImportRunQueue implements it.         *)
(***************************************************************************)
EXTENDS Naturals

CONSTANTS
  Runs,           \* import runs
  RetryableRuns,  \* the runs a user may put back in the queue (voice)
  MaxAttempts     \* MAX_PROCESSING_ATTEMPTS

VARIABLES
  status,         \* status[r]: ImportRun.status
  attempts        \* attempts[r]: ImportRun.processing_attempts

vars == <<status, attempts>>

\* New runs, and runs that have come to their end.
Init ==
  /\ status \in [Runs -> {"uploaded", "completed"}]
  /\ attempts = [r \in Runs |-> IF status[r] = "uploaded" THEN 0 ELSE 1]

Move(r, from, to) ==
  /\ status[r] = from
  /\ status' = [status EXCEPT ![r] = to]

\* A worker takes the run: the only move that spends an attempt.
Claim(r) ==
  /\ attempts[r] < MaxAttempts
  /\ Move(r, "uploaded", "processing")
  /\ attempts' = [attempts EXCEPT ![r] = @ + 1]

\* The attempt did not end well but others are left.
Release(r) ==
  /\ attempts[r] < MaxAttempts
  /\ Move(r, "processing", "uploaded")
  /\ UNCHANGED attempts

\* The attempt ends: drafts to review, nothing found, or a failure.
Stage(r) == Move(r, "processing", "review_ready") /\ UNCHANGED attempts

FindNothing(r) ==
  /\ r \notin RetryableRuns
  /\ Move(r, "processing", "no_data")
  /\ UNCHANGED attempts

Fail(r) == Move(r, "processing", "failed") /\ UNCHANGED attempts

\* The user puts a failed voice run back in the queue.
Retry(r) ==
  /\ r \in RetryableRuns
  /\ attempts[r] < MaxAttempts
  /\ Move(r, "failed", "uploaded")
  /\ UNCHANGED attempts

\* The user finalizes the review.
Complete(r) == Move(r, "review_ready", "completed") /\ UNCHANGED attempts

Next ==
  \E r \in Runs :
    \/ Claim(r)
    \/ Release(r)
    \/ Stage(r)
    \/ FindNothing(r)
    \/ Fail(r)
    \/ Retry(r)
    \/ Complete(r)

Spec == Init /\ [][Next]_vars

=============================================================================
