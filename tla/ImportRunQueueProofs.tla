------------------------ MODULE ImportRunQueueProofs ------------------------
(***************************************************************************)
(* Theorems about ImportRunQueue, for any sets of runs and keys and any    *)
(* attempt limit.                                                          *)
(***************************************************************************)
EXTENDS ImportRunQueue, TLAPS

LEMMA VoiceRunsAreRuns == VoiceRuns \subseteq Runs /\ FileRuns \subseteq Runs
BY DEF Runs, VoiceRuns

LEMMA SetRunType ==
  ASSUME TypeOK, NEW r, NEW row, SetRun(r, row), r \in Runs => row \in RunRow
  PROVE run' \in [Runs -> RunRow]
BY DEF TypeOK, SetRun

LEMMA SetVoiceType ==
  ASSUME TypeOK, NEW r, NEW row, SetVoice(r, row), r \in VoiceRuns => row \in VoiceRow
  PROVE voice' \in [VoiceRuns -> VoiceRow]
BY DEF TypeOK, SetVoice

LEMMA RunWithType ==
  ASSUME TypeOK, NEW r \in Runs, NEW s \in RunStatus PROVE RunWith(r, s) \in RunRow
BY DEF TypeOK, RunWith, RunRow

LEMMA VoiceWithType ==
  ASSUME TypeOK, NEW r, NEW s \in VoiceStatus
  PROVE r \in VoiceRuns => VoiceWith(r, s) \in VoiceRow
BY DEF TypeOK, VoiceWith, VoiceRow

LEMMA BusyRun ==
  ASSUME TypeOK, NEW w \in Workers, worker[w].pc # "idle"
  PROVE worker[w].run \in Runs /\ run[worker[w].run] \in RunRow
BY DEF TypeOK, WorkerState, Idle

LEMMA AnswerType ==
  ASSUME TypeOK, NEW c \in Clients, request[c].pc = "probed",
         NEW reply \in Replies, Answer(c, reply)
  PROVE request' \in [Clients -> Request]
<1>1. request[c].run \in VoiceRuns /\ request[c].key \in Keys
  BY DEF TypeOK, Request, NoRequest
<1>2. NoVoiceRow \in VoiceRow
  BY MaxAttemptsAssumption DEF NoVoiceRow, VoiceRow, VoiceStatus
<1> QED
  BY <1>1, <1>2 DEF TypeOK, Answer, Request

LEMMA InitTypeOK == Init => TypeOK
<1> SUFFICES ASSUME Init PROVE TypeOK
  OBVIOUS
<1>1. NewRun \in RunRow /\ FinishedRun \in RunRow
  <2>1. 0 \in 0..MaxAttempts /\ 1 \in 0..MaxAttempts
    BY MaxAttemptsAssumption
  <2> QED
    BY <2>1 DEF NewRun, FinishedRun, RunRow, RunStatus, FileSteps, Errors
<1>2. run \in [Runs -> RunRow]
  BY <1>1 DEF Init
<1>3. voice \in [VoiceRuns -> VoiceRow]
  BY MaxAttemptsAssumption DEF Init, VoiceRow, VoiceStatus, Stages
<1>4. items \in [Runs -> ItemsState]
  BY DEF Init, ItemsState
<1>5. worker \in [Workers -> WorkerState] /\ posting \subseteq UploadedInterviews
  BY DEF Init, WorkerState, Idle
<1>6. request \in [Clients -> Request]
  BY DEF Init, Request
<1>7. keyHash \in [VoiceRuns -> [Keys -> Stages \union {"unused"}]]
  BY DEF Init
<1> QED
  BY <1>2, <1>3, <1>4, <1>5, <1>6, <1>7 DEF TypeOK

LEMMA NextTypeOK == ASSUME TypeOK, [Next]_vars PROVE TypeOK'
<1>2. ASSUME NEW w \in Workers, NEW r \in Runs, ClaimNextRun(w, r) PROVE TypeOK'
  <2>1. run' \in [Runs -> RunRow]
    BY <1>2, MaxAttemptsAssumption DEF TypeOK, SetRun, ClaimNextRun, Claimable, FileSteps, RunRow, RunStatus, Errors
  <2>2. voice' \in [VoiceRuns -> VoiceRow]
    BY <1>2 DEF TypeOK, SetVoice, ClaimNextRun, VoiceWith, VoiceRow, VoiceStatus, Stages
  <2>3. worker' \in [Workers -> WorkerState]
    BY <1>2 DEF TypeOK, ClaimNextRun, WorkerState, BusySteps
  <2> QED
    BY <1>2, <2>1, <2>2, <2>3 DEF TypeOK, ClaimNextRun, apiVars, queueVars
<1>3. ASSUME NEW w \in Workers, PersistProgressCheckpoint(w) PROVE TypeOK'
  <2>1. run' \in [Runs -> RunRow]
    BY <1>3, VoiceRunsAreRuns DEF TypeOK, SetRun, PersistProgressCheckpoint, StepAfter, RunRow, FileSteps
  <2>2. worker' \in [Workers -> WorkerState]
    BY <1>3 DEF TypeOK, PersistProgressCheckpoint, StepAfter, GoTo, FileSteps, Idle, WorkerState, BusySteps
  <2> QED
    BY <1>3, <2>1, <2>2 DEF TypeOK, PersistProgressCheckpoint, apiVars, queueVars
<1>4. ASSUME NEW w \in Workers, FinishFileRun(w) PROVE TypeOK'
  <2>1. run' \in [Runs -> RunRow]
    <3>1. worker[w].run \in Runs /\ run[worker[w].run] \in RunRow
      BY <1>4, BusyRun DEF FinishFileRun
    <3> QED
      BY <1>4, <3>1, SetRunType DEF FinishFileRun, RunRow, RunStatus
  <2>2. items' \in [Runs -> ItemsState]
    BY <1>4 DEF TypeOK, FinishFileRun, ItemsState
  <2>3. worker' \in [Workers -> WorkerState]
    BY <1>4 DEF TypeOK, FinishFileRun, Release, WorkerState
  <2> QED
    BY <1>4, <2>1, <2>2, <2>3 DEF TypeOK, FinishFileRun, apiVars, queueVars
<1>5. ASSUME NEW w \in Workers, BeginVoiceRun(w) PROVE TypeOK'
  <2>1. worker' \in [Workers -> WorkerState]
    BY <1>5 DEF TypeOK, BeginVoiceRun, GoTo, VoiceTxnSteps, Idle, WorkerState, BusySteps
  <2> QED
    BY <1>5, <2>1 DEF TypeOK, BeginVoiceRun, apiVars, queueVars
<1>6. ASSUME NEW w \in Workers, StoreTranscript(w) PROVE TypeOK'
  <2>1. worker' \in [Workers -> WorkerState]
    BY <1>6 DEF TypeOK, StoreTranscript, GoTo, VoiceTxnSteps, Idle, WorkerState, BusySteps
  <2> QED
    BY <1>6, <2>1 DEF TypeOK, StoreTranscript, apiVars, queueVars
<1>7. ASSUME NEW w \in Workers, FinishVoiceRun(w) PROVE TypeOK'
  <2>1. run' \in [Runs -> RunRow]
    <3>1. worker[w].run \in Runs /\ run[worker[w].run] \in RunRow
      BY <1>7, BusyRun DEF FinishVoiceRun
    <3> QED
      BY <1>7, <3>1, SetRunType DEF FinishVoiceRun, RunRow, RunStatus
  <2>2. voice' \in [VoiceRuns -> VoiceRow]
    BY <1>7, SetVoiceType, VoiceWithType DEF FinishVoiceRun, VoiceStatus
  <2>3. items' \in [Runs -> ItemsState]
    BY <1>7 DEF TypeOK, FinishVoiceRun, ItemsState
  <2>4. worker' \in [Workers -> WorkerState]
    BY <1>7 DEF TypeOK, FinishVoiceRun, Release, WorkerState
  <2> QED
    BY <1>7, <2>1, <2>2, <2>3, <2>4 DEF TypeOK, FinishVoiceRun, apiVars, queueVars
<1>8. ASSUME NEW w \in Workers, FailStep(w) PROVE TypeOK'
  <2>1. worker' \in [Workers -> WorkerState]
    BY <1>8 DEF TypeOK, FailStep, GoTo, Idle, WorkerState, BusySteps
  <2> QED
    BY <1>8, <2>1 DEF TypeOK, FailStep, apiVars, queueVars
<1>9. ASSUME NEW w \in Workers, HandleProcessingFailure(w) PROVE TypeOK'
  <2>1. worker[w].run \in Runs /\ run[worker[w].run].attempts \in 0..MaxAttempts
    BY <1>9 DEF TypeOK, HandleProcessingFailure, WorkerState, Idle, RunRow
  <2>2. run' \in [Runs -> RunRow]
    <3>1. run[worker[w].run] \in RunRow
      BY <2>1 DEF TypeOK
    <3> QED
      BY <1>9, <3>1, SetRunType DEF HandleProcessingFailure, RunRow, RunStatus, Errors
  <2>3. voice' \in [VoiceRuns -> VoiceRow]
    BY <1>9, <2>1 DEF TypeOK, SetVoice, HandleProcessingFailure, VoiceRow, VoiceStatus
  <2>4. worker' \in [Workers -> WorkerState]
    BY <1>9 DEF TypeOK, HandleProcessingFailure, Release, WorkerState
  <2> QED
    BY <1>9, <2>1, <2>2, <2>3, <2>4 DEF TypeOK, HandleProcessingFailure, apiVars, queueVars
<1>10. ASSUME NEW w \in Workers, Crash(w) PROVE TypeOK'
  <2>1. worker' \in [Workers -> WorkerState]
    BY <1>10 DEF TypeOK, Crash, Release, WorkerState
  <2> QED
    BY <1>10, <2>1 DEF TypeOK, Crash, apiVars, queueVars
<1>11. ASSUME NEW w \in Workers, NEW r \in Runs, RequeueStaleRun(w, r) PROVE TypeOK'
  <2>1. run' \in [Runs -> RunRow]
    <3>1. run[r] \in RunRow
      BY DEF TypeOK
    <3>2. [run[r] EXCEPT !.status = "uploaded", !.step = "none",
                        !.due = TRUE, !.error = "lease_expired_requeued"] \in RunRow
      BY <3>1 DEF RunRow, RunStatus, Errors
    <3> QED
      BY <1>11, <3>2, SetRunType DEF RequeueStaleRun
  <2>2. voice' \in [VoiceRuns -> VoiceRow]
    BY <1>11 DEF TypeOK, SetVoice, RequeueStaleRun, VoiceWith, VoiceRow, VoiceStatus, Stages
  <2> QED
    BY <1>11, <2>1, <2>2 DEF TypeOK, RequeueStaleRun, apiVars, queueVars
<1>12. ASSUME NEW w \in Workers, NEW r \in Runs, FailExhaustedRun(w, r) PROVE TypeOK'
  <2>1. run' \in [Runs -> RunRow]
    <3>1. run[r] \in RunRow
      BY DEF TypeOK
    <3>2. [run[r] EXCEPT !.status = "failed", !.step = "none",
                        !.error = "max_attempts_reached"] \in RunRow
      BY <3>1 DEF RunRow, RunStatus, Errors
    <3> QED
      BY <1>12, <3>2, SetRunType DEF FailExhaustedRun
  <2>2. voice' \in [VoiceRuns -> VoiceRow]
    BY <1>12 DEF TypeOK, SetVoice, FailExhaustedRun, VoiceWith, VoiceRow, VoiceStatus, Stages
  <2> QED
    BY <1>12, <2>1, <2>2 DEF TypeOK, FailExhaustedRun, apiVars, queueVars
<1>13. ASSUME NEW r \in Runs, TimePasses(r) PROVE TypeOK'
  <2>1. run' \in [Runs -> RunRow]
    BY <1>13 DEF TypeOK, SetRun, TimePasses, RunRow
  <2> QED
    BY <1>13, <2>1 DEF TypeOK, TimePasses, apiVars, queueVars
<1>14. ASSUME NEW r \in Runs, UpdateItemDecision(r) PROVE TypeOK'
  <2>1. items' \in [Runs -> ItemsState]
    BY <1>14 DEF TypeOK, UpdateItemDecision, ItemsState
  <2> QED
    BY <1>14, <2>1 DEF TypeOK, UpdateItemDecision, apiVars, queueVars
<1>15. ASSUME NEW r \in Runs, FinalizeFileRun(r) PROVE TypeOK'
  <2>1. run' \in [Runs -> RunRow]
    BY <1>15, SetRunType, RunWithType DEF FinalizeFileRun, RunStatus
  <2>2. items' \in [Runs -> ItemsState]
    BY <1>15 DEF TypeOK, FinalizeFileRun, ItemsState
  <2> QED
    BY <1>15, <2>1, <2>2 DEF TypeOK, FinalizeFileRun, apiVars, queueVars
<1>16. ASSUME NEW r \in Runs, FinalizeVoiceRun(r) PROVE TypeOK'
  <2>1. run' \in [Runs -> RunRow]
    BY <1>16, SetRunType, RunWithType DEF FinalizeVoiceRun, RunStatusOfVoice, RunStatus
  <2>2. voice' \in [VoiceRuns -> VoiceRow]
    BY <1>16, SetVoiceType, VoiceWithType DEF FinalizeVoiceRun, VoiceStatus
  <2>3. items' \in [Runs -> ItemsState]
    BY <1>16 DEF TypeOK, FinalizeVoiceRun, ItemsState
  <2> QED
    BY <1>16, <2>1, <2>2, <2>3 DEF TypeOK, FinalizeVoiceRun, apiVars, queueVars
<1>17. ASSUME NEW r \in Runs, DecideDiscoveryProjectDraft(r) PROVE TypeOK'
  <2>1. run' \in [Runs -> RunRow]
    BY <1>17, SetRunType, RunWithType DEF DecideDiscoveryProjectDraft, RunStatusOfVoice, RunStatus
  <2>2. voice' \in [VoiceRuns -> VoiceRow]
    BY <1>17, SetVoiceType, VoiceWithType DEF DecideDiscoveryProjectDraft, VoiceStatus
  <2>3. items' \in [Runs -> ItemsState]
    BY <1>17 DEF TypeOK, DecideDiscoveryProjectDraft, ItemsState
  <2> QED
    BY <1>17, <2>1, <2>2, <2>3 DEF TypeOK, DecideDiscoveryProjectDraft, apiVars, queueVars
<1>18. ASSUME NEW r \in UploadedInterviews, QueuePostedInterview(r) PROVE TypeOK'
  <2>1. voice' \in [VoiceRuns -> VoiceRow]
    BY <1>18, SetVoiceType, VoiceWithType DEF TypeOK, QueuePostedInterview, VoiceStatus
  <2> QED
    BY <1>18, <2>1 DEF TypeOK, QueuePostedInterview, apiVars, queueVars
<1>19. ASSUME NEW c \in Clients, NEW r \in VoiceRuns, NEW k \in Keys,
              ProbeInterview(c, r, k) PROVE TypeOK'
  <2>1. request' \in [Clients -> Request]
    BY <1>19 DEF TypeOK, ProbeInterview, Request, Replies
  <2> QED
    BY <1>19, <2>1 DEF TypeOK, ProbeInterview, apiVars, queueVars
<1>20. ASSUME NEW c \in Clients, ReplayRetry(c) PROVE TypeOK'
  <2>1. request' \in [Clients -> Request]
    BY <1>20, AnswerType DEF ReplayRetry, Replies
  <2> QED
    BY <1>20, <2>1 DEF TypeOK, ReplayRetry, apiVars, queueVars
<1>21. ASSUME NEW c \in Clients, RetryVoiceInterview(c) PROVE TypeOK'
  <2>1. /\ request[c].run \in VoiceRuns /\ request[c].key \in Keys
        /\ request[c].seen \in VoiceRow
    BY <1>21 DEF TypeOK, RetryVoiceInterview, Request, NoRequest
  <2>2. VoiceWith(request[c].run, "queued") \in VoiceRow
    BY <2>1, VoiceWithType DEF VoiceStatus
  <2>3. CASE Retryable(request[c].seen)
    <3>1. request[c].run \in Runs /\ run[request[c].run] \in RunRow
      BY <2>1, VoiceRunsAreRuns DEF TypeOK
    <3>2. run' \in [Runs -> RunRow]
      BY <1>21, <2>3, <3>1, SetRunType DEF RetryVoiceInterview, RunRow, RunStatus, Errors
    <3>3. request[c].seen.attempts + 1 \in 0..MaxAttempts /\ request[c].seen.stage \in Stages
      BY <2>1, <2>3, MaxAttemptsAssumption DEF Retryable, VoiceRow
    <3>4. voice' \in [VoiceRuns -> VoiceRow]
      BY <1>21, <2>2, <2>3, <3>3, SetVoiceType DEF RetryVoiceInterview, VoiceRow
    <3>5. keyHash' \in [VoiceRuns -> [Keys -> Stages \union {"unused"}]]
      <4>1. keyHash' = [keyHash EXCEPT ![request[c].run] =
                         [keyHash[request[c].run] EXCEPT ![request[c].key] =
                           request[c].seen.stage]]
        BY <1>21, <2>3 DEF RetryVoiceInterview
      <4> HIDE DEF Stages
      <4> QED
        BY <2>1, <3>3, <4>1 DEF TypeOK
    <3>6. request' \in [Clients -> Request]
      BY <1>21, <2>3, AnswerType DEF RetryVoiceInterview, Replies
    <3> QED
      BY <1>21, <3>2, <3>4, <3>5, <3>6 DEF TypeOK, RetryVoiceInterview
  <2>4. CASE ~Retryable(request[c].seen)
    <3>1. request' \in [Clients -> Request]
      BY <1>21, <2>4, AnswerType DEF RetryVoiceInterview, Replies
    <3> QED
      BY <1>21, <2>4, <3>1 DEF TypeOK, RetryVoiceInterview
  <2> QED
    BY <2>3, <2>4
<1>22. ASSUME NEW c \in Clients, AbandonRequest(c) PROVE TypeOK'
  <2>1. request' \in [Clients -> Request]
    BY <1>22 DEF TypeOK, AbandonRequest, Request
  <2> QED
    BY <1>22, <2>1 DEF TypeOK, AbandonRequest, apiVars, queueVars
<1>23. ASSUME UNCHANGED vars PROVE TypeOK'
  BY <1>23 DEF TypeOK, vars, apiVars, queueVars
<1> QED
  BY <1>2, <1>3, <1>4, <1>5, <1>6, <1>7, <1>8, <1>9, <1>10, <1>11, <1>12, <1>13, <1>14, <1>15, <1>16, <1>17, <1>18, <1>19, <1>20, <1>21, <1>22, <1>23
     DEF Next, ProcessStep, LoopStep, UserStep, RetryStep

\* The rows, process states and requests always have the shape TypeOK gives;
\* in particular no attempt counter passes MaxAttempts.
THEOREM TypeCorrect == Spec => []TypeOK
BY InitTypeOK, NextTypeOK, PTL DEF Spec


-----------------------------------------------------------------------------
(* One worker process and one retry call at a time, as deployed *)

SoleWorker == \A v, w \in Workers : v = w
SoleClient == \A c, d \in Clients : c = d

\* What holds of one run's rows between any two steps.
RunInv(r) ==
  /\ run[r].status = "uploaded" => run[r].attempts < MaxAttempts
  /\ run[r].status = "processing" => run[r].error = "none"
  /\ run[r].status = "failed" => run[r].error # "none"
  /\ run[r].status \in {"review_ready", "completed", "no_data"} => run[r].error = "none"
  /\ run[r].status # "processing" => run[r].step = "none"
  /\ items[r] # "none" => run[r].status \in {"review_ready", "completed"}
  /\ r \in VoiceRuns =>
       /\ run[r].status = "processing" => voice[r].stage = "none"
       /\ voice[r].status = "failed" => run[r].status = "failed"
       /\ Retryable(voice[r]) => voice[r].attempts = run[r].attempts

BusyOnProcessing ==
  \A w \in Workers : worker[w] # Idle => run[worker[w].run].status = "processing"

\* What a retry call read in its probe is still so when it writes.
FreshProbe ==
  \A c \in Clients :
    request[c].pc = "probed" /\ Retryable(request[c].seen) =>
      /\ run[request[c].run].status = "failed"
      /\ run[request[c].run].attempts = request[c].seen.attempts

IInv ==
  /\ TypeOK
  /\ \A r \in Runs : RunInv(r)
  /\ BusyOnProcessing
  /\ FreshProbe

Untouched(r) ==
  /\ run'[r] = run[r]
  /\ items'[r] = items[r]
  /\ r \in VoiceRuns => voice'[r] = voice[r]

LEMMA UntouchedRun == ASSUME NEW r, RunInv(r), Untouched(r) PROVE RunInv(r)'
BY DEF RunInv, Untouched, Retryable

\* The probe stays fresh as long as failed runs stay as they are.
LEMMA ProbeStaysFresh ==
  ASSUME IInv, UNCHANGED request,
         \A r \in VoiceRuns : run[r].status = "failed" => run'[r] = run[r]
  PROVE FreshProbe'
<1>1. \A c \in Clients : request[c].pc = "probed" => request[c].run \in VoiceRuns
  BY DEF IInv, TypeOK, Request, NoRequest
<1> QED
  BY <1>1 DEF IInv, FreshProbe, Retryable

LEMMA NextIInv ==
  ASSUME IInv, SoleWorker, SoleClient, [Next]_vars PROVE IInv'
<1>1. TypeOK /\ TypeOK'
  BY NextTypeOK DEF IInv
<1>2. ASSUME NEW w \in Workers, NEW r \in Runs, ClaimNextRun(w, r) PROVE IInv'
  <2>0. r \in Runs /\ RunInv(r)
    BY <1>1, <1>2, VoiceRunsAreRuns DEF IInv, VoiceRuns
  <2>1. \A x \in Runs \ {r} : Untouched(x)
    BY <1>1, <1>2, <2>0 DEF TypeOK, Untouched, ClaimNextRun, Claimable, SetRun, SetVoice
  <2>2. RunInv(r)'
    BY <1>1, <1>2, <2>0, VoiceRunsAreRuns DEF TypeOK, RunInv, ClaimNextRun, Claimable, VoiceWith, Retryable, SetRun, SetVoice
  <2>3. BusyOnProcessing'
    BY <1>1, <1>2, <2>0, <2>1 DEF TypeOK, IInv, BusyOnProcessing, SoleWorker, Untouched, ClaimNextRun, SetRun
  <2>4. run[r].status # "failed" /\ UNCHANGED request
    BY <1>1, <1>2, <2>0 DEF ClaimNextRun, Claimable, apiVars
  <2>5. FreshProbe'
    BY <2>0, <2>1, <2>4, VoiceRunsAreRuns, ProbeStaysFresh DEF Untouched
  <2> QED
    BY <1>1, <2>0, <2>1, <2>2, <2>3, <2>5, UntouchedRun DEF IInv
<1>3. ASSUME NEW w \in Workers, PersistProgressCheckpoint(w) PROVE IInv'
  <2>0. PICK r \in Runs : /\ r = worker[w].run /\ worker[w] # Idle
                         /\ run[r].status = "processing" /\ RunInv(r)
    BY <1>1, <1>3, BusyRun DEF IInv, BusyOnProcessing, PersistProgressCheckpoint, Idle, FileSteps
  <2>1. \A x \in Runs \ {r} : Untouched(x)
    BY <1>1, <1>3, <2>0 DEF TypeOK, Untouched, PersistProgressCheckpoint, VoiceRuns, SetRun, SetVoice
  <2>2. RunInv(r)'
    BY <1>1, <1>3, <2>0, VoiceRunsAreRuns DEF TypeOK, RunInv, PersistProgressCheckpoint, VoiceRuns, Retryable, SetRun, SetVoice
  <2>3. BusyOnProcessing'
    BY <1>1, <1>3, <2>0, <2>1 DEF TypeOK, IInv, BusyOnProcessing, SoleWorker, Untouched, PersistProgressCheckpoint, GoTo, Idle, SetRun
  <2>4. run[r].status # "failed" /\ UNCHANGED request
    BY <1>1, <1>3, <2>0 DEF PersistProgressCheckpoint, VoiceRuns, apiVars
  <2>5. FreshProbe'
    BY <2>0, <2>1, <2>4, VoiceRunsAreRuns, ProbeStaysFresh DEF Untouched
  <2> QED
    BY <1>1, <2>0, <2>1, <2>2, <2>3, <2>5, UntouchedRun DEF IInv
<1>4. ASSUME NEW w \in Workers, FinishFileRun(w) PROVE IInv'
  <2>0. PICK r \in Runs : /\ r = worker[w].run /\ worker[w] # Idle
                         /\ run[r].status = "processing" /\ RunInv(r)
    BY <1>1, <1>4, BusyRun DEF IInv, BusyOnProcessing, FinishFileRun, Idle, FileSteps
  <2>1. \A x \in Runs \ {r} : Untouched(x)
    BY <1>1, <1>4, <2>0 DEF TypeOK, Untouched, FinishFileRun, SetRun, SetVoice
  <2>2. RunInv(r)'
    BY <1>1, <1>4, <2>0, VoiceRunsAreRuns DEF TypeOK, RunInv, FinishFileRun, VoiceRuns, Retryable, SetRun, SetVoice
  <2>3. BusyOnProcessing'
    BY <1>1, <1>4, <2>0, <2>1 DEF TypeOK, IInv, BusyOnProcessing, SoleWorker, Untouched, FinishFileRun, Release, SetRun
  <2>4. run[r].status # "failed" /\ UNCHANGED request
    BY <1>1, <1>4, <2>0 DEF FinishFileRun, apiVars
  <2>5. FreshProbe'
    BY <2>0, <2>1, <2>4, VoiceRunsAreRuns, ProbeStaysFresh DEF Untouched
  <2> QED
    BY <1>1, <2>0, <2>1, <2>2, <2>3, <2>5, UntouchedRun DEF IInv
<1>5. ASSUME NEW w \in Workers, BeginVoiceRun(w) PROVE IInv'
  <2>1. \A r \in Runs : Untouched(r)
    BY <1>5 DEF Untouched, BeginVoiceRun, apiVars, queueVars
  <2>2. BusyOnProcessing'
    BY <1>1, <1>5 DEF TypeOK, IInv, BusyOnProcessing, BeginVoiceRun, GoTo, Idle, queueVars
  <2>3. FreshProbe'
    BY <1>1, <1>5, ProbeStaysFresh DEF apiVars, BeginVoiceRun
  <2> QED
    BY <1>1, <2>1, <2>2, <2>3, UntouchedRun DEF IInv
<1>6. ASSUME NEW w \in Workers, StoreTranscript(w) PROVE IInv'
  <2>1. \A r \in Runs : Untouched(r)
    BY <1>6 DEF Untouched, StoreTranscript, apiVars, queueVars
  <2>2. BusyOnProcessing'
    BY <1>1, <1>6 DEF TypeOK, IInv, BusyOnProcessing, StoreTranscript, GoTo, Idle, queueVars
  <2>3. FreshProbe'
    BY <1>1, <1>6, ProbeStaysFresh DEF apiVars, StoreTranscript
  <2> QED
    BY <1>1, <2>1, <2>2, <2>3, UntouchedRun DEF IInv
<1>7. ASSUME NEW w \in Workers, FinishVoiceRun(w) PROVE IInv'
  <2>0. PICK r \in Runs : /\ r = worker[w].run /\ worker[w] # Idle
                         /\ run[r].status = "processing" /\ RunInv(r)
    BY <1>1, <1>7, BusyRun DEF IInv, BusyOnProcessing, FinishVoiceRun, Idle, FileSteps
  <2>1. \A x \in Runs \ {r} : Untouched(x)
    BY <1>1, <1>7, <2>0 DEF TypeOK, Untouched, FinishVoiceRun, SetRun, SetVoice
  <2>2. RunInv(r)'
    BY <1>1, <1>7, <2>0, VoiceRunsAreRuns DEF TypeOK, RunInv, FinishVoiceRun, VoiceWith, Retryable, SetRun, SetVoice
  <2>3. BusyOnProcessing'
    BY <1>1, <1>7, <2>0, <2>1 DEF TypeOK, IInv, BusyOnProcessing, SoleWorker, Untouched, FinishVoiceRun, Release, SetRun
  <2>4. run[r].status # "failed" /\ UNCHANGED request
    BY <1>1, <1>7, <2>0 DEF FinishVoiceRun, apiVars
  <2>5. FreshProbe'
    BY <2>0, <2>1, <2>4, VoiceRunsAreRuns, ProbeStaysFresh DEF Untouched
  <2> QED
    BY <1>1, <2>0, <2>1, <2>2, <2>3, <2>5, UntouchedRun DEF IInv
<1>8. ASSUME NEW w \in Workers, FailStep(w) PROVE IInv'
  <2>1. \A r \in Runs : Untouched(r)
    BY <1>8 DEF Untouched, FailStep, apiVars, queueVars
  <2>2. BusyOnProcessing'
    BY <1>1, <1>8 DEF TypeOK, IInv, BusyOnProcessing, FailStep, GoTo, Idle, queueVars
  <2>3. FreshProbe'
    BY <1>1, <1>8, ProbeStaysFresh DEF apiVars, FailStep
  <2> QED
    BY <1>1, <2>1, <2>2, <2>3, UntouchedRun DEF IInv
<1>9. ASSUME NEW w \in Workers, HandleProcessingFailure(w) PROVE IInv'
  <2>0. PICK r \in Runs : /\ r = worker[w].run /\ worker[w] # Idle
                         /\ run[r].status = "processing" /\ RunInv(r)
    BY <1>1, <1>9, BusyRun DEF IInv, BusyOnProcessing, HandleProcessingFailure, Idle, FileSteps
  <2>1. \A x \in Runs \ {r} : Untouched(x)
    BY <1>1, <1>9, <2>0 DEF TypeOK, Untouched, HandleProcessingFailure, SetRun, SetVoice
  <2>2. RunInv(r)'
    BY <1>1, <1>9, <2>0, VoiceRunsAreRuns DEF TypeOK, RunInv, HandleProcessingFailure, CanRetry, Retryable, SetRun, SetVoice
  <2>3. BusyOnProcessing'
    BY <1>1, <1>9, <2>0, <2>1 DEF TypeOK, IInv, BusyOnProcessing, SoleWorker, Untouched, HandleProcessingFailure, Release, SetRun
  <2>4. run[r].status # "failed" /\ UNCHANGED request
    BY <1>1, <1>9, <2>0 DEF HandleProcessingFailure, apiVars
  <2>5. FreshProbe'
    BY <2>0, <2>1, <2>4, VoiceRunsAreRuns, ProbeStaysFresh DEF Untouched
  <2> QED
    BY <1>1, <2>0, <2>1, <2>2, <2>3, <2>5, UntouchedRun DEF IInv
<1>10. ASSUME NEW w \in Workers, Crash(w) PROVE IInv'
  <2>1. \A r \in Runs : Untouched(r)
    BY <1>10 DEF Untouched, Crash, apiVars, queueVars
  <2>2. BusyOnProcessing'
    BY <1>1, <1>10 DEF TypeOK, IInv, BusyOnProcessing, Crash, Release, Idle, queueVars
  <2>3. FreshProbe'
    BY <1>1, <1>10, ProbeStaysFresh DEF apiVars, Crash
  <2> QED
    BY <1>1, <2>1, <2>2, <2>3, UntouchedRun DEF IInv
<1>11. ASSUME NEW w \in Workers, NEW r \in Runs, RequeueStaleRun(w, r) PROVE IInv'
  <2>0. r \in Runs /\ RunInv(r)
    BY <1>1, <1>11, VoiceRunsAreRuns DEF IInv, VoiceRuns
  <2>1. \A x \in Runs \ {r} : Untouched(x)
    BY <1>1, <1>11, <2>0 DEF TypeOK, Untouched, RequeueStaleRun, LeaseExpired, SetRun, SetVoice
  <2>2. RunInv(r)'
    BY <1>1, <1>11, <2>0, VoiceRunsAreRuns DEF TypeOK, RunInv, RequeueStaleRun, LeaseExpired, VoiceWith, Retryable, SetRun, SetVoice
  <2>3. BusyOnProcessing'
    BY <1>1, <1>11, <2>0, <2>1 DEF TypeOK, IInv, BusyOnProcessing, SoleWorker, Untouched, RequeueStaleRun, SetRun
  <2>4. run[r].status # "failed" /\ UNCHANGED request
    BY <1>1, <1>11, <2>0 DEF RequeueStaleRun, LeaseExpired, apiVars
  <2>5. FreshProbe'
    BY <2>0, <2>1, <2>4, VoiceRunsAreRuns, ProbeStaysFresh DEF Untouched
  <2> QED
    BY <1>1, <2>0, <2>1, <2>2, <2>3, <2>5, UntouchedRun DEF IInv
<1>12. ASSUME NEW w \in Workers, NEW r \in Runs, FailExhaustedRun(w, r) PROVE IInv'
  <2>0. r \in Runs /\ RunInv(r)
    BY <1>1, <1>12, VoiceRunsAreRuns DEF IInv, VoiceRuns
  <2>1. \A x \in Runs \ {r} : Untouched(x)
    BY <1>1, <1>12, <2>0 DEF TypeOK, Untouched, FailExhaustedRun, Exhausted, SetRun, SetVoice
  <2>2. RunInv(r)'
    <3>1. run[r].attempts \in 0..MaxAttempts
      BY <1>1, <2>0 DEF TypeOK, RunRow
    <3>2. run[r].status = "processing"
      BY <1>12, <2>0, <3>1, MaxAttemptsAssumption DEF RunInv, FailExhaustedRun, Exhausted
    <3>3. /\ run'[r].status = "failed" /\ run'[r].step = "none"
          /\ run'[r].error = "max_attempts_reached" /\ items'[r] = items[r]
      BY <1>1, <1>12, <2>0 DEF TypeOK, FailExhaustedRun, SetRun, RunRow
    <3>4. r \in VoiceRuns => voice'[r].stage = voice[r].stage
      BY <1>1, <1>12, <2>0 DEF TypeOK, FailExhaustedRun, VoiceWith, SetVoice, VoiceRow
    <3> QED
      BY <2>0, <3>2, <3>3, <3>4 DEF RunInv, Retryable, Stages
  <2>3. BusyOnProcessing'
    BY <1>1, <1>12, <2>0, <2>1 DEF TypeOK, IInv, BusyOnProcessing, SoleWorker, Untouched, FailExhaustedRun, SetRun
  <2>4. run[r].status # "failed" /\ UNCHANGED request
    BY <1>1, <1>12, <2>0 DEF FailExhaustedRun, Exhausted, apiVars
  <2>5. FreshProbe'
    BY <2>0, <2>1, <2>4, VoiceRunsAreRuns, ProbeStaysFresh DEF Untouched
  <2> QED
    BY <1>1, <2>0, <2>1, <2>2, <2>3, <2>5, UntouchedRun DEF IInv
<1>13. ASSUME NEW r \in Runs, TimePasses(r) PROVE IInv'
  <2>0. r \in Runs /\ RunInv(r)
    BY <1>1, <1>13, VoiceRunsAreRuns DEF IInv, VoiceRuns
  <2>1. \A x \in Runs \ {r} : Untouched(x)
    BY <1>1, <1>13, <2>0 DEF TypeOK, Untouched, TimePasses, SetRun, SetVoice
  <2>2. RunInv(r)'
    BY <1>1, <1>13, <2>0, VoiceRunsAreRuns DEF TypeOK, RunInv, TimePasses, RunRow, Retryable, SetRun, SetVoice
  <2>3. BusyOnProcessing'
    BY <1>1, <1>13, <2>0, <2>1 DEF TypeOK, IInv, BusyOnProcessing, SoleWorker, Untouched, TimePasses, SetRun
  <2>4. run[r].status # "failed" /\ UNCHANGED request
    BY <1>1, <1>13, <2>0 DEF TimePasses, apiVars
  <2>5. FreshProbe'
    BY <2>0, <2>1, <2>4, VoiceRunsAreRuns, ProbeStaysFresh DEF Untouched
  <2> QED
    BY <1>1, <2>0, <2>1, <2>2, <2>3, <2>5, UntouchedRun DEF IInv
<1>14. ASSUME NEW r \in Runs, UpdateItemDecision(r) PROVE IInv'
  <2>0. r \in Runs /\ RunInv(r)
    BY <1>1, <1>14, VoiceRunsAreRuns DEF IInv, VoiceRuns
  <2>1. \A x \in Runs \ {r} : Untouched(x)
    BY <1>1, <1>14, <2>0 DEF TypeOK, Untouched, UpdateItemDecision, SetRun, SetVoice
  <2>2. RunInv(r)'
    BY <1>1, <1>14, <2>0, VoiceRunsAreRuns DEF TypeOK, RunInv, UpdateItemDecision, ItemsState, Retryable, SetRun, SetVoice
  <2>3. BusyOnProcessing'
    BY <1>1, <1>14, <2>0, <2>1 DEF TypeOK, IInv, BusyOnProcessing, SoleWorker, Untouched, UpdateItemDecision, SetRun
  <2>4. run[r].status # "failed" /\ UNCHANGED request
    BY <1>1, <1>14, <2>0 DEF UpdateItemDecision, apiVars
  <2>5. FreshProbe'
    BY <2>0, <2>1, <2>4, VoiceRunsAreRuns, ProbeStaysFresh DEF Untouched
  <2> QED
    BY <1>1, <2>0, <2>1, <2>2, <2>3, <2>5, UntouchedRun DEF IInv
<1>15. ASSUME NEW r \in Runs, FinalizeFileRun(r) PROVE IInv'
  <2>0. r \in Runs /\ RunInv(r)
    BY <1>1, <1>15, VoiceRunsAreRuns DEF IInv, VoiceRuns
  <2>1. \A x \in Runs \ {r} : Untouched(x)
    BY <1>1, <1>15, <2>0 DEF TypeOK, Untouched, FinalizeFileRun, SetRun, SetVoice
  <2>2. RunInv(r)'
    BY <1>1, <1>15, <2>0, VoiceRunsAreRuns DEF TypeOK, RunInv, FinalizeFileRun, RunWith, HumanWork, Retryable, SetRun, SetVoice
  <2>3. BusyOnProcessing'
    BY <1>1, <1>15, <2>0, <2>1 DEF TypeOK, IInv, BusyOnProcessing, SoleWorker, Untouched, FinalizeFileRun, RunWith, SetRun
  <2>4. run[r].status # "failed" /\ UNCHANGED request
    BY <1>1, <1>15, <2>0 DEF FinalizeFileRun, apiVars
  <2>5. FreshProbe'
    BY <2>0, <2>1, <2>4, VoiceRunsAreRuns, ProbeStaysFresh DEF Untouched
  <2> QED
    BY <1>1, <2>0, <2>1, <2>2, <2>3, <2>5, UntouchedRun DEF IInv
<1>16. ASSUME NEW r \in Runs, FinalizeVoiceRun(r) PROVE IInv'
  <2>0. r \in VoiceRuns /\ run[r].status = "review_ready" /\ RunInv(r) /\ UNCHANGED worker
    BY <1>1, <1>16 DEF IInv, FinalizeVoiceRun
  <2>1. \A x \in Runs \ {r} : Untouched(x)
    BY <1>1, <1>16, <2>0 DEF TypeOK, Untouched, FinalizeVoiceRun, SetRun, SetVoice
  <2>2. PICK s \in {"partial_finalized", "finalized"} :
          /\ SetVoice(r, VoiceWith(r, s))
          /\ SetRun(r, RunWith(r, RunStatusOfVoice(s)))
    BY <1>16 DEF FinalizeVoiceRun, RunStatusOfVoice
  <2>3. /\ run'[r].status \in {"review_ready", "completed"}
        /\ run'[r].error = run[r].error /\ run'[r].step = run[r].step
        /\ voice'[r].status # "failed"
    BY <1>1, <2>0, <2>2 DEF TypeOK, SetRun, SetVoice, RunWith, VoiceWith, RunStatusOfVoice,
       RunRow, VoiceRow
  <2>4. RunInv(r)'
    BY <2>0, <2>3 DEF RunInv, Retryable
  <2>5. BusyOnProcessing'
    BY <1>1, <2>0, <2>1 DEF TypeOK, IInv, BusyOnProcessing, Untouched, WorkerState, Idle
  <2>6. FreshProbe'
    BY <1>16, <2>0, <2>1, VoiceRunsAreRuns, ProbeStaysFresh DEF Untouched, FinalizeVoiceRun, apiVars
  <2> QED
    BY <1>1, <2>1, <2>4, <2>5, <2>6, UntouchedRun DEF IInv
<1>17. ASSUME NEW r \in Runs, DecideDiscoveryProjectDraft(r) PROVE IInv'
  <2>0. r \in Runs /\ RunInv(r)
    BY <1>1, <1>17, VoiceRunsAreRuns DEF IInv, VoiceRuns
  <2>1. \A x \in Runs \ {r} : Untouched(x)
    BY <1>1, <1>17, <2>0 DEF TypeOK, Untouched, DecideDiscoveryProjectDraft, SetRun, SetVoice
  <2>2. RunInv(r)'
    BY <1>1, <1>17, <2>0, VoiceRunsAreRuns DEF TypeOK, RunInv, DecideDiscoveryProjectDraft, RunWith, VoiceWith, RunStatusOfVoice, HumanWork, Retryable, SetRun, SetVoice
  <2>3. BusyOnProcessing'
    BY <1>1, <1>17, <2>0, <2>1 DEF TypeOK, IInv, BusyOnProcessing, SoleWorker, Untouched, DecideDiscoveryProjectDraft, RunWith, SetRun
  <2>4. run[r].status # "failed" /\ UNCHANGED request
    BY <1>1, <1>17, <2>0 DEF DecideDiscoveryProjectDraft, apiVars
  <2>5. FreshProbe'
    BY <2>0, <2>1, <2>4, VoiceRunsAreRuns, ProbeStaysFresh DEF Untouched
  <2> QED
    BY <1>1, <2>0, <2>1, <2>2, <2>3, <2>5, UntouchedRun DEF IInv
<1>18. ASSUME NEW r \in UploadedInterviews, QueuePostedInterview(r) PROVE IInv'
  <2>0. r \in VoiceRuns /\ r \in Runs /\ RunInv(r)
    BY VoiceRunsAreRuns DEF IInv, VoiceRuns
  <2>1. \A x \in Runs \ {r} : Untouched(x)
    BY <1>1, <1>18, <2>0 DEF TypeOK, Untouched, QueuePostedInterview, SetVoice
  <2>2. /\ \/ voice'[r] = voice[r]
           \/ voice'[r].status = "queued" /\ voice'[r].stage = voice[r].stage
        /\ UNCHANGED <<run, items, worker, request>>
    BY <1>1, <1>18, <2>0 DEF TypeOK, QueuePostedInterview, SetVoice, VoiceWith, VoiceRow
  <2>3. RunInv(r)'
    BY <2>0, <2>2 DEF RunInv, Retryable
  <2>4. BusyOnProcessing' /\ FreshProbe'
    BY <2>2 DEF IInv, BusyOnProcessing, FreshProbe, Retryable
  <2> QED
    BY <1>1, <2>1, <2>3, <2>4, UntouchedRun DEF IInv
<1>19. ASSUME NEW c \in Clients, NEW r \in VoiceRuns, NEW k \in Keys,
                ProbeInterview(c, r, k)
       PROVE IInv'
  <2>1. \A x \in Runs : Untouched(x)
    BY <1>19 DEF Untouched, ProbeInterview, queueVars
  <2>2. BusyOnProcessing'
    BY <1>19 DEF IInv, BusyOnProcessing, ProbeInterview, queueVars
  <2>3. /\ request'[c].run = r /\ request'[c].seen = voice[r]
        /\ \A d \in Clients : d = c
    BY <1>1, <1>19 DEF TypeOK, ProbeInterview, SoleClient
  <2>4. r \in Runs /\ RunInv(r) /\ UNCHANGED run
    BY <1>19, VoiceRunsAreRuns DEF IInv, ProbeInterview, queueVars
  <2>5. FreshProbe'
    BY <2>3, <2>4 DEF FreshProbe, RunInv, Retryable
  <2> QED
    BY <1>1, <2>1, <2>2, <2>5, UntouchedRun DEF IInv
<1>20. ASSUME NEW c \in Clients, ReplayRetry(c) PROVE IInv'
  <2>1. \A r \in Runs : Untouched(r)
    BY <1>20 DEF Untouched, ReplayRetry, apiVars, queueVars
  <2>2. BusyOnProcessing'
    BY <1>1, <1>20 DEF TypeOK, IInv, BusyOnProcessing, ReplayRetry, queueVars
  <2>3. FreshProbe'
    BY <1>1, <1>20 DEF IInv, RunInv, FreshProbe, TypeOK, Request, queueVars, Answer, ReplayRetry
  <2> QED
    BY <1>1, <2>1, <2>2, <2>3, UntouchedRun DEF IInv
<1>21. ASSUME NEW c \in Clients, RetryVoiceInterview(c) PROVE IInv'
  <2> DEFINE q == request[c]
  <2>0. PICK r \in VoiceRuns : r = q.run
    BY <1>1, <1>21 DEF TypeOK, RetryVoiceInterview, Request, NoRequest
  <2>1. r \in Runs /\ RunInv(r) /\ q.seen \in VoiceRow
    BY <1>1, <1>21, <2>0, VoiceRunsAreRuns
    DEF IInv, TypeOK, RetryVoiceInterview, Request, NoRequest
  <2>2. FreshProbe'
    BY <1>1, <1>21 DEF TypeOK, FreshProbe, RetryVoiceInterview, Answer, SoleClient
  <2>3. CASE Retryable(q.seen)
    <3>1. run[r].status = "failed" /\ run[r].attempts < MaxAttempts
      BY <1>21, <2>0, <2>3 DEF IInv, FreshProbe, RetryVoiceInterview, Retryable
    <3>2. \A x \in Runs \ {r} : Untouched(x)
      BY <1>1, <1>21, <2>0, <2>3
      DEF TypeOK, Untouched, RetryVoiceInterview, SetRun, SetVoice
    <3>3. /\ run'[r].status = "uploaded" /\ run'[r].attempts = run[r].attempts
          /\ run'[r].step = run[r].step /\ items'[r] = items[r]
          /\ voice'[r].status = "queued"
      <4>1. /\ run' = [run EXCEPT ![r] = [run[r] EXCEPT !.status = "uploaded",
                                          !.due = TRUE, !.error = "none"]]
            /\ voice' = [voice EXCEPT ![r] = [VoiceWith(r, "queued") EXCEPT
                                                !.attempts = q.seen.attempts + 1]]
            /\ UNCHANGED items
        BY <1>21, <2>0, <2>3 DEF RetryVoiceInterview, SetRun, SetVoice
      <4> QED
        BY <1>1, <2>0, <2>1, <4>1 DEF TypeOK, VoiceWith, RunRow, VoiceRow
    <3>4. RunInv(r)'
      BY <2>1, <3>1, <3>3 DEF RunInv, Retryable
    <3>5. BusyOnProcessing'
      BY <1>1, <1>21, <3>1, <3>2
      DEF TypeOK, IInv, BusyOnProcessing, Untouched, RetryVoiceInterview, WorkerState, Idle
    <3> QED
      BY <1>1, <2>2, <3>2, <3>4, <3>5, UntouchedRun DEF IInv
  <2>4. CASE ~Retryable(q.seen)
    <3>1. \A x \in Runs : Untouched(x)
      BY <1>21, <2>4 DEF Untouched, RetryVoiceInterview
    <3>2. BusyOnProcessing'
      BY <1>21, <2>4 DEF IInv, BusyOnProcessing, RetryVoiceInterview
    <3> QED
      BY <1>1, <2>2, <3>1, <3>2, UntouchedRun DEF IInv
  <2> QED
    BY <2>3, <2>4
<1>22. ASSUME NEW c \in Clients, AbandonRequest(c) PROVE IInv'
  <2>1. \A r \in Runs : Untouched(r)
    BY <1>22 DEF Untouched, AbandonRequest, apiVars, queueVars
  <2>2. BusyOnProcessing'
    BY <1>1, <1>22 DEF TypeOK, IInv, BusyOnProcessing, AbandonRequest, queueVars
  <2>3. FreshProbe'
    BY <1>1, <1>22 DEF IInv, RunInv, FreshProbe, TypeOK, Request, queueVars, NoRequest, AbandonRequest
  <2> QED
    BY <1>1, <2>1, <2>2, <2>3, UntouchedRun DEF IInv
<1>23. ASSUME UNCHANGED vars PROVE IInv'
  <2>1. \A r \in Runs : Untouched(r)
    BY <1>23 DEF vars, Untouched
  <2> QED
    BY <1>1, <1>23, <2>1, UntouchedRun DEF IInv, vars, BusyOnProcessing, FreshProbe, Retryable
<1> QED
  BY <1>2, <1>3, <1>4, <1>5, <1>6, <1>7, <1>8, <1>9, <1>10, <1>11, <1>12, <1>13, <1>14, <1>15, <1>16, <1>17, <1>18, <1>19, <1>20, <1>21, <1>22, <1>23
     DEF Next, ProcessStep, LoopStep, UserStep, RetryStep

LEMMA InitIInv == Init => IInv
<1>1. ASSUME Init, NEW r \in Runs PROVE RunInv(r)
  BY <1>1, MaxAttemptsAssumption DEF Init, NewRun, FinishedRun, RunInv, Retryable
<1>2. Init => BusyOnProcessing /\ FreshProbe
  BY DEF Init, BusyOnProcessing, FreshProbe, NoRequest
<1> QED
  BY <1>1, <1>2, InitTypeOK DEF IInv

\* One worker process and one retry call at a time keep the inductive invariant.
THEOREM QueueInvariant == ASSUME SoleWorker, SoleClient PROVE Spec => []IInv
<1>1. IInv /\ [Next]_vars => IInv'
  BY NextIInv
<1> QED
  BY <1>1, InitIInv, PTL DEF Spec

\* One worker and one caller: no run is ever in the queue with its attempts used
\* up, where claim_next_run would never look at it again.
THEOREM QueuedRunCanBeClaimed ==
  ASSUME SoleWorker, SoleClient PROVE Spec => []QueuedRunHasAttemptLeft
<1>1. IInv => QueuedRunHasAttemptLeft
  BY DEF IInv, RunInv, QueuedRunHasAttemptLeft
<1> QED
  BY <1>1, QueueInvariant, PTL

\* The limit the retry endpoint checks on the interview is the limit of the run.
THEOREM CountsAgree ==
  ASSUME SoleWorker, SoleClient PROVE Spec => []RetryableCountsAgree
<1>1. IInv => RetryableCountsAgree
  BY VoiceRunsAreRuns DEF IInv, RunInv, RetryableCountsAgree
<1> QED
  BY <1>1, QueueInvariant, PTL

\* Every settled run explains itself to the user.
THEOREM SettledExplained ==
  ASSUME SoleWorker, SoleClient PROVE Spec => []SettledRunExplained
<1>1. IInv => SettledRunExplained
  BY DEF IInv, RunInv, SettledRunExplained
<1> QED
  BY <1>1, QueueInvariant, PTL

\* Drafts never survive outside review, and no run is taken from its worker.
THEOREM OwnedAndClean ==
  ASSUME SoleWorker, SoleClient PROVE Spec => [](DraftsOnlyInReview /\ WorkedOnByItsOwner)
<1>1. IInv => DraftsOnlyInReview /\ WorkedOnByItsOwner
  BY DEF IInv, RunInv, BusyOnProcessing, DraftsOnlyInReview, WorkedOnByItsOwner, SoleWorker
<1> QED
  BY <1>1, QueueInvariant, PTL

\* The reviewer's decisions and imports are never replaced by new drafts.
THEOREM ReviewIsKept == ASSUME SoleWorker, SoleClient PROVE Spec => HumanWorkKept
<1> DEFINE Kept == \A r \in Runs : items[r] \in HumanWork => items'[r] \in HumanWork
<1>1. ASSUME IInv, [Next]_vars PROVE [Kept]_vars
  <2>1. SUFFICES ASSUME NEW r \in Runs, items[r] \in HumanWork PROVE items'[r] \in HumanWork
    OBVIOUS
  <2>2. run[r].status # "processing" /\ TypeOK
    BY <1>1, <2>1 DEF IInv, RunInv, HumanWork
  <2>3. ASSUME NEW w \in Workers, worker[w] # Idle PROVE worker[w].run # r
    BY <1>1, <2>2, <2>3 DEF IInv, BusyOnProcessing
  <2>4. ASSUME NEW w \in Workers, FinishFileRun(w) PROVE items'[r] \in HumanWork
    BY <2>1, <2>2, <2>3, <2>4 DEF TypeOK, FinishFileRun, Idle
  <2>5. ASSUME NEW w \in Workers, FinishVoiceRun(w) PROVE items'[r] \in HumanWork
    BY <2>1, <2>2, <2>3, <2>5 DEF TypeOK, FinishVoiceRun, Idle
  <2>6. ASSUME NEW x \in Runs, UserStep(x) PROVE items'[r] \in HumanWork
    BY <2>1, <2>2, <2>6
    DEF TypeOK, UserStep, UpdateItemDecision, FinalizeFileRun, FinalizeVoiceRun,
        DecideDiscoveryProjectDraft, HumanWork
  <2>7. CASE UNCHANGED items
    BY <2>1, <2>7
  <2> QED
    BY <1>1, <2>4, <2>5, <2>6, <2>7
    DEF Next, ProcessStep, LoopStep, RetryStep, ClaimNextRun, PersistProgressCheckpoint,
        BeginVoiceRun, StoreTranscript, FailStep, HandleProcessingFailure, Crash,
        RequeueStaleRun, FailExhaustedRun, TimePasses, QueuePostedInterview,
        ProbeInterview, ReplayRetry, RetryVoiceInterview, AbandonRequest, vars, queueVars
<1> QED
  BY <1>1, QueueInvariant, PTL DEF Spec, HumanWorkKept

-----------------------------------------------------------------------------
(* Any number of workers and callers *)

\* Both rows are written together, or the run's status is left alone.
LEMMA BothRowsWritten ==
  ASSUME TypeOK, DiscoveryInterviewInStep, NEW r \in Runs, NEW row, NEW voiceRow,
         SetRun(r, row), SetVoice(r, voiceRow),
         r \in VoiceRuns => row.status = RunStatusOfVoice(voiceRow.status)
  PROVE DiscoveryInterviewInStep'
BY VoiceRunsAreRuns DEF TypeOK, DiscoveryInterviewInStep, SetRun, SetVoice, VoiceRuns

LEMMA StatusLeftAlone ==
  ASSUME TypeOK, DiscoveryInterviewInStep, NEW r \in Runs, NEW row, SetRun(r, row),
         UNCHANGED voice, r \in DiscoveryInterviews => row.status = run[r].status
  PROVE DiscoveryInterviewInStep'
BY VoiceRunsAreRuns DEF TypeOK, DiscoveryInterviewInStep, SetRun, VoiceRuns

LEMMA RowStatus ==
  ASSUME TypeOK, NEW r \in Runs, NEW s
  PROVE /\ run[r] \in RunRow
        /\ RunWith(r, s).status = s
        /\ r \in VoiceRuns => VoiceWith(r, s).status = s /\ VoiceWith(r, s) = [voice[r] EXCEPT !.status = s]
BY DEF TypeOK, RunWith, VoiceWith, RunRow, VoiceRow

LEMMA NextInStep ==
  ASSUME TypeOK, DiscoveryInterviewInStep, [Next]_vars PROVE DiscoveryInterviewInStep'
<1>1. ASSUME NEW w \in Workers, NEW r \in Runs, ClaimNextRun(w, r) PROVE DiscoveryInterviewInStep'
  <2>1. r \in VoiceRuns =>
          [VoiceWith(r, "transcribing") EXCEPT !.stage = "none"].status = "transcribing"
    BY RowStatus, VoiceWithType DEF VoiceRow, VoiceStatus
  <2> QED
    BY <1>1, <2>1, BothRowsWritten DEF ClaimNextRun, RunStatusOfVoice
<1>2. ASSUME NEW w \in Workers, PersistProgressCheckpoint(w) PROVE DiscoveryInterviewInStep'
  BY <1>2, BusyRun, StatusLeftAlone, RowStatus, RunsAssumption, VoiceRunsAreRuns
  DEF PersistProgressCheckpoint, FileSteps, VoiceRuns, RunRow
<1>3. ASSUME NEW w \in Workers, FinishFileRun(w) PROVE DiscoveryInterviewInStep'
  BY <1>3, BusyRun, StatusLeftAlone, RowStatus, RunsAssumption, VoiceRunsAreRuns
  DEF FinishFileRun, FileSteps, VoiceRuns, RunRow
<1>4. ASSUME NEW w \in Workers, FinishVoiceRun(w) PROVE DiscoveryInterviewInStep'
  <2>1. PICK r \in Runs : r = worker[w].run
    BY <1>4, BusyRun DEF FinishVoiceRun
  <2>2. /\ [run[r] EXCEPT !.status = "review_ready", !.step = "none"].status = "review_ready"
        /\ r \in VoiceRuns => VoiceWith(r, "review_ready").status = "review_ready"
    BY RowStatus DEF RunRow
  <2> QED
    BY <1>4, <2>1, <2>2, BothRowsWritten DEF FinishVoiceRun, RunStatusOfVoice
<1>5. ASSUME NEW w \in Workers, HandleProcessingFailure(w) PROVE DiscoveryInterviewInStep'
  <2>1. PICK r \in Runs : r = worker[w].run
    BY <1>5, BusyRun DEF HandleProcessingFailure
  <2>2. PICK again \in BOOLEAN, stage \in Stages \union {"none"} :
          /\ SetRun(r, [run[r] EXCEPT !.status = IF again THEN "uploaded" ELSE "failed",
                                      !.step = "none",
                                      !.error = "processing_failed",
                                      !.due = ~again /\ @])
          /\ SetVoice(r, [status |-> IF again THEN "queued" ELSE "failed",
                          stage |-> stage, attempts |-> run[r].attempts])
    BY <1>5, <2>1 DEF HandleProcessingFailure, CanRetry
  <2>3. [run[r] EXCEPT !.status = IF again THEN "uploaded" ELSE "failed",
                       !.step = "none",
                       !.error = "processing_failed",
                       !.due = ~again /\ @].status = IF again THEN "uploaded" ELSE "failed"
    BY RowStatus DEF RunRow
  <2> QED
    BY <2>2, <2>3, BothRowsWritten DEF RunStatusOfVoice
<1>6. ASSUME NEW w \in Workers, NEW r \in Runs, RequeueStaleRun(w, r) PROVE DiscoveryInterviewInStep'
  <2>1. [run[r] EXCEPT !.status = "uploaded", !.step = "none",
                       !.due = TRUE, !.error = "lease_expired_requeued"].status = "uploaded"
    BY RowStatus DEF RunRow
  <2>2. r \in VoiceRuns => VoiceWith(r, "queued").status = "queued"
    BY RowStatus
  <2> QED
    BY <1>6, <2>1, <2>2, BothRowsWritten DEF RequeueStaleRun, RunStatusOfVoice
<1>7. ASSUME NEW w \in Workers, NEW r \in Runs, FailExhaustedRun(w, r) PROVE DiscoveryInterviewInStep'
  <2>1. [run[r] EXCEPT !.status = "failed", !.step = "none",
                       !.error = "max_attempts_reached"].status = "failed"
    BY RowStatus DEF RunRow
  <2>2. r \in VoiceRuns => VoiceWith(r, "failed").status = "failed"
    BY RowStatus
  <2> QED
    BY <1>7, <2>1, <2>2, BothRowsWritten DEF FailExhaustedRun, RunStatusOfVoice
<1>8. ASSUME NEW r \in Runs, TimePasses(r) PROVE DiscoveryInterviewInStep'
  BY <1>8, BusyRun, StatusLeftAlone, RowStatus, RunsAssumption, VoiceRunsAreRuns
  DEF TimePasses, FileSteps, VoiceRuns, RunRow
<1>9. ASSUME NEW r \in Runs, FinalizeFileRun(r) PROVE DiscoveryInterviewInStep'
  BY <1>9, BusyRun, StatusLeftAlone, RowStatus, RunsAssumption, VoiceRunsAreRuns
  DEF FinalizeFileRun, FileSteps, VoiceRuns, RunRow
<1>10. ASSUME NEW r \in Runs, FinalizeVoiceRun(r) PROVE DiscoveryInterviewInStep'
  BY <1>10, BothRowsWritten, RowStatus
  DEF FinalizeVoiceRun, RunStatusOfVoice, RunRow, VoiceRow
<1>11. ASSUME NEW r \in Runs, DecideDiscoveryProjectDraft(r) PROVE DiscoveryInterviewInStep'
  BY <1>11, BothRowsWritten, RowStatus
  DEF DecideDiscoveryProjectDraft, RunStatusOfVoice, RunRow, VoiceRow
<1>12. ASSUME NEW r \in UploadedInterviews, QueuePostedInterview(r) PROVE DiscoveryInterviewInStep'
  BY <1>12, RunsAssumption, VoiceRunsAreRuns
  DEF TypeOK, DiscoveryInterviewInStep, QueuePostedInterview, SetVoice, VoiceRuns
<1>13. ASSUME NEW c \in Clients, RetryVoiceInterview(c) PROVE DiscoveryInterviewInStep'
  <2>1. PICK r \in VoiceRuns : r = request[c].run
    BY <1>13 DEF TypeOK, RetryVoiceInterview, Request, NoRequest
  <2>2. CASE ~Retryable(request[c].seen)
    BY <1>13, <2>2 DEF RetryVoiceInterview, DiscoveryInterviewInStep, RunStatusOfVoice
  <2>3. CASE Retryable(request[c].seen)
    <3>1. r \in Runs /\ run[r] \in RunRow /\ VoiceWith(r, "queued") \in VoiceRow
      BY RowStatus, VoiceWithType, VoiceRunsAreRuns DEF VoiceStatus
    <3>2. [run[r] EXCEPT !.status = "uploaded", !.due = TRUE, !.error = "none"].status
            = "uploaded"
      BY <3>1 DEF RunRow
    <3>3. [VoiceWith(r, "queued") EXCEPT !.attempts = request[c].seen.attempts + 1].status
            = "queued"
      BY <3>1, RowStatus DEF VoiceRow
    <3> QED
      BY <1>13, <2>1, <2>3, <3>1, <3>2, <3>3, BothRowsWritten
      DEF RetryVoiceInterview, RunStatusOfVoice
  <2> QED
    BY <2>2, <2>3
<1>14. ASSUME UNCHANGED <<run, voice>> PROVE DiscoveryInterviewInStep'
  BY <1>14 DEF DiscoveryInterviewInStep, RunStatusOfVoice
<1> QED
  BY <1>1, <1>2, <1>3, <1>4, <1>5, <1>6, <1>7, <1>8, <1>9, <1>10, <1>11, <1>12, <1>13, <1>14
  DEF Next, ProcessStep, LoopStep, UserStep, RetryStep, BeginVoiceRun, StoreTranscript,
      FailStep, Crash, UpdateItemDecision, ProbeInterview, ReplayRetry, AbandonRequest,
      vars, queueVars

\* Whoever writes last, and however many workers and callers there are, the run
\* row of a discovery interview shows the status of the interview.
THEOREM InterviewInStep == Spec => []DiscoveryInterviewInStep
<1>1. Init => DiscoveryInterviewInStep
  BY RunsAssumption, VoiceRunsAreRuns
  DEF Init, NewRun, FinishedRun, DiscoveryInterviewInStep, RunStatusOfVoice, VoiceRuns
<1>2. TypeOK /\ DiscoveryInterviewInStep /\ [Next]_vars => DiscoveryInterviewInStep'
  BY NextInStep
<1> QED
  BY <1>1, <1>2, TypeCorrect, PTL DEF Spec

-----------------------------------------------------------------------------
(* The queue implements the lifecycle *)

Status == [r \in Runs |-> run[r].status]
Attempts == [r \in Runs |-> run[r].attempts]

LEMMA StatusMoves ==
  ASSUME TypeOK, NEW r \in Runs, NEW row, SetRun(r, row)
  PROVE /\ Status' = [Status EXCEPT ![r] = row.status]
        /\ Attempts' = [Attempts EXCEPT ![r] = row.attempts]
        /\ row.attempts = run[r].attempts => Attempts' = Attempts
        /\ row.status = run[r].status => Status' = Status
BY DEF TypeOK, SetRun, Status, Attempts

LEMMA StatusMovesTo ==
  ASSUME NEW r \in Runs, NEW s, run'[r].status = s, run'[r].attempts = run[r].attempts,
         \A x \in Runs \ {r} : run'[x] = run[x]
  PROVE Status' = [Status EXCEPT ![r] = s] /\ UNCHANGED Attempts
BY DEF Status, Attempts

LEMMA StatusOf ==
  ASSUME NEW r \in Runs PROVE Status[r] = run[r].status /\ Attempts[r] = run[r].attempts
BY DEF Status, Attempts

\* Each move of the lifecycle, in terms of the two columns.
LEMMA LifecycleClaim ==
  ASSUME NEW r \in Runs, Status[r] = "uploaded", Attempts[r] < MaxAttempts,
         Status' = [Status EXCEPT ![r] = "processing"],
         Attempts' = [Attempts EXCEPT ![r] = Attempts[r] + 1]
  PROVE Lifecycle!Next
BY DEF Status, Attempts, Lifecycle!Next, Lifecycle!Claim, Lifecycle!Move

LEMMA LifecycleSettle ==
  ASSUME NEW r \in Runs, Status[r] = "processing", UNCHANGED Attempts,
         NEW s, Status' = [Status EXCEPT ![r] = s],
         \/ s = "uploaded" /\ Attempts[r] < MaxAttempts
         \/ s \in {"review_ready", "failed"}
         \/ s = "no_data" /\ r \notin VoiceRuns
  PROVE Lifecycle!Next
BY DEF Status, Attempts, Lifecycle!Next, Lifecycle!Move, Lifecycle!Release,
   Lifecycle!Stage, Lifecycle!Fail, Lifecycle!FindNothing

LEMMA LifecycleRetry ==
  ASSUME NEW r \in VoiceRuns, Status[r] = "failed", Attempts[r] < MaxAttempts,
         Status' = [Status EXCEPT ![r] = "uploaded"], UNCHANGED Attempts
  PROVE Lifecycle!Next
BY VoiceRunsAreRuns DEF Status, Attempts, Lifecycle!Next, Lifecycle!Move, Lifecycle!Retry

LEMMA LifecycleComplete ==
  ASSUME NEW r \in Runs, Status[r] = "review_ready",
         Status' = [Status EXCEPT ![r] = "completed"], UNCHANGED Attempts
  PROVE Lifecycle!Next
BY DEF Status, Attempts, Lifecycle!Next, Lifecycle!Move, Lifecycle!Complete

LEMMA LifecycleStutter ==
  ASSUME UNCHANGED <<Status, Attempts>> PROVE UNCHANGED Lifecycle!vars
BY DEF Status, Attempts, Lifecycle!vars

LEMMA NextLifecycle ==
  ASSUME IInv, SoleWorker, SoleClient, [Next]_vars PROVE [Lifecycle!Next]_(Lifecycle!vars)
<1>1. TypeOK
  BY DEF IInv
<1>2. ASSUME NEW w \in Workers, NEW r \in Runs, ClaimNextRun(w, r) PROVE Lifecycle!Next
  BY <1>1, <1>2, StatusMoves, StatusOf, LifecycleClaim DEF ClaimNextRun, Claimable
<1>3. ASSUME NEW w \in Workers, worker[w] # Idle
      PROVE worker[w].run \in Runs /\ run[worker[w].run] \in RunRow
            /\ Status[worker[w].run] = "processing"
  <2>1. worker[w].run \in Runs /\ run[worker[w].run] \in RunRow
    BY <1>1, <1>3 DEF TypeOK, WorkerState
  <2> QED
    BY <1>3, <2>1, StatusOf DEF IInv, BusyOnProcessing
<1>4. ASSUME NEW w \in Workers, PersistProgressCheckpoint(w)
      PROVE UNCHANGED <<Status, Attempts>>
  <2>1. PICK r \in Runs : r = worker[w].run /\ run[r] \in RunRow
    BY <1>1, <1>4, BusyRun DEF PersistProgressCheckpoint, FileSteps
  <2>2. LET row == [run[r] EXCEPT !.step = StepAfter(worker[w].pc)]
        IN row.status = run[r].status /\ row.attempts = run[r].attempts /\ SetRun(r, row)
    BY <1>4, <2>1 DEF PersistProgressCheckpoint, RunRow
  <2> QED
    BY <1>1, <2>2, StatusMoves
<1>5. ASSUME NEW w \in Workers, FinishFileRun(w) PROVE Lifecycle!Next
  <2>1. PICK r \in Runs : r = worker[w].run /\ run[r] \in RunRow /\ Status[r] = "processing"
    BY <1>3, <1>5 DEF FinishFileRun, Idle
  <2>2. PICK s \in {"review_ready", "no_data"} :
          SetRun(r, [run[r] EXCEPT !.status = s, !.step = "none"])
    BY <1>5, <2>1 DEF FinishFileRun
  <2>3. /\ run'[r].status = s /\ run'[r].attempts = run[r].attempts
        /\ \A x \in Runs \ {r} : run'[x] = run[x]
    BY <1>1, <2>1, <2>2 DEF TypeOK, SetRun, RunRow
  <2>4. r \notin VoiceRuns
    BY <1>5, <2>1, RunsAssumption DEF FinishFileRun
  <2>5. Status' = [Status EXCEPT ![r] = s] /\ UNCHANGED Attempts
    BY <2>3, StatusMovesTo
  <2> QED
    BY <2>1, <2>2, <2>4, <2>5, LifecycleSettle
<1>6. ASSUME NEW w \in Workers, FinishVoiceRun(w) PROVE Lifecycle!Next
  <2>1. PICK r \in Runs : r = worker[w].run /\ run[r] \in RunRow /\ Status[r] = "processing"
    BY <1>3, <1>6 DEF FinishVoiceRun, Idle
  <2>2. /\ run'[r].status = "review_ready" /\ run'[r].attempts = run[r].attempts
        /\ \A x \in Runs \ {r} : run'[x] = run[x]
    BY <1>1, <1>6, <2>1 DEF FinishVoiceRun, TypeOK, SetRun, RunRow
  <2>3. Status' = [Status EXCEPT ![r] = "review_ready"] /\ UNCHANGED Attempts
    BY <2>2, StatusMovesTo
  <2> QED
    BY <2>1, <2>3, LifecycleSettle
<1>7. ASSUME NEW w \in Workers, HandleProcessingFailure(w) PROVE Lifecycle!Next
  <2>1. PICK r \in Runs : r = worker[w].run /\ run[r] \in RunRow /\ Status[r] = "processing"
    BY <1>3, <1>7 DEF HandleProcessingFailure, Idle
  <2>2. PICK again \in BOOLEAN :
          /\ again => run[r].attempts < MaxAttempts
          /\ SetRun(r, [run[r] EXCEPT !.status = IF again THEN "uploaded" ELSE "failed",
                                      !.step = "none",
                                      !.error = "processing_failed",
                                      !.due = ~again /\ @])
    BY <1>7, <2>1 DEF HandleProcessingFailure, CanRetry
  <2>3. /\ run'[r].status = (IF again THEN "uploaded" ELSE "failed")
        /\ run'[r].attempts = run[r].attempts
        /\ \A x \in Runs \ {r} : run'[x] = run[x]
    BY <1>1, <2>1, <2>2 DEF TypeOK, SetRun, RunRow
  <2>4. Status' = [Status EXCEPT ![r] = IF again THEN "uploaded" ELSE "failed"] /\ UNCHANGED Attempts
    BY <2>3, StatusMovesTo
  <2> QED
    BY <2>1, <2>2, <2>4, StatusOf, LifecycleSettle
<1>8. ASSUME NEW w \in Workers, NEW r \in Runs, RequeueStaleRun(w, r) PROVE Lifecycle!Next
  <2>1. /\ run'[r].status = "uploaded" /\ run'[r].attempts = run[r].attempts
        /\ \A x \in Runs \ {r} : run'[x] = run[x]
    BY <1>1, <1>8 DEF RequeueStaleRun, TypeOK, SetRun, RunRow
  <2>2. Status' = [Status EXCEPT ![r] = "uploaded"] /\ UNCHANGED Attempts
    BY <2>1, StatusMovesTo
  <2> QED
    BY <1>8, <2>2, StatusOf, LifecycleSettle DEF RequeueStaleRun, LeaseExpired
<1>9. ASSUME NEW w \in Workers, NEW r \in Runs, FailExhaustedRun(w, r) PROVE Lifecycle!Next
  <2>1. /\ run'[r].status = "failed" /\ run'[r].attempts = run[r].attempts
        /\ \A x \in Runs \ {r} : run'[x] = run[x]
    BY <1>1, <1>9 DEF FailExhaustedRun, TypeOK, SetRun, RunRow
  <2>2. run[r].attempts \in 0..MaxAttempts
    BY <1>1 DEF TypeOK, RunRow
  <2>3. run[r].status = "processing"
    BY <1>9, <2>2, MaxAttemptsAssumption DEF IInv, RunInv, FailExhaustedRun, Exhausted
  <2>4. Status' = [Status EXCEPT ![r] = "failed"] /\ UNCHANGED Attempts
    BY <2>1, StatusMovesTo
  <2> QED
    BY <2>3, <2>4, StatusOf, LifecycleSettle
<1>10. ASSUME NEW r \in Runs, TimePasses(r) PROVE UNCHANGED <<Status, Attempts>>
  <2>1. LET row == [run[r] EXCEPT !.due = TRUE]
        IN row.status = run[r].status /\ row.attempts = run[r].attempts /\ SetRun(r, row)
    BY <1>1, <1>10, RowStatus DEF TimePasses, RunRow
  <2> QED
    BY <1>1, <2>1, StatusMoves
<1>11. ASSUME NEW r \in Runs, FinalizeFileRun(r) \/ FinalizeVoiceRun(r)
                              \/ DecideDiscoveryProjectDraft(r)
       PROVE Lifecycle!Next \/ UNCHANGED <<Status, Attempts>>
  <2>1. PICK s \in {"review_ready", "completed"} : SetRun(r, RunWith(r, s))
    BY <1>11
    DEF FinalizeFileRun, FinalizeVoiceRun, DecideDiscoveryProjectDraft, RunStatusOfVoice
  <2>2. RunWith(r, s).status = s /\ RunWith(r, s).attempts = run[r].attempts
    BY <1>1, RowStatus DEF RunWith, RunRow
  <2>3. run[r].status = "review_ready"
    BY <1>11 DEF FinalizeFileRun, FinalizeVoiceRun, DecideDiscoveryProjectDraft
  <2> QED
    BY <1>1, <2>1, <2>2, <2>3, StatusMoves, StatusOf, LifecycleComplete
<1>12. ASSUME NEW c \in Clients, RetryVoiceInterview(c)
       PROVE Lifecycle!Next \/ UNCHANGED <<Status, Attempts>>
  <2>1. PICK r \in VoiceRuns : r = request[c].run
    BY <1>1, <1>12 DEF TypeOK, RetryVoiceInterview, Request, NoRequest
  <2>2. CASE ~Retryable(request[c].seen)
    BY <1>12, <2>2 DEF RetryVoiceInterview, Status, Attempts
  <2>3. CASE Retryable(request[c].seen)
    <3>1. /\ run'[r].status = "uploaded" /\ run'[r].attempts = run[r].attempts
          /\ \A x \in Runs \ {r} : run'[x] = run[x]
      <4>1. SetRun(r, [run[r] EXCEPT !.status = "uploaded", !.due = TRUE, !.error = "none"])
        BY <1>12, <2>1, <2>3 DEF RetryVoiceInterview
      <4> QED
        BY <1>1, <4>1, VoiceRunsAreRuns DEF TypeOK, SetRun, RunRow
    <3>2. run[r].status = "failed" /\ run[r].attempts < MaxAttempts
      BY <1>12, <2>1, <2>3 DEF IInv, FreshProbe, RetryVoiceInterview, Retryable
    <3>3. r \in Runs
      BY VoiceRunsAreRuns
    <3>4. Status' = [Status EXCEPT ![r] = "uploaded"] /\ UNCHANGED Attempts
      BY <3>1, <3>3, StatusMovesTo
    <3> QED
      BY <3>2, <3>3, <3>4, StatusOf, LifecycleRetry
  <2> QED
    BY <2>2, <2>3
<1>13. ASSUME UNCHANGED run PROVE UNCHANGED <<Status, Attempts>>
  BY <1>13 DEF Status, Attempts
<1> QED
  <2>1. Lifecycle!Next \/ UNCHANGED <<Status, Attempts>>
    BY <1>2, <1>4, <1>5, <1>6, <1>7, <1>8, <1>9, <1>10, <1>11, <1>12, <1>13
    DEF Next, ProcessStep, LoopStep, UserStep, RetryStep, BeginVoiceRun, StoreTranscript,
        FailStep, Crash, UpdateItemDecision, QueuePostedInterview, ProbeInterview,
        ReplayRetry, AbandonRequest, vars, queueVars
  <2> QED
    BY <2>1, LifecycleStutter

\* One worker and one caller: the queue, with its leases, reaper, crashes and
\* retries, implements the lifecycle of each import run.
THEOREM QueueImplementsLifecycle ==
  ASSUME SoleWorker, SoleClient PROVE Spec => FollowsLifecycle
<1>1. Init => Lifecycle!Init
  BY DEF Init, NewRun, FinishedRun, Lifecycle!Init
<1>2. IInv /\ [Next]_vars => [Lifecycle!Next]_(Lifecycle!vars)
  BY NextLifecycle
<1> QED
  BY <1>1, <1>2, QueueInvariant, PTL DEF Spec, FollowsLifecycle, Lifecycle!Spec

===============================================================================
