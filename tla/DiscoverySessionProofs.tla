----------------------- MODULE DiscoverySessionProofs -----------------------
(***************************************************************************)
(* Theorems about DiscoverySession, for any sources and clients.  For any  *)
(* workers: type correctness, that a text source and its run always agree, *)
(* and that a queued text source has an attempt left.  For the one worker  *)
(* that is deployed: that every run follows the lifecycle of an import     *)
(* run, and that a terminal status is shown only when the runs have ended. *)
(***************************************************************************)
EXTENDS DiscoverySession, TLAPS

-----------------------------------------------------------------------------
(* What a synchronisation writes *)

LEMMA SyncedType ==
  ASSUME NEW s \in Sources, NEW known \in SourceStatus, NEW status \in RunStatus
  PROVE  SyncedSource(s, known, status) \in SourceStatus
  BY DEF SyncedSource, SourceStatus, RunStatus, InReview

LEMMA DerivedType ==
  ASSUME NEW started \in BOOLEAN, NEW statuses
  PROVE  DeriveSessionStatus(started, statuses) \in SessionStatus
  BY DEF DeriveSessionStatus, SessionStatus

\* The status written is the derived one; a source is left alone where the derived
\* status is the loaded one.
LEMMA SyncWrites ==
  ASSUME NEW loaded \in View, NEW assigned \in [Sources -> SourceStatus],
         NEW runs \in [Sources -> RunRow], NEW synced, NEW update,
         synced = [s \in Sources |-> SyncedSource(s, assigned[s], runs[s].status)],
         update = SyncSessionStatus(loaded, assigned, runs)
  PROVE  /\ update \in Update
         /\ update.status \in {"keep", DeriveSessionStatus(loaded.session.started, synced)}
         /\ \A s \in Sources :
              update.sources[s] =
                IF SyncedSource(s, assigned[s], runs[s].status) = loaded.sources[s]
                THEN "keep" ELSE SyncedSource(s, assigned[s], runs[s].status)
  <1> DEFINE derived == DeriveSessionStatus(loaded.session.started, synced)
  <1>1. loaded.session \in SessionRow /\ loaded.session.started \in BOOLEAN
    BY DEF View, SessionRow
  <1>2. derived \in SessionStatus
    BY <1>1, DerivedType
  <1>3. \A s \in Sources : SyncedSource(s, assigned[s], runs[s].status) \in SourceStatus
    <2> TAKE s \in Sources
    <2>1. runs[s] \in RunRow
      OBVIOUS
    <2>2. runs[s].status \in RunStatus
      BY <2>1 DEF RunRow
    <2> QED
      BY <2>2, SyncedType
  <1>4. update = [status |-> IF derived = loaded.session.status THEN "keep" ELSE derived,
                  sources |-> [s \in Sources |->
                     IF synced[s] = loaded.sources[s] THEN "keep" ELSE synced[s]]]
    BY DEF SyncSessionStatus
  <1> HIDE DEF derived
  <1>5. update.sources = [s \in Sources |->
                           IF synced[s] = loaded.sources[s] THEN "keep" ELSE synced[s]]
    BY <1>4
  <1>6. update.sources \in [Sources -> SourceStatus \union {"keep"}]
    BY <1>3, <1>5
  <1>7. update \in Update
    BY <1>2, <1>4, <1>6 DEF Update
  <1>8. update.status \in {"keep", derived}
    BY <1>4
  <1> QED
    BY <1>5, <1>7, <1>8 DEF derived

LEMMA WriteEffect ==
  ASSUME session \in SessionRow, source \in [Sources -> SourceStatus],
         NEW update \in Update, Write(update)
  PROVE  /\ session' \in SessionRow
         /\ session'.started = session.started
         /\ session'.status = IF update.status = "keep" THEN session.status ELSE update.status
         /\ source' \in [Sources -> SourceStatus]
         /\ \A s \in Sources :
              source'[s] = IF update.sources[s] = "keep" THEN source[s] ELSE update.sources[s]
  BY DEF Write, Update, SessionRow

\* Both together, for a worker or a handler that synchronises and commits.
LEMMA SyncEffect ==
  ASSUME session \in SessionRow, source \in [Sources -> SourceStatus],
         NEW loaded \in View, NEW assigned \in [Sources -> SourceStatus],
         NEW runs \in [Sources -> RunRow], NEW synced,
         synced = [s \in Sources |-> SyncedSource(s, assigned[s], runs[s].status)],
         Write(SyncSessionStatus(loaded, assigned, runs))
  PROVE  /\ session' \in SessionRow
         /\ session'.started = session.started
         /\ session'.status \in
              {session.status, DeriveSessionStatus(loaded.session.started, synced)}
         /\ source' \in [Sources -> SourceStatus]
         /\ \A s \in Sources :
              source'[s] = IF SyncedSource(s, assigned[s], runs[s].status) = loaded.sources[s]
                           THEN source[s] ELSE SyncedSource(s, assigned[s], runs[s].status)
  <1> DEFINE derived == DeriveSessionStatus(loaded.session.started, synced)
  <1>1. PICK update : update = SyncSessionStatus(loaded, assigned, runs)
    OBVIOUS
  <1>2. /\ update \in Update
        /\ update.status \in {"keep", derived}
        /\ \A s \in Sources :
             update.sources[s] =
               IF SyncedSource(s, assigned[s], runs[s].status) = loaded.sources[s]
               THEN "keep" ELSE SyncedSource(s, assigned[s], runs[s].status)
    BY <1>1, SyncWrites
  <1>3. Write(update)
    BY <1>1
  <1> HIDE DEF derived
  <1>4. /\ session' \in SessionRow
        /\ session'.started = session.started
        /\ session'.status = IF update.status = "keep" THEN session.status ELSE update.status
        /\ source' \in [Sources -> SourceStatus]
        /\ \A s \in Sources :
             source'[s] = IF update.sources[s] = "keep" THEN source[s] ELSE update.sources[s]
    BY <1>2, <1>3, WriteEffect
  <1>5. session'.status \in {session.status, derived}
    BY <1>2, <1>4
  <1>6. \A s \in Sources : SyncedSource(s, assigned[s], runs[s].status) # "keep"
    <2> TAKE s \in Sources
    <2>1. runs[s] \in RunRow
      OBVIOUS
    <2>2. runs[s].status \in RunStatus
      BY <2>1 DEF RunRow
    <2> QED
      BY <2>2, SyncedType DEF SourceStatus
  <1>7. \A s \in Sources :
          source'[s] = IF SyncedSource(s, assigned[s], runs[s].status) = loaded.sources[s]
                       THEN source[s] ELSE SyncedSource(s, assigned[s], runs[s].status)
    BY <1>2, <1>4, <1>6
  <1> QED
    BY <1>4, <1>5, <1>7 DEF derived

-----------------------------------------------------------------------------
(* Type correctness *)

LEMMA CurrentType == TypeOK => Current \in View
  BY DEF TypeOK, Current, View

LEMMA WorkerTyped ==
  ASSUME TypeOK, NEW w \in Workers, worker[w] # Idle
  PROVE  /\ worker[w].source \in Sources
         /\ worker[w].view \in View
         /\ worker[w].view.sources \in [Sources -> SourceStatus]
         /\ run[worker[w].source] \in RunRow
  <1>1. worker[w] \in [pc: WorkerSteps, source: Sources, view: View]
    BY DEF TypeOK, WorkerState
  <1>2. worker[w].source \in Sources /\ worker[w].view \in View
    BY <1>1
  <1>3. worker[w].view.sources \in [Sources -> SourceStatus]
    BY <1>2 DEF View
  <1> QED
    BY <1>2, <1>3 DEF TypeOK

LEMMA GoToType ==
  ASSUME TypeOK, NEW w, NEW pc \in WorkerSteps, NEW s \in Sources, NEW view \in View,
         GoTo(w, pc, s, view)
  PROVE  worker' \in [Workers -> WorkerState]
  <1>1. [pc |-> pc, source |-> s, view |-> view] \in WorkerState
    BY DEF WorkerState
  <1> QED
    BY <1>1 DEF GoTo, TypeOK

LEMMA ReleaseType ==
  ASSUME TypeOK, NEW w, Release(w)
  PROVE  worker' \in [Workers -> WorkerState]
  BY DEF Release, TypeOK, WorkerState

LEMMA SetRunType ==
  ASSUME TypeOK, NEW s \in Sources, NEW row \in RunRow, SetRun(s, row)
  PROVE  run' \in [Sources -> RunRow]
  BY DEF SetRun, TypeOK

LEMMA RowTypes ==
  ASSUME TypeOK, NEW s \in Sources
  PROVE  /\ run[s] \in RunRow
         /\ FailedRow(s) \in RunRow
         /\ PendingRow(s) \in RunRow
         /\ \A status \in RunStatus : [run[s] EXCEPT !.status = status] \in RunRow
         /\ \A status \in RunStatus :
              [run[s] EXCEPT !.status = status, !.step = "none"] \in RunRow
  BY DEF TypeOK, FailedRow, PendingRow, RunRow, RunStatus, TextSteps

LEMMA RowsType ==
  ASSUME TypeOK, NEW s \in Sources, NEW row \in RunRow
  PROVE  [run EXCEPT ![s] = row] \in [Sources -> RunRow]
  BY DEF TypeOK

LEMMA NoViewType == NoView \in View
  BY DEF NoView, View, SessionRow, SessionStatus, SourceStatus

LEMMA InitTypeOK == Init => TypeOK
  <1> SUFFICES ASSUME Init PROVE TypeOK
    OBVIOUS
  <1>1. NoRunRow \in RunRow
    BY MaxAttemptsAssumption DEF NoRunRow, RunRow, RunStatus
  <1> QED
    BY <1>1 DEF Init, TypeOK, SessionRow, SessionStatus, SourceStatus, WorkerState, Request

\* The rows, by the actions that write them through a synchronisation.
LEMMA SyncTypes ==
  ASSUME TypeOK, NEW loaded \in View, NEW assigned \in [Sources -> SourceStatus],
         NEW runs \in [Sources -> RunRow],
         Write(SyncSessionStatus(loaded, assigned, runs))
  PROVE  session' \in SessionRow /\ source' \in [Sources -> SourceStatus]
  BY SyncEffect DEF TypeOK

LEMMA NextTypeOK ==
  ASSUME TypeOK, [Next]_vars
  PROVE  TypeOK'
  <1>1. ASSUME NEW s \in Sources, AddSource(s) PROVE TypeOK'
    BY <1>1 DEF AddSource, TypeOK, SessionRow, SessionStatus, SourceStatus
  <1>2. CASE StartSession
    <2>1. \A s \in Sources : Started(s) \in RunRow
      BY MaxAttemptsAssumption DEF Started, NoRunRow, RunRow, RunStatus, TextSteps
    <2> QED
      BY <1>2, <2>1 DEF StartSession, TypeOK, SessionRow, SessionStatus, SourceStatus
  <1>3. CASE StartAgain
    <2>1. session' \in SessionRow /\ source' \in [Sources -> SourceStatus]
      BY <1>3, CurrentType, SyncTypes DEF StartAgain, TypeOK
    <2> QED
      BY <1>3, <2>1 DEF StartAgain, TypeOK
  <1>4. ASSUME NEW s \in Sources, RetryVoiceInterview(s) PROVE TypeOK'
    <2>1. run' \in [Sources -> RunRow]
      BY <1>4, RowTypes, SetRunType DEF RetryVoiceInterview, RunStatus
    <2> QED
      BY <1>4, <2>1 DEF RetryVoiceInterview, TypeOK
  <1>5. ASSUME NEW s \in Sources, CompleteRun(s) PROVE TypeOK'
    <2>1. run' \in [Sources -> RunRow]
      BY <1>5, RowTypes, SetRunType DEF CompleteRun, RunStatus
    <2> QED
      BY <1>5, <2>1 DEF CompleteRun, TypeOK
  <1>6. ASSUME NEW c \in Clients, LoadSession(c) PROVE TypeOK'
    <2>1. [NoRequest EXCEPT !.pc = "loaded", !.seen = session] \in Request
      BY DEF TypeOK, NoRequest, Request, NoUpdate, Update
    <2> QED
      BY <1>6, <2>1 DEF LoadSession, TypeOK
  <1>7. ASSUME NEW c \in Clients, BuildResponse(c) PROVE TypeOK'
    <2>1. request[c] \in [pc: {"loaded", "synced"}, seen: SessionRow, update: Update]
      BY <1>7 DEF BuildResponse, TypeOK, Request, NoRequest
    <2>2. [session |-> request[c].seen, sources |-> source] \in View
      BY <2>1 DEF TypeOK, View
    <2>3. PICK update :
            update = SyncSessionStatus([session |-> request[c].seen, sources |-> source], source, run)
      OBVIOUS
    <2>4. update \in Update
      BY <2>2, <2>3, SyncWrites DEF TypeOK
    <2>5. [request[c] EXCEPT !.pc = "synced", !.update = update] \in Request
      BY <2>1, <2>4 DEF Request
    <2>6. request' = [request EXCEPT ![c] = [request[c] EXCEPT !.pc = "synced", !.update = update]]
      BY <1>7, <2>3 DEF BuildResponse, TypeOK
    <2> QED
      BY <1>7, <2>5, <2>6 DEF BuildResponse, TypeOK
  <1>8. ASSUME NEW c \in Clients, CommitResponse(c) PROVE TypeOK'
    <2>1. request[c].update \in Update
      BY <1>8 DEF CommitResponse, TypeOK, Request, NoRequest
    <2>2. session' \in SessionRow /\ source' \in [Sources -> SourceStatus]
      BY <1>8, <2>1, WriteEffect DEF CommitResponse, TypeOK
    <2>3. request' \in [Clients -> Request]
      BY <1>8 DEF CommitResponse, TypeOK, Request
    <2> QED
      BY <1>8, <2>2, <2>3 DEF CommitResponse, TypeOK
  <1>9. ASSUME NEW w \in Workers, NEW s \in Sources, ClaimNextTextSource(w, s) PROVE TypeOK'
    <2>1. source' \in [Sources -> SourceStatus]
      BY <1>9 DEF ClaimNextTextSource, TypeOK, SourceStatus
    <2>2. CASE run[s].attempts >= MaxAttempts
      <3>1. run' \in [Sources -> RunRow]
        BY <1>9, <2>2, RowTypes, SetRunType DEF ClaimNextTextSource
      <3> QED
        BY <1>9, <2>1, <2>2, <3>1 DEF ClaimNextTextSource, TypeOK
    <2>3. CASE ~(run[s].attempts >= MaxAttempts)
      <3>1. [status |-> "processing", step |-> "discovery_text_extracting",
             attempts |-> run[s].attempts + 1] \in RunRow
        <4>1. run[s].attempts + 1 \in 0..MaxAttempts
          <5>1. run[s].attempts \in 0..MaxAttempts
            BY RowTypes DEF RunRow
          <5> QED
            BY <5>1, <2>3, MaxAttemptsAssumption
        <4> QED
          BY <4>1 DEF RunRow, RunStatus, TextSteps
      <3>2. run' \in [Sources -> RunRow]
        BY <1>9, <2>3, <3>1, SetRunType DEF ClaimNextTextSource
      <3>3. [session |-> session, sources |-> source'] \in View
        BY <2>1 DEF TypeOK, View
      <3>4. GoTo(w, "text_claimed", s, [session |-> session, sources |-> source'])
        BY <1>9, <2>3 DEF ClaimNextTextSource
      <3>5. worker' \in [Workers -> WorkerState]
        BY <3>3, <3>4, GoToType DEF WorkerSteps
      <3> QED
        BY <1>9, <2>1, <3>2, <3>5 DEF ClaimNextTextSource, TypeOK
    <2> QED
      BY <2>2, <2>3
  <1>10. ASSUME NEW w \in Workers, BeginText(w) PROVE TypeOK'
    <2>1. worker[w] \in [pc: WorkerSteps, source: Sources, view: View]
      BY <1>10 DEF BeginText, TypeOK, WorkerState, Idle
    <2>2. [worker[w] EXCEPT !.pc = "text_extracting"] \in WorkerState
      BY <2>1 DEF WorkerState, WorkerSteps
    <2>3. worker' = [worker EXCEPT ![w] = [worker[w] EXCEPT !.pc = "text_extracting"]]
      BY <1>10 DEF BeginText, TypeOK
    <2> QED
      BY <1>10, <2>2, <2>3 DEF BeginText, TypeOK
  <1>11. ASSUME NEW w \in Workers, FinishText(w) PROVE TypeOK'
    <2>1. worker[w] # Idle
      BY <1>11 DEF FinishText, Idle
    <2>2. PICK status \in {"review_ready", "no_data"} :
            LET settled == [run EXCEPT ![worker[w].source] =
                              [@ EXCEPT !.status = status, !.step = "none"]] IN
            /\ run' = settled
            /\ Write(SyncSessionStatus(worker[w].view,
                 [worker[w].view.sources EXCEPT ![worker[w].source] = "review_ready"], settled))
      BY <1>11 DEF FinishText
    <2>3. run' \in [Sources -> RunRow]
      BY <2>1, <2>2, WorkerTyped, RowTypes, RowsType DEF RunStatus
    <2>4. [worker[w].view.sources EXCEPT ![worker[w].source] = "review_ready"]
            \in [Sources -> SourceStatus]
      BY <2>1, WorkerTyped DEF SourceStatus
    <2>5. session' \in SessionRow /\ source' \in [Sources -> SourceStatus]
      BY <2>1, <2>2, <2>3, <2>4, WorkerTyped, SyncTypes
    <2>6. worker' \in [Workers -> WorkerState]
      BY <1>11, ReleaseType DEF FinishText
    <2> QED
      BY <1>11, <2>3, <2>5, <2>6 DEF FinishText, TypeOK
  <1>12. ASSUME NEW w \in Workers, FailText(w) PROVE TypeOK'
    <2>1. worker[w] # Idle
      BY <1>12 DEF FailText, Idle
    <2>2. worker' \in [Workers -> WorkerState]
      BY <1>12, <2>1, WorkerTyped, CurrentType, GoToType DEF FailText, WorkerSteps
    <2> QED
      BY <1>12, <2>2 DEF FailText, TypeOK
  <1>13. ASSUME NEW w \in Workers, HandleTextProcessingFailure(w) PROVE TypeOK'
    <2>1. worker[w] # Idle
      BY <1>13 DEF HandleTextProcessingFailure, Idle
    <2>2. PICK retryable \in BOOLEAN :
            LET s == worker[w].source
                view == worker[w].view
                again == CanRetry(s, retryable)
                rows == [run EXCEPT ![s] = IF again THEN PendingRow(s) ELSE FailedRow(s)] IN
            /\ run' = rows
            /\ Write(SyncSessionStatus(
                 view, [view.sources EXCEPT ![s] = IF again THEN "uploaded" ELSE "failed"], rows))
      BY <1>13 DEF HandleTextProcessingFailure
    <2>3. run' \in [Sources -> RunRow]
      BY <2>1, <2>2, WorkerTyped, RowTypes, RowsType
    <2>4. PICK assigned :
            /\ assigned \in [Sources -> SourceStatus]
            /\ Write(SyncSessionStatus(worker[w].view, assigned, run'))
      BY <2>1, <2>2, WorkerTyped DEF SourceStatus
    <2>5. session' \in SessionRow /\ source' \in [Sources -> SourceStatus]
      BY <2>1, <2>3, <2>4, WorkerTyped, SyncTypes
    <2>6. worker' \in [Workers -> WorkerState]
      BY <1>13, ReleaseType DEF HandleTextProcessingFailure
    <2> QED
      BY <1>13, <2>3, <2>5, <2>6 DEF HandleTextProcessingFailure, TypeOK
  <1>14. ASSUME NEW w \in Workers, NEW s \in Sources, RequeueStaleTextSource(w, s) PROVE TypeOK'
    <2>1. CASE run[s].attempts >= MaxAttempts
      <3>1. run' = [run EXCEPT ![s] = FailedRow(s)] /\ run' \in [Sources -> RunRow]
        BY <1>14, <2>1, RowTypes, RowsType DEF RequeueStaleTextSource
      <3>2. Write(SyncSessionStatus(Current, [source EXCEPT ![s] = "failed"], run'))
        BY <1>14, <2>1, <3>1 DEF RequeueStaleTextSource
      <3>3. [source EXCEPT ![s] = "failed"] \in [Sources -> SourceStatus]
        BY DEF TypeOK, SourceStatus
      <3>4. session' \in SessionRow /\ source' \in [Sources -> SourceStatus]
        BY <3>1, <3>2, <3>3, CurrentType, SyncTypes
      <3> QED
        BY <1>14, <3>1, <3>4 DEF RequeueStaleTextSource, TypeOK
    <2>2. CASE ~(run[s].attempts >= MaxAttempts)
      <3>1. run' \in [Sources -> RunRow]
        BY <1>14, <2>2, RowTypes, SetRunType DEF RequeueStaleTextSource
      <3> QED
        BY <1>14, <2>2, <3>1 DEF RequeueStaleTextSource, TypeOK, SourceStatus
    <2> QED
      BY <2>1, <2>2
  <1>15. ASSUME NEW w \in Workers, NEW s \in Sources, ClaimNextRun(w, s) PROVE TypeOK'
    <2>1. [run[s] EXCEPT !.status = "processing", !.attempts = @ + 1] \in RunRow
      <3>1. /\ run[s] \in RunRow
            /\ run[s].attempts \in 0..MaxAttempts
        BY RowTypes DEF RunRow
      <3>2. run[s].attempts < MaxAttempts
        BY <1>15 DEF ClaimNextRun, Claimable
      <3>3. run[s].attempts + 1 \in 0..MaxAttempts
        BY <3>1, <3>2, MaxAttemptsAssumption
      <3> QED
        BY <3>1, <3>3 DEF RunRow, RunStatus
    <2>2. run' \in [Sources -> RunRow]
      BY <1>15, <2>1, SetRunType DEF ClaimNextRun
    <2>3. worker' \in [Workers -> WorkerState]
      BY <1>15, NoViewType, GoToType DEF ClaimNextRun, WorkerSteps
    <2> QED
      BY <1>15, <2>2, <2>3 DEF ClaimNextRun, TypeOK
  <1>16. ASSUME NEW w \in Workers, EndRun(w) PROVE TypeOK'
    <2>1. worker[w] # Idle
      BY <1>16 DEF EndRun, Idle
    <2>2. worker' \in [Workers -> WorkerState]
      BY <1>16, <2>1, WorkerTyped, CurrentType, GoToType DEF EndRun, WorkerSteps
    <2> QED
      BY <1>16, <2>2 DEF EndRun, TypeOK
  <1>17. ASSUME NEW w \in Workers, FinishRun(w) PROVE TypeOK'
    <2>1. worker[w] # Idle
      BY <1>17 DEF FinishRun, Idle
    <2>2. PICK status \in Outcomes(worker[w].source) :
            LET rows == [run EXCEPT ![worker[w].source].status = status] IN
            /\ run' = rows
            /\ Write(SyncSessionStatus(worker[w].view, worker[w].view.sources, rows))
      BY <1>17 DEF FinishRun
    <2>3. status \in RunStatus
      BY <2>2 DEF Outcomes, RunStatus
    <2>4. run' = [run EXCEPT ![worker[w].source] = [run[worker[w].source] EXCEPT !.status = status]]
      BY <2>1, <2>2, WorkerTyped DEF TypeOK
    <2>5. run' \in [Sources -> RunRow]
      BY <2>1, <2>3, <2>4, WorkerTyped, RowTypes, RowsType
    <2>6. session' \in SessionRow /\ source' \in [Sources -> SourceStatus]
      BY <2>1, <2>2, <2>5, WorkerTyped, SyncTypes
    <2>7. worker' \in [Workers -> WorkerState]
      BY <1>17, ReleaseType DEF FinishRun
    <2> QED
      BY <1>17, <2>5, <2>6, <2>7 DEF FinishRun, TypeOK
  <1>18. ASSUME NEW w \in Workers, NEW s \in Sources, RequeueStaleRun(w, s) PROVE TypeOK'
    <2>1. run' \in [Sources -> RunRow]
      BY <1>18, RowTypes, SetRunType DEF RequeueStaleRun, RunStatus
    <2> QED
      BY <1>18, <2>1 DEF RequeueStaleRun, TypeOK
  <1>19. ASSUME NEW w \in Workers, NEW s \in Sources, FailExhaustedRun(w, s) PROVE TypeOK'
    <2>1. run' = [run EXCEPT ![s] = [run[s] EXCEPT !.status = "failed"]]
      BY <1>19 DEF FailExhaustedRun, TypeOK
    <2>2. run' \in [Sources -> RunRow]
      BY <2>1, RowTypes, RowsType DEF RunStatus
    <2>3. Write(SyncSessionStatus(Current, source, run'))
      BY <1>19 DEF FailExhaustedRun
    <2>4. session' \in SessionRow /\ source' \in [Sources -> SourceStatus]
      BY <2>2, <2>3, CurrentType, SyncTypes DEF TypeOK
    <2> QED
      BY <1>19, <2>2, <2>4 DEF FailExhaustedRun, TypeOK
  <1>20. ASSUME NEW w \in Workers, Crash(w) PROVE TypeOK'
    <2>1. worker' \in [Workers -> WorkerState]
      BY <1>20, ReleaseType DEF Crash
    <2> QED
      BY <1>20, <2>1 DEF Crash, TypeOK
  <1>21. CASE UNCHANGED vars
    BY <1>21 DEF vars, TypeOK
  <1> QED
    BY <1>1, <1>2, <1>3, <1>4, <1>5, <1>6, <1>7, <1>8, <1>9, <1>10, <1>11, <1>12, <1>13,
       <1>14, <1>15, <1>16, <1>17, <1>18, <1>19, <1>20, <1>21
    DEF Next, UserStep, GetStep, WorkerStep, TextStep, LoopStep

\* Rows, copies and pending writes keep their shape for any sources, workers and
\* clients, and no run is claimed more often than MaxAttempts.
THEOREM TypeCorrect == Spec => []TypeOK
  <1>1. Init => TypeOK
    BY InitTypeOK
  <1>2. TypeOK /\ [Next]_vars => TypeOK'
    BY NextTypeOK
  <1> QED
    BY <1>1, <1>2, PTL DEF Spec

-----------------------------------------------------------------------------
(* Text sources and their runs *)

InStep(known, row) ==
  /\ known = "processing" <=> row.status = "processing"
  /\ known = "review_ready" <=> row.status \in InReview
  /\ known = "failed" <=> row.status = "failed"
  /\ row.status = "uploaded" <=> row.step = "discovery_text_pending"
  /\ row.status = "processing" <=> row.step = "discovery_text_extracting"

AttemptLeft(row) == row.status = "uploaded" => row.attempts < MaxAttempts

RowsFit == \A s \in TextSources : InStep(source[s], run[s]) /\ AttemptLeft(run[s])

\* Nothing is worked on before the start.
StartedFirst ==
  /\ ~session.started => \A s \in Sources : run[s].status = "none"
  /\ \A w \in Workers : worker[w] # Idle => session.started

\* What a worker knows of its source: the claim found it and marked it, a failure
\* handler's copy is locked.
Knows(w) ==
  LET s == worker[w].source
      known == worker[w].view.sources IN
  worker[w] # Idle =>
    /\ worker[w].pc \in {"run_busy", "run_ending"} <=> s \notin TextSources
    /\ worker[w].pc \in {"text_claimed", "text_extracting"} => known[s] = "processing"
    /\ worker[w].pc = "text_failing" => known[s] = source[s]

Locks(w, s) == worker[w].source = s /\ worker[w].pc \in {"text_extracting", "text_failing"}

LocksExclude ==
  \A w1, w2 \in Workers, s \in TextSources : Locks(w1, s) /\ Locks(w2, s) => w1 = w2

\* A GET found the text sources in step with their runs: it writes none of them.
RequestsKeepText ==
  \A c \in Clients, s \in TextSources :
    request[c].pc = "synced" => request[c].update.sources[s] = "keep"

TextInv ==
  /\ TypeOK
  /\ RowsFit
  /\ StartedFirst
  /\ \A w \in Workers : Knows(w)
  /\ LocksExclude
  /\ RequestsKeepText

\* A synchronisation leaves a text source that is in step as it is, however old the
\* copy of it that is written back.
LEMMA SyncKeepsText ==
  ASSUME session \in SessionRow, source \in [Sources -> SourceStatus],
         NEW loaded \in View, NEW assigned \in [Sources -> SourceStatus],
         NEW runs \in [Sources -> RunRow],
         Write(SyncSessionStatus(loaded, assigned, runs)),
         NEW s \in TextSources, assigned[s] = loaded.sources[s], InStep(source[s], runs[s])
  PROVE  source'[s] = source[s]
  <1>1. s \in Sources
    BY DEF Sources
  <1>2. source'[s] = IF SyncedSource(s, assigned[s], runs[s].status) = loaded.sources[s]
                     THEN source[s] ELSE SyncedSource(s, assigned[s], runs[s].status)
    BY <1>1, SyncEffect
  <1> QED
    BY <1>2 DEF SyncedSource, InStep, InReview

\* What it does to the one it was called for.
LEMMA SyncSetsText ==
  ASSUME session \in SessionRow, source \in [Sources -> SourceStatus],
         NEW loaded \in View, NEW assigned \in [Sources -> SourceStatus],
         NEW runs \in [Sources -> RunRow],
         Write(SyncSessionStatus(loaded, assigned, runs)),
         NEW s \in TextSources, NEW known,
         SyncedSource(s, assigned[s], runs[s].status) = known,
         loaded.sources[s] = source[s] \/ loaded.sources[s] # known
  PROVE  source'[s] = known
  <1>1. s \in Sources
    BY DEF Sources
  <1>2. source'[s] = IF SyncedSource(s, assigned[s], runs[s].status) = loaded.sources[s]
                     THEN source[s] ELSE SyncedSource(s, assigned[s], runs[s].status)
    BY <1>1, SyncEffect
  <1> QED
    BY <1>2

\* The other actors do not notice a step of w that respects their locks.
LEMMA OthersKnow ==
  ASSUME TextInv, NEW w1 \in Workers, Knows(w1), worker'[w1] = worker[w1],
         worker[w1].pc = "text_failing" => source'[worker[w1].source] = source[worker[w1].source]
  PROVE  Knows(w1)'
  BY DEF Knows, Idle

LEMMA RowsFitNext ==
  ASSUME RowsFit,
         \A s \in TextSources :
           \/ source'[s] = source[s] /\ run'[s] = run[s]
           \/ InStep(source'[s], run'[s]) /\ AttemptLeft(run'[s])
  PROVE  RowsFit'
  BY DEF RowsFit, InStep, AttemptLeft

LEMMA TextInvParts ==
  RowsFit => TextInStep /\ QueuedTextHasAttemptLeft
  BY DEF RowsFit, InStep, AttemptLeft, TextInStep, QueuedTextHasAttemptLeft

LEMMA InitTextInv == Init => TextInv
  <1> SUFFICES ASSUME Init PROVE TextInv
    OBVIOUS
  <1>1. TypeOK
    BY InitTypeOK
  <1>2. RowsFit
    BY DEF Init, RowsFit, InStep, AttemptLeft, InReview, NoRunRow, Sources
  <1>3. StartedFirst /\ (\A w \in Workers : Knows(w)) /\ LocksExclude /\ RequestsKeepText
    BY DEF Init, StartedFirst, Knows, LocksExclude, Locks, RequestsKeepText, NoRequest, NoRunRow, Idle
  <1> QED
    BY <1>1, <1>2, <1>3 DEF TextInv

-----------------------------------------------------------------------------
(* Steps of users and requests *)

\* Nobody's worker or request moves and text sources stay.
LEMMA TextFrame ==
  ASSUME TextInv, TypeOK', session'.started = session.started,
         UNCHANGED <<worker, request>>, RowsFit',
         ~session.started => \A s \in Sources : run'[s].status = "none",
         \A w \in Workers :
           worker[w].pc = "text_failing" => source'[worker[w].source] = source[worker[w].source]
  PROVE  TextInv'
  <1>1. \A w \in Workers : Knows(w)'
    BY OthersKnow DEF TextInv
  <1> QED
    BY <1>1 DEF TextInv, StartedFirst, LocksExclude, Locks, RequestsKeepText

LEMMA AddSourceKeeps ==
  ASSUME TextInv, TypeOK', NEW s \in Sources, AddSource(s)
  PROVE  TextInv'
  <1>1. /\ ~session.started
        /\ source[s] = "absent"
        /\ source' = [source EXCEPT ![s] = "uploaded"]
        /\ session' = [session EXCEPT !.status = IF @ = "draft" THEN "uploading" ELSE @]
        /\ UNCHANGED <<run, worker, request>>
    BY DEF AddSource
  <1>2. session'.started = session.started
    BY <1>1 DEF TextInv, TypeOK, SessionRow
  <1>3. \A w \in Workers : worker[w] = Idle
    BY <1>1 DEF TextInv, StartedFirst
  <1>4. \A t \in Sources : run[t].status = "none"
    BY <1>1 DEF TextInv, StartedFirst
  <1>5. \A t \in TextSources :
          \/ source'[t] = source[t] /\ run'[t] = run[t]
          \/ InStep(source'[t], run'[t]) /\ AttemptLeft(run'[t])
    <2> TAKE t \in TextSources
    <2>1. CASE t = s
      <3>1. t \in Sources /\ InStep(source[t], run[t]) /\ AttemptLeft(run[t])
        BY DEF Sources, TextInv, RowsFit
      <3>2. source'[t] = "uploaded" /\ run'[t] = run[t]
        BY <1>1, <2>1 DEF TextInv, TypeOK
      <3> QED
        BY <1>1, <2>1, <3>1, <3>2 DEF InStep
    <2>2. CASE t # s
      BY <1>1, <2>2 DEF TextInv, TypeOK
    <2> QED
      BY <2>1, <2>2
  <1>6. RowsFit'
    BY <1>5, RowsFitNext DEF TextInv
  <1> QED
    BY <1>1, <1>2, <1>3, <1>4, <1>6, TextFrame DEF Idle

LEMMA StartSessionKeeps ==
  ASSUME TextInv, TypeOK', StartSession
  PROVE  TextInv'
  <1>1. /\ ~session.started
        /\ session' = [status |-> "processing", started |-> TRUE]
        /\ run' = [s \in Sources |-> Started(s)]
        /\ source' = [s \in Sources |->
                        IF source[s] = "absent" \/ s \in TextSources THEN source[s] ELSE "processing"]
        /\ UNCHANGED <<worker, request>>
    BY DEF StartSession
  <1>2. \A w \in Workers : worker[w] = Idle
    BY <1>1 DEF TextInv, StartedFirst
  <1>3. \A s \in TextSources : InStep(source'[s], run'[s]) /\ AttemptLeft(run'[s])
    <2> TAKE s \in TextSources
    <2>1. s \in Sources
      BY DEF Sources
    <2>2. run[s].status = "none" /\ InStep(source[s], run[s])
      BY <1>1, <2>1 DEF TextInv, StartedFirst, RowsFit
    <2>3. source'[s] = source[s] /\ run'[s] = Started(s)
      BY <1>1, <2>1
    <2> QED
      BY <2>2, <2>3, MaxAttemptsAssumption
      DEF Started, NoRunRow, InStep, AttemptLeft, InReview
  <1>4. RowsFit'
    BY <1>3 DEF RowsFit
  <1> QED
    BY <1>1, <1>2, <1>4 DEF TextInv, StartedFirst, Knows, LocksExclude, Locks, RequestsKeepText, Idle

LEMMA StartAgainKeeps ==
  ASSUME TextInv, TypeOK', StartAgain
  PROVE  TextInv'
  <1>1. /\ session.started
        /\ Write(SyncSessionStatus(Current, source, run))
        /\ UNCHANGED <<run, worker, request>>
    BY DEF StartAgain
  <1>2. session'.started = session.started
    BY <1>1, CurrentType, SyncEffect DEF TextInv, TypeOK
  <1>3. \A s \in TextSources : source'[s] = source[s]
    BY <1>1, CurrentType, SyncKeepsText DEF TextInv, TypeOK, RowsFit, Current
  <1>4. RowsFit'
    BY <1>1, <1>3, RowsFitNext DEF TextInv
  <1>5. ASSUME NEW w \in Workers, worker[w].pc = "text_failing"
        PROVE  source'[worker[w].source] = source[worker[w].source]
    BY <1>3, <1>5, WorkerTyped DEF TextInv, Knows, Idle
  <1> QED
    BY <1>1, <1>2, <1>4, <1>5, TextFrame

LEMMA RetryVoiceInterviewKeeps ==
  ASSUME TextInv, TypeOK', NEW s \in Sources, RetryVoiceInterview(s)
  PROVE  TextInv'
  <1>1. /\ s \notin TextSources
        /\ run[s].status = "failed"
        /\ run' = [run EXCEPT ![s] = [run[s] EXCEPT !.status = "uploaded"]]
        /\ UNCHANGED <<session, source, worker, request>>
    BY SourcesAssumption DEF RetryVoiceInterview, SetRun
  <1>2. session.started
    BY <1>1 DEF TextInv, StartedFirst
  <1>3. RowsFit'
    BY <1>1, RowsFitNext DEF TextInv, TypeOK
  <1> QED
    BY <1>1, <1>2, <1>3, TextFrame

LEMMA CompleteRunKeeps ==
  ASSUME TextInv, TypeOK', NEW s \in Sources, CompleteRun(s)
  PROVE  TextInv'
  <1>1. /\ run[s].status = "review_ready"
        /\ run' = [run EXCEPT ![s] = [run[s] EXCEPT !.status = "completed"]]
        /\ UNCHANGED <<session, source, worker, request>>
    BY DEF CompleteRun, SetRun
  <1>2. session.started
    BY <1>1 DEF TextInv, StartedFirst
  <1>3. \A t \in TextSources :
          \/ source'[t] = source[t] /\ run'[t] = run[t]
          \/ InStep(source'[t], run'[t]) /\ AttemptLeft(run'[t])
    <2> TAKE t \in TextSources
    <2>1. CASE t = s
      <3>1. InStep(source[s], run[s]) /\ run[s] \in RunRow
        BY <2>1 DEF TextInv, RowsFit, TypeOK
      <3>2. /\ source'[s] = source[s]
            /\ run'[s].status = "completed"
            /\ run'[s].step = run[s].step
        BY <1>1, <3>1 DEF RunRow, TextInv, TypeOK
      <3> QED
        BY <1>1, <2>1, <3>1, <3>2 DEF InStep, AttemptLeft, InReview
    <2>2. CASE t # s
      BY <1>1, <2>2 DEF TextInv, TypeOK
    <2> QED
      BY <2>1, <2>2
  <1>4. RowsFit'
    BY <1>3, RowsFitNext DEF TextInv
  <1> QED
    BY <1>1, <1>2, <1>4, TextFrame

\* A request takes its steps: no row changes until it commits, and then no text source.
LEMMA GetStepKeeps ==
  ASSUME TextInv, TypeOK', NEW c \in Clients, GetStep(c)
  PROVE  TextInv'
  <1>1. \A s \in TextSources : s \in Sources
    BY DEF Sources
  <1>2. /\ UNCHANGED <<run, worker>>
        /\ session'.started = session.started
        /\ \A s \in TextSources : source'[s] = source[s]
    <2>1. CASE LoadSession(c) \/ BuildResponse(c)
      BY <2>1 DEF LoadSession, BuildResponse
    <2>2. CASE CommitResponse(c)
      <3>1. request[c].pc = "synced" /\ request[c].update \in Update
        BY <2>2 DEF CommitResponse, TextInv, TypeOK, Request, NoRequest
      <3>2. /\ session'.started = session.started
            /\ \A s \in Sources :
                 source'[s] = IF request[c].update.sources[s] = "keep" THEN source[s]
                              ELSE request[c].update.sources[s]
        BY <2>2, <3>1, WriteEffect DEF CommitResponse, TextInv, TypeOK
      <3> QED
        BY <1>1, <2>2, <3>1, <3>2 DEF CommitResponse, TextInv, RequestsKeepText
    <2> QED
      BY <2>1, <2>2 DEF GetStep
  <1>3. RequestsKeepText'
    <2> SUFFICES ASSUME NEW d \in Clients, NEW s \in TextSources, request'[d].pc = "synced"
                 PROVE  request'[d].update.sources[s] = "keep"
      BY DEF RequestsKeepText
    <2>1. CASE LoadSession(c)
      BY <2>1 DEF LoadSession, TextInv, TypeOK, RequestsKeepText, NoRequest
    <2>2. CASE BuildResponse(c)
      <3>1. CASE d = c
        <4>1. request[c] \in [pc: {"loaded", "synced"}, seen: SessionRow, update: Update]
          BY <2>2 DEF BuildResponse, TextInv, TypeOK, Request, NoRequest
        <4>2. PICK view : view = [session |-> request[c].seen, sources |-> source]
          OBVIOUS
        <4>3. view \in View /\ view.sources = source
          BY <4>1, <4>2 DEF TextInv, TypeOK, View
        <4>4. PICK update : update = SyncSessionStatus(view, source, run)
          OBVIOUS
        <4>5. request'[c].update = update
          BY <2>2, <4>1, <4>2, <4>4 DEF BuildResponse, TextInv, TypeOK
        <4>6. PICK synced : synced = [x \in Sources |-> SyncedSource(x, source[x], run[x].status)]
          OBVIOUS
        <4>7. update.sources[s] =
                IF SyncedSource(s, source[s], run[s].status) = source[s]
                THEN "keep" ELSE SyncedSource(s, source[s], run[s].status)
          BY <1>1, <4>3, <4>4, <4>6, SyncWrites DEF TextInv, TypeOK
        <4>8. InStep(source[s], run[s])
          BY DEF TextInv, RowsFit
        <4> QED
          BY <3>1, <4>5, <4>7, <4>8 DEF SyncedSource, InStep, InReview
      <3>2. CASE d # c
        BY <2>2, <3>2 DEF BuildResponse, TextInv, TypeOK, RequestsKeepText
      <3> QED
        BY <3>1, <3>2
    <2>3. CASE CommitResponse(c)
      BY <2>3 DEF CommitResponse, TextInv, TypeOK, RequestsKeepText, NoRequest
    <2> QED
      BY <2>1, <2>2, <2>3 DEF GetStep
  <1>4. RowsFit'
    BY <1>2, RowsFitNext DEF TextInv
  <1>5. ASSUME NEW w \in Workers PROVE Knows(w)'
    <2>1. worker[w].pc = "text_failing" => source'[worker[w].source] = source[worker[w].source]
      BY <1>2 DEF TextInv, Knows, Idle
    <2> QED
      BY <1>2, <2>1, OthersKnow DEF TextInv
  <1> QED
    BY <1>2, <1>3, <1>4, <1>5 DEF TextInv, StartedFirst, LocksExclude, Locks

-----------------------------------------------------------------------------
(* Steps of workers *)

\* What a step of w owes the others: it changes a text source only under a lock.
LEMMA WorkerFrame ==
  ASSUME TextInv, TypeOK', NEW w \in Workers,
         session.started, session'.started = session.started, UNCHANGED request,
         \A w1 \in Workers \ {w} : worker'[w1] = worker[w1],
         RowsFit', Knows(w)',
         \A s \in TextSources : source'[s] = source[s] \/ Locks(w, s) \/ ~TextLocked(s),
         \A s \in TextSources : Locks(w, s)' => Locks(w, s) \/ ~TextLocked(s)
  PROVE  TextInv'
  <1>1. ASSUME NEW w1 \in Workers PROVE Knows(w1)'
    <2>1. CASE w1 = w
      BY <2>1
    <2>2. CASE w1 # w
      <3>1. ASSUME worker[w1].pc = "text_failing"
            PROVE  source'[worker[w1].source] = source[worker[w1].source]
        <4>1. worker[w1].source \in TextSources
          BY <3>1, WorkerTyped DEF TextInv, Knows, Idle
        <4>2. Locks(w1, worker[w1].source) /\ TextLocked(worker[w1].source)
          BY <3>1 DEF Locks, TextLocked
        <4> QED
          BY <2>2, <4>1, <4>2 DEF TextInv, LocksExclude
      <3> QED
        BY <2>2, <3>1, OthersKnow DEF TextInv
    <2> QED
      BY <2>1, <2>2
  <1>2. LocksExclude'
    <2> SUFFICES ASSUME NEW w1 \in Workers, NEW w2 \in Workers, NEW s \in TextSources,
                        Locks(w1, s)', Locks(w2, s)'
                 PROVE  w1 = w2
      BY DEF LocksExclude
    <2>1. \A w3 \in Workers \ {w} : Locks(w3, s)' => Locks(w3, s) /\ TextLocked(s)
      BY DEF Locks, TextLocked
    <2>2. \A w3, w4 \in Workers : Locks(w3, s) /\ Locks(w4, s) => w3 = w4
      BY DEF TextInv, LocksExclude
    <2> QED
      BY <2>1, <2>2
  <1> QED
    BY <1>1, <1>2 DEF TextInv, StartedFirst, RequestsKeepText

LEMMA ReleaseFrame ==
  ASSUME TextInv, NEW w \in Workers, Release(w)
  PROVE  /\ \A w1 \in Workers \ {w} : worker'[w1] = worker[w1]
         /\ Knows(w)'
         /\ \A s \in TextSources : ~Locks(w, s)'
  BY DEF Release, TextInv, TypeOK, Knows, Locks, Idle

LEMMA GoToFrame ==
  ASSUME TextInv, NEW w \in Workers, NEW pc, NEW s, NEW view, GoTo(w, pc, s, view)
  PROVE  /\ \A w1 \in Workers \ {w} : worker'[w1] = worker[w1]
         /\ worker'[w] = [pc |-> pc, source |-> s, view |-> view]
  BY DEF GoTo, TextInv, TypeOK

LEMMA BusyStarted ==
  ASSUME TextInv, NEW w \in Workers, worker[w].pc # "idle"
  PROVE  worker[w] # Idle /\ session.started
  BY DEF TextInv, StartedFirst, Idle

\* A run that is neither unknown nor new belongs to a started session.
LEMMA RunStarted ==
  ASSUME TextInv, NEW s \in Sources, run[s].status # "none"
  PROVE  session.started
  BY DEF TextInv, StartedFirst

LEMMA ClaimNextTextSourceKeeps ==
  ASSUME TextInv, TypeOK', NEW w \in Workers, NEW s \in Sources, ClaimNextTextSource(w, s)
  PROVE  TextInv'
  <1>1. /\ s \in TextSources
        /\ source[s] = "uploaded"
        /\ run[s].status = "uploaded"
        /\ run[s].step = "discovery_text_pending"
        /\ ~TextLocked(s)
        /\ UNCHANGED <<session, request>>
    BY DEF ClaimNextTextSource
  <1>2. run[s].attempts < MaxAttempts /\ run[s].attempts \in 0..MaxAttempts
    BY <1>1, RowTypes DEF TextInv, RowsFit, AttemptLeft, RunRow
  <1>3. ~(run[s].attempts >= MaxAttempts)
    BY <1>2, MaxAttemptsAssumption
  <1>4. /\ source' = [source EXCEPT ![s] = "processing"]
        /\ SetRun(s, [status |-> "processing", step |-> "discovery_text_extracting",
                      attempts |-> run[s].attempts + 1])
        /\ GoTo(w, "text_claimed", s, [session |-> session, sources |-> source'])
    BY <1>3 DEF ClaimNextTextSource
  <1>5. session.started
    BY <1>1, RunStarted
  <1>6. RowsFit'
    <2>1. source'[s] = "processing"
      BY <1>4 DEF TextInv, TypeOK
    <2>2. run'[s].status = "processing" /\ run'[s].step = "discovery_text_extracting"
      BY <1>4 DEF TextInv, TypeOK, SetRun
    <2>3. InStep(source'[s], run'[s]) /\ AttemptLeft(run'[s])
      BY <2>1, <2>2 DEF InStep, AttemptLeft, InReview
    <2>4. \A t \in TextSources \ {s} : source'[t] = source[t] /\ run'[t] = run[t]
      BY <1>4 DEF TextInv, TypeOK, SetRun, Sources
    <2> QED
      BY <2>3, <2>4, RowsFitNext DEF TextInv
  <1>7. /\ \A w1 \in Workers \ {w} : worker'[w1] = worker[w1]
        /\ worker'[w].pc = "text_claimed"
        /\ worker'[w].source = s
        /\ worker'[w].view.sources[s] = "processing"
    BY <1>4, GoToFrame DEF TextInv, TypeOK
  <1>8. Knows(w)' /\ \A t \in TextSources : ~Locks(w, t)'
    BY <1>1, <1>7 DEF Knows, Locks
  <1>9. \A t \in TextSources : source'[t] = source[t] \/ ~TextLocked(t)
    BY <1>1, <1>4 DEF TextInv, TypeOK
  <1> QED
    BY <1>1, <1>5, <1>6, <1>7, <1>8, <1>9, WorkerFrame

LEMMA BeginTextKeeps ==
  ASSUME TextInv, TypeOK', NEW w \in Workers, BeginText(w)
  PROVE  TextInv'
  <1>1. /\ worker[w].pc = "text_claimed"
        /\ ~TextLocked(worker[w].source)
        /\ UNCHANGED <<session, source, run, request>>
    BY DEF BeginText
  <1>2. worker[w] # Idle /\ session.started
    BY <1>1, BusyStarted
  <1>3. worker[w] \in [pc: WorkerSteps, source: Sources, view: View]
    BY <1>2 DEF TextInv, TypeOK, WorkerState
  <1>4. /\ \A w1 \in Workers \ {w} : worker'[w1] = worker[w1]
        /\ worker'[w].pc = "text_extracting"
        /\ worker'[w].source = worker[w].source
        /\ worker'[w].view = worker[w].view
    BY <1>3 DEF BeginText, TextInv, TypeOK
  <1>5. RowsFit'
    BY <1>1, RowsFitNext DEF TextInv
  <1>6. Knows(w)'
    BY <1>1, <1>2, <1>4 DEF TextInv, Knows
  <1>7. \A s \in TextSources : Locks(w, s)' => ~TextLocked(s)
    BY <1>1, <1>4 DEF Locks
  <1> QED
    BY <1>1, <1>2, <1>4, <1>5, <1>6, <1>7, WorkerFrame

\* A worker that holds a text source's lock settles or requeues it and lets go.
LEMMA TextSettled ==
  ASSUME TextInv, TypeOK', NEW w \in Workers, NEW s \in TextSources, Locks(w, s),
         session'.started = session.started, UNCHANGED request, Release(w),
         InStep(source'[s], run'[s]), AttemptLeft(run'[s]),
         \A t \in TextSources \ {s} : source'[t] = source[t] /\ run'[t] = run[t]
  PROVE  TextInv'
  <1>1. session.started
    BY BusyStarted DEF Locks
  <1>2. RowsFit'
    BY RowsFitNext DEF TextInv
  <1> QED
    BY <1>1, <1>2, ReleaseFrame, WorkerFrame

LEMMA LockedText ==
  ASSUME TextInv, NEW w \in Workers, worker[w].pc \in {"text_extracting", "text_failing"}
  PROVE  /\ worker[w] # Idle
         /\ worker[w].source \in TextSources
         /\ Locks(w, worker[w].source)
  BY WorkerTyped DEF TextInv, Knows, Locks, Idle

LEMMA FinishTextKeeps ==
  ASSUME TextInv, TypeOK', NEW w \in Workers, FinishText(w)
  PROVE  TextInv'
  <1> PICK s : s = worker[w].source
    OBVIOUS
  <1> PICK view : view = worker[w].view
    OBVIOUS
  <1>1. worker[w].pc = "text_extracting" /\ Release(w) /\ UNCHANGED request
    BY DEF FinishText
  <1>2. s \in TextSources /\ Locks(w, s) /\ s \in Sources
    BY <1>1, LockedText DEF Sources
  <1>3. /\ view \in View /\ view.sources \in [Sources -> SourceStatus]
        /\ view.sources[s] = "processing"
    BY <1>1, LockedText, WorkerTyped DEF TextInv, Knows
  <1>4. PICK status \in {"review_ready", "no_data"} :
          /\ run' = [run EXCEPT ![s] = [run[s] EXCEPT !.status = status, !.step = "none"]]
          /\ Write(SyncSessionStatus(view, [view.sources EXCEPT ![s] = "review_ready"], run'))
    BY DEF FinishText
  <1> PICK assigned : assigned = [view.sources EXCEPT ![s] = "review_ready"]
    OBVIOUS
  <1>5. /\ run' \in [Sources -> RunRow]
        /\ assigned \in [Sources -> SourceStatus]
        /\ session \in SessionRow /\ source \in [Sources -> SourceStatus]
        /\ Write(SyncSessionStatus(view, assigned, run'))
    BY <1>3, <1>4 DEF TypeOK, TextInv, SourceStatus
  <1>6. session'.started = session.started
    BY <1>3, <1>5, SyncEffect
  <1>7. run'[s].status = status /\ run'[s].step = "none"
    BY <1>2, <1>4 DEF TextInv, TypeOK, RunRow
  <1>8. SyncedSource(s, assigned[s], run'[s].status) = "review_ready"
    BY <1>7 DEF SyncedSource, InReview
  <1>9. source'[s] = "review_ready"
    BY <1>2, <1>3, <1>5, <1>8, SyncSetsText
  <1>10. InStep(source'[s], run'[s]) /\ AttemptLeft(run'[s])
    BY <1>7, <1>9 DEF InStep, AttemptLeft, InReview
  <1>11. ASSUME NEW t \in TextSources \ {s} PROVE source'[t] = source[t] /\ run'[t] = run[t]
    <2>1. t \in TextSources /\ t \in Sources
      BY DEF Sources
    <2>2. run'[t] = run[t] /\ assigned[t] = view.sources[t]
      BY <1>3, <1>4, <2>1 DEF TextInv, TypeOK
    <2>3. InStep(source[t], run'[t])
      BY <2>2 DEF TextInv, RowsFit
    <2> QED
      BY <1>3, <1>5, <2>1, <2>2, <2>3, SyncKeepsText
  <1> QED
    BY <1>1, <1>2, <1>6, <1>10, <1>11, TextSettled

LEMMA FailTextKeeps ==
  ASSUME TextInv, TypeOK', NEW w \in Workers, FailText(w)
  PROVE  TextInv'
  <1> PICK s : s = worker[w].source
    OBVIOUS
  <1>1. /\ worker[w].pc \in {"text_extracting", "text_claimed"}
        /\ worker[w].pc = "text_claimed" => ~TextLocked(s)
        /\ GoTo(w, "text_failing", s, Current)
        /\ UNCHANGED <<session, source, run, request>>
    BY DEF FailText
  <1>2. worker[w] # Idle /\ session.started
    BY <1>1, BusyStarted
  <1>3. s \in TextSources
    BY <1>1, <1>2 DEF TextInv, Knows
  <1>4. /\ \A w1 \in Workers \ {w} : worker'[w1] = worker[w1]
        /\ worker'[w].pc = "text_failing"
        /\ worker'[w].source = s
        /\ worker'[w].view.sources[s] = source'[s]
    <2>1. /\ \A w1 \in Workers \ {w} : worker'[w1] = worker[w1]
          /\ worker'[w] = [pc |-> "text_failing", source |-> s, view |-> Current]
      BY <1>1, GoToFrame
    <2>2. Current.sources[s] = source'[s]
      BY <1>1 DEF Current
    <2> QED
      BY <2>1, <2>2
  <1>5. RowsFit'
    BY <1>1, RowsFitNext DEF TextInv
  <1>6. Knows(w)'
    BY <1>3, <1>4 DEF Knows
  <1>7. \A t \in TextSources : Locks(w, t)' => Locks(w, t) \/ ~TextLocked(t)
    BY <1>1, <1>4 DEF Locks
  <1> QED
    BY <1>1, <1>2, <1>4, <1>5, <1>6, <1>7, WorkerFrame

LEMMA HandleTextProcessingFailureKeeps ==
  ASSUME TextInv, TypeOK', NEW w \in Workers, HandleTextProcessingFailure(w)
  PROVE  TextInv'
  <1> PICK s : s = worker[w].source
    OBVIOUS
  <1> PICK view : view = worker[w].view
    OBVIOUS
  <1>1. worker[w].pc = "text_failing" /\ Release(w) /\ UNCHANGED request
    BY DEF HandleTextProcessingFailure
  <1>2. s \in TextSources /\ Locks(w, s) /\ s \in Sources
    BY <1>1, LockedText DEF Sources
  <1>3. /\ view \in View /\ view.sources \in [Sources -> SourceStatus]
        /\ view.sources[s] = source[s]
    BY <1>1, LockedText, WorkerTyped DEF TextInv, Knows
  <1>4. PICK again \in BOOLEAN, known \in {"uploaded", "failed"} :
          /\ again => run[s].attempts < MaxAttempts
          /\ known = IF again THEN "uploaded" ELSE "failed"
          /\ run' = [run EXCEPT ![s] = IF again THEN PendingRow(s) ELSE FailedRow(s)]
          /\ Write(SyncSessionStatus(view, [view.sources EXCEPT ![s] = known], run'))
    BY DEF HandleTextProcessingFailure, CanRetry
  <1> PICK assigned : assigned = [view.sources EXCEPT ![s] = known]
    OBVIOUS
  <1>5. /\ run' \in [Sources -> RunRow]
        /\ assigned \in [Sources -> SourceStatus]
        /\ session \in SessionRow /\ source \in [Sources -> SourceStatus]
        /\ Write(SyncSessionStatus(view, assigned, run'))
    BY <1>3, <1>4 DEF TypeOK, TextInv, SourceStatus
  <1>6. session'.started = session.started
    BY <1>3, <1>5, SyncEffect
  <1>7. run'[s] = IF again THEN PendingRow(s) ELSE FailedRow(s)
    BY <1>2, <1>4 DEF TextInv, TypeOK
  <1>8. /\ run'[s].status = known
        /\ run'[s].step = IF again THEN "discovery_text_pending" ELSE "none"
        /\ run'[s].attempts = run[s].attempts
    BY <1>2, <1>4, <1>7 DEF TextInv, TypeOK, RunRow, PendingRow, FailedRow
  <1>9. assigned[s] = known
    BY <1>2, <1>3
  <1>10. SyncedSource(s, assigned[s], run'[s].status) = known
    BY <1>2, <1>4, <1>8, <1>9 DEF SyncedSource, InReview
  <1>11. source'[s] = known
    BY <1>2, <1>3, <1>5, <1>10, SyncSetsText
  <1>12. InStep(source'[s], run'[s]) /\ AttemptLeft(run'[s])
    BY <1>4, <1>8, <1>11 DEF InStep, AttemptLeft, InReview
  <1>13. ASSUME NEW t \in TextSources \ {s} PROVE source'[t] = source[t] /\ run'[t] = run[t]
    <2>1. t \in TextSources /\ t \in Sources
      BY DEF Sources
    <2>2. run'[t] = run[t] /\ assigned[t] = view.sources[t]
      BY <1>3, <1>4, <2>1 DEF TextInv, TypeOK
    <2>3. InStep(source[t], run'[t])
      BY <2>2 DEF TextInv, RowsFit
    <2> QED
      BY <1>3, <1>5, <2>1, <2>2, <2>3, SyncKeepsText
  <1> QED
    BY <1>1, <1>2, <1>6, <1>12, <1>13, TextSettled

LEMMA RequeueStaleTextSourceKeeps ==
  ASSUME TextInv, TypeOK', NEW w \in Workers, NEW s \in Sources, RequeueStaleTextSource(w, s)
  PROVE  TextInv'
  <1>1. /\ s \in TextSources
        /\ source[s] = "processing"
        /\ ~TextLocked(s)
        /\ UNCHANGED <<worker, request>>
    BY DEF RequeueStaleTextSource
  <1>2. session.started
    BY <1>1, RunStarted DEF TextInv, RowsFit, InStep
  <1>3. /\ session'.started = session.started
        /\ InStep(source'[s], run'[s]) /\ AttemptLeft(run'[s])
        /\ \A t \in TextSources \ {s} : source'[t] = source[t] /\ run'[t] = run[t]
    <2>1. CASE run[s].attempts >= MaxAttempts
      <3>1. PICK assigned : assigned = [source EXCEPT ![s] = "failed"]
        OBVIOUS
      <3>2. PICK view : view = Current
        OBVIOUS
      <3>3. /\ run' = [run EXCEPT ![s] = FailedRow(s)]
            /\ Write(SyncSessionStatus(view, assigned, run'))
        BY <2>1, <3>1, <3>2 DEF RequeueStaleTextSource
      <3>4. /\ run' \in [Sources -> RunRow]
            /\ assigned \in [Sources -> SourceStatus]
            /\ session \in SessionRow /\ source \in [Sources -> SourceStatus]
            /\ Write(SyncSessionStatus(view, assigned, run'))
        BY <3>3, <3>1 DEF TypeOK, TextInv, SourceStatus
      <3>5. view \in View /\ \A x \in Sources : view.sources[x] = source[x]
        BY <3>2, CurrentType DEF Current, TextInv
      <3>6. session'.started = session.started
        BY <3>4, <3>5, SyncEffect
      <3>7. run'[s].status = "failed" /\ run'[s].step = "none"
        BY <3>3 DEF TextInv, TypeOK, RunRow, FailedRow
      <3>8. SyncedSource(s, assigned[s], run'[s].status) = "failed"
        BY <3>7 DEF SyncedSource, InReview
      <3>9. source'[s] = "failed"
        <4>1. view.sources[s] = source[s]
          BY <3>5
        <4> QED
          BY <1>1, <3>4, <3>5, <3>8, <4>1, SyncSetsText
      <3>10. InStep(source'[s], run'[s]) /\ AttemptLeft(run'[s])
        BY <3>7, <3>9 DEF InStep, AttemptLeft, InReview
      <3>11. ASSUME NEW t \in TextSources \ {s} PROVE source'[t] = source[t] /\ run'[t] = run[t]
        <4>1. t \in TextSources /\ t \in Sources
          BY DEF Sources
        <4>2. run'[t] = run[t] /\ assigned[t] = view.sources[t]
          BY <3>3, <3>4, <3>5, <3>1, <4>1 DEF TextInv, TypeOK
        <4>3. InStep(source[t], run'[t])
          BY <4>2 DEF TextInv, RowsFit
        <4> QED
          BY <3>4, <3>5, <4>1, <4>2, <4>3, SyncKeepsText
      <3> QED
        BY <3>6, <3>10, <3>11
    <2>2. CASE ~(run[s].attempts >= MaxAttempts)
      <3>1. /\ run' = [run EXCEPT ![s] = PendingRow(s)]
            /\ source' = [source EXCEPT ![s] = "uploaded"]
            /\ UNCHANGED session
        BY <2>2 DEF RequeueStaleTextSource, SetRun
      <3>2. run[s] \in RunRow /\ run[s].attempts \in 0..MaxAttempts
        BY RowTypes DEF TextInv, RunRow
      <3>3. run[s].attempts < MaxAttempts
        BY <2>2, <3>2, MaxAttemptsAssumption
      <3>4. /\ source'[s] = "uploaded"
            /\ run'[s].status = "uploaded"
            /\ run'[s].step = "discovery_text_pending"
            /\ run'[s].attempts = run[s].attempts
        BY <3>1, <3>2 DEF TextInv, TypeOK, RunRow, PendingRow
      <3>5. InStep(source'[s], run'[s]) /\ AttemptLeft(run'[s])
        BY <3>3, <3>4 DEF InStep, AttemptLeft, InReview
      <3>6. \A t \in TextSources \ {s} : source'[t] = source[t] /\ run'[t] = run[t]
        BY <3>1 DEF TextInv, TypeOK, Sources
      <3> QED
        BY <3>1, <3>5, <3>6
    <2> QED
      BY <2>1, <2>2
  <1>4. RowsFit'
    BY <1>3, RowsFitNext DEF TextInv
  <1>5. Knows(w)' /\ \A t \in TextSources : ~Locks(w, t)'
    BY <1>1 DEF RequeueStaleTextSource, Knows, Locks, Idle
  <1> QED
    BY <1>1, <1>2, <1>3, <1>4, <1>5, WorkerFrame

\* The run queue's steps change runs of files and audio only.
LEMMA RunStepKeeps ==
  ASSUME TextInv, TypeOK', NEW w \in Workers, NEW s \in Sources, s \notin TextSources,
         session.started, session'.started = session.started, UNCHANGED request,
         \A w1 \in Workers \ {w} : worker'[w1] = worker[w1], Knows(w)',
         \A t \in TextSources : ~Locks(w, t)',
         \A t \in TextSources : source'[t] = source[t],
         \A t \in Sources \ {s} : run'[t] = run[t]
  PROVE  TextInv'
  <1>1. \A t \in TextSources : t \in Sources \ {s}
    BY DEF Sources
  <1>2. RowsFit'
    BY <1>1, RowsFitNext DEF TextInv
  <1> QED
    BY <1>2, WorkerFrame

LEMMA ClaimNextRunKeeps ==
  ASSUME TextInv, TypeOK', NEW w \in Workers, NEW s \in Sources, ClaimNextRun(w, s)
  PROVE  TextInv'
  <1>1. /\ run[s].status = "uploaded"
        /\ run[s].step # "discovery_text_pending"
        /\ \A t \in Sources \ {s} : run'[t] = run[t]
        /\ GoTo(w, "run_busy", s, NoView)
        /\ UNCHANGED <<session, source, request>>
    BY DEF ClaimNextRun, Claimable, SetRun, TextInv, TypeOK
  <1>2. s \notin TextSources
    BY <1>1 DEF TextInv, RowsFit, InStep
  <1>3. session.started
    BY <1>1, RunStarted
  <1>4. /\ \A w1 \in Workers \ {w} : worker'[w1] = worker[w1]
        /\ worker'[w].pc = "run_busy"
        /\ worker'[w].source = s
    <2>1. /\ \A w1 \in Workers \ {w} : worker'[w1] = worker[w1]
          /\ worker'[w] = [pc |-> "run_busy", source |-> s, view |-> NoView]
      BY <1>1, GoToFrame
    <2> QED
      BY <2>1
  <1>5. Knows(w)' /\ \A t \in TextSources : ~Locks(w, t)'
    BY <1>2, <1>4 DEF Knows, Locks
  <1> QED
    BY <1>1, <1>2, <1>3, <1>4, <1>5, RunStepKeeps

LEMMA EndRunKeeps ==
  ASSUME TextInv, TypeOK', NEW w \in Workers, EndRun(w)
  PROVE  TextInv'
  <1>1. /\ worker[w].pc = "run_busy"
        /\ GoTo(w, "run_ending", worker[w].source, Current)
        /\ UNCHANGED <<session, source, run, request>>
    BY DEF EndRun
  <1>2. worker[w] # Idle /\ session.started
    BY <1>1, BusyStarted
  <1>3. worker[w].source \in Sources /\ worker[w].source \notin TextSources
    BY <1>1, <1>2, WorkerTyped DEF TextInv, Knows
  <1>4. /\ \A w1 \in Workers \ {w} : worker'[w1] = worker[w1]
        /\ worker'[w].pc = "run_ending"
        /\ worker'[w].source = worker[w].source
    <2>1. /\ \A w1 \in Workers \ {w} : worker'[w1] = worker[w1]
          /\ worker'[w] = [pc |-> "run_ending", source |-> worker[w].source, view |-> Current]
      BY <1>1, GoToFrame
    <2> QED
      BY <2>1
  <1>5. Knows(w)' /\ \A t \in TextSources : ~Locks(w, t)'
    BY <1>3, <1>4 DEF Knows, Locks
  <1> QED
    BY <1>1, <1>2, <1>3, <1>4, <1>5, RunStepKeeps

LEMMA FinishRunKeeps ==
  ASSUME TextInv, TypeOK', NEW w \in Workers, FinishRun(w)
  PROVE  TextInv'
  <1>1. PICK s, view : s = worker[w].source /\ view = worker[w].view
    OBVIOUS
  <1>2. worker[w].pc = "run_ending" /\ Release(w) /\ UNCHANGED request
    BY DEF FinishRun
  <1>3. worker[w] # Idle /\ session.started
    BY <1>2, BusyStarted
  <1>4. s \in Sources /\ s \notin TextSources
    BY <1>1, <1>2, <1>3, WorkerTyped DEF TextInv, Knows
  <1>5. view \in View /\ view.sources \in [Sources -> SourceStatus]
    BY <1>1, <1>3, WorkerTyped DEF TextInv
  <1>6. /\ \A t \in Sources \ {s} : run'[t] = run[t]
        /\ Write(SyncSessionStatus(view, view.sources, run'))
    BY <1>1 DEF FinishRun, TextInv, TypeOK
  <1>7. /\ run' \in [Sources -> RunRow]
        /\ session \in SessionRow /\ source \in [Sources -> SourceStatus]
    BY DEF TypeOK, TextInv
  <1>8. session'.started = session.started
    BY <1>5, <1>6, <1>7, SyncEffect
  <1>9. ASSUME NEW t \in TextSources PROVE source'[t] = source[t]
    <2>1. t \in Sources /\ run'[t] = run[t]
      BY <1>4, <1>6 DEF Sources
    <2>2. InStep(source[t], run'[t])
      BY <2>1 DEF TextInv, RowsFit
    <2> QED
      BY <1>5, <1>6, <1>7, <2>2, SyncKeepsText
  <1> QED
    BY <1>2, <1>3, <1>4, <1>6, <1>8, <1>9, ReleaseFrame, RunStepKeeps

LEMMA ReaperRunKeeps ==
  ASSUME TextInv, TypeOK', NEW w \in Workers, NEW s \in Sources,
         RequeueStaleRun(w, s) \/ FailExhaustedRun(w, s)
  PROVE  TextInv'
  <1>1. /\ run[s].status \in {"uploaded", "processing"}
        /\ s \notin TextSources
        /\ \A t \in Sources \ {s} : run'[t] = run[t]
        /\ UNCHANGED <<worker, request>>
        /\ worker[w] = Idle
    <2>1. CASE RequeueStaleRun(w, s)
      BY <2>1 DEF RequeueStaleRun, SetRun, TextInv, TypeOK, RowsFit, InStep
    <2>2. CASE FailExhaustedRun(w, s)
      BY <2>2 DEF FailExhaustedRun, TextInv, TypeOK, RowsFit, InStep, TextSteps
    <2> QED
      BY <2>1, <2>2
  <1>2. session.started
    BY <1>1, RunStarted
  <1>3. Knows(w)' /\ \A t \in TextSources : ~Locks(w, t)'
    BY <1>1 DEF Knows, Locks, Idle
  <1>4. /\ session'.started = session.started
        /\ \A t \in TextSources : source'[t] = source[t]
    <2>1. CASE RequeueStaleRun(w, s)
      BY <2>1 DEF RequeueStaleRun
    <2>2. CASE FailExhaustedRun(w, s)
      <3>1. PICK view : view = Current
        OBVIOUS
      <3>2. view \in View /\ \A t \in Sources : view.sources[t] = source[t]
        BY <3>1, CurrentType DEF TextInv, Current
      <3>3. /\ run' \in [Sources -> RunRow]
            /\ session \in SessionRow /\ source \in [Sources -> SourceStatus]
            /\ Write(SyncSessionStatus(view, source, run'))
        BY <2>2, <3>1 DEF FailExhaustedRun, TypeOK, TextInv
      <3>4. session'.started = session.started
        BY <3>2, <3>3, SyncEffect
      <3>5. ASSUME NEW t \in TextSources PROVE source'[t] = source[t]
        <4>1. t \in Sources /\ run'[t] = run[t] /\ view.sources[t] = source[t]
          BY <1>1, <3>2 DEF Sources
        <4>2. InStep(source[t], run'[t])
          BY <4>1 DEF TextInv, RowsFit
        <4> QED
          BY <3>2, <3>3, <4>1, <4>2, SyncKeepsText
      <3> QED
        BY <3>4, <3>5
    <2> QED
      BY <2>1, <2>2
  <1> QED
    BY <1>1, <1>2, <1>3, <1>4, RunStepKeeps

LEMMA CrashKeeps ==
  ASSUME TextInv, TypeOK', NEW w \in Workers, Crash(w)
  PROVE  TextInv'
  <1>1. worker[w] # Idle /\ Release(w) /\ UNCHANGED <<session, source, run, request>>
    BY DEF Crash
  <1>2. session.started
    BY <1>1 DEF TextInv, StartedFirst
  <1>3. RowsFit'
    BY <1>1, RowsFitNext DEF TextInv
  <1> QED
    BY <1>1, <1>2, <1>3, ReleaseFrame, WorkerFrame

LEMMA NextTextInv ==
  ASSUME TextInv, [Next]_vars
  PROVE  TextInv'
  <1>1. TypeOK'
    BY NextTypeOK DEF TextInv
  <1>2. CASE UserStep
    BY <1>1, <1>2, AddSourceKeeps, RetryVoiceInterviewKeeps, CompleteRunKeeps,
       StartSessionKeeps, StartAgainKeeps
    DEF UserStep
  <1>3. ASSUME NEW c \in Clients, GetStep(c) PROVE TextInv'
    BY <1>1, <1>3, GetStepKeeps
  <1>4. ASSUME NEW w \in Workers, TextStep(w) PROVE TextInv'
    BY <1>1, <1>4, BeginTextKeeps, FinishTextKeeps, FailTextKeeps,
       HandleTextProcessingFailureKeeps
    DEF TextStep
  <1>5. ASSUME NEW w \in Workers, EndRun(w) \/ FinishRun(w) PROVE TextInv'
    BY <1>1, <1>5, EndRunKeeps, FinishRunKeeps
  <1>6. ASSUME NEW w \in Workers, LoopStep(w) PROVE TextInv'
    BY <1>1, <1>6, ClaimNextTextSourceKeeps, ClaimNextRunKeeps, RequeueStaleTextSourceKeeps,
       ReaperRunKeeps
    DEF LoopStep
  <1>7. ASSUME NEW w \in Workers, Crash(w) PROVE TextInv'
    BY <1>1, <1>7, CrashKeeps
  <1>8. CASE UNCHANGED vars
    <2>1. UNCHANGED <<session, source, run, worker, request>>
      BY <1>8 DEF vars
    <2> QED
      BY <1>1, <2>1 DEF TextInv, RowsFit, InStep, AttemptLeft, StartedFirst, Knows, LocksExclude, Locks,
         RequestsKeepText
  <1> QED
    BY <1>2, <1>3, <1>4, <1>5, <1>6, <1>7, <1>8 DEF Next, WorkerStep

\* For any number of workers and requests, a text source and its run agree.
THEOREM TextStaysInStep == Spec => []TextInStep
  <1>1. Init => TextInv
    BY InitTextInv
  <1>2. TextInv /\ [Next]_vars => TextInv'
    BY NextTextInv
  <1>3. TextInv => TextInStep
    BY TextInvParts DEF TextInv
  <1> QED
    BY <1>1, <1>2, <1>3, PTL DEF Spec

\* The branch of the claim that fails a text source is dead code.
THEOREM TextKeepsAnAttempt == Spec => []QueuedTextHasAttemptLeft
  <1>1. Init => TextInv
    BY InitTextInv
  <1>2. TextInv /\ [Next]_vars => TextInv'
    BY NextTextInv
  <1>3. TextInv => QueuedTextHasAttemptLeft
    BY TextInvParts DEF TextInv
  <1> QED
    BY <1>1, <1>2, <1>3, PTL DEF Spec

-----------------------------------------------------------------------------
(* One worker: every run follows the lifecycle of an import run *)

SoleWorker == \A v, w \in Workers : v = w

\* A source without a run has spent no attempt.
NewRuns == \A s \in Sources : run[s].status = "none" => run[s] = NoRunRow

\* File and audio runs stay out of the text queue and have an attempt left to wait for.
RunsFit == \A s \in Sources \ TextSources : run[s].step = "none" /\ AttemptLeft(run[s])

\* What the worker holds is being processed: the reaper is the same process.
OnProcessing == \A w \in Workers : worker[w] # Idle => run[worker[w].source].status = "processing"

QueueInv == TextInv /\ NewRuns /\ RunsFit /\ OnProcessing

\* What one step makes of the row of a run.
Claimed(old, new) ==
  /\ old.status = "uploaded"
  /\ old.attempts < MaxAttempts
  /\ new.status = "processing"
  /\ new.attempts = old.attempts + 1

Ended(s, old, new) ==
  /\ old.status = "processing"
  /\ new.attempts = old.attempts
  /\ \/ new.status = "uploaded" /\ old.attempts < MaxAttempts
     \/ new.status \in {"review_ready", "failed"}
     \/ new.status = "no_data" /\ s \notin AudioSources

Retried(s, old, new) ==
  /\ s \in AudioSources
  /\ old.status = "failed"
  /\ old.attempts < MaxAttempts
  /\ new.status = "uploaded"
  /\ new.attempts = old.attempts
  /\ s \in retried'

Completed(old, new) ==
  /\ old.status = "review_ready"
  /\ new.status = "completed"
  /\ new.attempts = old.attempts

Moved(s, old, new) ==
  Claimed(old, new) \/ Ended(s, old, new) \/ Retried(s, old, new) \/ Completed(old, new)

\* The step moves this run and no other, and leaves it in its queue.
OneMoves(s) ==
  /\ Moved(s, run[s], run'[s])
  /\ \A x \in Sources \ {s} : run'[x] = run[x]
  /\ s \notin TextSources => run'[s].step = run[s].step

LEMMA RowReplaced ==
  ASSUME TypeOK, NEW s \in Sources, NEW row, run' = [run EXCEPT ![s] = row]
  PROVE  /\ run'[s] = row
         /\ \A x \in Sources \ {s} : run'[x] = run[x]
  BY DEF TypeOK

LEMMA BusyRun ==
  ASSUME QueueInv, NEW w \in Workers, worker[w].pc # "idle"
  PROVE  /\ worker[w].source \in Sources
         /\ run[worker[w].source] \in RunRow
         /\ run[worker[w].source].status = "processing"
         /\ worker[w].pc \in {"run_busy", "run_ending"} <=> worker[w].source \notin TextSources
  <1>1. worker[w] # Idle
    BY DEF Idle
  <1> QED
    BY <1>1, WorkerTyped DEF QueueInv, OnProcessing, TextInv, Knows

LEMMA TextIsNotAudio == \A s \in TextSources : s \notin AudioSources
  BY SourcesAssumption

\* A run that is requeued, failed or claimed by this worker's loop, for each kind of run.
LEMMA LoopMoves ==
  ASSUME QueueInv, NEW w \in Workers, NEW s \in Sources,
         \/ ClaimNextTextSource(w, s)
         \/ ClaimNextRun(w, s)
         \/ RequeueStaleTextSource(w, s)
         \/ RequeueStaleRun(w, s)
         \/ FailExhaustedRun(w, s)
  PROVE  OneMoves(s)
  <1>1. TypeOK /\ run[s] \in RunRow /\ run[s].attempts \in 0..MaxAttempts
    BY RowTypes DEF QueueInv, TextInv, RunRow
  <1>2. CASE ClaimNextTextSource(w, s)
    <2>1. s \in TextSources /\ run[s].status = "uploaded"
      BY <1>2 DEF ClaimNextTextSource
    <2>2. run[s].attempts < MaxAttempts
      BY <2>1 DEF QueueInv, TextInv, RowsFit, AttemptLeft
    <2>3. ~(run[s].attempts >= MaxAttempts)
      BY <1>1, <2>2, MaxAttemptsAssumption
    <2>4. run' = [run EXCEPT ![s] = [status |-> "processing", step |-> "discovery_text_extracting",
                                     attempts |-> run[s].attempts + 1]]
      BY <1>2, <2>3 DEF ClaimNextTextSource, SetRun
    <2>5. /\ run'[s] = [status |-> "processing", step |-> "discovery_text_extracting",
                         attempts |-> run[s].attempts + 1]
          /\ \A x \in Sources \ {s} : run'[x] = run[x]
      BY <1>1, <2>4, RowReplaced
    <2>6. run'[s].status = "processing" /\ run'[s].attempts = run[s].attempts + 1
      BY <2>5
    <2> QED
      BY <2>1, <2>2, <2>5, <2>6 DEF OneMoves, Moved, Claimed
  <1>3. CASE ClaimNextRun(w, s)
    <2>1. /\ run[s].status = "uploaded" /\ run[s].attempts < MaxAttempts
          /\ run' = [run EXCEPT ![s] = [run[s] EXCEPT !.status = "processing",
                                                      !.attempts = run[s].attempts + 1]]
      BY <1>3 DEF ClaimNextRun, Claimable, SetRun
    <2>2. /\ run'[s] = [run[s] EXCEPT !.status = "processing", !.attempts = run[s].attempts + 1]
          /\ \A x \in Sources \ {s} : run'[x] = run[x]
      BY <1>1, <2>1, RowReplaced
    <2>3. /\ run'[s].status = "processing" /\ run'[s].attempts = run[s].attempts + 1
          /\ run'[s].step = run[s].step
      BY <1>1, <2>2 DEF RunRow
    <2> QED
      BY <2>1, <2>2, <2>3 DEF OneMoves, Moved, Claimed
  <1>4. CASE RequeueStaleTextSource(w, s)
    <2>1. s \in TextSources /\ s \notin AudioSources /\ run[s].status = "processing"
      BY <1>4, TextIsNotAudio DEF RequeueStaleTextSource, QueueInv, TextInv, RowsFit, InStep
    <2>2. \/ run' = [run EXCEPT ![s] = FailedRow(s)]
          \/ ~(run[s].attempts >= MaxAttempts) /\ run' = [run EXCEPT ![s] = PendingRow(s)]
      BY <1>4 DEF RequeueStaleTextSource, SetRun
    <2>3. /\ run'[s].attempts = run[s].attempts
          /\ \/ run'[s].status = "failed"
             \/ run'[s].status = "uploaded" /\ run[s].attempts < MaxAttempts
          /\ \A x \in Sources \ {s} : run'[x] = run[x]
      <3>1. CASE run' = [run EXCEPT ![s] = FailedRow(s)]
        <4>1. run'[s] = FailedRow(s) /\ \A x \in Sources \ {s} : run'[x] = run[x]
          BY <1>1, <3>1, RowReplaced
        <4> QED
          BY <1>1, <4>1 DEF FailedRow, RunRow
      <3>2. CASE ~(run[s].attempts >= MaxAttempts) /\ run' = [run EXCEPT ![s] = PendingRow(s)]
        <4>1. run[s].attempts < MaxAttempts
          BY <1>1, <3>2, MaxAttemptsAssumption
        <4>2. run'[s] = PendingRow(s) /\ \A x \in Sources \ {s} : run'[x] = run[x]
          BY <1>1, <3>2, RowReplaced
        <4> QED
          BY <1>1, <4>1, <4>2 DEF PendingRow, RunRow
      <3> QED
        BY <2>2, <3>1, <3>2
    <2> QED
      BY <2>1, <2>3 DEF OneMoves, Moved, Ended
  <1>5. CASE RequeueStaleRun(w, s)
    <2>1. /\ run[s].status = "processing" /\ run[s].attempts < MaxAttempts
          /\ run' = [run EXCEPT ![s] = [run[s] EXCEPT !.status = "uploaded"]]
      BY <1>5 DEF RequeueStaleRun, SetRun
    <2>2. /\ run'[s].status = "uploaded" /\ run'[s].attempts = run[s].attempts
          /\ run'[s].step = run[s].step
          /\ \A x \in Sources \ {s} : run'[x] = run[x]
      <3>1. /\ run'[s] = [run[s] EXCEPT !.status = "uploaded"]
            /\ \A x \in Sources \ {s} : run'[x] = run[x]
        BY <1>1, <2>1, RowReplaced
      <3> QED
        BY <1>1, <2>1, <3>1 DEF RunRow
    <2> QED
      BY <2>1, <2>2 DEF OneMoves, Moved, Ended
  <1>6. CASE FailExhaustedRun(w, s)
    <2>1. /\ run[s].status \in {"uploaded", "processing"} /\ run[s].step \notin TextSteps
          /\ run[s].attempts >= MaxAttempts
          /\ run' = [run EXCEPT ![s] = [run[s] EXCEPT !.status = "failed"]]
      BY <1>6 DEF FailExhaustedRun
    <2>2. ~(run[s].attempts < MaxAttempts)
      BY <1>1, <2>1, MaxAttemptsAssumption
    <2>3. run[s].status = "processing"
      <3>1. CASE s \in TextSources
        BY <2>1, <2>2, <3>1 DEF QueueInv, TextInv, RowsFit, AttemptLeft
      <3>2. CASE s \notin TextSources
        BY <2>1, <2>2, <3>2 DEF QueueInv, RunsFit, AttemptLeft
      <3> QED
        BY <3>1, <3>2
    <2>4. /\ run'[s].status = "failed" /\ run'[s].attempts = run[s].attempts
          /\ run'[s].step = run[s].step
          /\ \A x \in Sources \ {s} : run'[x] = run[x]
      <3>1. /\ run'[s] = [run[s] EXCEPT !.status = "failed"]
            /\ \A x \in Sources \ {s} : run'[x] = run[x]
        BY <1>1, <2>1, RowReplaced
      <3> QED
        BY <1>1, <2>1, <3>1 DEF RunRow
    <2> QED
      BY <2>3, <2>4 DEF OneMoves, Moved, Ended
  <1> QED
    BY <1>2, <1>3, <1>4, <1>5, <1>6

\* The transaction that ends an attempt.
LEMMA EndMoves ==
  ASSUME QueueInv, NEW w \in Workers,
         FinishText(w) \/ HandleTextProcessingFailure(w) \/ FinishRun(w)
  PROVE  OneMoves(worker[w].source)
  <1> PICK s : s = worker[w].source
    OBVIOUS
  <1>1. worker[w].pc # "idle"
    BY DEF FinishText, HandleTextProcessingFailure, FinishRun
  <1>2. TypeOK /\ s \in Sources /\ run[s] \in RunRow /\ run[s].status = "processing"
    BY <1>1, BusyRun DEF QueueInv, TextInv
  <1>3. CASE FinishText(w)
    <2>1. s \in TextSources /\ s \notin AudioSources
      BY <1>1, <1>3, BusyRun, TextIsNotAudio DEF FinishText
    <2>2. PICK status \in {"review_ready", "no_data"} :
            run' = [run EXCEPT ![s] = [run[s] EXCEPT !.status = status, !.step = "none"]]
      BY <1>3 DEF FinishText
    <2>3. /\ run'[s].status = status /\ run'[s].attempts = run[s].attempts
          /\ \A x \in Sources \ {s} : run'[x] = run[x]
      <3>1. /\ run'[s] = [run[s] EXCEPT !.status = status, !.step = "none"]
            /\ \A x \in Sources \ {s} : run'[x] = run[x]
        BY <1>2, <2>2, RowReplaced
      <3> QED
        BY <1>2, <3>1 DEF RunRow
    <2> QED
      BY <1>2, <2>1, <2>3 DEF OneMoves, Moved, Ended
  <1>4. CASE HandleTextProcessingFailure(w)
    <2>1. s \in TextSources /\ s \notin AudioSources
      BY <1>1, <1>4, BusyRun, TextIsNotAudio DEF HandleTextProcessingFailure
    <2>2. PICK again \in BOOLEAN :
            /\ again => run[s].attempts < MaxAttempts
            /\ run' = [run EXCEPT ![s] = IF again THEN PendingRow(s) ELSE FailedRow(s)]
      BY <1>4 DEF HandleTextProcessingFailure, CanRetry
    <2>3. /\ run'[s].status = (IF again THEN "uploaded" ELSE "failed")
          /\ run'[s].attempts = run[s].attempts
          /\ \A x \in Sources \ {s} : run'[x] = run[x]
      <3>1. /\ run'[s] = IF again THEN PendingRow(s) ELSE FailedRow(s)
            /\ \A x \in Sources \ {s} : run'[x] = run[x]
        BY <1>2, <2>2, RowReplaced
      <3> QED
        BY <1>2, <3>1 DEF RunRow, PendingRow, FailedRow
    <2> QED
      BY <1>2, <2>1, <2>2, <2>3 DEF OneMoves, Moved, Ended
  <1>5. CASE FinishRun(w)
    <2>1. PICK status \in Outcomes(s) : run' = [run EXCEPT ![s] = [run[s] EXCEPT !.status = status]]
      BY <1>5 DEF FinishRun
    <2>2. /\ run'[s].status = status /\ run'[s].attempts = run[s].attempts
          /\ run'[s].step = run[s].step
          /\ \A x \in Sources \ {s} : run'[x] = run[x]
      <3>1. /\ run'[s] = [run[s] EXCEPT !.status = status]
            /\ \A x \in Sources \ {s} : run'[x] = run[x]
        BY <1>2, <2>1, RowReplaced
      <3> QED
        BY <1>2, <2>1, <3>1 DEF RunRow
    <2>3. \/ status \in {"review_ready", "failed"}
          \/ status = "no_data" /\ s \notin AudioSources
          \/ status = "uploaded" /\ run[s].attempts < MaxAttempts
      BY SourcesAssumption DEF Outcomes, CanRetry
    <2> QED
      BY <1>2, <2>2, <2>3 DEF OneMoves, Moved, Ended
  <1> QED
    BY <1>3, <1>4, <1>5

LEMMA UserMoves ==
  ASSUME QueueInv, NEW s \in Sources, RetryVoiceInterview(s) \/ CompleteRun(s)
  PROVE  OneMoves(s)
  <1>1. TypeOK /\ run[s] \in RunRow
    BY RowTypes DEF QueueInv, TextInv
  <1>2. PICK status : run' = [run EXCEPT ![s] = [run[s] EXCEPT !.status = status]]
    BY DEF RetryVoiceInterview, CompleteRun, SetRun
  <1>3. /\ run'[s].status = status /\ run'[s].attempts = run[s].attempts
        /\ run'[s].step = run[s].step
        /\ \A x \in Sources \ {s} : run'[x] = run[x]
    <2>1. /\ run'[s] = [run[s] EXCEPT !.status = status]
          /\ \A x \in Sources \ {s} : run'[x] = run[x]
      BY <1>1, <1>2, RowReplaced
    <2> QED
      BY <1>1, <1>2, <2>1 DEF RunRow
  <1>4. run'[s].status = IF CompleteRun(s) THEN "completed" ELSE "uploaded"
    BY <1>1 DEF RetryVoiceInterview, CompleteRun, SetRun, TypeOK, RunRow
  <1> QED
    BY <1>3, <1>4 DEF RetryVoiceInterview, CompleteRun, OneMoves, Moved, Retried, Completed

LEMMA NextMoves ==
  ASSUME QueueInv, Next
  PROVE  UNCHANGED run \/ StartSession \/ \E s \in Sources : OneMoves(s)
  <1>1. ASSUME NEW w \in Workers, TextStep(w) \/ EndRun(w) \/ FinishRun(w)
        PROVE  \/ UNCHANGED run
               \/ worker[w].source \in Sources /\ OneMoves(worker[w].source)
    <2>1. worker[w].pc # "idle"
      BY <1>1 DEF TextStep, BeginText, FinishText, FailText, HandleTextProcessingFailure,
         EndRun, FinishRun
    <2> QED
      BY <1>1, <2>1, BusyRun, EndMoves DEF TextStep, BeginText, FailText, EndRun
  <1>2. ASSUME NEW w \in Workers, LoopStep(w) PROVE \E s \in Sources : OneMoves(s)
    BY <1>2, LoopMoves DEF LoopStep
  <1>3. CASE UserStep
    BY <1>3, UserMoves DEF UserStep, AddSource, StartAgain
  <1>4. ASSUME NEW c \in Clients, GetStep(c) PROVE UNCHANGED run
    BY <1>4 DEF GetStep, LoadSession, BuildResponse, CommitResponse
  <1>5. ASSUME NEW w \in Workers, Crash(w) PROVE UNCHANGED run
    BY <1>5 DEF Crash
  <1> QED
    BY <1>1, <1>2, <1>3, <1>4, <1>5 DEF Next, WorkerStep

\* A worker that lets go, or takes up a run it has just claimed, is the only one.
LEMMA OnProcessingNext ==
  ASSUME QueueInv, SoleWorker, Next
  PROVE  OnProcessing'
  <1> USE DEF QueueInv
  <1>1. TypeOK /\ \A w \in Workers : worker[w] # Idle => worker[w].pc # "idle"
    BY WorkerTyped DEF TextInv, TypeOK, WorkerState, WorkerSteps
  <1>2. ASSUME NEW w \in Workers, Release(w) PROVE OnProcessing'
    BY <1>1, <1>2 DEF SoleWorker, Release, OnProcessing, TypeOK
  <1>3. ASSUME NEW w \in Workers, FinishText(w) \/ HandleTextProcessingFailure(w) \/ FinishRun(w)
                                  \/ Crash(w)
        PROVE  OnProcessing'
    BY <1>2, <1>3 DEF FinishText, HandleTextProcessingFailure, FinishRun, Crash
  <1>4. ASSUME NEW w \in Workers, BeginText(w) \/ FailText(w) \/ EndRun(w) PROVE OnProcessing'
    <2>1. worker[w].pc # "idle" /\ UNCHANGED run
      BY <1>4 DEF BeginText, FailText, EndRun
    <2>2. run[worker[w].source].status = "processing"
      BY <2>1, BusyRun
    <2>3. worker'[w].source = worker[w].source
      <3>1. worker[w] \in [pc: WorkerSteps, source: Sources, view: View]
        BY <1>1, <2>1 DEF TypeOK, WorkerState, Idle
      <3>2. CASE BeginText(w)
        BY <1>1, <3>1, <3>2 DEF BeginText, TypeOK
      <3>3. CASE FailText(w) \/ EndRun(w)
        BY <1>1, <3>3 DEF FailText, EndRun, GoTo, TypeOK
      <3> QED
        BY <1>4, <3>2, <3>3
    <2> QED
      BY <2>1, <2>2, <2>3 DEF SoleWorker, OnProcessing
  <1>5. ASSUME NEW w \in Workers, NEW s \in Sources,
               ClaimNextTextSource(w, s) \/ ClaimNextRun(w, s)
        PROVE  OnProcessing'
    <2>1. OneMoves(s) /\ run[s].status = "uploaded" /\ worker[w] = Idle
      BY <1>5, LoopMoves DEF ClaimNextTextSource, ClaimNextRun, Claimable
    <2>2. worker'[w] = Idle \/ worker'[w].source = s
      BY <1>1, <1>5, <2>1 DEF ClaimNextTextSource, ClaimNextRun, GoTo, TypeOK
    <2>3. run'[s].status = "processing"
      BY <2>1 DEF OneMoves, Moved, Claimed, Ended, Retried, Completed
    <2> QED
      BY <2>2, <2>3 DEF SoleWorker, OnProcessing
  <1>6. ASSUME NEW w \in Workers, NEW s \in Sources,
               \/ RequeueStaleTextSource(w, s)
               \/ RequeueStaleRun(w, s)
               \/ FailExhaustedRun(w, s)
        PROVE  OnProcessing'
    BY <1>6 DEF RequeueStaleTextSource, RequeueStaleRun, FailExhaustedRun, SoleWorker, OnProcessing
  <1>7. CASE UserStep
    <2>1. UNCHANGED worker
      BY <1>7 DEF UserStep, AddSource, RetryVoiceInterview, CompleteRun, StartSession, StartAgain
    <2>2. CASE StartSession
      BY <2>1, <2>2 DEF StartSession, TextInv, StartedFirst, OnProcessing
    <2>3. CASE UNCHANGED run
      BY <2>1, <2>3 DEF OnProcessing
    <2>4. ASSUME NEW s \in Sources, RetryVoiceInterview(s) \/ CompleteRun(s) PROVE OnProcessing'
      <3>1. OneMoves(s) /\ run[s].status # "processing"
        BY <2>4, UserMoves DEF RetryVoiceInterview, CompleteRun
      <3>2. ASSUME NEW w \in Workers, worker'[w] # Idle
            PROVE  run'[worker'[w].source].status = "processing"
        <4>1. worker[w] # Idle /\ worker'[w] = worker[w]
          BY <2>1, <3>2
        <4>2. worker[w].source \in Sources /\ run[worker[w].source].status = "processing"
          BY <1>1, <4>1, WorkerTyped DEF OnProcessing
        <4> QED
          BY <3>1, <4>1, <4>2 DEF OneMoves
      <3> QED
        BY <3>2 DEF OnProcessing
    <2> QED
      BY <1>7, <2>2, <2>3, <2>4 DEF UserStep, AddSource, StartAgain
  <1>8. ASSUME NEW c \in Clients, GetStep(c) PROVE OnProcessing'
    BY <1>8 DEF GetStep, LoadSession, BuildResponse, CommitResponse, OnProcessing
  <1> QED
    BY <1>3, <1>4, <1>5, <1>6, <1>7, <1>8 DEF Next, WorkerStep, TextStep, LoopStep

LEMMA WriteStarted ==
  ASSUME session \in SessionRow, NEW update, Write(update)
  PROVE  session'.started = session.started
  BY DEF Write, SessionRow

\* A session is started once and stays started.
LEMMA StartedStays ==
  ASSUME QueueInv, Next
  PROVE  StartSession \/ session'.started = session.started
  <1>1. session \in SessionRow
    BY DEF QueueInv, TextInv, TypeOK
  <1>2. CASE UserStep
    BY <1>1, <1>2, WriteStarted DEF UserStep, AddSource, RetryVoiceInterview, CompleteRun,
       StartAgain, SessionRow
  <1>3. ASSUME NEW c \in Clients, GetStep(c) PROVE session'.started = session.started
    BY <1>1, <1>3, WriteStarted DEF GetStep, LoadSession, BuildResponse, CommitResponse
  <1>4. ASSUME NEW w \in Workers, TextStep(w) \/ EndRun(w) \/ FinishRun(w) \/ Crash(w)
        PROVE  session'.started = session.started
    BY <1>1, <1>4, WriteStarted DEF TextStep, BeginText, FinishText, FailText,
       HandleTextProcessingFailure, EndRun, FinishRun, Crash
  <1>5. ASSUME NEW w \in Workers, LoopStep(w) PROVE session'.started = session.started
    BY <1>1, <1>5, WriteStarted DEF LoopStep, ClaimNextTextSource, ClaimNextRun,
       RequeueStaleTextSource, RequeueStaleRun, FailExhaustedRun
  <1> QED
    BY <1>2, <1>3, <1>4, <1>5 DEF Next, WorkerStep

LEMMA NextQueueInv ==
  ASSUME QueueInv, SoleWorker, [Next]_vars
  PROVE  QueueInv'
  <1>1. TextInv'
    BY NextTextInv DEF QueueInv
  <1>2. CASE UNCHANGED vars
    BY <1>1, <1>2 DEF vars, QueueInv, NewRuns, RunsFit, AttemptLeft, OnProcessing
  <1>3. CASE Next
    <2>1. NewRuns'
      <3>1. CASE UNCHANGED run
        BY <3>1 DEF QueueInv, NewRuns
      <3>2. CASE StartSession
        BY <3>2 DEF StartSession, Started, NewRuns
      <3>3. ASSUME NEW s \in Sources, OneMoves(s) PROVE NewRuns'
        <4>1. run'[s].status # "none"
          BY <3>3 DEF OneMoves, Moved, Claimed, Ended, Retried, Completed
        <4> QED
          BY <3>3, <4>1 DEF OneMoves, QueueInv, NewRuns
      <3> QED
        BY <1>3, <3>1, <3>2, <3>3, NextMoves
    <2>2. RunsFit'
      <3>1. CASE UNCHANGED run
        BY <3>1 DEF QueueInv, RunsFit, AttemptLeft
      <3>2. CASE StartSession
        BY <3>2, MaxAttemptsAssumption DEF StartSession, Started, NoRunRow, RunsFit, AttemptLeft
      <3>3. ASSUME NEW s \in Sources, OneMoves(s) PROVE RunsFit'
        <4>1. s \notin TextSources => run'[s].step = "none"
          BY <3>3 DEF OneMoves, QueueInv, RunsFit
        <4>2. AttemptLeft(run'[s])
          BY <3>3 DEF OneMoves, Moved, Claimed, Ended, Retried, Completed, AttemptLeft
        <4> QED
          BY <3>3, <4>1, <4>2 DEF OneMoves, QueueInv, RunsFit, AttemptLeft
      <3> QED
        BY <1>3, <3>1, <3>2, <3>3, NextMoves
    <2> QED
      BY <1>1, <1>3, <2>1, <2>2, OnProcessingNext DEF QueueInv
  <1> QED
    BY <1>2, <1>3

\* The two columns the lifecycle speaks of, as the refinement mapping has them.
Status == [s \in Sources |-> IF run[s].status = "none" THEN "uploaded" ELSE run[s].status]
Attempts == [s \in Sources |-> run[s].attempts]

LEMMA MoveImplements ==
  ASSUME NEW s \in Sources, OneMoves(s)
  PROVE  Lifecycle!Next
  <1>1. run[s].status # "none" /\ run'[s].status # "none"
    BY DEF OneMoves, Moved, Claimed, Ended, Retried, Completed
  <1>2. Status[s] = run[s].status /\ Attempts[s] = run[s].attempts
    BY <1>1 DEF Status, Attempts
  <1>3. /\ Status' = [Status EXCEPT ![s] = run'[s].status]
        /\ Attempts' = [Attempts EXCEPT ![s] = run'[s].attempts]
    BY <1>1 DEF OneMoves, Status, Attempts
  <1>4. run'[s].attempts = run[s].attempts => Attempts' = Attempts
    BY <1>3 DEF Attempts
  <1>5. CASE Claimed(run[s], run'[s])
    <2>1. Lifecycle!Claim(s)
      BY <1>2, <1>3, <1>5 DEF Claimed, Lifecycle!Claim, Lifecycle!Move, Status, Attempts
    <2> QED
      BY <2>1 DEF Lifecycle!Next
  <1>6. CASE Ended(s, run[s], run'[s])
    <2>1. \/ Lifecycle!Release(s)
          \/ Lifecycle!Stage(s)
          \/ Lifecycle!FindNothing(s)
          \/ Lifecycle!Fail(s)
      BY <1>2, <1>3, <1>4, <1>6 DEF Ended, Lifecycle!Release, Lifecycle!Stage,
         Lifecycle!FindNothing, Lifecycle!Fail, Lifecycle!Move, Status, Attempts
    <2> QED
      BY <2>1 DEF Lifecycle!Next
  <1>7. CASE Retried(s, run[s], run'[s])
    <2>1. Lifecycle!Retry(s)
      BY <1>2, <1>3, <1>4, <1>7 DEF Retried, Lifecycle!Retry, Lifecycle!Move, Status, Attempts
    <2> QED
      BY <2>1 DEF Lifecycle!Next
  <1>8. CASE Completed(run[s], run'[s])
    <2>1. Lifecycle!Complete(s)
      BY <1>2, <1>3, <1>4, <1>8 DEF Completed, Lifecycle!Complete, Lifecycle!Move, Status, Attempts
    <2> QED
      BY <2>1 DEF Lifecycle!Next
  <1> QED
    BY <1>5, <1>6, <1>7, <1>8 DEF OneMoves, Moved

LEMMA NextImplements ==
  ASSUME QueueInv, [Next]_vars
  PROVE  [Lifecycle!Next]_(Lifecycle!vars)
  <1>1. ASSUME UNCHANGED run PROVE UNCHANGED Lifecycle!vars
    BY <1>1 DEF Lifecycle!vars
  <1>2. CASE StartSession
    <2>1. \A s \in Sources : run[s] = NoRunRow
      BY <1>2 DEF StartSession, QueueInv, NewRuns, TextInv, StartedFirst
    <2>2. Status' = Status /\ Attempts' = Attempts
      BY <1>2, <2>1 DEF StartSession, Started, NoRunRow, Status, Attempts
    <2> QED
      BY <2>2 DEF Status, Attempts, Lifecycle!vars
  <1> QED
    BY <1>1, <1>2, NextMoves, MoveImplements DEF vars

LEMMA InitQueueInv == Init => QueueInv
  <1> SUFFICES ASSUME Init PROVE QueueInv
    OBVIOUS
  <1>1. NewRuns /\ RunsFit /\ OnProcessing
    BY DEF Init, NewRuns, RunsFit, AttemptLeft, OnProcessing, NoRunRow
  <1> QED
    BY <1>1, InitTextInv DEF QueueInv

\* With one worker the two queues of a session, leases, crashes, reaper and retries
\* included, implement the lifecycle of an import run for each of its runs.
THEOREM SessionImplementsLifecycle ==
  ASSUME SoleWorker PROVE Spec => FollowsLifecycle
  <1>1. Init => Lifecycle!Init
    BY DEF Init, NoRunRow, Lifecycle!Init
  <1>2. Init => QueueInv
    BY InitQueueInv
  <1>3. QueueInv /\ [Next]_vars => QueueInv'
    BY NextQueueInv
  <1>4. QueueInv /\ [Next]_vars => [Lifecycle!Next]_(Lifecycle!vars)
    BY NextImplements
  <1> QED
    BY <1>1, <1>2, <1>3, <1>4, PTL DEF Spec, FollowsLifecycle, Lifecycle!Spec

-----------------------------------------------------------------------------
(* One worker: a terminal status is shown only when the runs have ended *)

Over(s) == run[s].status \in Settled \union {"none"}

\* A session that has ended for good, but for what a user retries.
SessionOver == session.started /\ \A s \in Sources \ retried : Over(s)

\* The source statuses a session does not wait for.
Ends(known) == known \in {"absent", "review_ready", "failed"}

AbsentHasNoRun ==
  session.started => \A s \in Sources : source[s] = "absent" => run[s].status = "none"

\* The text sources a worker remembers as ended have ended, however old the copy is.
\* (File and audio sources are derived from the rows of their runs.)
ViewsEndLate ==
  \A w \in Workers, s \in TextSources :
    worker[w] # Idle /\ worker[w].pc # "run_busy" /\ Ends(worker[w].view.sources[s]) => Over(s)

SeenStarted == \A c \in Clients : request[c].seen.started => session.started

\* What a GET is about to write.
UpdatesEndLate ==
  \A c \in Clients :
    request[c].pc = "synced" =>
      /\ request[c].update.status \in TerminalStatuses => SessionOver
      /\ \A s \in Sources : request[c].update.sources[s] # "absent"

StatusEndsLate == session.status \in TerminalStatuses => SessionOver

PolledInv ==
  /\ QueueInv
  /\ AbsentHasNoRun
  /\ ViewsEndLate
  /\ SeenStarted
  /\ UpdatesEndLate
  /\ StatusEndsLate

LEMMA RetriedStays ==
  ASSUME Next PROVE retried \subseteq retried'
  <1>1. CASE UserStep
    BY <1>1 DEF UserStep, AddSource, RetryVoiceInterview, CompleteRun, StartSession, StartAgain
  <1>2. ASSUME NEW c \in Clients, GetStep(c) PROVE UNCHANGED retried
    BY <1>2 DEF GetStep, LoadSession, BuildResponse, CommitResponse
  <1>3. ASSUME NEW w \in Workers, TextStep(w) \/ EndRun(w) \/ FinishRun(w) \/ Crash(w)
        PROVE  UNCHANGED retried
    BY <1>3 DEF TextStep, BeginText, FinishText, FailText, HandleTextProcessingFailure,
       EndRun, FinishRun, Crash
  <1>4. ASSUME NEW w \in Workers, LoopStep(w) PROVE UNCHANGED retried
    BY <1>4 DEF LoopStep, ClaimNextTextSource, ClaimNextRun, RequeueStaleTextSource,
       RequeueStaleRun, FailExhaustedRun
  <1> QED
    BY <1>1, <1>2, <1>3, <1>4 DEF Next, WorkerStep

\* A run that has ended in a started session only leaves its end by a retry.
LEMMA OverStays ==
  ASSUME QueueInv, Next, session.started, NEW s \in Sources, Over(s), s \notin retried'
  PROVE  Over(s)'
  <1>1. CASE UNCHANGED run
    BY <1>1 DEF Over
  <1>2. ASSUME NEW x \in Sources, OneMoves(x) PROVE Over(s)'
    <2>1. CASE x = s
      BY <1>2, <2>1
      DEF OneMoves, Moved, Claimed, Ended, Retried, Completed, Over, Settled, InReview
    <2>2. CASE x # s
      BY <1>2, <2>2 DEF OneMoves, Over
    <2> QED
      BY <2>1, <2>2
  <1> QED
    BY <1>1, <1>2, NextMoves DEF StartSession

LEMMA SessionOverStays ==
  ASSUME QueueInv, Next, SessionOver
  PROVE  SessionOver'
  <1>1. session'.started
    BY StartedStays DEF SessionOver, StartSession
  <1>2. ASSUME NEW s \in Sources, s \notin retried' PROVE Over(s)'
    BY <1>2, RetriedStays, OverStays DEF SessionOver
  <1> QED
    BY <1>1, <1>2 DEF SessionOver

LEMMA TextOverStays ==
  ASSUME QueueInv, Next, QueueInv', session.started, NEW s \in TextSources, Over(s)
  PROVE  Over(s)'
  <1>1. s \in Sources /\ s \notin retried'
    BY TextIsNotAudio DEF QueueInv, TextInv, TypeOK, Sources
  <1> QED
    BY <1>1, OverStays

\* On the row: a text source that is settled has a settled run.
LEMMA TextEnds ==
  ASSUME PolledInv, session.started, NEW s \in TextSources, Ends(source[s])
  PROVE  Over(s)
  <1>1. s \in Sources /\ InStep(source[s], run[s])
    BY DEF PolledInv, QueueInv, TextInv, RowsFit, Sources
  <1>2. source[s] = "absent" => run[s].status = "none"
    BY <1>1 DEF PolledInv, AbsentHasNoRun
  <1> QED
    BY <1>1, <1>2 DEF InStep, Ends, Over, Settled

\* A derived status is terminal only if every run has ended.
LEMMA DerivedTerminal ==
  ASSUME NEW started, NEW assigned, NEW runs \in [Sources -> RunRow],
         NEW synced, synced = [s \in Sources |-> SyncedSource(s, assigned[s], runs[s].status)],
         DeriveSessionStatus(started, synced) \in TerminalStatuses,
         \A s \in TextSources : Ends(assigned[s]) => runs[s].status \in Settled \union {"none"},
         assigned \in [Sources -> SourceStatus]
  PROVE  started /\ \A s \in Sources : runs[s].status \in Settled \union {"none"}
  <1>1. started /\ ~Pending(synced)
    BY DEF DeriveSessionStatus, TerminalStatuses
  <1>2. ASSUME NEW s \in Sources PROVE runs[s].status \in Settled \union {"none"}
    <2>1. SyncedSource(s, assigned[s], runs[s].status) \notin {"uploaded", "processing"}
      BY <1>1 DEF Pending
    <2>2. assigned[s] \in SourceStatus
      OBVIOUS
    <2> QED
      BY <2>1, <2>2 DEF SyncedSource, Settled, Ends, SourceStatus
  <1> QED
    BY <1>1, <1>2

\* A synchronisation that is written at once, on copies of any age.
LEMMA SyncEndsLate ==
  ASSUME PolledInv, Next, QueueInv', session.started,
         NEW loaded \in View, NEW assigned \in [Sources -> SourceStatus],
         Write(SyncSessionStatus(loaded, assigned, run')),
         \A s \in TextSources : Ends(assigned[s]) => Over(s)',
         \A s \in Sources : assigned[s] = loaded.sources[s] \/ assigned[s] # "absent"
  PROVE  StatusEndsLate' /\ \A s \in Sources : source'[s] = "absent" => source[s] = "absent"
  <1>1. /\ session \in SessionRow /\ source \in [Sources -> SourceStatus]
        /\ run' \in [Sources -> RunRow]
        /\ QueueInv
    BY DEF PolledInv, QueueInv, TextInv, TypeOK
  <1>2. PICK synced : synced = [s \in Sources |-> SyncedSource(s, assigned[s], run'[s].status)]
    OBVIOUS
  <1>3. /\ session'.started = session.started
        /\ session'.status \in
             {session.status, DeriveSessionStatus(loaded.session.started, synced)}
        /\ \A s \in Sources :
             source'[s] = IF SyncedSource(s, assigned[s], run'[s].status) = loaded.sources[s]
                          THEN source[s] ELSE SyncedSource(s, assigned[s], run'[s].status)
    BY <1>1, <1>2, SyncEffect
  <1>4. StatusEndsLate'
    <2> SUFFICES ASSUME session'.status \in TerminalStatuses PROVE SessionOver'
      BY DEF StatusEndsLate
    <2>1. CASE session'.status = session.status
      BY <1>1, <2>1, SessionOverStays DEF PolledInv, StatusEndsLate
    <2>2. CASE DeriveSessionStatus(loaded.session.started, synced) \in TerminalStatuses
      <3>1. \A s \in TextSources :
              Ends(assigned[s]) => run'[s].status \in Settled \union {"none"}
        BY DEF Over
      <3>2. \A s \in Sources : run'[s].status \in Settled \union {"none"}
        BY <1>1, <1>2, <2>2, <3>1, DerivedTerminal
      <3> QED
        BY <1>3, <3>2 DEF SessionOver, Over
    <2> QED
      BY <1>3, <2>1, <2>2
  <1>5. ASSUME NEW s \in Sources, source'[s] = "absent" PROVE source[s] = "absent"
    BY <1>3, <1>5 DEF SyncedSource
  <1> QED
    BY <1>4, <1>5

\* The rows as one step leaves them: either untouched, or as a synchronisation or a
\* GET writes them.
LateRows ==
  /\ StatusEndsLate'
  /\ session.started => \A s \in Sources : source'[s] = "absent" => source[s] = "absent"

LEMMA RowsUntouched ==
  ASSUME PolledInv, Next,
         session'.status = session.status \/ session'.status \notin TerminalStatuses,
         session.started => \A s \in Sources : source'[s] = source[s] \/ source'[s] # "absent"
  PROVE  LateRows
  BY SessionOverStays DEF LateRows, PolledInv, StatusEndsLate

\* A worker that holds a text source or the end of a run.
LEMMA HolderKnows ==
  ASSUME PolledInv, Next, QueueInv', NEW w \in Workers, worker[w].pc \notin {"idle", "run_busy"}
  PROVE  /\ session.started
         /\ worker[w].view \in View
         /\ worker[w].view.sources \in [Sources -> SourceStatus]
         /\ worker[w].source \in Sources
         /\ \A t \in TextSources : Ends(worker[w].view.sources[t]) => Over(t)'
  <1>1. TextInv /\ TypeOK /\ worker[w] # Idle
    BY DEF PolledInv, QueueInv, TextInv, Idle
  <1>2. session.started
    BY <1>1, BusyStarted
  <1>3. \A t \in TextSources : Ends(worker[w].view.sources[t]) => Over(t)
    BY <1>1 DEF PolledInv, ViewsEndLate
  <1> QED
    BY <1>1, <1>2, <1>3, WorkerTyped, TextOverStays DEF PolledInv

LEMMA UserRows ==
  ASSUME PolledInv, Next, QueueInv', UserStep
  PROVE  LateRows
  <1>1. TypeOK
    BY DEF PolledInv, QueueInv, TextInv
  <1>2. ASSUME NEW s \in Sources, AddSource(s) PROVE LateRows
    BY <1>1, <1>2, RowsUntouched DEF AddSource, TypeOK, SessionRow, TerminalStatuses
  <1>3. ASSUME NEW s \in Sources, RetryVoiceInterview(s) \/ CompleteRun(s) PROVE LateRows
    BY <1>3, RowsUntouched DEF RetryVoiceInterview, CompleteRun
  <1>4. CASE StartSession
    BY <1>1, <1>4, RowsUntouched DEF StartSession, TerminalStatuses
  <1>5. CASE StartAgain
    <2>1. session.started /\ UNCHANGED run /\ Write(SyncSessionStatus(Current, source, run'))
      BY <1>5 DEF StartAgain
    <2>2. Current \in View /\ Current.sources = source
      BY <1>1, CurrentType DEF Current
    <2>3. \A t \in TextSources : Ends(source[t]) => Over(t)'
      BY <2>1, TextEnds, TextOverStays DEF PolledInv
    <2> QED
      BY <1>1, <2>1, <2>2, <2>3, SyncEndsLate DEF TypeOK, LateRows
  <1> QED
    BY <1>2, <1>3, <1>4, <1>5 DEF UserStep

LEMMA GetRows ==
  ASSUME PolledInv, Next, NEW c \in Clients, GetStep(c)
  PROVE  LateRows
  <1>1. CASE LoadSession(c) \/ BuildResponse(c)
    BY <1>1, RowsUntouched DEF LoadSession, BuildResponse
  <1>2. CASE CommitResponse(c)
    <2>1. request[c].pc = "synced" /\ request[c].update \in Update /\ Write(request[c].update)
      BY <1>2 DEF CommitResponse, PolledInv, QueueInv, TextInv, TypeOK, Request, NoRequest
    <2>2. /\ session'.status = IF request[c].update.status = "keep" THEN session.status
                               ELSE request[c].update.status
          /\ \A s \in Sources :
               source'[s] = IF request[c].update.sources[s] = "keep" THEN source[s]
                            ELSE request[c].update.sources[s]
      BY <2>1, WriteEffect DEF PolledInv, QueueInv, TextInv, TypeOK
    <2>3. \A s \in Sources : source'[s] = "absent" => source[s] = "absent"
      BY <2>1, <2>2 DEF PolledInv, UpdatesEndLate
    <2>4. session'.status \in TerminalStatuses => SessionOver
      BY <2>1, <2>2 DEF PolledInv, UpdatesEndLate, StatusEndsLate
    <2> QED
      BY <2>3, <2>4, SessionOverStays DEF LateRows, StatusEndsLate, PolledInv
  <1> QED
    BY <1>1, <1>2 DEF GetStep

LEMMA EndRows ==
  ASSUME PolledInv, Next, QueueInv', NEW w \in Workers,
         FinishText(w) \/ HandleTextProcessingFailure(w) \/ FinishRun(w)
  PROVE  LateRows
  <1> PICK s, view : s = worker[w].source /\ view = worker[w].view
    OBVIOUS
  <1>1. worker[w].pc \notin {"idle", "run_busy"}
    BY DEF FinishText, HandleTextProcessingFailure, FinishRun
  <1>2. /\ session.started
        /\ view \in View
        /\ view.sources \in [Sources -> SourceStatus]
        /\ s \in Sources
        /\ \A t \in TextSources : Ends(view.sources[t]) => Over(t)'
    BY <1>1, HolderKnows
  <1>3. /\ QueueInv /\ TypeOK
        /\ run[s] \in RunRow
        /\ OneMoves(s)
    BY <1>1, BusyRun, EndMoves DEF PolledInv, QueueInv, TextInv
  <1>4. CASE FinishRun(w)
    <2>1. Write(SyncSessionStatus(view, view.sources, run'))
      BY <1>4 DEF FinishRun
    <2> QED
      BY <1>2, <2>1, SyncEndsLate DEF LateRows
  <1>5. ASSUME NEW known \in {"review_ready", "uploaded", "failed"},
               NEW assigned, assigned = [view.sources EXCEPT ![s] = known],
               Write(SyncSessionStatus(view, assigned, run')),
               Ends(known) => Over(s)'
        PROVE  LateRows
    <2>1. assigned \in [Sources -> SourceStatus]
      BY <1>2, <1>5 DEF SourceStatus
    <2>2. assigned[s] = known /\ \A t \in Sources \ {s} : assigned[t] = view.sources[t]
      BY <1>2, <1>5
    <2>3. ASSUME NEW t \in TextSources, Ends(assigned[t]) PROVE Over(t)'
      BY <1>2, <1>5, <2>2, <2>3 DEF Sources
    <2>4. \A t \in Sources : assigned[t] = view.sources[t] \/ assigned[t] # "absent"
      BY <2>2
    <2> QED
      BY <1>2, <1>5, <2>1, <2>3, <2>4, SyncEndsLate DEF LateRows
  <1>6. CASE FinishText(w)
    <2>1. PICK status \in {"review_ready", "no_data"} :
            /\ run' = [run EXCEPT ![s] = [run[s] EXCEPT !.status = status, !.step = "none"]]
            /\ Write(SyncSessionStatus(view, [view.sources EXCEPT ![s] = "review_ready"], run'))
      BY <1>6 DEF FinishText
    <2>2. run'[s] = [run[s] EXCEPT !.status = status, !.step = "none"]
      BY <1>2, <1>3, <2>1, RowReplaced
    <2>3. Over(s)'
      BY <1>3, <2>2 DEF RunRow, Over, Settled, InReview
    <2> QED
      BY <1>5, <2>1, <2>3
  <1>7. CASE HandleTextProcessingFailure(w)
    <2>1. PICK again \in BOOLEAN, known \in {"uploaded", "failed"} :
            /\ known = IF again THEN "uploaded" ELSE "failed"
            /\ run' = [run EXCEPT ![s] = IF again THEN PendingRow(s) ELSE FailedRow(s)]
            /\ Write(SyncSessionStatus(view, [view.sources EXCEPT ![s] = known], run'))
      BY <1>7 DEF HandleTextProcessingFailure
    <2>2. run'[s] = IF again THEN PendingRow(s) ELSE FailedRow(s)
      BY <1>2, <1>3, <2>1 DEF TypeOK
    <2>3. ASSUME Ends(known) PROVE Over(s)'
      <3>1. run'[s] = FailedRow(s)
        BY <2>1, <2>2, <2>3 DEF Ends
      <3> QED
        BY <1>3, <3>1 DEF RunRow, FailedRow, Over, Settled
    <2> QED
      BY <1>5, <2>1, <2>3
  <1> QED
    BY <1>4, <1>6, <1>7

LEMMA ReaperRows ==
  ASSUME PolledInv, Next, QueueInv', NEW w \in Workers, NEW s \in Sources,
         RequeueStaleTextSource(w, s) \/ FailExhaustedRun(w, s)
  PROVE  LateRows
  <1>1. /\ QueueInv /\ TextInv /\ TypeOK
        /\ run[s] \in RunRow
        /\ run[s].status # "none"
    BY RowTypes DEF PolledInv, QueueInv, TextInv, RequeueStaleTextSource, FailExhaustedRun,
       RowsFit, InStep
  <1>2. session.started
    BY <1>1, RunStarted
  <1>3. Current \in View /\ Current.sources = source
    BY <1>1, CurrentType DEF Current
  <1>4. \A t \in TextSources : Ends(source[t]) => Over(t)'
    BY <1>1, <1>2, TextEnds, TextOverStays
  <1>5. CASE FailExhaustedRun(w, s)
    <2>1. Write(SyncSessionStatus(Current, source, run'))
      BY <1>5 DEF FailExhaustedRun
    <2> QED
      BY <1>1, <1>2, <1>3, <1>4, <2>1, SyncEndsLate DEF TypeOK, LateRows
  <1>6. CASE RequeueStaleTextSource(w, s) /\ run[s].attempts >= MaxAttempts
    <2>1. PICK assigned : assigned = [source EXCEPT ![s] = "failed"]
      OBVIOUS
    <2>2. /\ run' = [run EXCEPT ![s] = FailedRow(s)]
          /\ Write(SyncSessionStatus(Current, assigned, run'))
      BY <1>6, <2>1 DEF RequeueStaleTextSource
    <2>3. /\ assigned \in [Sources -> SourceStatus]
          /\ assigned[s] = "failed"
          /\ \A t \in Sources \ {s} : assigned[t] = source[t]
      BY <1>1, <2>1 DEF TypeOK, SourceStatus
    <2>4. run'[s] = FailedRow(s)
      BY <1>1, <2>2, RowReplaced
    <2>5. Over(s)'
      BY <1>1, <2>4 DEF FailedRow, RunRow, Over, Settled
    <2>6. ASSUME NEW t \in TextSources, Ends(assigned[t]) PROVE Over(t)'
      BY <1>4, <2>3, <2>5, <2>6 DEF Sources
    <2>7. \A t \in Sources : assigned[t] = Current.sources[t] \/ assigned[t] # "absent"
      BY <1>3, <2>3
    <2> QED
      BY <1>2, <1>3, <2>2, <2>3, <2>6, <2>7, SyncEndsLate DEF LateRows
  <1>7. CASE RequeueStaleTextSource(w, s) /\ ~(run[s].attempts >= MaxAttempts)
    <2>1. UNCHANGED session /\ source' = [source EXCEPT ![s] = "uploaded"]
      BY <1>7 DEF RequeueStaleTextSource
    <2> QED
      BY <1>1, <2>1, RowsUntouched DEF TypeOK
  <1> QED
    BY <1>5, <1>6, <1>7

LEMMA NextRows ==
  ASSUME PolledInv, Next, QueueInv'
  PROVE  LateRows
  <1>1. ASSUME NEW w \in Workers, BeginText(w) \/ FailText(w) \/ EndRun(w) \/ Crash(w)
        PROVE  LateRows
    BY <1>1, RowsUntouched DEF BeginText, FailText, EndRun, Crash
  <1>2. ASSUME NEW w \in Workers, NEW s \in Sources, ClaimNextRun(w, s) \/ RequeueStaleRun(w, s)
        PROVE  LateRows
    BY <1>2, RowsUntouched DEF ClaimNextRun, RequeueStaleRun
  <1>3. ASSUME NEW w \in Workers, NEW s \in Sources, ClaimNextTextSource(w, s) PROVE LateRows
    <2>1. PICK known \in {"failed", "processing"} :
            UNCHANGED session /\ source' = [source EXCEPT ![s] = known]
      BY <1>3 DEF ClaimNextTextSource
    <2>2. source \in [Sources -> SourceStatus]
      BY DEF PolledInv, QueueInv, TextInv, TypeOK
    <2> QED
      BY <2>1, <2>2, RowsUntouched
  <1> QED
    BY <1>1, <1>2, <1>3, UserRows, GetRows, EndRows, ReaperRows
    DEF Next, WorkerStep, TextStep, LoopStep

LEMMA NextAbsent ==
  ASSUME PolledInv, Next, LateRows
  PROVE  AbsentHasNoRun'
  <1> SUFFICES ASSUME session'.started, NEW s \in Sources, source'[s] = "absent"
               PROVE  run'[s].status = "none"
    BY DEF AbsentHasNoRun
  <1> USE DEF PolledInv
  <1>1. CASE StartSession
    BY <1>1 DEF StartSession, Started, NoRunRow
  <1>2. CASE ~StartSession
    <2>1. session.started /\ source[s] = "absent"
      BY <1>2, StartedStays DEF LateRows
    <2>2. run[s].status = "none"
      BY <2>1 DEF AbsentHasNoRun
    <2>3. ASSUME NEW x \in Sources, OneMoves(x) PROVE run'[s].status = "none"
      BY <2>2, <2>3 DEF OneMoves, Moved, Claimed, Ended, Retried, Completed
    <2> QED
      BY <1>2, <2>2, <2>3, NextMoves
  <1> QED
    BY <1>1, <1>2

\* A copy is kept, or taken of the rows as they are.
LEMMA NextViews ==
  ASSUME PolledInv, Next, QueueInv'
  PROVE  ViewsEndLate'
  <1>1. QueueInv /\ TextInv /\ TypeOK
    BY DEF PolledInv, QueueInv, TextInv
  <1>2. ASSUME NEW v \in Workers, NEW t \in TextSources,
               worker'[v] # Idle, worker'[v].pc # "run_busy",
               Ends(worker'[v].view.sources[t]),
               \/ worker[v] # Idle /\ worker[v].pc # "run_busy" /\ worker'[v].view = worker[v].view
               \/ session.started /\ Ends(source[t])
        PROVE  Over(t)'
    <2>1. session.started
      BY <1>1, <1>2 DEF TextInv, StartedFirst
    <2>2. Over(t)
      BY <1>2, <2>1, TextEnds DEF PolledInv, ViewsEndLate
    <2> QED
      BY <1>1, <2>1, <2>2, TextOverStays
  <1>3. ASSUME NEW w \in Workers,
               \A v \in Workers \ {w} : worker'[v] = worker[v],
               \A t \in TextSources :
                 worker'[w] # Idle /\ worker'[w].pc # "run_busy"
                 /\ Ends(worker'[w].view.sources[t]) =>
                   \/ /\ worker[w] # Idle
                      /\ worker[w].pc # "run_busy"
                      /\ worker'[w].view = worker[w].view
                   \/ session.started /\ Ends(source[t])
        PROVE  ViewsEndLate'
    <2> SUFFICES ASSUME NEW v \in Workers, NEW t \in TextSources,
                        worker'[v] # Idle, worker'[v].pc # "run_busy",
                        Ends(worker'[v].view.sources[t])
                 PROVE  Over(t)'
      BY DEF ViewsEndLate
    <2>1. CASE v = w
      BY <1>2, <1>3, <2>1
    <2>2. CASE v # w
      <3>1. worker'[v] = worker[v]
        BY <1>3, <2>2
      <3> QED
        BY <1>2, <3>1
    <2> QED
      BY <2>1, <2>2
  <1>4. ASSUME UNCHANGED worker PROVE ViewsEndLate'
    <2> SUFFICES ASSUME NEW v \in Workers, NEW t \in TextSources,
                        worker'[v] # Idle, worker'[v].pc # "run_busy",
                        Ends(worker'[v].view.sources[t])
                 PROVE  Over(t)'
      BY DEF ViewsEndLate
    <2> QED
      BY <1>2, <1>4
  <1>5. ASSUME NEW w \in Workers, Release(w) PROVE ViewsEndLate'
    <2>1. worker'[w] = Idle /\ \A v \in Workers \ {w} : worker'[v] = worker[v]
      BY <1>1, <1>5 DEF Release, TypeOK
    <2> QED
      BY <1>3, <2>1
  <1>6. ASSUME NEW w \in Workers, BeginText(w) PROVE ViewsEndLate'
    <2>1. worker[w].pc = "text_claimed" /\ worker[w] # Idle
      BY <1>6 DEF BeginText, Idle
    <2>2. worker[w] \in [pc: WorkerSteps, source: Sources, view: View]
      BY <1>1, <2>1 DEF TypeOK, WorkerState
    <2>3. worker'[w].view = worker[w].view /\ \A v \in Workers \ {w} : worker'[v] = worker[v]
      BY <1>1, <1>6, <2>2 DEF BeginText, TypeOK
    <2> QED
      BY <1>3, <2>1, <2>3
  <1>7. ASSUME NEW w \in Workers, FailText(w) \/ EndRun(w) PROVE ViewsEndLate'
    <2>1. session.started
      BY <1>1, <1>7, BusyStarted DEF FailText, EndRun
    <2>2. PICK pc : GoTo(w, pc, worker[w].source, Current)
      BY <1>7 DEF FailText, EndRun
    <2>3. worker'[w] = [pc |-> pc, source |-> worker[w].source, view |-> Current]
          /\ \A v \in Workers \ {w} : worker'[v] = worker[v]
      BY <1>1, <2>2, GoToFrame
    <2>4. worker'[w].view.sources = source
      BY <2>3 DEF Current
    <2> QED
      BY <1>3, <2>1, <2>3, <2>4
  <1>8. ASSUME NEW w \in Workers, NEW s \in Sources, ClaimNextRun(w, s) PROVE ViewsEndLate'
    <2>1. worker'[w] = [pc |-> "run_busy", source |-> s, view |-> NoView]
          /\ \A v \in Workers \ {w} : worker'[v] = worker[v]
      BY <1>1, <1>8, GoToFrame DEF ClaimNextRun
    <2>2. worker'[w].pc = "run_busy"
      BY <2>1
    <2> QED
      BY <1>3, <2>1, <2>2
  <1>9. ASSUME NEW w \in Workers, NEW s \in Sources, ClaimNextTextSource(w, s)
        PROVE  ViewsEndLate'
    <2>1. /\ s \in TextSources
          /\ run[s].status = "uploaded"
          /\ worker[w] = Idle
      BY <1>9 DEF ClaimNextTextSource
    <2>2. session.started
      BY <1>1, <2>1, RunStarted
    <2>3. CASE run[s].attempts >= MaxAttempts
      BY <1>4, <1>9, <2>3 DEF ClaimNextTextSource
    <2>4. CASE ~(run[s].attempts >= MaxAttempts)
      <3>1. PICK claimed : claimed = [source EXCEPT ![s] = "processing"]
        OBVIOUS
      <3>2. PICK view : view = [session |-> session, sources |-> claimed]
        OBVIOUS
      <3>3. GoTo(w, "text_claimed", s, view)
        BY <1>9, <2>4, <3>1, <3>2 DEF ClaimNextTextSource
      <3>4. worker'[w] = [pc |-> "text_claimed", source |-> s, view |-> view]
            /\ \A v \in Workers \ {w} : worker'[v] = worker[v]
        BY <1>1, <3>3, GoToFrame
      <3>5. worker'[w].view.sources = claimed
        BY <3>2, <3>4
      <3>6. \A t \in TextSources : Ends(claimed[t]) => Ends(source[t])
        BY <1>1, <3>1 DEF TypeOK, Ends, Sources
      <3> QED
        BY <1>3, <2>2, <3>4, <3>5, <3>6
    <2> QED
      BY <2>3, <2>4
  <1>10. CASE UserStep
    BY <1>4, <1>10 DEF UserStep, AddSource, RetryVoiceInterview, CompleteRun, StartSession,
       StartAgain
  <1>11. ASSUME NEW c \in Clients, GetStep(c) PROVE ViewsEndLate'
    BY <1>4, <1>11 DEF GetStep, LoadSession, BuildResponse, CommitResponse
  <1>12. ASSUME NEW w \in Workers, NEW s \in Sources,
                \/ RequeueStaleTextSource(w, s)
                \/ RequeueStaleRun(w, s)
                \/ FailExhaustedRun(w, s)
         PROVE  ViewsEndLate'
    BY <1>4, <1>12 DEF RequeueStaleTextSource, RequeueStaleRun, FailExhaustedRun
  <1>13. ASSUME NEW w \in Workers,
                FinishText(w) \/ HandleTextProcessingFailure(w) \/ FinishRun(w) \/ Crash(w)
         PROVE  ViewsEndLate'
    BY <1>5, <1>13 DEF FinishText, HandleTextProcessingFailure, FinishRun, Crash
  <1> QED
    BY <1>6, <1>7, <1>8, <1>9, <1>10, <1>11, <1>12, <1>13 DEF Next, WorkerStep, TextStep, LoopStep

\* What a GET has derived was true of the rows it read, and stays true.
LEMMA DerivedUpdate ==
  ASSUME PolledInv, NEW seen \in SessionRow, seen.started => session.started,
         NEW view, view = [session |-> seen, sources |-> source],
         NEW update, update = SyncSessionStatus(view, source, run)
  PROVE  /\ update.status \in TerminalStatuses => SessionOver
         /\ \A s \in Sources : update.sources[s] # "absent"
  <1>1. /\ source \in [Sources -> SourceStatus] /\ run \in [Sources -> RunRow]
        /\ view \in View /\ view.sources = source /\ view.session = seen
    BY DEF PolledInv, QueueInv, TextInv, TypeOK, View
  <1>2. PICK synced : synced = [s \in Sources |-> SyncedSource(s, source[s], run[s].status)]
    OBVIOUS
  <1>3. /\ update.status \in {"keep", DeriveSessionStatus(seen.started, synced)}
        /\ \A s \in Sources :
             update.sources[s] = IF SyncedSource(s, source[s], run[s].status) = source[s]
                                 THEN "keep" ELSE SyncedSource(s, source[s], run[s].status)
    BY <1>1, <1>2, SyncWrites
  <1>4. ASSUME update.status \in TerminalStatuses PROVE SessionOver
    <2>1. DeriveSessionStatus(seen.started, synced) \in TerminalStatuses
      BY <1>3, <1>4 DEF TerminalStatuses
    <2>2. seen.started
      BY <2>1 DEF DeriveSessionStatus, TerminalStatuses
    <2>3. \A s \in TextSources : Ends(source[s]) => run[s].status \in Settled \union {"none"}
      BY <2>2, TextEnds DEF Over
    <2>4. \A s \in Sources : run[s].status \in Settled \union {"none"}
      BY <1>1, <1>2, <2>1, <2>3, DerivedTerminal
    <2> QED
      BY <2>2, <2>4 DEF SessionOver, Over
  <1>5. ASSUME NEW s \in Sources PROVE update.sources[s] # "absent"
    BY <1>3 DEF SyncedSource
  <1> QED
    BY <1>4, <1>5

LEMMA NextRequests ==
  ASSUME PolledInv, Next
  PROVE  SeenStarted' /\ UpdatesEndLate'
  <1>1. QueueInv /\ TypeOK /\ SeenStarted /\ UpdatesEndLate
    BY DEF PolledInv, QueueInv, TextInv
  <1>2. session.started => session'.started
    BY <1>1, StartedStays DEF StartSession
  <1>3. SessionOver => SessionOver'
    BY <1>1, SessionOverStays
  <1>4. ASSUME NEW d \in Clients, request'[d] = request[d]
        PROVE  /\ request'[d].seen.started => session'.started
               /\ request'[d].pc = "synced" =>
                    /\ request'[d].update.status \in TerminalStatuses => SessionOver'
                    /\ \A s \in Sources : request'[d].update.sources[s] # "absent"
    BY <1>1, <1>2, <1>3, <1>4 DEF SeenStarted, UpdatesEndLate
  <1>5. ASSUME NEW c \in Clients, GetStep(c)
        PROVE  /\ request'[c].seen.started => session'.started
               /\ request'[c].pc = "synced" =>
                    /\ request'[c].update.status \in TerminalStatuses => SessionOver'
                    /\ \A s \in Sources : request'[c].update.sources[s] # "absent"
    <2>1. CASE LoadSession(c)
      <3>1. /\ request'[c] = [NoRequest EXCEPT !.pc = "loaded", !.seen = session]
            /\ UNCHANGED session
        BY <1>1, <2>1 DEF LoadSession, TypeOK
      <3>2. request'[c].pc = "loaded" /\ request'[c].seen = session
        BY <3>1 DEF NoRequest
      <3> QED
        BY <3>1, <3>2
    <2>2. CASE BuildResponse(c)
      <3>1. request[c] \in [pc: {"loaded", "synced"}, seen: SessionRow, update: Update]
        BY <1>1, <2>2 DEF BuildResponse, TypeOK, Request, NoRequest
      <3>2. PICK view : view = [session |-> request[c].seen, sources |-> source]
        OBVIOUS
      <3>3. PICK update : update = SyncSessionStatus(view, source, run)
        OBVIOUS
      <3>4. request'[c].update = update /\ request'[c].seen = request[c].seen
        BY <1>1, <2>2, <3>1, <3>2, <3>3 DEF BuildResponse, TypeOK
      <3>5. request[c].seen \in SessionRow /\ (request[c].seen.started => session.started)
        BY <1>1, <3>1 DEF SeenStarted
      <3>6. /\ update.status \in TerminalStatuses => SessionOver
            /\ \A s \in Sources : update.sources[s] # "absent"
        BY <3>2, <3>3, <3>5, DerivedUpdate
      <3> QED
        BY <1>2, <1>3, <3>4, <3>5, <3>6
    <2>3. CASE CommitResponse(c)
      <3>1. request'[c] = NoRequest
        BY <1>1, <2>3 DEF CommitResponse, TypeOK
      <3> QED
        BY <3>1 DEF NoRequest, NoView
    <2> QED
      BY <1>5, <2>1, <2>2, <2>3 DEF GetStep
  <1>6. ASSUME NEW c \in Clients, GetStep(c) PROVE \A d \in Clients \ {c} : request'[d] = request[d]
    BY <1>1, <1>6 DEF GetStep, LoadSession, BuildResponse, CommitResponse, TypeOK
  <1>7. CASE UNCHANGED request
    BY <1>4, <1>7 DEF SeenStarted, UpdatesEndLate
  <1>8. CASE \E c \in Clients : GetStep(c)
    BY <1>4, <1>5, <1>6, <1>8 DEF SeenStarted, UpdatesEndLate
  <1>9. CASE UserStep
    BY <1>7, <1>9 DEF UserStep, AddSource, RetryVoiceInterview, CompleteRun, StartSession,
       StartAgain
  <1>10. ASSUME NEW w \in Workers, TextStep(w) \/ EndRun(w) \/ FinishRun(w) \/ Crash(w)
         PROVE  UNCHANGED request
    BY <1>10 DEF TextStep, BeginText, FinishText, FailText, HandleTextProcessingFailure,
       EndRun, FinishRun, Crash
  <1>11. ASSUME NEW w \in Workers, LoopStep(w) PROVE UNCHANGED request
    BY <1>11 DEF LoopStep, ClaimNextTextSource, ClaimNextRun, RequeueStaleTextSource,
       RequeueStaleRun, FailExhaustedRun
  <1> QED
    BY <1>7, <1>8, <1>9, <1>10, <1>11 DEF Next, WorkerStep

LEMMA InitPolledInv == Init => PolledInv
  BY InitQueueInv
  DEF Init, PolledInv, AbsentHasNoRun, ViewsEndLate, SeenStarted, UpdatesEndLate,
      StatusEndsLate, TerminalStatuses, NoRequest, NoView

LEMMA NextPolledInv ==
  ASSUME PolledInv, SoleWorker, [Next]_vars
  PROVE  PolledInv'
  <1>1. QueueInv'
    BY NextQueueInv DEF PolledInv
  <1>2. CASE Next
    BY <1>1, <1>2, NextRows, NextAbsent, NextViews, NextRequests DEF PolledInv, LateRows
  <1>3. CASE UNCHANGED vars
    BY <1>1, <1>3 DEF vars, PolledInv, AbsentHasNoRun, ViewsEndLate, SeenStarted,
       UpdatesEndLate, StatusEndsLate, SessionOver, Over
  <1> QED
    BY <1>2, <1>3

\* The wizard, which stops polling at a terminal status, never stops early: with one
\* worker, any number of GETs and copies of any age.
THEOREM PollingMayStop ==
  ASSUME SoleWorker PROVE Spec => []TerminalMeansSettled
  <1>1. Init => PolledInv
    BY InitPolledInv
  <1>2. PolledInv /\ [Next]_vars => PolledInv'
    BY NextPolledInv
  <1>3. PolledInv => TerminalMeansSettled
    BY DEF PolledInv, StatusEndsLate, SessionOver, Over, TerminalMeansSettled
  <1> QED
    BY <1>1, <1>2, <1>3, PTL DEF Spec

=============================================================================
