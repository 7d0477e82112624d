-------------------------- MODULE IntakePipeline --------------------------
(***************************************************************************)
(* The intake panel and the ingestion of files on one database: completing *)
(* a file replaces what it gave the panel in the transaction that stores   *)
(* its results, and deleting a file takes its suggestions along.           *)
(***************************************************************************)
EXTENDS ProjectIntake, FileIngestion

pipelineVars == <<vars, ingestionVars>>

-----------------------------------------------------------------------------
PipelineInit == Init /\ IngestionInit

\* An image gives at most one note, its summary; a document and a copied analysis none.
Finish(w, f) ==
  \/ CompleteFromTwin(w, f) /\ FileOutputs(f, {})
  \/ \E texts \in Singletons(Notes) : Analyse(w, f) /\ FileOutputs(f, texts)

Work(w) ==
  \E f \in Files : Finish(w, f) \/ (Quiet(w, f) /\ UNCHANGED vars)

\* Broken variant: the suggestions of the file stay.
RemoveRowOnly(f) == delete_file(f) /\ UNCHANGED vars

Remove(f) == delete_file(f) /\ FilesDeleted({f})

Upload(f) ==
  \E ai \in BOOLEAN :
    upload_file(f, ai) /\ FilesDeleted(ReplacedOffers(f))

Polling ==
  /\ \/ \E f \in Files : Elapse(f)
     \/ \E w \in Workers : Stop(w) \/ Reap(w)
  /\ UNCHANGED vars

PipelineNext ==
  \/ ServiceNext /\ UNCHANGED ingestionVars
  \/ Polling
  \/ \E f \in Files : Remove(f) \/ Upload(f)
  \/ \E w \in Workers : Work(w)

PipelineSpec == PipelineInit /\ [][PipelineNext]_pipelineVars

\* A request goes on, time passes, and each worker process runs its loop: it goes on
\* with its file, or reaps and polls the queue.
PipelineFairness ==
  /\ \A c \in Clients : WF_pipelineVars(Advance(c) /\ UNCHANGED ingestionVars)
  /\ WF_pipelineVars((\E f \in Files : Elapse(f)) /\ UNCHANGED vars)
  /\ \A w \in Workers : WF_pipelineVars(Work(w) \/ (Reap(w) /\ UNCHANGED vars))

FairPipeline == PipelineSpec /\ PipelineFairness

-----------------------------------------------------------------------------
(* Properties *)

PipelineTypeOK == TypeOK /\ IngestionTypeOK

\* Nothing in the panel comes from a file that does not exist, also when the file is
\* deleted while a worker has it or while a request holds one of its suggestions.
PanelFollowsFiles ==
  \A f \in Files : ~Exists(f) =>
    /\ \A s \in Suggestions : suggestion[s].source # f
    /\ \A n \in Notes : note[n].source # f
=============================================================================
