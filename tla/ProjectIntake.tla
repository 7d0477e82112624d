--------------------------- MODULE ProjectIntake ---------------------------
(***************************************************************************)
(* The intake panel of one project: the suggestions the AI or a user makes *)
(* for the fields of the questionnaire, the extracted texts no field was   *)
(* found for (unmapped notes), the intake text, and the project document   *)
(* (project_data, of which the technical sections are the questionnaire)   *)
(* with the progress computed from it.                                     *)
(*                                                                         *)
(* A request to apply or reject suggestions is one transaction of several  *)
(* statements under READ COMMITTED: session[c].writes holds the status of  *)
(* the rows it has updated, which stay locked, and unseen by others, until *)
(* it commits.  It decides on the copy of the project that was loaded with *)
(* the request: the later SELECT FOR UPDATE locks the row but returns the  *)
(* object the session already has.                                         *)
(***************************************************************************)
EXTENDS Integers, Sequences, FiniteSets, ProjectFiles

CONSTANTS
  Clients,      \* requests that can be in flight at the same time
  Suggestions,  \* identities of suggestions, stored or yet to be
  Notes,        \* identities of unmapped notes
  Fields,       \* (section, field) pairs of the questionnaire
  Batches,      \* the lists of suggestions a request may name
  MaxVersion,   \* bound on the saves of the intake text
  MaxCalls      \* bound on the requests of more than one step

ASSUME FieldsAssumption == IsFiniteSet(Fields)
ASSUME BatchesAssumption == Batches \subseteq Seq(Suggestions)
ASSUME BoundsAssumption == MaxVersion \in Nat /\ MaxCalls \in Nat

VARIABLES
  suggestion,  \* suggestion[s]: the stored row
  note,        \* note[n]: the stored row
  project,     \* project_data and progress
  text,        \* the version of the intake text, 0 before the first save
  session,     \* session[c]: the request in flight, its transaction and its copy
  calls        \* requests begun so far

vars == <<suggestion, note, project, text, session, calls>>

-----------------------------------------------------------------------------
Decided == {"applied", "rejected"}
Sources == {"notes", "none"} \union Files

Suggestion ==
  [status: {"absent", "pending"} \union Decided, field: Fields \union {"none"}, source: Sources]
AbsentSuggestion == [status |-> "absent", field |-> "none", source |-> "none"]

Note ==
  [status: {"absent", "open", "mapped", "dismissed"}, source: Sources, low: BOOLEAN,
   suggestion: Suggestions \union {"none"}]
AbsentNote == [status |-> "absent", source |-> "none", low |-> FALSE, suggestion |-> "none"]

\* A field not in the document, one without a value, one a user has filled in,
\* one that has the value of a suggestion.  custom: the rest of project_data.
Contents == {"missing", "empty", "typed"} \union Suggestions
Project == [fields: [Fields -> Contents], custom: BOOLEAN, progress: Int]

Present(fields) == {f \in Fields : fields[f] # "missing"}
Filled(fields) == {f \in Present(fields) : fields[f] # "empty"}

\* The percentage of fields with a value; halves are rounded to the even integer.
calculate_progress(fields) ==
  LET total == Cardinality(Present(fields))
      completed == 100 * Cardinality(Filled(fields))
      low == completed \div total
      rest == 2 * (completed % total)
  IN IF total = 0 THEN 0
     ELSE IF rest > total \/ (rest = total /\ low % 2 = 1) THEN low + 1 ELSE low

Phases ==
  {"idle", "select", "mark", "index", "lock", "siblings", "reject", "save", "ai", "persist"}

Session ==
  [phase: Phases, todo: Seq(Suggestions), batch: BOOLEAN, done: SUBSET Suggestions,
   writes: [Suggestions -> Decided \union {"kept"}], holds: BOOLEAN, dirty: BOOLEAN,
   copy: Project, loaded: Int, version: 0..MaxVersion]

NoProject == [fields |-> [f \in Fields |-> "missing"], custom |-> FALSE, progress |-> 0]
Idle ==
  [phase |-> "idle", todo |-> <<>>, batch |-> FALSE, done |-> {},
   writes |-> [s \in Suggestions |-> "kept"], holds |-> FALSE, dirty |-> FALSE,
   copy |-> NoProject, loaded |-> 0, version |-> 0]

TypeOK ==
  /\ suggestion \in [Suggestions -> Suggestion]
  /\ note \in [Notes -> Note]
  /\ project \in Project
  /\ text \in 0..MaxVersion
  /\ session \in [Clients -> Session]
  /\ calls \in 0..MaxCalls

OpenNote == [AbsentNote EXCEPT !.status = "open", !.source = "notes"]
DismissedNote == [OpenNote EXCEPT !.status = "dismissed"]

\* A project at rest: an empty questionnaire or a document without one, and what an
\* earlier analysis of its text left in the panel.
Init ==
  /\ suggestion = [s \in Suggestions |-> AbsentSuggestion]
  /\ note \in [Notes -> {AbsentNote, OpenNote, DismissedNote}]
  /\ project \in {NoProject, [NoProject EXCEPT !.fields = [f \in Fields |-> "empty"]]}
  /\ text \in 0..MaxVersion
  /\ session = [c \in Clients |-> Idle]
  /\ calls \in 0..MaxCalls

-----------------------------------------------------------------------------
(* What a transaction sees and what it waits for *)

\* The status of s in the transaction of c.
View(c, s) ==
  IF session[c].writes[s] = "kept" THEN suggestion[s].status ELSE session[c].writes[s]

At(c, phase) == session[c].phase = phase /\ session[c].todo # <<>>
Item(c) == Head(session[c].todo)

Rivals(c) ==
  {r \in Suggestions \ {Item(c)} : suggestion[r].field = suggestion[Item(c)].field}

\* The suggestion the field has now, if any: it is replaced.
Replaced(c) == {r \in Rivals(c) : View(c, r) = "applied"}
Siblings(c) == {r \in Rivals(c) : View(c, r) = "pending"}
PendingOf(source) ==
  {s \in Suggestions : suggestion[s].status = "pending" /\ suggestion[s].source = source}

Locks(d, rows) == \E r \in rows : session[d].writes[r] # "kept"

\* d has inserted r into uq_intake_suggestions_applied_field.
Indexed(d, r) == session[d].writes[r] = "applied" /\ ~(At(d, "index") /\ Item(d) = r)

\* The entry of the field is in the hands of a transaction that has not ended.
HoldsEntry(d, c) ==
  \E r \in Rivals(c) :
    \/ Indexed(d, r)
    \/ suggestion[r].status = "applied" /\ session[d].writes[r] = "rejected"

WaitsFor(c, d) ==
  /\ d # c
  /\ \/ At(c, "select") /\ View(c, Item(c)) = "pending" /\ Locks(d, Replaced(c))
     \/ (At(c, "mark") \/ At(c, "reject")) /\ Locks(d, {Item(c)})
     \/ At(c, "index") /\ HoldsEntry(d, c)
     \/ (At(c, "lock") \/ session[c].phase = "save") /\ session[d].holds
     \/ At(c, "siblings") /\ Locks(d, Siblings(c))
     \/ session[c].phase = "persist" /\ Locks(d, PendingOf("notes"))

Unblocked(c) == \A d \in Clients : ~WaitsFor(c, d)

\* Requests that all wait for one another: the database ends one of them.
Deadlocked(c) ==
  \E ring \in SUBSET Clients :
    c \in ring /\ \A x \in ring : \E y \in ring : WaitsFor(x, y)

-----------------------------------------------------------------------------
(* Applying and rejecting suggestions *)

rows == <<suggestion, note, project, text>>

Start(c, s) ==
  /\ session[c].phase = "idle"
  /\ calls < MaxCalls
  /\ calls' = calls + 1
  /\ session' = [session EXCEPT ![c] = s]
  /\ UNCHANGED rows

Loaded == [Idle EXCEPT !.copy = project, !.loaded = project.progress]

\* PATCH .../suggestions/{id}, and POST .../suggestions/batch.
BeginDecide(c, ids, phase, batch) ==
  /\ ids # <<>>
  /\ batch \/ Len(ids) = 1
  /\ Start(c, [Loaded EXCEPT !.phase = phase, !.todo = ids, !.batch = batch])

Go(c, s) ==
  /\ session' = [session EXCEPT ![c] = s]
  /\ UNCHANGED <<suggestion, note, project, text, calls>>

\* Nothing is stored; the locks are released.
Rollback(c) == Go(c, Idle)

\* Broken variant: a batch stays at the item that was refused.
RefuseAgain(c, s, phase) == Go(c, IF session[c].batch THEN [s EXCEPT !.phase = phase] ELSE Idle)

\* The item is answered with an error.  A single request ends, a batch goes on to
\* the next item in the same transaction.
Refuse(c, s, phase) ==
  Go(c, IF session[c].batch THEN [s EXCEPT !.phase = phase, !.todo = Tail(@)] ELSE Idle)

\* 404 not found, 409 not pending.
SelectRefused(c) ==
  /\ At(c, "select")
  /\ View(c, Item(c)) # "pending"
  /\ Refuse(c, session[c], "select")

\* The SELECT of the suggestion and the UPDATE of the one it replaces.
Select(c) ==
  /\ At(c, "select") /\ Unblocked(c)
  /\ View(c, Item(c)) = "pending"
  /\ Go(c, [session[c] EXCEPT
       !.phase = "mark",
       !.writes = [r \in Suggestions |-> IF r \in Replaced(c) THEN "rejected" ELSE @[r]]])

\* UPDATE ... SET status = 'applied' WHERE status = 'pending'.
Mark(c) ==
  /\ At(c, "mark") /\ Unblocked(c)
  /\ View(c, Item(c)) = "pending"
  /\ Go(c, [session[c] EXCEPT !.phase = "index", !.writes[Item(c)] = "applied"])

MarkRefused(c) ==
  /\ At(c, "mark") /\ Unblocked(c)
  /\ View(c, Item(c)) # "pending"
  /\ Refuse(c, session[c], "select")

\* Broken variant: no unique index on the applied suggestion of a field.
ClashNever(c) == FALSE

\* Another suggestion of the field is applied.
Clash(c) == Replaced(c) # {}

\* The same UPDATE puts the row into the unique index, once no other transaction
\* holds the entry.
Index(c) ==
  /\ At(c, "index") /\ Unblocked(c)
  /\ ~Clash(c)
  /\ Go(c, [session[c] EXCEPT !.phase = "lock"])

\* IntegrityError: single request or batch, everything is rolled back (409).
IndexRefused(c) ==
  /\ At(c, "index") /\ Unblocked(c)
  /\ Clash(c)
  /\ Rollback(c)

Target(c) == suggestion[Item(c)].field

WithFields(p, fields) == [p EXCEPT !.fields = fields, !.progress = calculate_progress(fields)]

\* Broken variant: the value goes to a copy of the sections that is not stored.
WriteFieldLost(c) ==
  /\ At(c, "lock") /\ Unblocked(c)
  /\ session[c].copy.fields[Target(c)] # "missing"
  /\ Go(c, [session[c] EXCEPT !.phase = "siblings", !.holds = TRUE])

\* _apply_to_project_data: SELECT FOR UPDATE, then the value goes into the copy.
WriteField(c) ==
  /\ At(c, "lock") /\ Unblocked(c)
  /\ session[c].copy.fields[Target(c)] # "missing"
  /\ Go(c, [session[c] EXCEPT
       !.phase = "siblings", !.holds = TRUE, !.dirty = TRUE,
       !.copy = WithFields(@, [@.fields EXCEPT ![Target(c)] = Item(c)])])

\* 400: no technical sections, or no such field in them.
FieldMissing(c) ==
  /\ At(c, "lock") /\ Unblocked(c)
  /\ session[c].copy.fields[Target(c)] = "missing"
  /\ Refuse(c, [session[c] EXCEPT !.holds = TRUE], "select")

\* _auto_reject_siblings; the item is done.
RejectSiblings(c) ==
  /\ At(c, "siblings") /\ Unblocked(c)
  /\ Go(c, [session[c] EXCEPT
       !.phase = "select", !.todo = Tail(@), !.done = @ \union {Item(c)},
       !.writes = [r \in Suggestions |-> IF r \in Siblings(c) THEN "rejected" ELSE @[r]]])

RejectItem(c) ==
  /\ At(c, "reject") /\ Unblocked(c)
  /\ View(c, Item(c)) = "pending"
  /\ Go(c, [session[c] EXCEPT
       !.todo = Tail(@), !.done = @ \union {Item(c)}, !.writes[Item(c)] = "rejected"])

RejectRefused(c) ==
  /\ At(c, "reject") /\ Unblocked(c)
  /\ View(c, Item(c)) # "pending"
  /\ Refuse(c, session[c], "reject")

\* A column is written if its new value is not the one that was loaded; the
\* document is flagged and always written, the progress need not be.
Stored(c, new) ==
  [new EXCEPT !.progress = IF @ = session[c].loaded THEN project.progress ELSE @]

Commit(c) ==
  /\ session[c].phase \in {"select", "reject"} /\ session[c].todo = <<>>
  /\ suggestion' = [s \in Suggestions |-> [suggestion[s] EXCEPT !.status = View(c, s)]]
  /\ project' = IF session[c].dirty THEN Stored(c, session[c].copy) ELSE project
  /\ session' = [session EXCEPT ![c] = Idle]
  /\ UNCHANGED <<note, text, calls>>

\* The connection or the process is lost.
Crash(c) == session[c].phase # "idle" /\ Rollback(c)

\* The database ends one request of a deadlock (500).
Victim(c) == Deadlocked(c) /\ Rollback(c)

-----------------------------------------------------------------------------
(* Writing the project document *)

BeginSave(c) == Start(c, [Loaded EXCEPT !.phase = "save"])

Save(c, new) ==
  /\ session[c].phase = "save" /\ Unblocked(c)
  /\ project' = Stored(c, new)
  /\ session' = [session EXCEPT ![c] = Idle]
  /\ UNCHANGED <<suggestion, note, text, calls>>

\* PATCH with technical_sections: the list is replaced by that of the request.
PatchSections(c, fields) == Save(c, WithFields(session[c].copy, fields))

\* PATCH without them, quality parameters and custom sections: the rest of the
\* document is that of the copy, the progress is not computed.
PatchCustom(c, custom) == Save(c, [session[c].copy EXCEPT !.custom = custom])

\* PUT: the document of the request.
Replace(c, fields, custom) ==
  Save(c, WithFields([session[c].copy EXCEPT !.custom = custom], fields))

-----------------------------------------------------------------------------
(* The intake text and its analysis *)

Fresh(s) ==
  /\ suggestion[s].status = "absent"
  /\ \A c \in Clients : \A i \in 1..Len(session[c].todo) : session[c].todo[i] # s
  /\ \A c \in Clients : session[c].writes[s] = "kept"

save_notes ==
  /\ text < MaxVersion
  /\ text' = text + 1
  /\ UNCHANGED <<suggestion, note, project, session, calls>>

\* The request names the version it has read; another one is answered as stale.
BeginAnalysis(c) ==
  /\ text > 0
  /\ Start(c, [Idle EXCEPT !.phase = "ai", !.version = text])

\* The answer of the model, if the text has not been saved again in between.
Analysed(c) ==
  /\ session[c].phase = "ai"
  /\ session[c].version = text
  /\ Go(c, [session[c] EXCEPT !.phase = "persist"])

\* Stale, or the model failed.
NotAnalysed(c) == session[c].phase = "ai" /\ Rollback(c)

\* mapped_to_suggestion_id is ON DELETE SET NULL.
Unlink(row, deleted) ==
  IF row.suggestion \in deleted THEN [row EXCEPT !.suggestion = "none"] ELSE row

\* Broken variant: the suggestions of the last analysis go whatever was decided.
NotesPendingAny == {s \in Suggestions : suggestion[s].source = "notes"}

NotesPending == PendingOf("notes")
OpenOf(source) == {n \in Notes : note[n].status = "open" /\ note[n].source = source}

\* The pending suggestions from notes and the open notes without a file make way
\* for those of this analysis: found[s] is the field of the new suggestion s.
Persist(c, new, found, texts, low) ==
  /\ session[c].phase = "persist" /\ Unblocked(c)
  /\ \A s \in new : Fresh(s)
  /\ \A n \in texts : note[n].status = "absent"
  /\ suggestion' = [s \in Suggestions |->
       IF s \in new THEN [status |-> "pending", field |-> found[s], source |-> "notes"]
       ELSE IF s \in NotesPending THEN AbsentSuggestion ELSE suggestion[s]]
  /\ note' = [n \in Notes |->
       IF n \in texts
       THEN [AbsentNote EXCEPT !.status = "open", !.source = "notes", !.low = low]
       ELSE IF n \in OpenOf("notes") THEN AbsentNote ELSE Unlink(note[n], NotesPending)]
  /\ session' = [session EXCEPT ![c] = Idle]
  /\ UNCHANGED <<project, text, calls>>

-----------------------------------------------------------------------------
(* Unmapped notes *)

\* The user names the field; the suggestion is of the note's file, if it has one.
map_unmapped_note(n, s, f) ==
  /\ note[n].status = "open"
  /\ Fresh(s)
  /\ note' = [note EXCEPT ![n].status = "mapped", ![n].suggestion = s]
  /\ suggestion' = [suggestion EXCEPT ![s] =
       [status |-> "pending", field |-> f,
        source |-> IF note[n].source \in Files THEN note[n].source ELSE "notes"]]
  /\ UNCHANGED <<project, text, session, calls>>

Dismiss(dismissed) ==
  /\ dismissed # {}
  /\ note' = [n \in Notes |->
       IF n \in dismissed THEN [note[n] EXCEPT !.status = "dismissed"] ELSE note[n]]
  /\ UNCHANGED <<suggestion, project, text, session, calls>>

Open == {n \in Notes : note[n].status = "open"}

dismiss_unmapped_note(n) == n \in Open /\ Dismiss({n})
dismiss_all_unmapped == Dismiss(Open)
dismiss_unmapped_by_confidence == Dismiss({n \in Open : note[n].low})

\* source_file_id is NULL for the notes of the text and of deleted files.
dismiss_unmapped_by_file(source) ==
  Dismiss(IF source \in Files THEN OpenOf(source) ELSE Open \ UNION {OpenOf(f) : f \in Files})

-----------------------------------------------------------------------------
(* What the ingestion of a file and its deletion do to the panel *)

NobodyLocks(locked) == \A d \in Clients : ~Locks(d, locked)

Delete(deleted) ==
  /\ NobodyLocks(deleted)
  /\ suggestion' = [s \in Suggestions |-> IF s \in deleted THEN AbsentSuggestion ELSE suggestion[s]]

\* _delete_pending_for_source, and the summary of an image as a new note.
FileOutputs(f, texts) ==
  /\ \A n \in texts : note[n].status = "absent"
  /\ Delete(PendingOf(f))
  /\ note' = [n \in Notes |->
       IF n \in texts
       THEN [AbsentNote EXCEPT !.status = "open", !.source = f, !.low = TRUE]
       ELSE IF n \in OpenOf(f) THEN AbsentNote ELSE Unlink(note[n], PendingOf(f))]
  /\ UNCHANGED <<project, text, session, calls>>

\* The suggestions of the files go with them, their notes stay without a file.
FilesDeleted(files) ==
  LET gone == {s \in Suggestions : suggestion[s].source \in files} IN
  /\ Delete(gone)
  /\ note' = [n \in Notes |->
       IF note[n].source \in files THEN [Unlink(note[n], gone) EXCEPT !.source = "none"]
       ELSE Unlink(note[n], gone)]
  /\ UNCHANGED <<project, text, session, calls>>

-----------------------------------------------------------------------------
Documents == [Fields -> {"missing", "empty", "typed"}]
Singletons(S) == {{x} : x \in S} \union {{}}

\* One step of the request of c, once it has begun.
Decide(c) ==
  \/ Select(c) \/ SelectRefused(c) \/ Mark(c) \/ MarkRefused(c)
  \/ Index(c) \/ IndexRefused(c) \/ WriteField(c) \/ FieldMissing(c)
  \/ RejectSiblings(c) \/ RejectItem(c) \/ RejectRefused(c)
  \/ Commit(c) \/ Victim(c)

SaveAny(c) ==
  /\ session[c].phase = "save"
  /\ \/ \E d \in Documents : PatchSections(c, d)
     \/ \E k \in BOOLEAN : PatchCustom(c, k)
     \/ \E d \in Documents, k \in BOOLEAN : Replace(c, d, k)

PersistAny(c) ==
  /\ session[c].phase = "persist"
  /\ \E new \in Singletons(Suggestions), texts \in Singletons(Notes) :
       \E found \in [new -> Fields], low \in BOOLEAN : Persist(c, new, found, texts, low)

Advance(c) == Decide(c) \/ SaveAny(c) \/ Analysed(c) \/ NotAnalysed(c) \/ PersistAny(c)

Request(c) ==
  \/ \E ids \in Batches, phase \in {"select", "reject"}, batch \in BOOLEAN :
       BeginDecide(c, ids, phase, batch)
  \/ BeginSave(c) \/ BeginAnalysis(c) \/ Crash(c)

Panel ==
  \/ save_notes
  \/ \E n \in Notes, s \in Suggestions, f \in Fields : map_unmapped_note(n, s, f)
  \/ \E n \in Notes : dismiss_unmapped_note(n)
  \/ dismiss_all_unmapped \/ dismiss_unmapped_by_confidence
  \/ \E source \in Files \union {"notes"} : dismiss_unmapped_by_file(source)

\* The service without the files.
ServiceNext == Panel \/ \E c \in Clients : Advance(c) \/ Request(c)

FileNext ==
  \/ \E files \in SUBSET Files : FilesDeleted(files)
  \/ \E f \in Files, texts \in Singletons(Notes) : FileOutputs(f, texts)

Next == ServiceNext \/ FileNext

Spec == Init /\ [][Next]_vars

\* A request that has begun goes on; nothing makes a user begin one.
FairSpec == Spec /\ \A c \in Clients : WF_vars(Advance(c))

-----------------------------------------------------------------------------
(* Properties *)

SameField(r, s) == suggestion[r].field = suggestion[s].field
Applied(s) == suggestion[s].status = "applied"

\* A field has at most one applied suggestion (models/intake_suggestion.py:52),
\* whatever requests, re-analyses and file deletions overlap.
OneAppliedPerField ==
  \A r, s \in Suggestions : Applied(r) /\ Applied(s) /\ SameField(r, s) => r = s

\* What a user decided stays: an applied suggestion is rejected only in favour of
\* another one of its field (or by a batch, which commits also after an error),
\* nothing returns to pending, and no analysis or ingestion removes a decided row;
\* it goes only with all the others of its file.
DecisionsKept ==
  [][\A s \in Suggestions : suggestion[s].status \in Decided =>
       \/ suggestion'[s] = suggestion[s]
       \/ /\ Applied(s)
          /\ suggestion'[s].status = "rejected"
          /\ \/ \E r \in Suggestions \ {s} : suggestion'[r].status = "applied" /\ SameField(r, s)
             \/ \E c \in Clients : Commit(c) /\ session[c].batch
       \/ /\ suggestion[s].source \in Files
          /\ \A r \in Suggestions :
               suggestion[r].source = suggestion[s].source => suggestion'[r] = AbsentSuggestion]_vars

\* What a committed request answers as applied is applied and is the value of its
\* field in the stored document, whatever else of its batch was refused or came later;
\* what it answers as rejected is rejected.
ReportedIsDone ==
  [][\A c \in Clients : Commit(c) => \A s \in session[c].done :
       IF session[c].phase = "select"
       THEN suggestion'[s].status = "applied" /\ project'.fields[suggestion[s].field] = s
       ELSE suggestion'[s].status = "rejected"]_vars

\* intake_service.py:673: a suggestion that becomes applied updates project_data.  TLC
\* refutes it with a batch whose field is not in the document.
AppliedIsWritten ==
  [][\A s \in Suggestions : ~Applied(s) /\ suggestion'[s].status = "applied" =>
       project'.fields[suggestion[s].field] = s]_vars

\* models/project.py:50: the progress is the completion of the document.  TLC refutes
\* it with two overlapping saves.
ProgressIsCompletion == project.progress = calculate_progress(project.fields)

\* Every request comes to an end, also when requests wait for each other's rows.
RequestEnds == \A c \in Clients : session[c].phase # "idle" ~> session[c].phase = "idle"
=============================================================================
