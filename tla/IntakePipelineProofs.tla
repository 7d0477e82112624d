------------------------ MODULE IntakePipelineProofs ------------------------
(***************************************************************************)
(* Theorems about ProjectIntake, for any suggestions, notes, files, fields *)
(* and any number of requests; about FileIngestion, for any files, any     *)
(* number of workers and any limit of attempts; and about IntakePipeline:  *)
(* on one database each component behaves as it does alone, and the panel  *)
(* follows the files.                                                      *)
(***************************************************************************)
EXTENDS IntakePipeline, FiniteSetTheorems, SequenceTheorems, TLAPS

-----------------------------------------------------------------------------
(* The requests on the panel and on the document *)

\* r is applied as c sees it; the row c is about to put into the index does not count.
AppliedIn(c, r) == View(c, r) = "applied" /\ ~(At(c, "index") /\ Item(c) = r)

\* A row is written by at most one open transaction.
LocksDisjoint ==
  \A c, d \in Clients : c # d =>
    \A s \in Suggestions : session[c].writes[s] = "kept" \/ session[d].writes[s] = "kept"

\* No request sees two applied suggestions of a field.
OnePerView ==
  \A c \in Clients : \A r, s \in Suggestions :
    AppliedIn(c, r) /\ AppliedIn(c, s) /\ SameField(r, s) => r = s

\* No two transactions have put suggestions of one field into the index.
OneEntry ==
  \A c, d \in Clients : c # d =>
    \A r, s \in Suggestions : Indexed(c, r) /\ Indexed(d, s) => ~SameField(r, s)

OneInv == LocksDisjoint /\ OneAppliedPerField /\ OnePerView /\ OneEntry

-----------------------------------------------------------------------------
LEMMA ProgressType ==
  ASSUME NEW fields \in [Fields -> Contents] PROVE calculate_progress(fields) \in Int
<1>1. IsFiniteSet(Present(fields)) /\ IsFiniteSet(Filled(fields))
  BY FieldsAssumption, FS_Subset DEF Present, Filled
<1>2. PICK total \in Nat, filled \in Nat :
        total = Cardinality(Present(fields)) /\ filled = Cardinality(Filled(fields))
  BY <1>1, FS_CardinalityType
<1>3. CASE total = 0
  BY <1>2, <1>3 DEF calculate_progress
<1>4. CASE total # 0
  <2>1. (100 * filled) \div total \in Int
    BY <1>2, <1>4
  <2> QED
    BY <1>2, <1>4, <2>1 DEF calculate_progress
<1> QED
  BY <1>3, <1>4

LEMMA WithFieldsType ==
  ASSUME NEW p \in Project, NEW fields \in [Fields -> Contents]
  PROVE WithFields(p, fields) \in Project /\ WithFields(p, fields).fields = fields
BY ProgressType DEF WithFields, Project

LEMMA NoProjectType == NoProject \in Project
BY DEF NoProject, Project, Contents

LEMMA StoredType ==
  ASSUME TypeOK, NEW c \in Clients, NEW new \in Project
  PROVE Stored(c, new) \in Project /\ Stored(c, new).fields = new.fields
BY DEF Stored, Project, TypeOK

LEMMA SessionType ==
  ASSUME TypeOK, NEW c \in Clients
  PROVE /\ session[c] \in Session
        /\ session[c].todo \in Seq(Suggestions)
        /\ session[c].writes \in [Suggestions -> Decided \union {"kept"}]
        /\ session[c].copy \in Project /\ session[c].loaded \in Int
        /\ session[c].version \in 0..MaxVersion
        /\ session[c].done \subseteq Suggestions
BY DEF TypeOK, Session

LEMMA WritesType ==
  ASSUME NEW s \in Session, NEW phase \in Phases,
         NEW writes \in [Suggestions -> Decided \union {"kept"}]
  PROVE [s EXCEPT !.phase = phase, !.writes = writes] \in Session
BY DEF Session

LEMMA DecidedItemType ==
  ASSUME NEW s \in Session, NEW phase \in Phases, NEW todo \in Seq(Suggestions),
         NEW done \in SUBSET Suggestions, NEW writes \in [Suggestions -> Decided \union {"kept"}]
  PROVE [s EXCEPT !.phase = phase, !.todo = todo, !.done = done, !.writes = writes] \in Session
BY DEF Session

LEMMA RowTypes ==
  ASSUME TypeOK
  PROVE /\ \A s \in Suggestions : suggestion[s] \in Suggestion
        /\ \A n \in Notes : note[n] \in Note
        /\ project \in Project /\ project.fields \in [Fields -> Contents]
BY DEF TypeOK, Project

LEMMA EmptyRowTypes == AbsentSuggestion \in Suggestion /\ AbsentNote \in Note
BY DEF AbsentSuggestion, Suggestion, AbsentNote, Note, Sources

LEMMA IdleType == Idle \in Session
<1>1. <<>> \in Seq(Suggestions) /\ 0 \in 0..MaxVersion
  BY BoundsAssumption
<1> QED
  BY <1>1, NoProjectType DEF Idle, Session, Phases

LEMMA LoadedType ==
  ASSUME TypeOK
  PROVE /\ Loaded \in Session /\ Loaded.copy = project /\ Loaded.loaded = project.progress
        /\ Loaded.writes = [s \in Suggestions |-> "kept"]
<1>1. project \in Project /\ project.progress \in Int
  BY DEF TypeOK, Project
<1> QED
  BY <1>1, IdleType DEF Loaded, Idle, Session

LEMMA ItemType ==
  ASSUME TypeOK, NEW c \in Clients, NEW phase, At(c, phase)
  PROVE /\ Item(c) \in Suggestions /\ Tail(session[c].todo) \in Seq(Suggestions)
        /\ session[c].phase = phase /\ session[c].todo # <<>>
BY SessionType DEF At, Item

\* The request goes on; no stored row changes.
LEMMA GoType ==
  ASSUME TypeOK, NEW c \in Clients, NEW s \in Session, Go(c, s) PROVE TypeOK'
BY DEF Go, TypeOK

LEMMA RollbackType ==
  ASSUME TypeOK, NEW c \in Clients, Rollback(c) PROVE TypeOK'
BY GoType, IdleType DEF Rollback

LEMMA RefuseType ==
  ASSUME TypeOK, NEW c \in Clients, NEW s \in Session, NEW phase \in Phases,
         s.todo # <<>>, Refuse(c, s, phase)
  PROVE TypeOK'
<1>1. CASE session[c].batch
  <2>1. PICK next : next = [s EXCEPT !.phase = phase, !.todo = Tail(s.todo)]
    OBVIOUS
  <2>2. Go(c, next)
    BY <1>1, <2>1 DEF Refuse
  <2>3. Tail(s.todo) \in Seq(Suggestions)
    BY DEF Session
  <2>4. next \in Session
    BY <2>1, <2>3 DEF Session
  <2> QED
    BY <2>2, <2>4, GoType
<1>2. CASE ~session[c].batch
  BY <1>2, GoType, IdleType DEF Refuse
<1> QED
  BY <1>1, <1>2

LEMMA StartType ==
  ASSUME TypeOK, NEW c \in Clients, NEW s \in Session, Start(c, s) PROVE TypeOK'
<1>1. calls' \in 0..MaxCalls
  BY BoundsAssumption DEF Start, TypeOK
<1> QED
  BY <1>1 DEF Start, TypeOK, rows

LEMMA SelectType ==
  ASSUME TypeOK, NEW c \in Clients, Select(c) PROVE TypeOK'
<1>1. PICK writes : writes =
        [r \in Suggestions |-> IF r \in Replaced(c) THEN "rejected" ELSE session[c].writes[r]]
  OBVIOUS
<1>2. writes \in [Suggestions -> Decided \union {"kept"}]
  BY <1>1, SessionType DEF Decided
<1>3. PICK next : next = [session[c] EXCEPT !.phase = "mark", !.writes = writes]
  OBVIOUS
<1>4. Go(c, next)
  BY <1>1, <1>3 DEF Select
<1>5. next \in Session
  BY <1>2, <1>3, SessionType, WritesType DEF Phases
<1> QED
  BY <1>4, <1>5, GoType

LEMMA MarkType ==
  ASSUME TypeOK, NEW c \in Clients, Mark(c) PROVE TypeOK'
<1>1. PICK writes : writes = [session[c].writes EXCEPT ![Item(c)] = "applied"]
  OBVIOUS
<1>2. writes \in [Suggestions -> Decided \union {"kept"}]
  BY <1>1, SessionType DEF Decided
<1>3. PICK next : next = [session[c] EXCEPT !.phase = "index", !.writes = writes]
  OBVIOUS
<1>4. Go(c, next)
  BY <1>1, <1>3, SessionType DEF Mark, Session
<1>5. next \in Session
  BY <1>2, <1>3, SessionType, WritesType DEF Phases
<1> QED
  BY <1>4, <1>5, GoType

LEMMA IndexType ==
  ASSUME TypeOK, NEW c \in Clients, Index(c) PROVE TypeOK'
<1>1. PICK next : next = [session[c] EXCEPT !.phase = "lock"]
  OBVIOUS
<1>2. next \in Session
  BY <1>1, SessionType DEF Session, Phases
<1> QED
  BY <1>1, <1>2, GoType DEF Index

LEMMA TargetType ==
  ASSUME TypeOK, NEW c \in Clients, At(c, "lock"),
         session[c].copy.fields[Target(c)] # "missing"
  PROVE [session[c].copy.fields EXCEPT ![Target(c)] = Item(c)] \in [Fields -> Contents]
<1>1. session[c].copy.fields \in [Fields -> Contents] /\ Item(c) \in Contents
  BY SessionType, ItemType DEF Project, Contents
<1> QED
  BY <1>1

LEMMA WriteFieldType ==
  ASSUME TypeOK, NEW c \in Clients, WriteField(c) PROVE TypeOK'
<1>1. PICK copy : copy = WithFields(session[c].copy,
                           [session[c].copy.fields EXCEPT ![Target(c)] = Item(c)])
  OBVIOUS
<1>2. copy \in Project
  BY <1>1, TargetType, SessionType, WithFieldsType DEF WriteField
<1>3. PICK next : next = [session[c] EXCEPT !.phase = "siblings", !.holds = TRUE,
                                            !.dirty = TRUE, !.copy = copy]
  OBVIOUS
<1>4. Go(c, next)
  BY <1>1, <1>3, SessionType DEF WriteField, Session
<1>5. next \in Session
  BY <1>2, <1>3, SessionType DEF Session, Phases
<1> QED
  BY <1>4, <1>5, GoType

LEMMA FieldMissingType ==
  ASSUME TypeOK, NEW c \in Clients, FieldMissing(c) PROVE TypeOK'
<1>1. PICK next : next = [session[c] EXCEPT !.holds = TRUE]
  OBVIOUS
<1>2. next \in Session /\ next.todo = session[c].todo
  BY <1>1, SessionType DEF Session
<1> QED
  BY <1>1, <1>2, RefuseType, ItemType DEF FieldMissing, Phases

LEMMA RejectSiblingsType ==
  ASSUME TypeOK, NEW c \in Clients, RejectSiblings(c) PROVE TypeOK'
<1>1. PICK writes : writes =
        [r \in Suggestions |-> IF r \in Siblings(c) THEN "rejected" ELSE session[c].writes[r]]
  OBVIOUS
<1>2. writes \in [Suggestions -> Decided \union {"kept"}]
  BY <1>1, SessionType DEF Decided
<1>3. PICK next : next = [session[c] EXCEPT !.phase = "select", !.todo = Tail(session[c].todo),
                            !.done = session[c].done \union {Item(c)}, !.writes = writes]
  OBVIOUS
<1>4. Go(c, next)
  BY <1>1, <1>3, SessionType DEF RejectSiblings, Session
<1>5. next \in Session
  <2>1. Item(c) \in Suggestions /\ Tail(session[c].todo) \in Seq(Suggestions)
    BY ItemType DEF RejectSiblings
  <2>2. session[c].done \union {Item(c)} \in SUBSET Suggestions
    BY <2>1, SessionType
  <2> QED
    BY <1>2, <1>3, <2>1, <2>2, SessionType, DecidedItemType DEF Phases
<1> QED
  BY <1>4, <1>5, GoType

LEMMA RejectItemType ==
  ASSUME TypeOK, NEW c \in Clients, RejectItem(c) PROVE TypeOK'
<1>1. PICK writes : writes = [session[c].writes EXCEPT ![Item(c)] = "rejected"]
  OBVIOUS
<1>2. writes \in [Suggestions -> Decided \union {"kept"}]
  BY <1>1, SessionType DEF Decided
<1>3. PICK next : next = [session[c] EXCEPT !.todo = Tail(session[c].todo),
                            !.done = session[c].done \union {Item(c)}, !.writes = writes]
  OBVIOUS
<1>4. Go(c, next)
  BY <1>1, <1>3, SessionType DEF RejectItem, Session
<1>5. next \in Session
  <2>1. Item(c) \in Suggestions /\ Tail(session[c].todo) \in Seq(Suggestions)
    BY ItemType DEF RejectItem
  <2> QED
    BY <1>2, <1>3, <2>1, SessionType DEF Session
<1> QED
  BY <1>4, <1>5, GoType

LEMMA CommitType ==
  ASSUME TypeOK, NEW c \in Clients, Commit(c) PROVE TypeOK'
<1>1. ASSUME NEW s \in Suggestions
      PROVE [suggestion[s] EXCEPT !.status = View(c, s)] \in Suggestion
  <2>1. View(c, s) \in {"absent", "pending"} \union Decided
    BY SessionType, RowTypes DEF View, Suggestion
  <2> QED
    BY <2>1, RowTypes DEF Suggestion
<1>2. suggestion' \in [Suggestions -> Suggestion]
  BY <1>1 DEF Commit
<1>3. project' \in Project
  BY SessionType, StoredType, RowTypes DEF Commit
<1> QED
  BY <1>2, <1>3, IdleType DEF Commit, TypeOK

LEMMA DecideType ==
  ASSUME TypeOK, NEW c \in Clients, Decide(c) PROVE TypeOK'
<1>1. CASE SelectRefused(c) \/ MarkRefused(c)
  BY <1>1, RefuseType, SessionType, ItemType DEF SelectRefused, MarkRefused, Phases
<1>2. CASE RejectRefused(c)
  BY <1>2, RefuseType, SessionType, ItemType DEF RejectRefused, Phases
<1>3. CASE IndexRefused(c) \/ Victim(c)
  BY <1>3, RollbackType DEF IndexRefused, Victim
<1> QED
  BY <1>1, <1>2, <1>3, SelectType, MarkType, IndexType, WriteFieldType, FieldMissingType,
     RejectSiblingsType, RejectItemType, CommitType DEF Decide

LEMMA SaveType ==
  ASSUME TypeOK, NEW c \in Clients, SaveAny(c) PROVE TypeOK'
<1>1. ASSUME NEW new \in Project, Save(c, new) PROVE TypeOK'
  BY <1>1, StoredType, IdleType DEF Save, TypeOK
<1>2. \A d \in Documents : d \in [Fields -> Contents]
  BY DEF Documents, Contents
<1>3. \A k \in BOOLEAN : [session[c].copy EXCEPT !.custom = k] \in Project
  BY SessionType DEF Project
<1>4. CASE \E d \in Documents : PatchSections(c, d)
  BY <1>1, <1>2, <1>4, SessionType, WithFieldsType DEF PatchSections
<1>5. CASE \E k \in BOOLEAN : PatchCustom(c, k)
  BY <1>1, <1>3, <1>5 DEF PatchCustom
<1>6. CASE \E d \in Documents, k \in BOOLEAN : Replace(c, d, k)
  BY <1>1, <1>2, <1>3, <1>6, WithFieldsType DEF Replace
<1> QED
  BY <1>4, <1>5, <1>6 DEF SaveAny

LEMMA AnalysisType ==
  ASSUME TypeOK, NEW c \in Clients, Analysed(c) \/ NotAnalysed(c) PROVE TypeOK'
<1>1. PICK next : next = [session[c] EXCEPT !.phase = "persist"]
  OBVIOUS
<1>2. next \in Session
  BY <1>1, SessionType DEF Session, Phases
<1> QED
  BY <1>1, <1>2, GoType, RollbackType DEF Analysed, NotAnalysed

LEMMA UnlinkType ==
  ASSUME NEW row \in Note, NEW deleted PROVE Unlink(row, deleted) \in Note
BY DEF Unlink, Note

LEMMA PersistType ==
  ASSUME TypeOK, NEW c \in Clients, PersistAny(c) PROVE TypeOK'
<1>0. PICK new \in SUBSET Suggestions, texts \in SUBSET Notes :
        \E found \in [new -> Fields], low \in BOOLEAN : Persist(c, new, found, texts, low)
  BY DEF PersistAny, Singletons
<1>1. PICK found \in [new -> Fields], low \in BOOLEAN : Persist(c, new, found, texts, low)
  BY <1>0
<1>2. suggestion' \in [Suggestions -> Suggestion]
  <2>1. \A s \in new : [status |-> "pending", field |-> found[s], source |-> "notes"] \in Suggestion
    BY DEF Suggestion, Sources
  <2> QED
    BY <1>1, <2>1, RowTypes, EmptyRowTypes DEF Persist
<1>3. note' \in [Notes -> Note]
  <2>1. [AbsentNote EXCEPT !.status = "open", !.source = "notes", !.low = low] \in Note
    BY DEF AbsentNote, Note, Sources
  <2> QED
    BY <1>1, <2>1, RowTypes, EmptyRowTypes, UnlinkType DEF Persist
<1> QED
  BY <1>1, <1>2, <1>3, IdleType DEF Persist, TypeOK

LEMMA RequestType ==
  ASSUME TypeOK, NEW c \in Clients, Request(c) PROVE TypeOK'
<1>1. CASE \E ids \in Batches, phase \in {"select", "reject"}, batch \in BOOLEAN :
             BeginDecide(c, ids, phase, batch)
  <2>1. PICK ids \in Batches, phase \in {"select", "reject"}, batch \in BOOLEAN :
          BeginDecide(c, ids, phase, batch)
    BY <1>1
  <2>2. PICK s : s = [Loaded EXCEPT !.phase = phase, !.todo = ids, !.batch = batch]
    OBVIOUS
  <2>3. s \in Session
    BY <2>2, LoadedType, BatchesAssumption DEF Session, Phases
  <2> QED
    BY <2>1, <2>2, <2>3, StartType DEF BeginDecide
<1>2. CASE BeginSave(c)
  <2>1. PICK s : s = [Loaded EXCEPT !.phase = "save"]
    OBVIOUS
  <2>2. s \in Session
    BY <2>1, LoadedType DEF Session, Phases
  <2> QED
    BY <1>2, <2>1, <2>2, StartType DEF BeginSave
<1>3. CASE BeginAnalysis(c)
  <2>1. PICK s : s = [Idle EXCEPT !.phase = "ai", !.version = text]
    OBVIOUS
  <2>2. s \in Session
    BY <2>1, IdleType DEF Session, Phases, TypeOK
  <2> QED
    BY <1>3, <2>1, <2>2, StartType DEF BeginAnalysis
<1>4. CASE Crash(c)
  BY <1>4, RollbackType DEF Crash
<1> QED
  BY <1>1, <1>2, <1>3, <1>4 DEF Request

LEMMA DismissType ==
  ASSUME TypeOK, NEW dismissed, Dismiss(dismissed) PROVE TypeOK'
<1>1. \A n \in Notes : [note[n] EXCEPT !.status = "dismissed"] \in Note
  BY RowTypes DEF Note
<1>2. note' \in [Notes -> Note]
  BY <1>1, RowTypes DEF Dismiss
<1> QED
  BY <1>2 DEF Dismiss, TypeOK

LEMMA MapType ==
  ASSUME TypeOK, NEW n \in Notes, NEW s \in Suggestions, NEW f \in Fields,
         map_unmapped_note(n, s, f)
  PROVE TypeOK'
<1>1. note' \in [Notes -> Note]
  <2>1. PICK row : row = [note[n] EXCEPT !.status = "mapped", !.suggestion = s]
    OBVIOUS
  <2>2. row \in Note
    BY <2>1, RowTypes DEF Note
  <2>3. note' = [note EXCEPT ![n] = row]
    BY <2>1 DEF map_unmapped_note, TypeOK
  <2> QED
    BY <2>2, <2>3 DEF TypeOK
<1>2. suggestion' \in [Suggestions -> Suggestion]
  BY DEF map_unmapped_note, TypeOK, Suggestion, Sources
<1> QED
  BY <1>1, <1>2 DEF map_unmapped_note, TypeOK

LEMMA PanelType ==
  ASSUME TypeOK, Panel PROVE TypeOK'
<1>1. CASE save_notes
  BY <1>1, BoundsAssumption DEF save_notes, TypeOK
<1> QED
  BY <1>1, MapType, DismissType
  DEF Panel, dismiss_unmapped_note, dismiss_all_unmapped, dismiss_unmapped_by_confidence,
      dismiss_unmapped_by_file

LEMMA DeleteType ==
  ASSUME TypeOK, NEW deleted, Delete(deleted)
  PROVE suggestion' \in [Suggestions -> Suggestion]
BY RowTypes, EmptyRowTypes DEF Delete

LEMMA FileType ==
  ASSUME TypeOK, FileNext PROVE TypeOK'
<1>1. ASSUME NEW f \in Files, NEW texts, FileOutputs(f, texts) PROVE TypeOK'
  <2>1. [AbsentNote EXCEPT !.status = "open", !.source = f, !.low = TRUE] \in Note
    BY DEF AbsentNote, Note, Sources
  <2>2. note' \in [Notes -> Note]
    BY <1>1, <2>1, RowTypes, EmptyRowTypes, UnlinkType DEF FileOutputs
  <2> QED
    BY <1>1, <2>2, DeleteType DEF FileOutputs, TypeOK
<1>2. ASSUME NEW files, FilesDeleted(files) PROVE TypeOK'
  <2>1. PICK gone : gone = {s \in Suggestions : suggestion[s].source \in files}
    OBVIOUS
  <2>2. \A n \in Notes : [Unlink(note[n], gone) EXCEPT !.source = "none"] \in Note
    BY RowTypes, UnlinkType DEF Note, Sources
  <2>3. note' = [n \in Notes |->
          IF note[n].source \in files THEN [Unlink(note[n], gone) EXCEPT !.source = "none"]
          ELSE Unlink(note[n], gone)]
    BY <1>2, <2>1 DEF FilesDeleted
  <2>4. note' \in [Notes -> Note]
    BY <2>2, <2>3, RowTypes, UnlinkType
  <2> QED
    BY <1>2, <2>1, <2>4, DeleteType DEF FilesDeleted, TypeOK
<1> QED
  BY <1>1, <1>2 DEF FileNext

LEMMA InitTypeOK == Init => TypeOK
<1> SUFFICES ASSUME Init PROVE TypeOK
  OBVIOUS
<1>1. OpenNote \in Note /\ DismissedNote \in Note
  BY DEF OpenNote, DismissedNote, AbsentNote, Note, Sources
<1>2. [NoProject EXCEPT !.fields = [f \in Fields |-> "empty"]] \in Project
  BY NoProjectType DEF Project, Contents
<1> QED
  BY <1>1, <1>2, NoProjectType, EmptyRowTypes, IdleType DEF Init, TypeOK

LEMMA NextTypeOK == ASSUME TypeOK, [Next]_vars PROVE TypeOK'
<1>1. CASE \E c \in Clients : Advance(c)
  BY <1>1, DecideType, SaveType, AnalysisType, PersistType DEF Advance
<1>2. CASE UNCHANGED vars
  BY <1>2 DEF vars, TypeOK
<1> QED
  BY <1>1, <1>2, RequestType, PanelType, FileType DEF Next, ServiceNext

-----------------------------------------------------------------------------
(* One applied suggestion per field *)

LEMMA InitOne == Init => OneInv
BY DEF Init, OneInv, LocksDisjoint, OneAppliedPerField, OnePerView, OneEntry, AppliedIn, Indexed,
       View, Applied, Idle, AbsentSuggestion

\* Only the session of c changes; it locks rows nobody else has, and applies nothing.
LEMMA SessionKeepsOne ==
  ASSUME TypeOK, OneInv, NEW c \in Clients, NEW next,
         session' = [session EXCEPT ![c] = next], UNCHANGED suggestion,
         \A s \in Suggestions : next.writes[s] = "kept" \/ session[c].writes[s] # "kept"
           \/ \A d \in Clients \ {c} : session[d].writes[s] = "kept",
         \/ \A s \in Suggestions : AppliedIn(c, s)' => AppliedIn(c, s)
         \/ \A s \in Suggestions : next.writes[s] = "kept",
         \A s \in Suggestions : Indexed(c, s)' => Indexed(c, s)
  PROVE OneInv'
<1>1. session'[c] = next /\ \A d \in Clients \ {c} : session'[d] = session[d]
  BY DEF TypeOK
<1>2. LocksDisjoint'
  BY <1>1 DEF LocksDisjoint, OneInv
<1>3. OneAppliedPerField'
  BY DEF OneInv, OneAppliedPerField, Applied, SameField
<1>4. \A r, s \in Suggestions : SameField(r, s)' <=> SameField(r, s)
  BY DEF SameField
<1>5. \A d \in Clients \ {c}, s \in Suggestions :
        (AppliedIn(d, s)' <=> AppliedIn(d, s)) /\ (Indexed(d, s)' <=> Indexed(d, s))
  BY <1>1 DEF AppliedIn, Indexed, View, At, Item
<1>6. OnePerView'
  <2> SUFFICES ASSUME NEW d \in Clients, NEW r \in Suggestions, NEW s \in Suggestions,
                      AppliedIn(d, r)', AppliedIn(d, s)', SameField(r, s)
               PROVE r = s
    BY <1>4 DEF OnePerView
  <2>1. CASE d # c
    BY <1>5, <2>1 DEF OneInv, OnePerView
  <2>2. CASE d = c /\ AppliedIn(c, r) /\ AppliedIn(c, s)
    BY <2>2 DEF OneInv, OnePerView
  <2>3. CASE d = c /\ \A x \in Suggestions : next.writes[x] = "kept"
    BY <1>1, <2>3 DEF OneInv, OneAppliedPerField, AppliedIn, View, Applied
  <2> QED
    BY <2>1, <2>2, <2>3
<1>7. OneEntry'
  BY <1>4, <1>5 DEF OneInv, OneEntry
<1> QED
  BY <1>2, <1>3, <1>6, <1>7 DEF OneInv

\* The transaction of c is over or has not begun.
LEMMA ResetKeepsOne ==
  ASSUME TypeOK, OneInv, NEW c \in Clients, NEW next,
         session' = [session EXCEPT ![c] = next], UNCHANGED suggestion,
         next.writes = [s \in Suggestions |-> "kept"]
  PROVE OneInv'
<1>1. session'[c] = next /\ \A s \in Suggestions : next.writes[s] = "kept"
  BY DEF TypeOK
<1>2. \A s \in Suggestions : AppliedIn(c, s)' => Applied(s)
  BY <1>1 DEF AppliedIn, View, Applied
<1>3. \A s \in Suggestions : ~Indexed(c, s)'
  BY <1>1 DEF Indexed
<1> QED
  BY <1>1, <1>2, <1>3, SessionKeepsOne

\* The request goes on without a new lock, and not past the index.
LEMMA SameWritesKeepsOne ==
  ASSUME TypeOK, OneInv, NEW c \in Clients, NEW next,
         session' = [session EXCEPT ![c] = next], UNCHANGED suggestion,
         next.writes = session[c].writes, session[c].phase # "index"
  PROVE OneInv'
<1>1. session'[c] = next
  BY DEF TypeOK
<1>2. \A s \in Suggestions : AppliedIn(c, s)' => AppliedIn(c, s)
  BY <1>1 DEF AppliedIn, View, At
<1>3. \A s \in Suggestions : Indexed(c, s)' => Indexed(c, s)
  BY <1>1 DEF Indexed, At
<1> QED
  BY <1>1, <1>2, <1>3, SessionKeepsOne

\* Rows nobody has locked are deleted or inserted, none of them as applied.
LEMMA RowsKeepOne ==
  ASSUME TypeOK, OneInv,
         \A c \in Clients : session'[c] \in {session[c], Idle},
         \A s \in Suggestions : suggestion'[s] = suggestion[s] \/
           /\ suggestion'[s].status # "applied"
           /\ \A c \in Clients : session[c].writes[s] = "kept" \/ session'[c] = Idle
  PROVE OneInv'
<1>1. \A s \in Suggestions : Idle.writes[s] = "kept"
  BY DEF Idle
<1>2. \A c \in Clients, s \in Suggestions :
        AppliedIn(c, s)' => /\ suggestion'[s] = suggestion[s]
                            /\ AppliedIn(c, s) \/ (session'[c] = Idle /\ Applied(s))
  BY <1>1 DEF AppliedIn, View, At, Item, Applied
<1>3. \A c \in Clients, s \in Suggestions :
        Indexed(c, s)' => Indexed(c, s) /\ suggestion'[s] = suggestion[s]
  BY <1>1 DEF Indexed, At, Item
<1>4. LocksDisjoint'
  BY <1>1 DEF LocksDisjoint, OneInv
<1>5. OneAppliedPerField'
  BY DEF OneInv, OneAppliedPerField, Applied, SameField
<1>6. OnePerView'
  <2> SUFFICES ASSUME NEW c \in Clients, NEW r \in Suggestions, NEW s \in Suggestions,
                      AppliedIn(c, r)', AppliedIn(c, s)', SameField(r, s)'
               PROVE r = s
    BY DEF OnePerView
  <2>1. SameField(r, s)
    BY <1>2 DEF SameField
  <2>2. CASE session'[c] = Idle
    <3>1. Applied(r) /\ Applied(s)
      BY <1>1, <1>2, <2>2 DEF AppliedIn, View, Applied
    <3> QED
      BY <2>1, <3>1 DEF OneInv, OneAppliedPerField
  <2>3. CASE session'[c] # Idle
    BY <1>2, <2>1, <2>3 DEF OneInv, OnePerView
  <2> QED
    BY <2>2, <2>3
<1>7. OneEntry'
  BY <1>3 DEF OneInv, OneEntry, SameField
<1> QED
  BY <1>4, <1>5, <1>6, <1>7 DEF OneInv

LEMMA UnlockedRows ==
  ASSUME TypeOK, NEW c \in Clients, NEW locked \in SUBSET Suggestions,
         \A d \in Clients \ {c} : ~Locks(d, locked)
  PROVE \A s \in locked, d \in Clients \ {c} : session[d].writes[s] = "kept"
BY DEF Locks

LEMMA SelectOne ==
  ASSUME TypeOK, OneInv, NEW c \in Clients, Select(c) PROVE OneInv'
<1>1. PICK next : /\ next = [session[c] EXCEPT !.phase = "mark", !.writes =
                         [r \in Suggestions |->
                            IF r \in Replaced(c) THEN "rejected" ELSE session[c].writes[r]]]
                  /\ session' = [session EXCEPT ![c] = next] /\ UNCHANGED suggestion
  BY DEF Select, Go
<1>2. /\ next.phase = "mark"
      /\ next.writes = [r \in Suggestions |->
                          IF r \in Replaced(c) THEN "rejected" ELSE session[c].writes[r]]
  BY <1>1, SessionType DEF Session
<1>3. \A s \in Suggestions : next.writes[s] = IF s \in Replaced(c) THEN "rejected"
                                                ELSE session[c].writes[s]
  BY <1>2
<1>4. \A s \in Replaced(c), d \in Clients \ {c} : session[d].writes[s] = "kept"
  BY UnlockedRows DEF Select, Unblocked, WaitsFor, Replaced, Rivals
<1>5. session'[c] = next
  BY <1>1 DEF TypeOK
<1>6. session[c].phase = "select"
  BY DEF Select, At
<1>7. \A s \in Suggestions : AppliedIn(c, s)' => AppliedIn(c, s)
  BY <1>1, <1>3, <1>5, <1>6 DEF AppliedIn, View, At
<1>8. \A s \in Suggestions : Indexed(c, s)' => Indexed(c, s)
  BY <1>3, <1>5, <1>6 DEF Indexed, At
<1>9. session' = [session EXCEPT ![c] = next] /\ UNCHANGED suggestion
  BY <1>1
<1>10. \A s \in Suggestions : next.writes[s] = "kept" \/ session[c].writes[s] # "kept"
        \/ \A d \in Clients \ {c} : session[d].writes[s] = "kept"
  BY <1>3, <1>4
<1> QED
  BY <1>7, <1>8, <1>9, <1>10, SessionKeepsOne

LEMMA MarkOne ==
  ASSUME TypeOK, OneInv, NEW c \in Clients, Mark(c) PROVE OneInv'
<1>1. PICK next : /\ next = [session[c] EXCEPT !.phase = "index", !.writes[Item(c)] = "applied"]
                  /\ session' = [session EXCEPT ![c] = next] /\ UNCHANGED suggestion
  BY DEF Mark, Go
<1>2. /\ next.phase = "index" /\ next.todo = session[c].todo
      /\ next.writes = [session[c].writes EXCEPT ![Item(c)] = "applied"]
  BY <1>1, SessionType DEF Session
<1>3. /\ Item(c) \in Suggestions /\ session[c].phase = "mark" /\ session[c].todo # <<>>
  BY ItemType DEF Mark
<1>4. \A s \in Suggestions : next.writes[s] = IF s = Item(c) THEN "applied"
                                                ELSE session[c].writes[s]
  BY <1>2, <1>3, SessionType
<1>5. \A d \in Clients \ {c} : session[d].writes[Item(c)] = "kept"
  BY <1>3, UnlockedRows DEF Mark, Unblocked, WaitsFor
<1>6. session'[c] = next /\ (At(c, "index") /\ Item(c) = Item(c))'
  BY <1>1, <1>2, <1>3 DEF TypeOK, At
<1>7. Item(c)' = Item(c)
  BY <1>2, <1>6 DEF Item
<1>8. \A s \in Suggestions : AppliedIn(c, s)' => AppliedIn(c, s)
  BY <1>1, <1>3, <1>4, <1>6, <1>7 DEF AppliedIn, View, At
<1>9. \A s \in Suggestions : Indexed(c, s)' => Indexed(c, s)
  BY <1>3, <1>4, <1>6, <1>7 DEF Indexed, At
<1>10. session' = [session EXCEPT ![c] = next] /\ UNCHANGED suggestion
  BY <1>1
<1>11. \A s \in Suggestions : next.writes[s] = "kept" \/ session[c].writes[s] # "kept"
        \/ \A d \in Clients \ {c} : session[d].writes[s] = "kept"
  BY <1>3, <1>4, <1>5
<1> QED
  BY <1>8, <1>9, <1>10, <1>11, SessionKeepsOne

LEMMA RejectSiblingsOne ==
  ASSUME TypeOK, OneInv, NEW c \in Clients, RejectSiblings(c) PROVE OneInv'
<1>1. PICK next : /\ next = [session[c] EXCEPT !.phase = "select", !.todo = Tail(@),
                         !.done = @ \union {Item(c)},
                         !.writes = [r \in Suggestions |->
                            IF r \in Siblings(c) THEN "rejected" ELSE @[r]]]
                  /\ session' = [session EXCEPT ![c] = next] /\ UNCHANGED suggestion
  BY DEF RejectSiblings, Go
<1>2. /\ next.phase = "select"
      /\ next.writes = [r \in Suggestions |->
                          IF r \in Siblings(c) THEN "rejected" ELSE session[c].writes[r]]
  BY <1>1, SessionType DEF Session
<1>3. \A s \in Suggestions : next.writes[s] = IF s \in Siblings(c) THEN "rejected"
                                                ELSE session[c].writes[s]
  BY <1>2
<1>4. \A s \in Siblings(c), d \in Clients \ {c} : session[d].writes[s] = "kept"
  BY UnlockedRows DEF RejectSiblings, Unblocked, WaitsFor, Siblings, Rivals
<1>5. session'[c] = next /\ session[c].phase = "siblings"
  BY <1>1 DEF TypeOK, RejectSiblings, At
<1>6. \A s \in Suggestions : AppliedIn(c, s)' => AppliedIn(c, s)
  BY <1>1, <1>3, <1>5 DEF AppliedIn, View, At
<1>7. \A s \in Suggestions : Indexed(c, s)' => Indexed(c, s)
  BY <1>3, <1>5 DEF Indexed, At
<1>8. session' = [session EXCEPT ![c] = next] /\ UNCHANGED suggestion
  BY <1>1
<1>9. \A s \in Suggestions : next.writes[s] = "kept" \/ session[c].writes[s] # "kept"
        \/ \A d \in Clients \ {c} : session[d].writes[s] = "kept"
  BY <1>3, <1>4
<1> QED
  BY <1>6, <1>7, <1>8, <1>9, SessionKeepsOne

LEMMA RejectItemOne ==
  ASSUME TypeOK, OneInv, NEW c \in Clients, RejectItem(c) PROVE OneInv'
<1>1. PICK next : /\ next = [session[c] EXCEPT !.todo = Tail(@),
                         !.done = @ \union {Item(c)}, !.writes[Item(c)] = "rejected"]
                  /\ session' = [session EXCEPT ![c] = next] /\ UNCHANGED suggestion
  BY DEF RejectItem, Go
<1>2. /\ next.writes = [session[c].writes EXCEPT ![Item(c)] = "rejected"]
      /\ next.phase = session[c].phase
  BY <1>1, SessionType DEF Session
<1>3. Item(c) \in Suggestions /\ session[c].phase = "reject"
  BY ItemType DEF RejectItem
<1>4. \A s \in Suggestions : next.writes[s] = IF s = Item(c) THEN "rejected"
                                                ELSE session[c].writes[s]
  BY <1>2, <1>3, SessionType
<1>5. \A d \in Clients \ {c} : session[d].writes[Item(c)] = "kept"
  BY <1>3, UnlockedRows DEF RejectItem, Unblocked, WaitsFor
<1>6. session'[c] = next
  BY <1>1 DEF TypeOK
<1>7. \A s \in Suggestions : AppliedIn(c, s)' => AppliedIn(c, s)
  BY <1>1, <1>3, <1>4, <1>6 DEF AppliedIn, View, At
<1>8. \A s \in Suggestions : Indexed(c, s)' => Indexed(c, s)
  BY <1>3, <1>4, <1>6 DEF Indexed, At
<1>9. session' = [session EXCEPT ![c] = next] /\ UNCHANGED suggestion
  BY <1>1
<1>10. \A s \in Suggestions : next.writes[s] = "kept" \/ session[c].writes[s] # "kept"
        \/ \A d \in Clients \ {c} : session[d].writes[s] = "kept"
  BY <1>3, <1>4, <1>5
<1> QED
  BY <1>7, <1>8, <1>9, <1>10, SessionKeepsOne

\* Past the index: no rival is applied in the view of c, and no other transaction
\* holds the entry of the field.
LEMMA IndexOne ==
  ASSUME TypeOK, OneInv, NEW c \in Clients, Index(c) PROVE OneInv'
<1>1. PICK next : /\ next = [session[c] EXCEPT !.phase = "lock"]
                  /\ session' = [session EXCEPT ![c] = next] /\ UNCHANGED suggestion
  BY DEF Index, Go
<1>2. next.writes = session[c].writes /\ next.phase = "lock"
  BY <1>1, SessionType DEF Session
<1>3. session'[c] = next /\ \A d \in Clients \ {c} : session'[d] = session[d]
  BY <1>1 DEF TypeOK
<1>4. PICK i \in Suggestions : i = Item(c) /\ At(c, "index")
  BY ItemType DEF Index
<1>5. ASSUME NEW r \in Suggestions, SameField(r, i), r # i
      PROVE View(c, r) # "applied" /\ \A d \in Clients \ {c} : ~Indexed(d, r)
  <2>1. r \in Rivals(c)
    BY <1>4, <1>5 DEF Rivals, SameField
  <2> QED
    BY <1>4, <2>1 DEF Index, Clash, Replaced, Unblocked, WaitsFor, HoldsEntry
<1>6. \A d \in Clients \ {c}, s \in Suggestions :
        (AppliedIn(d, s)' <=> AppliedIn(d, s)) /\ (Indexed(d, s)' <=> Indexed(d, s))
  BY <1>1, <1>3 DEF AppliedIn, Indexed, View, At, Item
<1>7. \A s \in Suggestions : /\ AppliedIn(c, s)' => AppliedIn(c, s) \/ s = i
                             /\ Indexed(c, s)' => Indexed(c, s) \/ s = i
  BY <1>1, <1>2, <1>3, <1>4 DEF AppliedIn, Indexed, View, At
<1>8. \A r, s \in Suggestions : SameField(r, s)' <=> SameField(r, s)
  BY <1>1 DEF SameField
<1>9. LocksDisjoint'
  BY <1>2, <1>3 DEF LocksDisjoint, OneInv
<1>10. OneAppliedPerField'
  BY <1>1 DEF OneInv, OneAppliedPerField, Applied, SameField
<1>11. OnePerView'
  <2> SUFFICES ASSUME NEW d \in Clients, NEW r \in Suggestions, NEW s \in Suggestions,
                      AppliedIn(d, r)', AppliedIn(d, s)', SameField(r, s)
               PROVE r = s
    BY <1>8 DEF OnePerView
  <2>1. CASE d # c
    BY <1>6, <2>1 DEF OneInv, OnePerView
  <2>2. CASE d = c /\ AppliedIn(c, r) /\ AppliedIn(c, s)
    BY <2>2 DEF OneInv, OnePerView
  <2>3. CASE d = c /\ (r = i \/ s = i)
    BY <1>5, <1>7, <2>3 DEF AppliedIn, SameField
  <2> QED
    BY <1>7, <2>1, <2>2, <2>3
<1>12. OneEntry'
  <2> SUFFICES ASSUME NEW d \in Clients, NEW e \in Clients, d # e,
                      NEW r \in Suggestions, NEW s \in Suggestions,
                      Indexed(d, r)', Indexed(e, s)', SameField(r, s)
               PROVE FALSE
    BY <1>8 DEF OneEntry
  <2>1. SameField(s, r)
    BY DEF SameField
  <2>2. ASSUME Indexed(c, i)', NEW f \in Clients \ {c}, NEW x \in Suggestions,
               Indexed(f, x), SameField(x, i)
        PROVE FALSE
    <3>1. x = i
      BY <1>5, <2>2
    <3>2. session[c].writes[i] = "applied"
      BY <1>2, <1>3, <2>2 DEF Indexed
    <3>3. session[f].writes[i] = "kept"
      BY <1>4, <3>2 DEF OneInv, LocksDisjoint
    <3> QED
      BY <2>2, <3>1, <3>3 DEF Indexed
  <2>3. CASE d # c /\ e # c
    BY <1>6, <2>3 DEF OneInv, OneEntry
  <2>4. CASE d = c
    <3>1. Indexed(e, s)
      BY <1>6, <2>4
    <3>2. CASE Indexed(c, r)
      BY <2>4, <3>1, <3>2 DEF OneInv, OneEntry
    <3>3. CASE ~Indexed(c, r)
      <4>1. r = i
        BY <1>7, <2>4, <3>3
      <4> QED
        BY <2>1, <2>2, <2>4, <3>1, <4>1
    <3> QED
      BY <3>2, <3>3
  <2>5. CASE e = c
    <3>1. Indexed(d, r)
      BY <1>6, <2>5
    <3>2. CASE Indexed(c, s)
      BY <2>5, <3>1, <3>2 DEF OneInv, OneEntry
    <3>3. CASE ~Indexed(c, s)
      <4>1. s = i
        BY <1>7, <2>5, <3>3
      <4> QED
        BY <2>2, <2>5, <3>1, <4>1
    <3> QED
      BY <3>2, <3>3
  <2> QED
    BY <2>3, <2>4, <2>5
<1> QED
  BY <1>9, <1>10, <1>11, <1>12 DEF OneInv

LEMMA RefuseOne ==
  ASSUME TypeOK, OneInv, NEW c \in Clients, NEW s \in Session, NEW phase,
         s.writes = session[c].writes, session[c].phase # "index", Refuse(c, s, phase)
  PROVE OneInv'
<1>1. CASE session[c].batch
  <2>1. PICK next : next = [s EXCEPT !.phase = phase, !.todo = Tail(s.todo)]
    OBVIOUS
  <2>2. next.writes = s.writes
    BY <2>1 DEF Session
  <2>3. Go(c, next)
    BY <1>1, <2>1 DEF Refuse
  <2> QED
    BY <2>2, <2>3, SameWritesKeepsOne DEF Go
<1>2. CASE ~session[c].batch
  BY <1>2, ResetKeepsOne DEF Refuse, Go, Idle
<1> QED
  BY <1>1, <1>2

LEMMA RollbackOne ==
  ASSUME TypeOK, OneInv, NEW c \in Clients, Rollback(c) PROVE OneInv'
BY ResetKeepsOne DEF Rollback, Go, Idle

LEMMA WriteFieldOne ==
  ASSUME TypeOK, OneInv, NEW c \in Clients, WriteField(c) \/ FieldMissing(c) PROVE OneInv'
<1>1. session[c].phase # "index"
  BY DEF WriteField, FieldMissing, At
<1>2. CASE WriteField(c)
  <2>1. PICK next :
          /\ next = [session[c] EXCEPT !.phase = "siblings", !.holds = TRUE, !.dirty = TRUE,
               !.copy = WithFields(@, [@.fields EXCEPT ![Target(c)] = Item(c)])]
          /\ Go(c, next)
    BY <1>2 DEF WriteField
  <2>2. next.writes = session[c].writes
    BY <2>1, SessionType DEF Session
  <2> QED
    BY <1>1, <2>1, <2>2, SameWritesKeepsOne DEF Go
<1>3. CASE FieldMissing(c)
  <2>1. PICK next : next = [session[c] EXCEPT !.holds = TRUE]
    OBVIOUS
  <2>2. next \in Session /\ next.writes = session[c].writes
    BY <2>1, SessionType DEF Session
  <2> QED
    BY <1>1, <1>3, <2>1, <2>2, RefuseOne DEF FieldMissing
<1> QED
  BY <1>2, <1>3

\* What the transaction saw as applied is applied; the others saw none of it.
LEMMA CommitOne ==
  ASSUME TypeOK, OneInv, NEW c \in Clients, Commit(c) PROVE OneInv'
<1>1. /\ session'[c] = Idle /\ \A d \in Clients \ {c} : session'[d] = session[d]
      /\ session[c].phase \in {"select", "reject"}
  BY DEF Commit, TypeOK
<1>2. \A s \in Suggestions : suggestion'[s].status = View(c, s)
                              /\ suggestion'[s].field = suggestion[s].field
  BY RowTypes DEF Commit, Suggestion
<1>3. \A r, s \in Suggestions : SameField(r, s)' <=> SameField(r, s)
  BY <1>2 DEF SameField
<1>4. \A s \in Suggestions : View(c, s) = "applied" => AppliedIn(c, s)
  BY <1>1 DEF AppliedIn, At
<1>5. OneAppliedPerField'
  BY <1>2, <1>3, <1>4 DEF OneInv, OneAppliedPerField, OnePerView, Applied
<1>6. \A s \in Suggestions : Idle.writes[s] = "kept"
  BY DEF Idle
<1>7. \A d \in Clients \ {c}, s \in Suggestions : Indexed(d, s)' <=> Indexed(d, s)
  BY <1>1 DEF Indexed, At, Item
<1>8. \A s \in Suggestions : ~Indexed(c, s)'
  BY <1>1, <1>6 DEF Indexed
<1>9. LocksDisjoint'
  BY <1>1, <1>6 DEF LocksDisjoint, OneInv
<1>10. OneEntry'
  BY <1>3, <1>7, <1>8 DEF OneInv, OneEntry
<1>11. ASSUME NEW d \in Clients \ {c}, NEW s \in Suggestions, AppliedIn(d, s)'
       PROVE \/ Indexed(d, s) /\ AppliedIn(d, s)
             \/ /\ session[d].writes[s] = "kept" /\ AppliedIn(c, s)
                /\ Indexed(c, s) \/ AppliedIn(d, s)
  <2>1. CASE session[d].writes[s] # "kept"
    BY <1>1, <1>11, <2>1 DEF AppliedIn, Indexed, View, At, Item
  <2>2. CASE session[d].writes[s] = "kept"
    <3>1. View(c, s) = "applied" /\ ~(At(d, "index") /\ Item(d) = s)
      BY <1>1, <1>2, <1>11, <2>2 DEF AppliedIn, View, At, Item
    <3>2. CASE session[c].writes[s] = "kept"
      BY <1>4, <2>2, <3>1, <3>2 DEF AppliedIn, View
    <3>3. CASE session[c].writes[s] # "kept"
      BY <1>1, <1>4, <2>2, <3>1, <3>3 DEF Indexed, View, At
    <3> QED
      BY <3>2, <3>3
  <2> QED
    BY <2>1, <2>2
<1>12. OnePerView'
  <2> SUFFICES ASSUME NEW d \in Clients, NEW r \in Suggestions, NEW s \in Suggestions,
                      AppliedIn(d, r)', AppliedIn(d, s)', SameField(r, s)
               PROVE r = s
    BY <1>3 DEF OnePerView
  <2>1. SameField(s, r)
    BY DEF SameField
  <2>2. CASE d = c
    <3>1. AppliedIn(c, r) /\ AppliedIn(c, s)
      BY <1>1, <1>2, <1>4, <1>6, <2>2 DEF AppliedIn, View
    <3> QED
      BY <3>1 DEF OneInv, OnePerView
  <2>3. CASE d # c /\ Indexed(d, r) /\ AppliedIn(d, r)
    <3>1. ~Indexed(c, s)
      BY <2>1, <2>3 DEF OneInv, OneEntry
    <3>2. AppliedIn(d, s)
      BY <1>11, <2>3, <3>1
    <3> QED
      BY <2>3, <3>2 DEF OneInv, OnePerView
  <2>4. CASE d # c /\ Indexed(d, s) /\ AppliedIn(d, s)
    <3>1. ~Indexed(c, r)
      BY <2>1, <2>4 DEF OneInv, OneEntry
    <3>2. AppliedIn(d, r)
      BY <1>11, <2>4, <3>1
    <3> QED
      BY <2>4, <3>2 DEF OneInv, OnePerView
  <2>5. CASE d # c /\ AppliedIn(c, r) /\ AppliedIn(c, s)
    BY <2>5 DEF OneInv, OnePerView
  <2> QED
    BY <1>11, <2>2, <2>3, <2>4, <2>5
<1> QED
  BY <1>5, <1>9, <1>10, <1>12 DEF OneInv

LEMMA DecideOne ==
  ASSUME TypeOK, OneInv, NEW c \in Clients, Decide(c) PROVE OneInv'
<1>1. CASE SelectRefused(c) \/ MarkRefused(c) \/ RejectRefused(c)
  BY <1>1, RefuseOne, SessionType DEF SelectRefused, MarkRefused, RejectRefused, At
<1>2. CASE IndexRefused(c) \/ Victim(c)
  BY <1>2, RollbackOne DEF IndexRefused, Victim
<1> QED
  BY <1>1, <1>2, SelectOne, MarkOne, IndexOne, WriteFieldOne, RejectSiblingsOne, RejectItemOne,
     CommitOne DEF Decide

LEMMA PersistOne ==
  ASSUME TypeOK, OneInv, NEW c \in Clients, PersistAny(c) PROVE OneInv'
<1>1. PICK new \in SUBSET Suggestions, texts \in SUBSET Notes :
        \E found \in [new -> Fields], low \in BOOLEAN : Persist(c, new, found, texts, low)
  BY DEF PersistAny, Singletons
<1>2. PICK found \in [new -> Fields], low \in BOOLEAN : Persist(c, new, found, texts, low)
  BY <1>1
<1>3. session'[c] = Idle /\ \A d \in Clients \ {c} : session'[d] = session[d]
  BY <1>2 DEF Persist, TypeOK
<1>4. \A s \in NotesPending, d \in Clients \ {c} : session[d].writes[s] = "kept"
  BY <1>2, UnlockedRows DEF Persist, Unblocked, WaitsFor, NotesPending, PendingOf
<1>5. \A s \in new, d \in Clients : session[d].writes[s] = "kept"
  BY <1>2 DEF Persist, Fresh
<1>6. \A s \in Suggestions : suggestion'[s] = suggestion[s] \/
        /\ suggestion'[s].status # "applied"
        /\ s \in new \/ s \in NotesPending
  BY <1>2 DEF Persist, AbsentSuggestion
<1> QED
  BY <1>3, <1>4, <1>5, <1>6, RowsKeepOne

LEMMA DeleteOne ==
  ASSUME TypeOK, OneInv, NEW deleted \in SUBSET Suggestions, Delete(deleted), UNCHANGED session
  PROVE OneInv'
<1>1. \A s \in deleted, d \in Clients : session[d].writes[s] = "kept"
  BY DEF Delete, NobodyLocks, Locks
<1>2. \A s \in Suggestions : suggestion'[s] = suggestion[s] \/
        (suggestion'[s].status # "applied" /\ s \in deleted)
  BY DEF Delete, AbsentSuggestion
<1> QED
  BY <1>1, <1>2, RowsKeepOne

LEMMA FileOne ==
  ASSUME TypeOK, OneInv, FileNext PROVE OneInv'
<1>1. ASSUME NEW f, NEW texts, FileOutputs(f, texts) PROVE OneInv'
  BY <1>1, DeleteOne DEF FileOutputs, PendingOf
<1>2. ASSUME NEW files, FilesDeleted(files) PROVE OneInv'
  BY <1>2, DeleteOne DEF FilesDeleted
<1> QED
  BY <1>1, <1>2 DEF FileNext

LEMMA PanelOne ==
  ASSUME TypeOK, OneInv, Panel PROVE OneInv'
<1>1. CASE UNCHANGED <<suggestion, session>>
  BY <1>1, RowsKeepOne
<1>2. ASSUME NEW n \in Notes, NEW s \in Suggestions, NEW f \in Fields, map_unmapped_note(n, s, f)
      PROVE OneInv'
  <2>1. session' = session /\ \A d \in Clients : session[d].writes[s] = "kept"
    BY <1>2 DEF map_unmapped_note, Fresh
  <2>2. suggestion'[s].status = "pending" /\ \A r \in Suggestions \ {s} : suggestion'[r] = suggestion[r]
    BY <1>2 DEF map_unmapped_note, TypeOK
  <2> QED
    BY <2>1, <2>2, RowsKeepOne
<1> QED
  BY <1>1, <1>2
  DEF Panel, save_notes, dismiss_unmapped_note, dismiss_all_unmapped,
      dismiss_unmapped_by_confidence, dismiss_unmapped_by_file, Dismiss

LEMMA StartOne ==
  ASSUME TypeOK, OneInv, NEW c \in Clients, Request(c) PROVE OneInv'
<1>1. ASSUME NEW s \in Session, s.writes = [r \in Suggestions |-> "kept"], Start(c, s) PROVE OneInv'
  BY <1>1, ResetKeepsOne DEF Start, rows
<1>2. CASE \E ids \in Batches, phase \in {"select", "reject"}, batch \in BOOLEAN :
             BeginDecide(c, ids, phase, batch)
  <2>1. PICK ids \in Batches, phase \in {"select", "reject"}, batch \in BOOLEAN :
          BeginDecide(c, ids, phase, batch)
    BY <1>2
  <2>2. PICK s : s = [Loaded EXCEPT !.phase = phase, !.todo = ids, !.batch = batch]
    OBVIOUS
  <2>3. s \in Session /\ s.writes = Loaded.writes
    BY <2>2, LoadedType, BatchesAssumption DEF Session, Phases
  <2> QED
    BY <1>1, <2>1, <2>2, <2>3, LoadedType DEF BeginDecide
<1>3. CASE BeginSave(c)
  <2>1. PICK s : s = [Loaded EXCEPT !.phase = "save"]
    OBVIOUS
  <2>2. s \in Session /\ s.writes = Loaded.writes
    BY <2>1, LoadedType DEF Session, Phases
  <2> QED
    BY <1>1, <1>3, <2>1, <2>2, LoadedType DEF BeginSave
<1>4. CASE BeginAnalysis(c)
  <2>1. PICK s : s = [Idle EXCEPT !.phase = "ai", !.version = text]
    OBVIOUS
  <2>2. s \in Session /\ s.writes = [r \in Suggestions |-> "kept"]
    BY <2>1, IdleType DEF Session, Phases, TypeOK, Idle
  <2> QED
    BY <1>1, <1>4, <2>1, <2>2 DEF BeginAnalysis
<1>5. CASE Crash(c)
  BY <1>5, RollbackOne DEF Crash
<1> QED
  BY <1>2, <1>3, <1>4, <1>5 DEF Request

LEMMA NextOne == ASSUME TypeOK, OneInv, [Next]_vars PROVE OneInv'
<1>1. CASE \E c \in Clients : Decide(c)
  BY <1>1, DecideOne
<1>2. CASE \E c \in Clients : SaveAny(c)
  <2>1. ASSUME NEW c \in Clients, NEW new, Save(c, new) PROVE OneInv'
    BY <2>1, ResetKeepsOne DEF Save, Idle
  <2> QED
    BY <1>2, <2>1 DEF SaveAny, PatchSections, PatchCustom, Replace
<1>3. CASE \E c \in Clients : Analysed(c)
  <2>1. PICK c \in Clients : Analysed(c)
    BY <1>3
  <2>2. PICK next : next = [session[c] EXCEPT !.phase = "persist"] /\ Go(c, next)
    BY <2>1 DEF Analysed
  <2>3. next.writes = session[c].writes /\ session[c].phase # "index"
    BY <2>1, <2>2, SessionType DEF Session, Analysed
  <2> QED
    BY <2>2, <2>3, SameWritesKeepsOne DEF Go
<1>4. CASE \E c \in Clients : NotAnalysed(c)
  BY <1>4, RollbackOne DEF NotAnalysed
<1>5. CASE \E c \in Clients : PersistAny(c)
  BY <1>5, PersistOne
<1>6. CASE UNCHANGED vars
  BY <1>6, RowsKeepOne DEF vars
<1> QED
  BY <1>1, <1>2, <1>3, <1>4, <1>5, <1>6, StartOne, PanelOne, FileOne
  DEF Next, ServiceNext, Advance

-----------------------------------------------------------------------------
(* What a request has written and reported *)

\* A row that is there has a field of the questionnaire.
RowsHaveFields == \A s \in Suggestions : suggestion[s].status # "absent" => suggestion[s].field \in Fields

Writes(c) == session[c].writes

\* What a request has written it has written on a row that allowed it, and the row
\* stays as it was until the request ends.
WritesFollow(c) ==
  \A s \in Suggestions :
    /\ Writes(c)[s] = "applied" => suggestion[s].status = "pending"
    /\ Writes(c)[s] = "rejected" => suggestion[s].status \in {"pending", "applied"}

\* Suggestions a user had applied and the request is about to reject.
Overwritten(c) == {s \in Suggestions : suggestion[s].status = "applied" /\ Writes(c)[s] = "rejected"}

\* A single request overwrites only for the suggestion it applies itself.
SingleReplaces(c) ==
  ~session[c].batch =>
    /\ session[c].todo = <<>> \/ Tail(session[c].todo) = <<>>
    /\ \A s \in Overwritten(c) :
         /\ ~At(c, "select")
         /\ IF At(c, "mark")
            THEN View(c, Item(c)) = "pending" => SameField(s, Item(c))
            ELSE \E r \in Suggestions : Writes(c)[r] = "applied" /\ SameField(r, s)

InTodo(c, t) == \E i \in 1..Len(session[c].todo) : session[c].todo[i] = t

Applying == {"select", "mark", "index", "lock", "siblings"}
Marked(c) == \E phase \in {"index", "lock", "siblings"} : At(c, phase)

\* What a request reports as applied it has written, in the row and in its copy of the
\* document, and nothing it still has to do can take the field away.
AppliesStay(c) ==
  session[c].phase \in Applying =>
    /\ \A s \in session[c].done :
         /\ Writes(c)[s] = "applied" /\ session[c].dirty
         /\ session[c].copy.fields[suggestion[s].field] = s
         /\ \A t \in Suggestions : InTodo(c, t) /\ SameField(t, s) => View(c, t) # "pending"
         /\ Marked(c) => ~SameField(Item(c), s)
    /\ Marked(c) => Writes(c)[Item(c)] = "applied"
    /\ At(c, "siblings") =>
         session[c].dirty /\ session[c].copy.fields[Target(c)] = Item(c)

RejectsStay(c) ==
  session[c].phase = "reject" => \A s \in session[c].done : Writes(c)[s] = "rejected"

Sound(c) == WritesFollow(c) /\ SingleReplaces(c) /\ AppliesStay(c) /\ RejectsStay(c)

RequestInv == RowsHaveFields /\ \A c \in Clients : Sound(c)

\* c does not move; rows it has locked stay, rows it still has to do do not become pending.
Calm(c) ==
  /\ session'[c] = session[c]
  /\ \A s \in Suggestions : Writes(c)[s] # "kept" => suggestion'[s] = suggestion[s]
  /\ \A s \in Suggestions :
       InTodo(c, s) /\ suggestion'[s].status = "pending" => suggestion'[s] = suggestion[s]

LEMMA ViewIs ==
  ASSUME TypeOK, NEW c \in Clients, NEW s \in Suggestions
  PROVE /\ Writes(c)[s] \in {"applied", "rejected", "kept"}
        /\ View(c, s) = "pending" => Writes(c)[s] = "kept" /\ suggestion[s].status = "pending"
        /\ View(c, s) = "applied" =>
             Writes(c)[s] = "applied" \/ (Writes(c)[s] = "kept" /\ suggestion[s].status = "applied")
BY SessionType DEF View, Writes, Decided

LEMMA ItemInTodo ==
  ASSUME TypeOK, NEW c \in Clients, session[c].todo # <<>>
  PROVE Item(c) \in Suggestions /\ InTodo(c, Item(c))
<1>1. session[c].todo \in Seq(Suggestions)
  BY SessionType
<1>2. Len(session[c].todo) >= 1 /\ Head(session[c].todo) = session[c].todo[1]
  BY <1>1
<1> QED
  BY <1>1, <1>2 DEF Item, InTodo

\* Going on to the next item names no new one.
LEMMA TailInTodo ==
  ASSUME TypeOK, NEW c \in Clients, session[c].todo # <<>>,
         session'[c].todo = Tail(session[c].todo), NEW t, InTodo(c, t)'
  PROVE InTodo(c, t)
<1>1. session[c].todo \in Seq(Suggestions)
  BY SessionType
<1>2. PICK i \in 1..Len(Tail(session[c].todo)) : Tail(session[c].todo)[i] = t
  BY DEF InTodo
<1>3. i + 1 \in 1..Len(session[c].todo) /\ session[c].todo[i + 1] = t
  BY <1>1, <1>2
<1> QED
  BY <1>3 DEF InTodo

LEMMA CalmSound ==
  ASSUME TypeOK, NEW c \in Clients, Calm(c), Sound(c) PROVE Sound(c)'
<1>1. session'[c] = session[c]
  BY DEF Calm
<1>2. \A s \in Suggestions : Writes(c)[s] # "kept" => suggestion'[s] = suggestion[s]
  BY DEF Calm
<1>3. \A s \in Suggestions : InTodo(c, s) /\ View(c, s)' = "pending" => suggestion'[s] = suggestion[s]
  BY <1>1, SessionType DEF Calm, View, Decided
<1>4. WritesFollow(c)'
  BY <1>1, <1>2 DEF Sound, WritesFollow, Writes
<1>5. SingleReplaces(c)'
  <2> SUFFICES ASSUME ~session[c].batch, NEW s \in Overwritten(c)'
               PROVE /\ ~At(c, "select")
                     /\ At(c, "mark") /\ View(c, Item(c))' = "pending" => SameField(s, Item(c))'
                     /\ ~At(c, "mark") => \E r \in Suggestions : Writes(c)[r] = "applied" /\ SameField(r, s)'
    BY <1>1 DEF Sound, SingleReplaces, At, Writes, Item
  <2>1. s \in Overwritten(c) /\ suggestion'[s] = suggestion[s]
    BY <1>1, <1>2 DEF Overwritten, Writes
  <2>2. ASSUME At(c, "mark"), View(c, Item(c))' = "pending" PROVE SameField(s, Item(c))'
    <3>1. suggestion'[Item(c)] = suggestion[Item(c)]
      BY <1>1, <1>3, <2>2, ItemInTodo DEF At, Item
    <3>2. View(c, Item(c)) = "pending"
      BY <1>1, <2>2, <3>1 DEF View, Item
    <3> QED
      BY <1>1, <2>1, <2>2, <3>1, <3>2 DEF Sound, SingleReplaces, SameField, Item
  <2>3. ASSUME ~At(c, "mark")
        PROVE \E r \in Suggestions : Writes(c)[r] = "applied" /\ SameField(r, s)'
    <3>1. PICK r \in Suggestions : Writes(c)[r] = "applied" /\ SameField(r, s)
      BY <2>1, <2>3 DEF Sound, SingleReplaces
    <3> QED
      BY <1>2, <2>1, <3>1 DEF SameField
  <2> QED
    BY <2>1, <2>2, <2>3 DEF Sound, SingleReplaces
<1>6. AppliesStay(c)'
  <2> SUFFICES ASSUME session[c].phase \in Applying PROVE AppliesStay(c)'
    BY <1>1 DEF AppliesStay
  <2>1. Marked(c) => Writes(c)[Item(c)] = "applied" /\ Item(c) \in Suggestions
    BY ItemInTodo DEF Sound, AppliesStay, Marked, At
  <2>2. Marked(c) => suggestion'[Item(c)] = suggestion[Item(c)]
    BY <1>2, <2>1
  <2>3. ASSUME NEW s \in session[c].done
        PROVE /\ Writes(c)[s] = "applied" /\ session[c].dirty
              /\ session[c].copy.fields[suggestion'[s].field] = s
              /\ \A t \in Suggestions : InTodo(c, t) /\ SameField(t, s)' => View(c, t)' # "pending"
              /\ Marked(c) => ~SameField(Item(c), s)'
    <3>1. s \in Suggestions /\ Writes(c)[s] = "applied"
      BY SessionType DEF Sound, AppliesStay
    <3>2. suggestion'[s] = suggestion[s]
      BY <1>2, <3>1
    <3>3. ASSUME NEW t \in Suggestions, InTodo(c, t), SameField(t, s)', View(c, t)' = "pending"
          PROVE FALSE
      <4>1. suggestion'[t] = suggestion[t]
        BY <1>3, <3>3
      <4>2. SameField(t, s) /\ View(c, t) = "pending"
        BY <1>1, <3>2, <3>3, <4>1 DEF SameField, View
      <4> QED
        BY <3>3, <4>2 DEF Sound, AppliesStay
    <3>4. Marked(c) => ~SameField(Item(c), s)'
      BY <1>1, <2>2, <3>2 DEF Sound, AppliesStay, SameField, Item
    <3> QED
      BY <3>1, <3>2, <3>3, <3>4 DEF Sound, AppliesStay
  <2>4. At(c, "siblings") =>
          session[c].dirty /\ session[c].copy.fields[suggestion'[Item(c)].field] = Item(c)
    BY <2>2 DEF Sound, AppliesStay, Marked, Target
  <2> QED
    BY <1>1, <2>1, <2>3, <2>4 DEF AppliesStay, Writes, Marked, At, Item, InTodo, Target
<1>7. RejectsStay(c)'
  BY <1>1 DEF Sound, RejectsStay, Writes
<1> QED
  BY <1>4, <1>5, <1>6, <1>7 DEF Sound

\* A request that has written nothing yet.
LEMMA NewSound ==
  ASSUME NEW c \in Clients, NEW s, session'[c] = s, s.writes = [r \in Suggestions |-> "kept"],
         s.done = {}, s.phase \notin {"index", "lock", "siblings"},
         s.batch \/ s.todo = <<>> \/ Tail(s.todo) = <<>>
  PROVE Sound(c)'
<1>1. \A r \in Suggestions : Writes(c)'[r] = "kept"
  BY DEF Writes
<1>2. WritesFollow(c)' /\ Overwritten(c)' = {}
  BY <1>1 DEF WritesFollow, Overwritten
<1>3. SingleReplaces(c)'
  BY <1>2 DEF SingleReplaces
<1>4. ~Marked(c)' /\ ~At(c, "siblings")'
  BY DEF Marked, At
<1>5. AppliesStay(c)' /\ RejectsStay(c)'
  BY <1>4 DEF AppliesStay, RejectsStay
<1> QED
  BY <1>2, <1>3, <1>5 DEF Sound

LEMMA EndedSound ==
  ASSUME NEW c \in Clients, session'[c] = Idle PROVE Sound(c)'
<1>1. /\ Idle.writes = [r \in Suggestions |-> "kept"] /\ Idle.done = {}
      /\ Idle.phase = "idle" /\ Idle.todo = <<>>
  BY DEF Idle
<1> QED
  BY <1>1, NewSound

\* What a request may write: it applies and rejects what is pending, and rejects what
\* is applied.
MayWrite(c) ==
  \A s \in Suggestions :
    \/ Writes(c)'[s] = Writes(c)[s]
    \/ Writes(c)'[s] = "applied" /\ View(c, s) = "pending"
    \/ Writes(c)'[s] = "rejected" /\ View(c, s) \in {"pending", "applied"}

LEMMA WritesFollowStep ==
  ASSUME TypeOK, NEW c \in Clients, WritesFollow(c), suggestion' = suggestion, MayWrite(c)
  PROVE WritesFollow(c)'
BY ViewIs DEF WritesFollow, MayWrite

LEMMA GoesOn ==
  ASSUME TypeOK, NEW c \in Clients, NEW s, Go(c, s)
  PROVE session'[c] = s /\ suggestion' = suggestion
BY DEF Go, TypeOK

\* What a step of c leaves as it is.
SameRequest(c) ==
  /\ suggestion' = suggestion
  /\ session'[c].todo = session[c].todo /\ session'[c].batch = session[c].batch
  /\ session'[c].done = session[c].done

LEMMA SelectSound ==
  ASSUME TypeOK, NEW c \in Clients, Sound(c), Select(c) PROVE Sound(c)'
<1>1. PICK writes : writes =
        [r \in Suggestions |-> IF r \in Replaced(c) THEN "rejected" ELSE Writes(c)[r]]
  OBVIOUS
<1>2. PICK next : next = [session[c] EXCEPT !.phase = "mark", !.writes = writes]
  OBVIOUS
<1>3. session'[c] = next /\ suggestion' = suggestion
  BY <1>1, <1>2, GoesOn DEF Select, Writes
<1>4. /\ session'[c].phase = "mark" /\ Writes(c)' = writes /\ SameRequest(c)
      /\ session'[c].copy = session[c].copy /\ session'[c].dirty = session[c].dirty
  BY <1>2, <1>3, SessionType DEF Session, Writes, SameRequest
<1>5. /\ Item(c) \in Suggestions /\ InTodo(c, Item(c)) /\ View(c, Item(c)) = "pending"
      /\ session[c].phase = "select" /\ session[c].todo # <<>>
  BY ItemInTodo DEF Select, At
<1>6. \A r \in Replaced(c) : r \in Suggestions /\ SameField(r, Item(c)) /\ View(c, r) = "applied"
  BY DEF Replaced, Rivals, SameField
<1>7. WritesFollow(c)'
  <2>1. MayWrite(c)
    BY <1>1, <1>4, <1>6 DEF MayWrite
  <2> QED
    BY <1>3, <2>1, WritesFollowStep DEF Sound
<1>8. SingleReplaces(c)'
  <2> SUFFICES ASSUME ~session[c].batch
               PROVE /\ session[c].todo = <<>> \/ Tail(session[c].todo) = <<>>
                     /\ \A s \in Overwritten(c)' : SameField(s, Item(c))
    BY <1>3, <1>4, <1>5 DEF SingleReplaces, At, SameRequest, SameField, Item
  <2>1. Overwritten(c) = {}
    BY <1>5 DEF Sound, SingleReplaces, At
  <2>2. \A s \in Overwritten(c)' : s \in Replaced(c)
    BY <1>1, <1>3, <1>4, <2>1 DEF Overwritten
  <2> QED
    BY <1>6, <2>2 DEF Sound, SingleReplaces
<1>9. AppliesStay(c)'
  <2>1. ASSUME NEW s \in session[c].done
        PROVE /\ Writes(c)'[s] = "applied" /\ session[c].dirty
              /\ session[c].copy.fields[suggestion[s].field] = s
              /\ \A t \in Suggestions : InTodo(c, t) /\ SameField(t, s) => View(c, t)' # "pending"
    <3>1. s \in Suggestions /\ Writes(c)[s] = "applied" /\ ~SameField(Item(c), s)
      BY <1>5, SessionType DEF Sound, AppliesStay, Applying
    <3>2. s \notin Replaced(c)
      BY <1>6, <3>1 DEF SameField
    <3>3. ASSUME NEW t \in Suggestions, View(c, t) # "pending" PROVE View(c, t)' # "pending"
      BY <1>1, <1>3, <1>4, <3>3 DEF View, Writes
    <3> QED
      BY <1>1, <1>4, <1>5, <3>1, <3>2, <3>3 DEF Sound, AppliesStay, Applying
  <2>2. ~Marked(c)' /\ ~At(c, "siblings")'
    BY <1>4 DEF Marked, At
  <2> QED
    BY <1>3, <1>4, <2>1, <2>2 DEF AppliesStay, SameRequest, SameField, InTodo
<1>10. RejectsStay(c)'
  BY <1>4 DEF RejectsStay
<1> QED
  BY <1>7, <1>8, <1>9, <1>10 DEF Sound

LEMMA MarkSound ==
  ASSUME TypeOK, NEW c \in Clients, Sound(c), Mark(c) PROVE Sound(c)'
<1>1. PICK writes : writes = [Writes(c) EXCEPT ![Item(c)] = "applied"]
  OBVIOUS
<1>2. PICK next : next = [session[c] EXCEPT !.phase = "index", !.writes = writes]
  OBVIOUS
<1>3. session'[c] = next /\ suggestion' = suggestion
  BY <1>1, <1>2, GoesOn, SessionType DEF Mark, Writes, Session
<1>4. /\ session'[c].phase = "index" /\ Writes(c)' = writes /\ SameRequest(c)
      /\ session'[c].copy = session[c].copy /\ session'[c].dirty = session[c].dirty
  BY <1>2, <1>3, SessionType DEF Session, Writes, SameRequest
<1>5. /\ Item(c) \in Suggestions /\ InTodo(c, Item(c)) /\ View(c, Item(c)) = "pending"
      /\ session[c].phase = "mark" /\ session[c].todo # <<>>
  BY ItemInTodo DEF Mark, At
<1>6. \A s \in Suggestions : writes[s] = IF s = Item(c) THEN "applied" ELSE Writes(c)[s]
  BY <1>1, SessionType DEF Writes
<1>7. WritesFollow(c)'
  <2>1. MayWrite(c)
    BY <1>4, <1>5, <1>6 DEF MayWrite
  <2> QED
    BY <1>3, <2>1, WritesFollowStep DEF Sound
<1>8. SingleReplaces(c)'
  <2> SUFFICES ASSUME ~session[c].batch
               PROVE /\ session[c].todo = <<>> \/ Tail(session[c].todo) = <<>>
                     /\ \A s \in Overwritten(c)' : SameField(Item(c), s)
    BY <1>3, <1>4, <1>5, <1>6 DEF SingleReplaces, At, SameRequest, SameField, Item
  <2>1. \A s \in Overwritten(c)' : s \in Overwritten(c)
    BY <1>3, <1>4, <1>6 DEF Overwritten
  <2> QED
    BY <1>5, <2>1 DEF Sound, SingleReplaces, At, SameField
<1>9. AppliesStay(c)'
  <2>1. ASSUME NEW s \in session[c].done
        PROVE /\ Writes(c)'[s] = "applied" /\ session[c].dirty
              /\ session[c].copy.fields[suggestion[s].field] = s
              /\ ~SameField(Item(c), s)
              /\ \A t \in Suggestions : InTodo(c, t) /\ SameField(t, s) => View(c, t)' # "pending"
    <3>1. s \in Suggestions /\ Writes(c)[s] = "applied" /\ ~SameField(Item(c), s)
      BY <1>5, SessionType DEF Sound, AppliesStay, Applying
    <3>2. ASSUME NEW t \in Suggestions, View(c, t) # "pending" PROVE View(c, t)' # "pending"
      BY <1>3, <1>4, <1>6, <3>2 DEF View, Writes
    <3> QED
      BY <1>4, <1>5, <1>6, <3>1, <3>2 DEF Sound, AppliesStay, Applying
  <2>2. Writes(c)'[Item(c)] = "applied" /\ ~At(c, "siblings")'
    BY <1>4, <1>5, <1>6 DEF At
  <2> QED
    BY <1>3, <1>4, <2>1, <2>2 DEF AppliesStay, SameRequest, SameField, InTodo, Item
<1>10. RejectsStay(c)'
  BY <1>4 DEF RejectsStay
<1> QED
  BY <1>7, <1>8, <1>9, <1>10 DEF Sound

LEMMA IndexSound ==
  ASSUME TypeOK, NEW c \in Clients, Sound(c), Index(c) PROVE Sound(c)'
<1>1. PICK next : next = [session[c] EXCEPT !.phase = "lock"]
  OBVIOUS
<1>2. session'[c] = next /\ suggestion' = suggestion
  BY <1>1, GoesOn DEF Index
<1>3. /\ session'[c].phase = "lock" /\ Writes(c)' = Writes(c) /\ SameRequest(c)
      /\ session'[c].copy = session[c].copy /\ session'[c].dirty = session[c].dirty
  BY <1>1, <1>2, SessionType DEF Session, Writes, SameRequest
<1>4. session[c].phase = "index" /\ session[c].todo # <<>> /\ Marked(c)
  BY DEF Index, At, Marked
<1>5. WritesFollow(c)'
  BY <1>2, <1>3 DEF Sound, WritesFollow
<1>6. SingleReplaces(c)'
  BY <1>2, <1>3, <1>4 DEF Sound, SingleReplaces, SameRequest, Overwritten, At, SameField
<1>7. AppliesStay(c)'
  <2>1. ~At(c, "siblings")' /\ Item(c)' = Item(c) /\ \A t : InTodo(c, t)' => InTodo(c, t)
    BY <1>3 DEF At, Item, InTodo, SameRequest
  <2>2. \A t \in Suggestions : View(c, t)' = View(c, t)
    BY <1>2, <1>3 DEF View, Writes
  <2> QED
    BY <1>2, <1>3, <1>4, <2>1, <2>2 DEF Sound, AppliesStay, Applying, SameRequest, SameField
<1>8. RejectsStay(c)'
  BY <1>3 DEF RejectsStay
<1> QED
  BY <1>5, <1>6, <1>7, <1>8 DEF Sound

LEMMA WriteFieldSound ==
  ASSUME TypeOK, RowsHaveFields, NEW c \in Clients, Sound(c), WriteField(c) PROVE Sound(c)'
<1>0. PICK fields : fields = [session[c].copy.fields EXCEPT ![Target(c)] = Item(c)]
  OBVIOUS
<1>1. PICK next : next = [session[c] EXCEPT !.phase = "siblings", !.holds = TRUE, !.dirty = TRUE,
                                            !.copy = WithFields(session[c].copy, fields)]
  OBVIOUS
<1>2. session'[c] = next /\ suggestion' = suggestion
  BY <1>0, <1>1, GoesOn, SessionType DEF WriteField, Session
<1>3. /\ session[c].phase = "lock" /\ session[c].todo # <<>> /\ Marked(c)
      /\ Item(c) \in Suggestions
  BY ItemInTodo DEF WriteField, At, Marked
<1>4. Target(c) \in Fields
  BY <1>3 DEF Sound, AppliesStay, Applying, WritesFollow, RowsHaveFields, Target
<1>5. /\ fields \in [Fields -> Contents] /\ fields[Target(c)] = Item(c)
      /\ \A q \in Fields : q # Target(c) => fields[q] = session[c].copy.fields[q]
  BY <1>0, <1>4, TargetType, SessionType DEF WriteField, Project
<1>6. /\ session'[c].phase = "siblings" /\ Writes(c)' = Writes(c) /\ SameRequest(c)
      /\ session'[c].copy.fields = fields /\ session'[c].dirty
  BY <1>1, <1>2, <1>5, WithFieldsType, SessionType DEF Session, Writes, SameRequest
<1>7. WritesFollow(c)'
  BY <1>2, <1>6 DEF Sound, WritesFollow
<1>8. SingleReplaces(c)'
  BY <1>2, <1>3, <1>6 DEF Sound, SingleReplaces, SameRequest, Overwritten, At, SameField
<1>9. AppliesStay(c)'
  <2>1. Item(c)' = Item(c) /\ Target(c)' = Target(c) /\ \A t : InTodo(c, t)' => InTodo(c, t)
    BY <1>2, <1>6 DEF Item, InTodo, SameRequest, Target
  <2>2. \A t \in Suggestions : View(c, t)' = View(c, t)
    BY <1>2, <1>6 DEF View, Writes
  <2>3. ASSUME NEW s \in session[c].done
        PROVE /\ Writes(c)[s] = "applied" /\ fields[suggestion[s].field] = s
              /\ ~SameField(Item(c), s)
              /\ \A t \in Suggestions : InTodo(c, t) /\ SameField(t, s) => View(c, t) # "pending"
    <3>1. s \in Suggestions /\ Writes(c)[s] = "applied" /\ ~SameField(Item(c), s)
      BY <1>3, SessionType DEF Sound, AppliesStay, Applying
    <3>2. suggestion[s].field \in Fields
      BY <3>1 DEF Sound, WritesFollow, RowsHaveFields
    <3> QED
      BY <1>3, <1>5, <3>1, <3>2 DEF Sound, AppliesStay, Applying, SameField, Target
  <2>4. Writes(c)[Item(c)] = "applied"
    BY <1>3 DEF Sound, AppliesStay, Applying
  <2> QED
    BY <1>2, <1>5, <1>6, <2>1, <2>2, <2>3, <2>4 DEF AppliesStay, SameRequest, SameField
<1>10. RejectsStay(c)'
  BY <1>6 DEF RejectsStay
<1> QED
  BY <1>7, <1>8, <1>9, <1>10 DEF Sound

LEMMA RejectSiblingsSound ==
  ASSUME TypeOK, NEW c \in Clients, Sound(c), RejectSiblings(c) PROVE Sound(c)'
<1>1. PICK writes : writes =
        [r \in Suggestions |-> IF r \in Siblings(c) THEN "rejected" ELSE Writes(c)[r]]
  OBVIOUS
<1>2. PICK next : next = [session[c] EXCEPT !.phase = "select", !.todo = Tail(session[c].todo),
                            !.done = session[c].done \union {Item(c)}, !.writes = writes]
  OBVIOUS
<1>3. session'[c] = next /\ suggestion' = suggestion
  BY <1>1, <1>2, GoesOn, SessionType DEF RejectSiblings, Writes, Session
<1>4. /\ session'[c].phase = "select" /\ Writes(c)' = writes
      /\ session'[c].todo = Tail(session[c].todo) /\ session'[c].batch = session[c].batch
      /\ session'[c].done = session[c].done \union {Item(c)}
      /\ session'[c].copy = session[c].copy /\ session'[c].dirty = session[c].dirty
  BY <1>2, <1>3, SessionType DEF Session, Writes
<1>5. /\ Item(c) \in Suggestions /\ session[c].phase = "siblings" /\ session[c].todo # <<>>
      /\ Marked(c) /\ At(c, "siblings")
  BY ItemInTodo DEF RejectSiblings, At, Marked
<1>6. /\ Writes(c)[Item(c)] = "applied" /\ session[c].dirty
      /\ session[c].copy.fields[suggestion[Item(c)].field] = Item(c)
  BY <1>5 DEF Sound, AppliesStay, Applying, Target
<1>7. \A r \in Siblings(c) :
        r \in Suggestions /\ r # Item(c) /\ SameField(r, Item(c)) /\ View(c, r) = "pending"
  BY DEF Siblings, Rivals, SameField
<1>8. \A t \in Suggestions : Writes(c)[t] = "applied" => writes[t] = "applied"
  BY <1>1, <1>7, ViewIs
<1>9. ASSUME NEW t \in Suggestions
      PROVE /\ View(c, t)' = "pending" => View(c, t) = "pending"
            /\ SameField(t, Item(c)) => View(c, t)' # "pending"
  <2>1. View(c, t)' = IF writes[t] = "kept" THEN suggestion[t].status ELSE writes[t]
    BY <1>3, <1>4 DEF View, Writes
  <2>2. View(c, t) = "pending" /\ SameField(t, Item(c)) => t \in Siblings(c)
    BY <1>6, ViewIs DEF Siblings, Rivals, SameField
  <2>3. View(c, t)' = "pending" => View(c, t) = "pending"
    BY <1>1, <2>1 DEF View, Writes
  <2>4. t \in Siblings(c) => View(c, t)' = "rejected"
    BY <1>1, <2>1
  <2> QED
    BY <2>2, <2>3, <2>4
<1>10. WritesFollow(c)'
  <2>1. MayWrite(c)
    BY <1>1, <1>4, <1>7 DEF MayWrite
  <2> QED
    BY <1>3, <2>1, WritesFollowStep DEF Sound
<1>11. SingleReplaces(c)'
  <2> SUFFICES ASSUME ~session[c].batch, session[c].todo = <<>> \/ Tail(session[c].todo) = <<>>
               PROVE /\ Tail(session[c].todo) = <<>>
                     /\ \A s \in Overwritten(c)' :
                          \E r \in Suggestions : writes[r] = "applied" /\ SameField(r, s)
    BY <1>3, <1>4 DEF Sound, SingleReplaces, At, SameField
  <2>1. \A s \in Overwritten(c)' : s \in Overwritten(c)
    BY <1>1, <1>3, <1>4, <1>7, ViewIs DEF Overwritten
  <2>2. \A s \in Overwritten(c) :
          \E r \in Suggestions : Writes(c)[r] = "applied" /\ SameField(r, s)
    BY <1>5 DEF Sound, SingleReplaces, At
  <2> QED
    BY <1>5, <1>8, <2>1, <2>2
<1>12. AppliesStay(c)'
  <2>1. ~Marked(c)' /\ ~At(c, "siblings")'
    BY <1>4 DEF Marked, At
  <2>2. \A t : InTodo(c, t)' => InTodo(c, t)
    BY <1>4, <1>5, TailInTodo
  <2>3. ASSUME NEW s \in session'[c].done
        PROVE /\ writes[s] = "applied" /\ session[c].dirty
              /\ session[c].copy.fields[suggestion[s].field] = s
              /\ \A t \in Suggestions : InTodo(c, t)' /\ SameField(t, s) => View(c, t)' # "pending"
    <3>1. CASE s = Item(c)
      BY <1>5, <1>6, <1>8, <1>9, <3>1
    <3>2. CASE s \in session[c].done
      <4>1. s \in Suggestions
        BY <3>2, SessionType
      <4> QED
        BY <1>5, <1>8, <1>9, <2>2, <3>2, <4>1 DEF Sound, AppliesStay, Applying
    <3> QED
      BY <1>4, <3>1, <3>2
  <2> QED
    BY <1>3, <1>4, <2>1, <2>3 DEF AppliesStay, SameField
<1>13. RejectsStay(c)'
  BY <1>4 DEF RejectsStay
<1> QED
  BY <1>10, <1>11, <1>12, <1>13 DEF Sound

LEMMA RejectItemSound ==
  ASSUME TypeOK, NEW c \in Clients, Sound(c), RejectItem(c) PROVE Sound(c)'
<1>1. PICK writes : writes = [Writes(c) EXCEPT ![Item(c)] = "rejected"]
  OBVIOUS
<1>2. PICK next : next = [session[c] EXCEPT !.todo = Tail(session[c].todo),
                            !.done = session[c].done \union {Item(c)}, !.writes = writes]
  OBVIOUS
<1>3. session'[c] = next /\ suggestion' = suggestion
  BY <1>1, <1>2, GoesOn, SessionType DEF RejectItem, Writes, Session
<1>4. /\ Item(c) \in Suggestions /\ session[c].phase = "reject" /\ session[c].todo # <<>>
      /\ View(c, Item(c)) = "pending"
  BY ItemInTodo DEF RejectItem, At
<1>5. /\ session'[c].phase = "reject" /\ Writes(c)' = writes
      /\ session'[c].todo = Tail(session[c].todo) /\ session'[c].batch = session[c].batch
      /\ session'[c].done = session[c].done \union {Item(c)}
  BY <1>2, <1>3, <1>4, SessionType DEF Session, Writes
<1>6. \A s \in Suggestions : writes[s] = IF s = Item(c) THEN "rejected" ELSE Writes(c)[s]
  BY <1>1, SessionType DEF Writes
<1>7. WritesFollow(c)'
  <2>1. MayWrite(c)
    BY <1>4, <1>5, <1>6 DEF MayWrite
  <2> QED
    BY <1>3, <2>1, WritesFollowStep DEF Sound
<1>8. SingleReplaces(c)'
  <2> SUFFICES ASSUME ~session[c].batch, session[c].todo = <<>> \/ Tail(session[c].todo) = <<>>
               PROVE /\ Tail(session[c].todo) = <<>>
                     /\ \A s \in Overwritten(c)' :
                          \E r \in Suggestions : writes[r] = "applied" /\ SameField(r, s)
    BY <1>3, <1>5 DEF Sound, SingleReplaces, At, SameField
  <2>1. \A s \in Overwritten(c)' : s \in Overwritten(c)
    BY <1>3, <1>4, <1>5, <1>6, ViewIs DEF Overwritten
  <2>2. \A s \in Overwritten(c) :
          \E r \in Suggestions : Writes(c)[r] = "applied" /\ SameField(r, s)
    BY <1>4 DEF Sound, SingleReplaces, At
  <2>3. \A r \in Suggestions : Writes(c)[r] = "applied" => writes[r] = "applied"
    BY <1>4, <1>6, ViewIs
  <2> QED
    BY <1>4, <2>1, <2>2, <2>3
<1>9. AppliesStay(c)'
  BY <1>5 DEF AppliesStay, Applying
<1>10. RejectsStay(c)'
  BY <1>4, <1>5, <1>6, SessionType DEF Sound, RejectsStay
<1> QED
  BY <1>7, <1>8, <1>9, <1>10 DEF Sound

\* A refused item is left out of a batch, and ends any other request.
LEMMA RefuseSound ==
  ASSUME TypeOK, NEW c \in Clients, Sound(c), session[c].todo # <<>>, NEW s \in Session,
         s.todo = session[c].todo, s.batch = session[c].batch, s.done = session[c].done,
         s.writes = session[c].writes, s.copy = session[c].copy, s.dirty = session[c].dirty,
         NEW phase, Refuse(c, s, phase),
         \/ phase = "select" /\ session[c].phase \in Applying
         \/ phase = "reject" /\ session[c].phase = "reject"
  PROVE Sound(c)'
<1>1. CASE ~session[c].batch
  BY <1>1, GoesOn, EndedSound DEF Refuse
<1>2. CASE session[c].batch
  <2>1. PICK next : next = [s EXCEPT !.phase = phase, !.todo = Tail(s.todo)]
    OBVIOUS
  <2>2. session'[c] = next /\ suggestion' = suggestion
    BY <1>2, <2>1, GoesOn DEF Refuse
  <2>3. /\ session'[c].phase = phase /\ Writes(c)' = Writes(c)
        /\ session'[c].todo = Tail(session[c].todo) /\ session'[c].batch = session[c].batch
        /\ session'[c].done = session[c].done
        /\ session'[c].copy = session[c].copy /\ session'[c].dirty = session[c].dirty
    BY <2>1, <2>2 DEF Session, Writes
  <2>4. WritesFollow(c)' /\ SingleReplaces(c)'
    BY <1>2, <2>2, <2>3 DEF Sound, WritesFollow, SingleReplaces
  <2>5. AppliesStay(c)'
    <3>1. ~Marked(c)' /\ ~At(c, "siblings")'
      BY <2>3 DEF Marked, At
    <3>2. \A t : InTodo(c, t)' => InTodo(c, t)
      BY <2>3, TailInTodo
    <3>3. \A t \in Suggestions : View(c, t)' = View(c, t)
      BY <2>2, <2>3 DEF View, Writes
    <3> QED
      BY <2>2, <2>3, <3>1, <3>2, <3>3 DEF Sound, AppliesStay, Applying, SameField
  <2>6. RejectsStay(c)'
    BY <2>3 DEF Sound, RejectsStay, Applying
  <2> QED
    BY <2>4, <2>5, <2>6 DEF Sound
<1> QED
  BY <1>1, <1>2

LEMMA RefusedSound ==
  ASSUME TypeOK, NEW c \in Clients, Sound(c),
         SelectRefused(c) \/ MarkRefused(c) \/ FieldMissing(c) \/ RejectRefused(c)
  PROVE Sound(c)'
<1>1. session[c] \in Session
  BY SessionType
<1>2. CASE SelectRefused(c) \/ MarkRefused(c)
  BY <1>1, <1>2, RefuseSound DEF SelectRefused, MarkRefused, At, Applying
<1>3. CASE RejectRefused(c)
  BY <1>1, <1>3, RefuseSound DEF RejectRefused, At
<1>4. CASE FieldMissing(c)
  <2>1. PICK s : s = [session[c] EXCEPT !.holds = TRUE]
    OBVIOUS
  <2>2. /\ s \in Session /\ s.todo = session[c].todo /\ s.batch = session[c].batch
        /\ s.done = session[c].done /\ s.writes = session[c].writes
        /\ s.copy = session[c].copy /\ s.dirty = session[c].dirty
    BY <1>1, <2>1 DEF Session
  <2> QED
    BY <1>4, <2>1, <2>2, RefuseSound DEF FieldMissing, At, Applying
<1> QED
  BY <1>2, <1>3, <1>4

LEMMA AnalysedSound ==
  ASSUME TypeOK, NEW c \in Clients, Sound(c), Analysed(c) PROVE Sound(c)'
<1>1. PICK next : next = [session[c] EXCEPT !.phase = "persist"]
  OBVIOUS
<1>2. session'[c] = next /\ suggestion' = suggestion
  BY <1>1, GoesOn DEF Analysed
<1>3. session'[c].phase = "persist" /\ Writes(c)' = Writes(c) /\ SameRequest(c)
  BY <1>1, <1>2, SessionType DEF Session, Writes, SameRequest
<1>4. WritesFollow(c)'
  BY <1>2, <1>3 DEF Sound, WritesFollow
<1>5. SingleReplaces(c)'
  BY <1>2, <1>3 DEF Analysed, Sound, SingleReplaces, SameRequest, Overwritten, At, SameField
<1>6. AppliesStay(c)' /\ RejectsStay(c)'
  BY <1>3 DEF AppliesStay, RejectsStay, Applying
<1> QED
  BY <1>4, <1>5, <1>6 DEF Sound

LEMMA BeginSound ==
  ASSUME TypeOK, NEW c \in Clients, Request(c) PROVE Sound(c)'
<1>0. ASSUME NEW s, Start(c, s) PROVE session'[c] = s
  BY <1>0 DEF Start, TypeOK
<1>1. Loaded \in Session /\ Loaded.writes = [r \in Suggestions |-> "kept"] /\ Loaded.done = {}
      /\ Loaded.todo = <<>>
  BY LoadedType DEF Loaded, Idle
<1>2. ASSUME NEW ids \in Batches, NEW phase \in {"select", "reject"}, NEW batch \in BOOLEAN,
             BeginDecide(c, ids, phase, batch)
      PROVE Sound(c)'
  <2>1. PICK s : s = [Loaded EXCEPT !.phase = phase, !.todo = ids, !.batch = batch]
    OBVIOUS
  <2>2. session'[c] = s
    BY <1>0, <1>2, <2>1 DEF BeginDecide
  <2>3. /\ s.writes = [r \in Suggestions |-> "kept"] /\ s.done = {}
        /\ s.phase = phase /\ s.todo = ids /\ s.batch = batch
    BY <1>1, <2>1 DEF Session
  <2>4. batch \/ Tail(ids) = <<>>
    <3>1. ids \in Seq(Suggestions) /\ ids # <<>> /\ (batch \/ Len(ids) = 1)
      BY <1>2, BatchesAssumption DEF BeginDecide
    <3>2. Tail(ids) \in Seq(Suggestions) /\ Len(Tail(ids)) = Len(ids) - 1
      BY <3>1
    <3>3. Len(Tail(ids)) = 0 => Tail(ids) = <<>>
      BY <3>2, EmptySeq
    <3> QED
      BY <3>1, <3>2, <3>3
  <2> QED
    BY <2>2, <2>3, <2>4, NewSound
<1>3. CASE BeginSave(c)
  <2>1. PICK s : s = [Loaded EXCEPT !.phase = "save"]
    OBVIOUS
  <2>2. /\ s.writes = [r \in Suggestions |-> "kept"] /\ s.done = {}
        /\ s.phase = "save" /\ s.todo = <<>>
    BY <1>1, <2>1 DEF Session
  <2> QED
    BY <1>0, <1>3, <2>1, <2>2, NewSound DEF BeginSave
<1>4. CASE BeginAnalysis(c)
  <2>1. PICK s : s = [Idle EXCEPT !.phase = "ai", !.version = text]
    OBVIOUS
  <2>2. /\ s.writes = [r \in Suggestions |-> "kept"] /\ s.done = {}
        /\ s.phase = "ai" /\ s.todo = <<>>
    BY <2>1 DEF Idle
  <2> QED
    BY <1>0, <1>4, <2>1, <2>2, NewSound DEF BeginAnalysis
<1>5. CASE Crash(c)
  BY <1>5, GoesOn, EndedSound DEF Crash, Rollback
<1> QED
  BY <1>2, <1>3, <1>4, <1>5 DEF Request

\* The request that makes a step.
LEMMA OwnStepSound ==
  ASSUME TypeOK, RowsHaveFields, NEW c \in Clients, Sound(c), Advance(c) \/ Request(c)
  PROVE Sound(c)'
<1>1. ASSUME session' = [session EXCEPT ![c] = Idle] PROVE Sound(c)'
  BY <1>1, EndedSound DEF TypeOK
<1>2. CASE Decide(c)
  BY <1>1, <1>2, SelectSound, MarkSound, IndexSound, WriteFieldSound, RejectSiblingsSound,
     RejectItemSound, RefusedSound
  DEF Decide, IndexRefused, Victim, Rollback, Go, Commit
<1>3. CASE SaveAny(c) \/ NotAnalysed(c) \/ PersistAny(c)
  BY <1>1, <1>3
  DEF SaveAny, PatchSections, PatchCustom, Replace, Save, NotAnalysed, Rollback, Go, PersistAny,
      Persist
<1> QED
  BY <1>2, <1>3, AnalysedSound, BeginSound DEF Advance

\* Rows change under a request only where it has neither written nor anything to do:
\* a row that is removed, or one that did not exist.
LEMMA RowsCalm ==
  ASSUME NEW c \in Clients, session'[c] = session[c],
         \A s \in Suggestions : suggestion'[s] = suggestion[s] \/
           /\ Writes(c)[s] = "kept"
           /\ suggestion'[s].status # "pending" \/ ~InTodo(c, s)
  PROVE Calm(c)
BY DEF Calm

LEMMA FreshIsCalm ==
  ASSUME NEW c \in Clients, NEW s \in Suggestions, Fresh(s)
  PROVE Writes(c)[s] = "kept" /\ ~InTodo(c, s)
BY DEF Fresh, Writes, InTodo

LEMMA CommitRows ==
  ASSUME TypeOK, NEW c \in Clients, Commit(c), NEW s \in Suggestions
  PROVE /\ suggestion'[s].status = View(c, s)
        /\ suggestion'[s].field = suggestion[s].field
        /\ suggestion'[s].source = suggestion[s].source
        /\ Writes(c)[s] = "kept" => suggestion'[s] = suggestion[s]
<1>1. PICK row : row = [suggestion[s] EXCEPT !.status = View(c, s)]
  OBVIOUS
<1>2. suggestion'[s] = row
  BY <1>1 DEF Commit
<1>3. /\ row.status = View(c, s)
      /\ row.field = suggestion[s].field /\ row.source = suggestion[s].source
      /\ View(c, s) = suggestion[s].status => row = suggestion[s]
  BY <1>1, RowTypes DEF Suggestion
<1>4. Writes(c)[s] = "kept" => View(c, s) = suggestion[s].status
  BY DEF View, Writes
<1> QED
  BY <1>2, <1>3, <1>4

LEMMA OtherRequestCalm ==
  ASSUME TypeOK, OneInv, NEW c \in Clients, NEW d \in Clients, d # c, Advance(d) \/ Request(d)
  PROVE Calm(c)
<1>1. ASSUME NEW next, session' = [session EXCEPT ![d] = next] PROVE session'[c] = session[c]
  BY <1>1 DEF TypeOK
<1>2. ASSUME UNCHANGED suggestion, NEW next, session' = [session EXCEPT ![d] = next] PROVE Calm(c)
  BY <1>1, <1>2, RowsCalm
<1>3. CASE Commit(d)
  <2>1. ASSUME NEW s \in Suggestions
        PROVE suggestion'[s] = suggestion[s] \/
                /\ Writes(c)[s] = "kept"
                /\ suggestion'[s].status # "pending"
    <3>1. Writes(c)[s] = "kept" \/ Writes(d)[s] = "kept"
      BY DEF OneInv, LocksDisjoint, Writes
    <3>2. Writes(d)[s] # "kept" => View(d, s) # "pending"
      BY ViewIs
    <3> QED
      BY <1>3, <3>1, <3>2, CommitRows
  <2> QED
    BY <1>1, <1>3, <2>1, RowsCalm DEF Commit
<1>4. CASE PersistAny(d)
  <2>0. PICK new \in SUBSET Suggestions, texts \in SUBSET Notes :
          \E found \in [new -> Fields], low \in BOOLEAN : Persist(d, new, found, texts, low)
    BY <1>4 DEF PersistAny, Singletons
  <2>1. PICK found \in [new -> Fields], low \in BOOLEAN : Persist(d, new, found, texts, low)
    BY <2>0
  <2>2. \A s \in NotesPending : s \in Suggestions /\ Writes(c)[s] = "kept"
    BY <2>1 DEF Persist, Unblocked, WaitsFor, Locks, NotesPending, PendingOf, Writes
  <2>3. \A s \in new : s \in Suggestions /\ Writes(c)[s] = "kept" /\ ~InTodo(c, s)
    BY <2>1, FreshIsCalm DEF Persist
  <2>4. \A s \in Suggestions : suggestion'[s] = suggestion[s] \/ s \in new \/
          (s \in NotesPending /\ suggestion'[s].status # "pending")
    BY <2>1 DEF Persist, AbsentSuggestion
  <2>5. session'[c] = session[c]
    BY <1>1, <2>1 DEF Persist
  <2> QED
    BY <2>2, <2>3, <2>4, <2>5, RowsCalm
<1>5. CASE Decide(d) /\ ~Commit(d)
  BY <1>2, <1>5
  DEF Decide, Select, SelectRefused, Mark, MarkRefused, Index, IndexRefused, WriteField,
      FieldMissing, RejectSiblings, RejectItem, RejectRefused, Victim, Rollback, Refuse, Go
<1>6. CASE SaveAny(d) \/ Analysed(d) \/ NotAnalysed(d)
  BY <1>2, <1>6
  DEF SaveAny, PatchSections, PatchCustom, Replace, Save, Analysed, NotAnalysed, Rollback, Go
<1>7. CASE Request(d)
  BY <1>2, <1>7
  DEF Request, BeginDecide, BeginSave, BeginAnalysis, Start, rows, Crash, Rollback, Go
<1> QED
  BY <1>3, <1>4, <1>5, <1>6, <1>7 DEF Advance

LEMMA PanelCalm ==
  ASSUME TypeOK, NEW c \in Clients, Panel PROVE Calm(c)
<1>1. CASE UNCHANGED <<suggestion, session>>
  BY <1>1, RowsCalm
<1>2. ASSUME NEW n \in Notes, NEW s \in Suggestions, NEW f \in Fields, map_unmapped_note(n, s, f)
      PROVE Calm(c)
  <2>1. session' = session /\ Writes(c)[s] = "kept" /\ ~InTodo(c, s)
    BY <1>2, FreshIsCalm DEF map_unmapped_note
  <2>2. \A r \in Suggestions \ {s} : suggestion'[r] = suggestion[r]
    BY <1>2 DEF map_unmapped_note, TypeOK
  <2> QED
    BY <2>1, <2>2, RowsCalm
<1> QED
  BY <1>1, <1>2
  DEF Panel, save_notes, dismiss_unmapped_note, dismiss_all_unmapped,
      dismiss_unmapped_by_confidence, dismiss_unmapped_by_file, Dismiss

LEMMA DeletedRows ==
  ASSUME NEW deleted \in SUBSET Suggestions, Delete(deleted)
  PROVE /\ \A s \in deleted, c \in Clients : Writes(c)[s] = "kept"
        /\ \A s \in Suggestions : IF s \in deleted THEN suggestion'[s] = AbsentSuggestion
                                  ELSE suggestion'[s] = suggestion[s]
BY DEF Delete, NobodyLocks, Locks, Writes

LEMMA FileDeletes ==
  ASSUME FileNext
  PROVE /\ session' = session
        /\ \E deleted \in SUBSET Suggestions :
             /\ Delete(deleted)
             /\ \/ \E f \in Files : deleted = PendingOf(f)
                \/ \E files \in SUBSET Files :
                     deleted = {s \in Suggestions : suggestion[s].source \in files}
<1>1. ASSUME NEW f \in Files, NEW texts, FileOutputs(f, texts)
      PROVE session' = session /\ Delete(PendingOf(f)) /\ PendingOf(f) \in SUBSET Suggestions
  BY <1>1 DEF FileOutputs, PendingOf
<1>2. ASSUME NEW files \in SUBSET Files, FilesDeleted(files)
      PROVE session' = session /\ Delete({s \in Suggestions : suggestion[s].source \in files})
  BY <1>2 DEF FilesDeleted
<1>3. CASE \E f \in Files, texts \in Singletons(Notes) : FileOutputs(f, texts)
  BY <1>1, <1>3
<1>4. CASE \E files \in SUBSET Files : FilesDeleted(files)
  <2>1. PICK files \in SUBSET Files : FilesDeleted(files)
    BY <1>4
  <2>2. PICK deleted \in SUBSET Suggestions :
          deleted = {s \in Suggestions : suggestion[s].source \in files}
    OBVIOUS
  <2> QED
    BY <1>2, <2>1, <2>2
<1> QED
  BY <1>3, <1>4 DEF FileNext

LEMMA FileCalm ==
  ASSUME NEW c \in Clients, FileNext PROVE Calm(c)
<1>1. PICK deleted \in SUBSET Suggestions : Delete(deleted)
  BY FileDeletes
<1>2. \A s \in Suggestions : suggestion'[s] = suggestion[s] \/
        (Writes(c)[s] = "kept" /\ suggestion'[s].status # "pending")
  BY <1>1, DeletedRows DEF AbsentSuggestion
<1> QED
  BY <1>2, FileDeletes, RowsCalm

LEMMA SoundStep ==
  ASSUME TypeOK, OneInv, RequestInv, [Next]_vars, NEW c \in Clients PROVE Sound(c)'
<1>0. RowsHaveFields /\ Sound(c)
  BY DEF RequestInv
<1>1. ASSUME NEW d \in Clients, Advance(d) \/ Request(d) PROVE Sound(c)'
  BY <1>0, <1>1, OwnStepSound, OtherRequestCalm, CalmSound
<1>2. CASE Panel \/ FileNext
  BY <1>0, <1>2, PanelCalm, FileCalm, CalmSound
<1>3. CASE UNCHANGED vars
  <2>1. Calm(c)
    BY <1>3 DEF vars, Calm
  <2> QED
    BY <1>0, <2>1, CalmSound
<1> QED
  BY <1>1, <1>2, <1>3 DEF Next, ServiceNext

\* How a step changes a stored row: it is removed, it is new, or a request commits it.
LEMMA RowsStep ==
  ASSUME TypeOK, [Next]_vars, NEW s \in Suggestions
  PROVE \/ suggestion'[s] = suggestion[s]
        \/ suggestion'[s] = AbsentSuggestion
        \/ /\ suggestion[s].status = "absent"
           /\ suggestion'[s].status = "pending" /\ suggestion'[s].field \in Fields
        \/ \E c \in Clients : Commit(c)
<1>1. CASE UNCHANGED suggestion
  BY <1>1
<1>2. ASSUME NEW c \in Clients, PersistAny(c)
      PROVE \/ suggestion'[s] \in {suggestion[s], AbsentSuggestion}
            \/ /\ suggestion[s].status = "absent"
               /\ suggestion'[s].status = "pending" /\ suggestion'[s].field \in Fields
  <2>0. PICK new \in SUBSET Suggestions, texts \in SUBSET Notes :
          \E found \in [new -> Fields], low \in BOOLEAN : Persist(c, new, found, texts, low)
    BY <1>2 DEF PersistAny, Singletons
  <2>1. PICK found \in [new -> Fields], low \in BOOLEAN : Persist(c, new, found, texts, low)
    BY <2>0
  <2> QED
    BY <2>1 DEF Persist, Fresh
<1>3. ASSUME NEW n \in Notes, NEW r \in Suggestions, NEW f \in Fields, map_unmapped_note(n, r, f)
      PROVE \/ suggestion'[s] = suggestion[s]
            \/ /\ suggestion[s].status = "absent"
               /\ suggestion'[s].status = "pending" /\ suggestion'[s].field \in Fields
  BY <1>3 DEF map_unmapped_note, Fresh, TypeOK
<1>4. CASE FileNext
  BY <1>4, FileDeletes, DeletedRows
<1>5. CASE \E c \in Clients : Decide(c) /\ ~Commit(c)
  BY <1>1, <1>5
  DEF Decide, Select, SelectRefused, Mark, MarkRefused, Index, IndexRefused, WriteField,
      FieldMissing, RejectSiblings, RejectItem, RejectRefused, Victim, Rollback, Refuse, Go
<1>6. CASE \E c \in Clients : SaveAny(c) \/ Analysed(c) \/ NotAnalysed(c)
  BY <1>1, <1>6
  DEF SaveAny, PatchSections, PatchCustom, Replace, Save, Analysed, NotAnalysed, Rollback, Go
<1>7. CASE \E c \in Clients : Request(c)
  BY <1>1, <1>7
  DEF Request, BeginDecide, BeginSave, BeginAnalysis, Start, rows, Crash, Rollback, Go
<1>8. CASE Panel
  BY <1>1, <1>3, <1>8
  DEF Panel, save_notes, dismiss_unmapped_note, dismiss_all_unmapped,
      dismiss_unmapped_by_confidence, dismiss_unmapped_by_file, Dismiss
<1> QED
  BY <1>1, <1>2, <1>4, <1>5, <1>6, <1>7, <1>8 DEF Next, ServiceNext, Advance, vars

LEMMA FieldsStep ==
  ASSUME TypeOK, RequestInv, [Next]_vars PROVE RowsHaveFields'
<1> SUFFICES ASSUME NEW s \in Suggestions, suggestion'[s].status # "absent"
             PROVE suggestion'[s].field \in Fields
  BY DEF RowsHaveFields
<1>1. ASSUME NEW c \in Clients, Commit(c) PROVE suggestion'[s].field \in Fields
  <2>1. View(c, s) # "absent" /\ suggestion'[s].field = suggestion[s].field
    BY <1>1, CommitRows
  <2>2. suggestion[s].status # "absent"
    BY <2>1, ViewIs DEF View, Writes, RequestInv, Sound, WritesFollow
  <2> QED
    BY <2>1, <2>2 DEF RequestInv, RowsHaveFields
<1>2. CASE suggestion'[s] = suggestion[s] \/ suggestion'[s] = AbsentSuggestion
  BY <1>2 DEF RequestInv, RowsHaveFields, AbsentSuggestion
<1> QED
  BY <1>1, <1>2, RowsStep

LEMMA RequestStep ==
  ASSUME TypeOK, OneInv, RequestInv, [Next]_vars PROVE RequestInv'
BY SoundStep, FieldsStep DEF RequestInv

-----------------------------------------------------------------------------
(* Decisions stay, and what was reported is done *)

LEMMA KeptStep ==
  ASSUME TypeOK, OneInv, RequestInv, [Next]_vars,
         NEW s \in Suggestions, suggestion[s].status \in Decided
  PROVE \/ suggestion'[s] = suggestion[s]
        \/ /\ Applied(s)
           /\ suggestion'[s].status = "rejected"
           /\ \/ \E r \in Suggestions \ {s} : suggestion'[r].status = "applied" /\ SameField(r, s)
              \/ \E c \in Clients : Commit(c) /\ session[c].batch
        \/ /\ suggestion[s].source \in Files
           /\ \A r \in Suggestions :
                suggestion[r].source = suggestion[s].source => suggestion'[r] = AbsentSuggestion
<1>1. ASSUME NEW c \in Clients, Commit(c)
      PROVE \/ suggestion'[s] = suggestion[s]
            \/ /\ Applied(s) /\ suggestion'[s].status = "rejected"
               /\ \/ \E r \in Suggestions \ {s} : suggestion'[r].status = "applied" /\ SameField(r, s)
                  \/ session[c].batch
  <2>0. Sound(c)
    BY DEF RequestInv
  <2>1. CASE Writes(c)[s] = "kept"
    BY <1>1, <2>1, CommitRows
  <2>2. CASE Writes(c)[s] # "kept"
    <3>1. Writes(c)[s] = "rejected" /\ Applied(s)
      BY <2>0, <2>2, ViewIs DEF Sound, WritesFollow, Decided, Applied
    <3>2. suggestion'[s].status = "rejected"
      BY <1>1, <3>1, CommitRows DEF View, Writes
    <3>3. ASSUME ~session[c].batch
          PROVE \E r \in Suggestions \ {s} : suggestion'[r].status = "applied" /\ SameField(r, s)
      <4>1. s \in Overwritten(c) /\ ~At(c, "mark")
        BY <1>1, <3>1 DEF Overwritten, Applied, Commit, At
      <4>2. PICK r \in Suggestions : Writes(c)[r] = "applied" /\ SameField(r, s)
        BY <2>0, <3>3, <4>1 DEF Sound, SingleReplaces
      <4>3. r # s /\ View(c, r) = "applied"
        BY <3>1, <4>2 DEF View, Writes
      <4>4. suggestion'[r].status = "applied"
        BY <1>1, <4>3, CommitRows
      <4> QED
        BY <4>2, <4>3, <4>4
    <3> QED
      BY <3>1, <3>2, <3>3
  <2> QED
    BY <2>1, <2>2
<1>2. CASE FileNext
  <2>1. PICK deleted \in SUBSET Suggestions :
          /\ Delete(deleted)
          /\ \/ \E f \in Files : deleted = PendingOf(f)
             \/ \E files \in SUBSET Files :
                  deleted = {r \in Suggestions : suggestion[r].source \in files}
    BY <1>2, FileDeletes
  <2>2. CASE s \notin deleted
    BY <2>1, <2>2, DeletedRows
  <2>3. CASE s \in deleted
    <3>1. s \notin UNION {PendingOf(f) : f \in Files}
      BY DEF PendingOf, Decided
    <3>2. PICK files \in SUBSET Files :
            deleted = {r \in Suggestions : suggestion[r].source \in files}
      BY <2>1, <2>3, <3>1
    <3>3. suggestion[s].source \in Files /\
            \A r \in Suggestions : suggestion[r].source = suggestion[s].source => r \in deleted
      BY <2>3, <3>2
    <3> QED
      BY <2>1, <3>3, DeletedRows
  <2> QED
    BY <2>2, <2>3
<1>3. ASSUME NEW c \in Clients, PersistAny(c) PROVE suggestion'[s] = suggestion[s]
  <2>0. PICK new \in SUBSET Suggestions, texts \in SUBSET Notes :
          \E found \in [new -> Fields], low \in BOOLEAN : Persist(c, new, found, texts, low)
    BY <1>3 DEF PersistAny, Singletons
  <2>1. PICK found \in [new -> Fields], low \in BOOLEAN : Persist(c, new, found, texts, low)
    BY <2>0
  <2>2. s \notin NotesPending /\ s \notin new
    BY <2>1 DEF Persist, Fresh, NotesPending, PendingOf, Decided
  <2> QED
    BY <2>1, <2>2 DEF Persist
<1>4. ASSUME ~FileNext, \A c \in Clients : ~Commit(c) /\ ~PersistAny(c)
      PROVE suggestion'[s] = suggestion[s]
  <2>1. CASE \E c \in Clients : Decide(c)
    BY <1>4, <2>1
    DEF Decide, Select, SelectRefused, Mark, MarkRefused, Index, IndexRefused, WriteField,
        FieldMissing, RejectSiblings, RejectItem, RejectRefused, Victim, Rollback, Refuse, Go
  <2>2. CASE \E c \in Clients : SaveAny(c) \/ Analysed(c) \/ NotAnalysed(c)
    BY <2>2
    DEF SaveAny, PatchSections, PatchCustom, Replace, Save, Analysed, NotAnalysed, Rollback, Go
  <2>3. CASE \E c \in Clients : Request(c)
    BY <2>3 DEF Request, BeginDecide, BeginSave, BeginAnalysis, Start, rows, Crash, Rollback, Go
  <2>4. ASSUME NEW n \in Notes, NEW r \in Suggestions, NEW f \in Fields, map_unmapped_note(n, r, f)
        PROVE suggestion'[s] = suggestion[s]
    BY <2>4 DEF map_unmapped_note, Fresh, TypeOK, Decided
  <2>5. CASE Panel
    BY <2>4, <2>5
    DEF Panel, save_notes, dismiss_unmapped_note, dismiss_all_unmapped,
        dismiss_unmapped_by_confidence, dismiss_unmapped_by_file, Dismiss
  <2> QED
    BY <1>4, <2>1, <2>2, <2>3, <2>5 DEF Next, ServiceNext, Advance, vars
<1> QED
  BY <1>1, <1>2, <1>3, <1>4

LEMMA ReportedStep ==
  ASSUME TypeOK, RequestInv, NEW c \in Clients, Commit(c), NEW s \in session[c].done
  PROVE IF session[c].phase = "select"
        THEN suggestion'[s].status = "applied" /\ project'.fields[suggestion[s].field] = s
        ELSE suggestion'[s].status = "rejected"
<1>1. Sound(c) /\ s \in Suggestions
  BY SessionType DEF RequestInv
<1>2. suggestion'[s].status = View(c, s)
  BY <1>1, CommitRows
<1>3. CASE session[c].phase = "reject"
  <2>1. Writes(c)[s] = "rejected"
    BY <1>1, <1>3 DEF Sound, RejectsStay
  <2> QED
    BY <1>2, <1>3, <2>1 DEF View, Writes
<1>4. CASE session[c].phase = "select"
  <2>1. /\ Writes(c)[s] = "applied" /\ session[c].dirty
        /\ session[c].copy.fields[suggestion[s].field] = s
    BY <1>1, <1>4 DEF Sound, AppliesStay, Applying
  <2>2. project'.fields = session[c].copy.fields
    BY <2>1, StoredType, SessionType DEF Commit
  <2> QED
    BY <1>2, <1>4, <2>1, <2>2 DEF View, Writes
<1> QED
  BY <1>3, <1>4 DEF Commit

LEMMA InitRequests == Init => RequestInv
<1> SUFFICES ASSUME Init PROVE RequestInv
  OBVIOUS
<1>1. \A s \in Suggestions : suggestion[s].status = "absent"
  BY DEF Init, AbsentSuggestion
<1>2. ASSUME NEW c \in Clients PROVE Sound(c)
  <2>1. /\ session[c].writes = [r \in Suggestions |-> "kept"] /\ session[c].done = {}
        /\ session[c].phase = "idle" /\ session[c].todo = <<>>
    BY DEF Init, Idle
  <2>2. WritesFollow(c) /\ SingleReplaces(c)
    BY <2>1 DEF WritesFollow, SingleReplaces, Overwritten, Writes
  <2>3. AppliesStay(c) /\ RejectsStay(c)
    BY <2>1 DEF AppliesStay, RejectsStay, Applying
  <2> QED
    BY <2>2, <2>3 DEF Sound
<1> QED
  BY <1>1, <1>2 DEF RequestInv, RowsHaveFields

-----------------------------------------------------------------------------
LEMMA IntakeInvariant == Spec => [](TypeOK /\ OneInv /\ RequestInv)
<1>1. Init => TypeOK /\ OneInv /\ RequestInv
  BY InitTypeOK, InitOne, InitRequests
<1>2. TypeOK /\ OneInv /\ RequestInv /\ [Next]_vars => (TypeOK /\ OneInv /\ RequestInv)'
  BY NextTypeOK, NextOne, RequestStep
<1> QED
  BY <1>1, <1>2, PTL DEF Spec

\* Rows, the document, its progress and the requests keep their shape.
THEOREM TypeCorrect == Spec => []TypeOK
BY IntakeInvariant, PTL

\* However many requests apply, reject and replace suggestions at the same time, a
\* field never has two applied suggestions, and no commit fails for it: the index is
\* asked when the row is updated.
THEOREM OneApplied == Spec => []OneAppliedPerField
<1>1. OneInv => OneAppliedPerField
  BY DEF OneInv
<1> QED
  BY <1>1, IntakeInvariant, PTL

\* apply_suggestion, reject_suggestion and the batch: what a user decided is undone only
\* for another suggestion of the field, or by a batch, or with the file it came from.
\* Rows a request has written stay locked, so the commit finds them as it left them.
THEOREM DecisionsStay == Spec => DecisionsKept
<1>1. TypeOK /\ OneInv /\ RequestInv /\ [Next]_vars =>
        [\A s \in Suggestions : suggestion[s].status \in Decided =>
           \/ suggestion'[s] = suggestion[s]
           \/ /\ Applied(s)
              /\ suggestion'[s].status = "rejected"
              /\ \/ \E r \in Suggestions \ {s} : suggestion'[r].status = "applied" /\ SameField(r, s)
                 \/ \E c \in Clients : Commit(c) /\ session[c].batch
           \/ /\ suggestion[s].source \in Files
              /\ \A r \in Suggestions :
                   suggestion[r].source = suggestion[s].source => suggestion'[r] = AbsentSuggestion]_vars
  BY KeptStep
<1> QED
  BY <1>1, IntakeInvariant, PTL DEF Spec, DecisionsKept

\* Every item a committed request reports, however long the batch and whatever else of it
\* was refused, is applied or rejected in the stored row, as it says; an applied one is in the
\* stored document.
THEOREM ReportsHold == Spec => ReportedIsDone
<1>1. TypeOK /\ OneInv /\ RequestInv /\ [Next]_vars =>
        [\A c \in Clients : Commit(c) => \A s \in session[c].done :
           IF session[c].phase = "select"
           THEN suggestion'[s].status = "applied" /\ project'.fields[suggestion[s].field] = s
           ELSE suggestion'[s].status = "rejected"]_vars
  BY ReportedStep
<1> QED
  BY <1>1, IntakeInvariant, PTL DEF Spec, ReportedIsDone

-----------------------------------------------------------------------------
(* The queue of files *)

Claim(w) == worker[w].attempts

\* What is known of the claims: a free worker has none, a file under work has been
\* uploaded, claims are counted, two claims of one file differ, and a file completed
\* at its first claim is in nobody's hands.
FreeHoldsNothing == \A w \in Workers : worker[w].file = "none" => worker[w] = Free
UnusedAreUnclaimed ==
  \A f \in Files : file[f].status = "absent" =>
    file[f].attempts = 0 /\ \A w \in Workers : worker[w].file # f
ClaimsDiffer ==
  \A f \in Files : Exists(f) =>
    \A v, w \in Workers : Working(v, f) /\ Working(w, f) /\ Claim(v) = Claim(w) => v = w
FirstClaimEnded ==
  \A f \in Files : file[f].status = "completed" /\ file[f].attempts <= 1 =>
    \A w \in Workers : ~Working(w, f)

ClaimInv ==
  /\ FreeHoldsNothing
  /\ UnusedAreUnclaimed
  /\ ClaimsAreCounted
  /\ ClaimsDiffer
  /\ FirstClaimEnded

\* The row of f keeps its claims; if it is completed now, nobody holds a first claim.
Tame(f) ==
  /\ file'[f].status = "absent" => file'[f] = file[f]
  /\ Exists(f)' => Exists(f) /\ file'[f].attempts = file[f].attempts
  /\ file'[f].status = "processing" => file[f].status = "processing"
  /\ file'[f].status = "completed" /\ file[f].attempts <= 1 =>
       file[f].status = "completed" \/ \A w \in Workers : worker'[w].file # f

\* No worker takes a file.
NoneTaken == \A w \in Workers : worker'[w] \in {worker[w], Free}

-----------------------------------------------------------------------------
LEMMA RowType ==
  ASSUME IngestionTypeOK, NEW f \in Files
  PROVE /\ file[f] \in Row
        /\ file[f].attempts \in 0..MAX_PROCESSING_ATTEMPTS
        /\ file[f].attempts \in Nat
BY AttemptsAssumption DEF IngestionTypeOK, Row, Attempts

LEMMA WorkerType ==
  ASSUME IngestionTypeOK, NEW w \in Workers
  PROVE worker[w] \in Worker /\ worker[w].file \in Files \union {"none"} /\ Claim(w) \in Nat
BY AttemptsAssumption DEF IngestionTypeOK, Worker, Attempts, Claim

LEMMA FreeType == Free \in Worker
BY AttemptsAssumption DEF Free, Worker, Attempts

LEMMA InitialRowTypes ==
  AbsentFile \in Row /\ AbsentOffer \in Row /\ DeletedFile \in Row
<1>1. 0 \in Attempts
  BY AttemptsAssumption DEF Attempts
<1>2. AbsentFile \in Row
  BY <1>1 DEF AbsentFile, Row
<1> QED
  BY <1>2 DEF AbsentOffer, DeletedFile, Row

LEMMA HolderIsBusy ==
  ASSUME NEW w \in Workers, NEW f \in Files, Working(w, f)
  PROVE worker[w] # Free
BY FilesAssumption DEF Working, Free

LEMMA InitType == IngestionInit => IngestionTypeOK /\ ClaimInv /\ CompletedHasResults
<1> SUFFICES ASSUME IngestionInit PROVE IngestionTypeOK /\ ClaimInv /\ CompletedHasResults
  OBVIOUS
<1>1. IngestionTypeOK
  BY FreeType, InitialRowTypes DEF IngestionInit, IngestionTypeOK
<1>2. \A f \in Files : ~Exists(f) /\ file[f].attempts = 0
  BY DEF IngestionInit, Exists, AbsentOffer, AbsentFile, DeletedFile
<1>3. \A w \in Workers : worker[w] = Free /\ worker[w].file = "none"
  BY DEF IngestionInit, Free
<1> QED
  BY <1>1, <1>2, <1>3, FilesAssumption
  DEF ClaimInv, FreeHoldsNothing, UnusedAreUnclaimed, ClaimsAreCounted, ClaimsDiffer,
      FirstClaimEnded, CompletedHasResults, Exists, Working

LEMMA TameKeepsClaims ==
  ASSUME IngestionTypeOK, ClaimInv, NoneTaken, \A f \in Files : Tame(f)
  PROVE ClaimInv'
<1>1. ASSUME NEW w \in Workers, NEW f \in Files, worker'[w].file = f
      PROVE worker'[w] = worker[w] /\ Working(w, f) /\ worker[w] # Free
  BY <1>1, FilesAssumption DEF NoneTaken, Working, Free
<1>2. FreeHoldsNothing'
  BY DEF FreeHoldsNothing, NoneTaken, ClaimInv
<1>3. UnusedAreUnclaimed'
  BY <1>1 DEF UnusedAreUnclaimed, ClaimInv, Tame, Working
<1>4. ClaimsAreCounted'
  <2>1. ASSUME NEW f \in Files, file'[f].status = "processing" PROVE file'[f].attempts > 0
    BY <2>1 DEF Tame, Exists, ClaimInv, ClaimsAreCounted
  <2>2. ASSUME NEW w \in Workers, worker'[w] # Free, Exists(worker[w].file)', worker'[w] = worker[w]
        PROVE worker'[w].attempts \in 1..file'[worker'[w].file].attempts
    <3>1. worker[w].file \in Files
      BY <2>2, WorkerType DEF ClaimInv, FreeHoldsNothing
    <3> QED
      BY <2>2, <3>1 DEF Tame, Exists, ClaimInv, ClaimsAreCounted
  <2>3. \A w \in Workers : worker'[w] # Free => worker'[w] = worker[w]
    BY DEF NoneTaken
  <2> QED
    BY <2>1, <2>2, <2>3 DEF ClaimsAreCounted, Exists
<1>5. ClaimsDiffer'
  BY <1>1 DEF ClaimsDiffer, ClaimInv, Tame, Working, Claim
<1>6. FirstClaimEnded'
  <2> SUFFICES ASSUME NEW f \in Files, file'[f].status = "completed", file'[f].attempts <= 1,
                      NEW w \in Workers, worker'[w].file = f
               PROVE FALSE
    BY DEF FirstClaimEnded, Working
  <2>1. Exists(f) /\ file'[f].attempts = file[f].attempts
    BY DEF Tame, Exists
  <2>2. file[f].status = "completed"
    BY <2>1 DEF Tame
  <2> QED
    BY <1>1, <2>1, <2>2 DEF ClaimInv, FirstClaimEnded
<1> QED
  BY <1>2, <1>3, <1>4, <1>5, <1>6 DEF ClaimInv

\* The worker that ends a first claim of a file was the only one to hold it.
LEMMA FirstClaimIsSole ==
  ASSUME IngestionTypeOK, ClaimInv, NEW w \in Workers, NEW f \in Files, HasRow(w, f), Done(w),
         file[f].attempts <= 1
  PROVE \A v \in Workers : worker'[v].file # f
<1> SUFFICES ASSUME NEW v \in Workers, worker'[v].file = f PROVE FALSE
  OBVIOUS
<1>1. v # w /\ Working(v, f)
  BY FilesAssumption DEF Done, Free, IngestionTypeOK, Working
<1>2. worker[v] # Free /\ worker[w] # Free
  BY <1>1, HolderIsBusy DEF HasRow
<1>3. Claim(v) \in 1..file[f].attempts /\ Claim(w) \in 1..file[f].attempts
  BY <1>1, <1>2 DEF ClaimInv, ClaimsAreCounted, HasRow, Working, Claim
<1>4. Claim(v) = Claim(w)
  BY <1>3, RowType
<1> QED
  BY <1>1, <1>4 DEF ClaimInv, ClaimsDiffer, HasRow

LEMMA DoneTakesNone ==
  ASSUME IngestionTypeOK, NEW w \in Workers, Done(w)
  PROVE NoneTaken /\ worker' \in [Workers -> Worker]
BY FreeType DEF IngestionTypeOK, Done, NoneTaken

\* One worker ends its work on one file, whose row is replaced.
LEMMA EndOfWork ==
  ASSUME IngestionTypeOK, ClaimInv, NEW w \in Workers, NEW f \in Files, HasRow(w, f), Done(w),
         NEW row \in Row, file' = [file EXCEPT ![f] = row],
         row.status \in {"queued", "completed", "failed"}, row.attempts = file[f].attempts
  PROVE IngestionTypeOK' /\ ClaimInv'
<1>1. NoneTaken /\ worker' \in [Workers -> Worker]
  BY DoneTakesNone
<1>2. file[f].attempts <= 1 => \A v \in Workers : worker'[v].file # f
  BY FirstClaimIsSole
<1>3. Tame(f)
  BY <1>2 DEF Tame, IngestionTypeOK, HasRow, Exists
<1>4. \A g \in Files \ {f} : Tame(g)
  BY DEF Tame, IngestionTypeOK, Exists
<1> QED
  BY <1>1, <1>3, <1>4, TameKeepsClaims DEF IngestionTypeOK

LEMMA CompletedType ==
  ASSUME IngestionTypeOK, NEW f \in Files
  PROVE /\ Completed(f) \in Row /\ Completed(f).status = "completed" /\ Completed(f).results = TRUE
        /\ Completed(f).attempts = file[f].attempts
BY RowType DEF Completed, Row

LEMMA CompletionStep ==
  ASSUME IngestionTypeOK, ClaimInv, NEW w \in Workers, NEW f \in Files,
         CompleteWithResults(w, f) \/ CompleteFromTwin(w, f) \/ Analyse(w, f)
  PROVE IngestionTypeOK' /\ ClaimInv'
BY CompletedType, EndOfWork DEF CompleteWithResults, CompleteFromTwin, Analyse

LEMMA FailStep ==
  ASSUME IngestionTypeOK, ClaimInv, NEW w \in Workers, NEW f \in Files,
         NEW retryable \in BOOLEAN, Fail(w, f, retryable)
  PROVE IngestionTypeOK' /\ ClaimInv'
<1>1. PICK row : row = IF retryable /\ Retried(w)
                       THEN [file[f] EXCEPT !.status = "queued", !.due = FALSE]
                       ELSE [file[f] EXCEPT !.status = "failed"]
  OBVIOUS
<1>2. file' = [file EXCEPT ![f] = row]
  BY <1>1 DEF Fail
<1>3. row \in Row /\ row.status \in {"queued", "failed"} /\ row.attempts = file[f].attempts
  BY <1>1, RowType DEF Row
<1> QED
  BY <1>2, <1>3, EndOfWork DEF Fail

LEMMA ClaimStep ==
  ASSUME IngestionTypeOK, ClaimInv, NEW w \in Workers, NEW f \in Files, claim_next_file(w, f)
  PROVE IngestionTypeOK' /\ ClaimInv'
<1>1. /\ Claimed(file[f]) \in Row
      /\ Claimed(file[f]).attempts = file[f].attempts + 1
      /\ Claimed(file[f]).status = "processing"
  <2>1. file[f].attempts + 1 \in Attempts
    BY RowType, AttemptsAssumption DEF claim_next_file, Claimable, Attempts
  <2> QED
    BY <2>1, RowType DEF Claimed, Row
<1>2. file' = [file EXCEPT ![f] = Claimed(file[f])] /\ file[f].status = "queued"
  BY DEF claim_next_file, Claimable
<1>3. /\ worker'[w].file = f
      /\ worker'[w].attempts = file[f].attempts + 1
      /\ \A v \in Workers \ {w} : worker'[v] = worker[v]
  BY <1>1 DEF claim_next_file, IngestionTypeOK
<1>4. IngestionTypeOK'
  <2>1. [file |-> f, attempts |-> Claimed(file[f]).attempts, results |-> file[f].results] \in Worker
    BY <1>1, RowType DEF Worker, Row, Attempts
  <2> QED
    BY <1>1, <1>2, <2>1 DEF IngestionTypeOK, claim_next_file
<1>5. /\ file'[f].attempts = file[f].attempts + 1 /\ file'[f].status = "processing"
      /\ \A g \in Files \ {f} : file'[g] = file[g]
  BY <1>1, <1>2 DEF IngestionTypeOK
<1>6. FreeHoldsNothing'
  BY <1>3, FilesAssumption DEF FreeHoldsNothing, ClaimInv
<1>7. UnusedAreUnclaimed'
  BY <1>3, <1>5 DEF UnusedAreUnclaimed, ClaimInv
<1>8. \A v \in Workers \ {w} : Working(v, f) => Claim(v) \in 1..file[f].attempts
  BY <1>2, HolderIsBusy DEF ClaimInv, ClaimsAreCounted, Working, Claim, Exists
<1>9. ClaimsAreCounted'
  <2>1. \A g \in Files : file'[g].status = "processing" => file'[g].attempts > 0
    BY <1>5, RowType DEF ClaimInv, ClaimsAreCounted
  <2>2. worker'[w].attempts \in 1..file'[f].attempts
    BY <1>3, <1>5, RowType
  <2>3. ASSUME NEW v \in Workers \ {w}, worker'[v] # Free, Exists(worker[v].file)'
        PROVE worker'[v].attempts \in 1..file'[worker'[v].file].attempts
    <3>1. worker[v].file \in Files /\ worker'[v] = worker[v]
      BY <1>3, <2>3, WorkerType DEF ClaimInv, FreeHoldsNothing
    <3>2. CASE worker[v].file = f
      BY <1>5, <1>8, <3>1, <3>2, RowType DEF Working, Claim
    <3>3. CASE worker[v].file # f
      BY <1>5, <2>3, <3>1, <3>3 DEF ClaimInv, ClaimsAreCounted, Exists
    <3> QED
      BY <3>2, <3>3
  <2> QED
    BY <1>3, <2>1, <2>2, <2>3 DEF ClaimsAreCounted, Exists
<1>10. ClaimsDiffer'
  <2> SUFFICES ASSUME NEW g \in Files, Exists(g)', NEW u \in Workers, NEW v \in Workers,
                      worker'[u].file = g, worker'[v].file = g,
                      worker'[u].attempts = worker'[v].attempts
               PROVE u = v
    BY DEF ClaimsDiffer, Working, Claim
  <2>1. CASE u # w /\ v # w
    <3>1. Exists(g)
      BY <1>2, <1>5 DEF Exists
    <3> QED
      BY <1>3, <2>1, <3>1 DEF ClaimInv, ClaimsDiffer, Working, Claim
  <2>2. CASE u = w /\ v # w
    BY <1>3, <1>8, <2>2, RowType DEF Working, Claim
  <2>3. CASE v = w /\ u # w
    BY <1>3, <1>8, <2>3, RowType DEF Working, Claim
  <2> QED
    BY <2>1, <2>2, <2>3
<1>11. FirstClaimEnded'
  BY <1>3, <1>5 DEF FirstClaimEnded, ClaimInv, Working
<1> QED
  BY <1>4, <1>6, <1>7, <1>9, <1>10, <1>11 DEF ClaimInv

LEMMA UploadStep ==
  ASSUME IngestionTypeOK, ClaimInv, NEW f \in Files, NEW ai \in BOOLEAN, upload_file(f, ai)
  PROVE IngestionTypeOK' /\ ClaimInv'
<1>1. PICK row : row = [file[f] EXCEPT !.status = IF ai THEN "queued" ELSE "completed", !.due = ai]
  OBVIOUS
<1>2. row \in Row /\ row.attempts = 0 /\ row.status \in {"queued", "completed"}
  BY <1>1, RowType DEF upload_file, ClaimInv, UnusedAreUnclaimed, Row
<1>3. /\ file' \in [Files -> Row] /\ file'[f] = row
      /\ \A g \in Files \ {f} : file'[g] \in {file[g], DeletedFile}
  BY <1>1, <1>2, InitialRowTypes DEF upload_file, IngestionTypeOK
<1>4. worker' = worker /\ \A w \in Workers : worker[w].file # f
  BY DEF upload_file, ClaimInv, UnusedAreUnclaimed
<1>5. \A g \in Files \ {f} : Exists(g)' => file'[g] = file[g] /\ Exists(g)
  BY <1>3 DEF Exists, DeletedFile, AbsentFile
<1>6. UnusedAreUnclaimed'
  BY <1>2, <1>3, <1>4 DEF UnusedAreUnclaimed, ClaimInv, DeletedFile, AbsentFile
<1>7. ClaimsAreCounted'
  <2>1. \A g \in Files : file'[g].status = "processing" => file'[g].attempts > 0
    BY <1>2, <1>3, <1>5 DEF ClaimInv, ClaimsAreCounted, Exists
  <2>2. ASSUME NEW w \in Workers, worker[w] # Free, Exists(worker[w].file)'
        PROVE worker'[w].attempts \in 1..file'[worker'[w].file].attempts
    <3>1. worker[w].file \in Files \ {f}
      BY <1>4, <2>2, WorkerType DEF ClaimInv, FreeHoldsNothing
    <3>2. Exists(worker[w].file)' <=> file'[worker[w].file].status \notin {"absent", "deleted"}
      BY <1>4 DEF Exists
    <3> QED
      BY <1>4, <1>5, <2>2, <3>1, <3>2 DEF ClaimInv, ClaimsAreCounted, Exists
  <2> QED
    BY <1>4, <2>1, <2>2 DEF ClaimsAreCounted, Exists
<1>8. FreeHoldsNothing' /\ ClaimsDiffer' /\ FirstClaimEnded'
  BY <1>3, <1>4, <1>5
  DEF ClaimInv, FreeHoldsNothing, ClaimsDiffer, FirstClaimEnded, Working, Claim, Exists
<1> QED
  BY <1>3, <1>4, <1>6, <1>7, <1>8 DEF IngestionTypeOK, ClaimInv

\* Only rows change, and tamely: a deletion, the reaper, the clock.
LEMMA RowsOnly ==
  ASSUME IngestionTypeOK, ClaimInv, UNCHANGED worker, file' \in [Files -> Row],
         \A f \in Files : Tame(f)
  PROVE IngestionTypeOK' /\ ClaimInv'
BY TameKeepsClaims DEF NoneTaken, IngestionTypeOK

LEMMA DeleteStep ==
  ASSUME IngestionTypeOK, ClaimInv, NEW f \in Files, delete_file(f)
  PROVE IngestionTypeOK' /\ ClaimInv'
<1>1. file' \in [Files -> Row] /\ \A g \in Files : Tame(g)
  BY InitialRowTypes DEF delete_file, IngestionTypeOK, Tame, Exists, DeletedFile, AbsentFile
<1> QED
  BY <1>1, RowsOnly DEF delete_file

LEMMA ElapseStep ==
  ASSUME IngestionTypeOK, ClaimInv, NEW f \in Files, Elapse(f)
  PROVE IngestionTypeOK' /\ ClaimInv'
<1>1. PICK row : row = [file[f] EXCEPT !.due = TRUE]
  OBVIOUS
<1>2. /\ row \in Row /\ row.status = file[f].status /\ row.attempts = file[f].attempts
      /\ file' = [file EXCEPT ![f] = row]
  BY <1>1, RowType DEF Elapse, Row
<1>3. file' \in [Files -> Row] /\ \A g \in Files : Tame(g)
  BY <1>2 DEF Elapse, IngestionTypeOK, Tame, Exists
<1> QED
  BY <1>3, RowsOnly DEF Elapse

LEMMA ReapedRow ==
  ASSUME IngestionTypeOK, NEW f \in Files
  PROVE /\ Reaped(file[f]) \in Row
        /\ Reaped(file[f]).attempts = file[f].attempts
        /\ \/ Reaped(file[f]) = file[f]
           \/ /\ Reaped(file[f]).status \in {"queued", "failed"}
              /\ file[f].status \in {"processing", "queued"}
BY RowType DEF Reaped, Expired, Row

LEMMA ReapStep ==
  ASSUME IngestionTypeOK, ClaimInv, NEW w \in Workers, Reap(w)
  PROVE IngestionTypeOK' /\ ClaimInv'
<1>1. file' = [f \in Files |-> Reaped(file[f])] /\ worker' = worker
  BY DEF Reap
<1>2. file' \in [Files -> Row] /\ \A g \in Files : Tame(g)
  BY <1>1, ReapedRow DEF Tame, Exists
<1> QED
  BY <1>1, <1>2, RowsOnly

LEMMA StopStep ==
  ASSUME IngestionTypeOK, ClaimInv, NEW w \in Workers, Done(w), UNCHANGED file
  PROVE IngestionTypeOK' /\ ClaimInv'
<1>1. \A f \in Files : Tame(f)
  BY DEF Tame, Exists
<1> QED
  BY <1>1, DoneTakesNone, TameKeepsClaims DEF IngestionTypeOK

LEMMA InductiveStep ==
  ASSUME IngestionTypeOK, ClaimInv, [IngestionNext]_ingestionVars
  PROVE IngestionTypeOK' /\ ClaimInv'
<1>1. CASE \E f \in Files : delete_file(f) \/ Elapse(f) \/ \E ai \in BOOLEAN : upload_file(f, ai)
  BY <1>1, DeleteStep, ElapseStep, UploadStep
<1>2. CASE \E w \in Workers : Stop(w) \/ Reap(w)
  BY <1>2, StopStep, ReapStep DEF Stop
<1>3. CASE \E w \in Workers, f \in Files : Outputs(w, f)
  BY <1>3, CompletionStep DEF Outputs
<1>4. CASE \E w \in Workers, f \in Files : Quiet(w, f)
  BY <1>4, ClaimStep, CompletionStep, FailStep, StopStep DEF Quiet, Gone
<1>5. CASE UNCHANGED ingestionVars
  BY <1>5
  DEF ingestionVars, IngestionTypeOK, ClaimInv, FreeHoldsNothing, UnusedAreUnclaimed,
      ClaimsAreCounted, ClaimsDiffer, FirstClaimEnded, Working, Claim, Exists
<1> QED
  BY <1>1, <1>2, <1>3, <1>4, <1>5 DEF IngestionNext

-----------------------------------------------------------------------------
LEMMA ResultsStep ==
  ASSUME IngestionTypeOK, ClaimInv, CompletedHasResults, [IngestionNext]_ingestionVars
  PROVE CompletedHasResults'
<1> SUFFICES ASSUME NEW f \in Files, file'[f].status = "completed", file'[f].attempts > 0
             PROVE file'[f].results
  BY DEF CompletedHasResults
<1>1. CASE file'[f] = file[f]
  BY <1>1 DEF CompletedHasResults
<1>2. CASE \E g \in Files : delete_file(g)
  BY <1>1, <1>2 DEF delete_file, IngestionTypeOK, DeletedFile, AbsentFile
<1>3. CASE \E g \in Files : Elapse(g)
  BY <1>1, <1>3, RowType DEF Elapse, IngestionTypeOK, Row
<1>4. CASE \E g \in Files, ai \in BOOLEAN : upload_file(g, ai)
  BY <1>1, <1>4, RowType
  DEF upload_file, IngestionTypeOK, DeletedFile, AbsentFile, ClaimInv, UnusedAreUnclaimed, Row
<1>5. CASE \E w \in Workers : Reap(w)
  BY <1>1, <1>5, ReapedRow DEF Reap
<1>6. CASE \E w \in Workers, g \in Files :
             CompleteWithResults(w, g) \/ CompleteFromTwin(w, g) \/ Analyse(w, g)
  BY <1>1, <1>6, CompletedType DEF CompleteWithResults, CompleteFromTwin, Analyse, IngestionTypeOK
<1>7. CASE \E w \in Workers, g \in Files : claim_next_file(w, g)
  BY <1>1, <1>7, RowType DEF claim_next_file, Claimed, IngestionTypeOK, Row
<1>8. CASE \E w \in Workers, g \in Files, retryable \in BOOLEAN : Fail(w, g, retryable)
  BY <1>1, <1>8, RowType DEF Fail, IngestionTypeOK, Row
<1>9. CASE UNCHANGED file
  BY <1>1, <1>9
<1> QED
  BY <1>2, <1>3, <1>4, <1>5, <1>6, <1>7, <1>8, <1>9
  DEF IngestionNext, Outputs, Quiet, Stop, Gone, ingestionVars

LEMMA UndoneStep ==
  ASSUME IngestionTypeOK, ClaimInv, [IngestionNext]_ingestionVars,
         NEW f \in Files, file[f].status = "completed", file'[f].status # "completed"
  PROVE file'[f].status = "deleted" \/ file[f].attempts > 1
<1>1. CASE \E g \in Files : delete_file(g)
  BY <1>1 DEF delete_file, IngestionTypeOK, DeletedFile, AbsentFile
<1>2. CASE \E g \in Files : Elapse(g)
  BY <1>2 DEF Elapse, IngestionTypeOK
<1>3. CASE \E g \in Files, ai \in BOOLEAN : upload_file(g, ai)
  BY <1>3 DEF upload_file, IngestionTypeOK, DeletedFile, AbsentFile
<1>4. CASE \E w \in Workers : Reap(w)
  BY <1>4, ReapedRow DEF Reap
<1>5. CASE \E w \in Workers, g \in Files :
             CompleteWithResults(w, g) \/ CompleteFromTwin(w, g) \/ Analyse(w, g)
  BY <1>5, CompletedType DEF CompleteWithResults, CompleteFromTwin, Analyse, IngestionTypeOK
<1>6. CASE \E w \in Workers, g \in Files : claim_next_file(w, g)
  BY <1>6 DEF claim_next_file, Claimable, IngestionTypeOK
<1>7. CASE \E w \in Workers, g \in Files, retryable \in BOOLEAN : Fail(w, g, retryable)
  <2>1. PICK w \in Workers : Working(w, f)
    BY <1>7 DEF Fail, HasRow, IngestionTypeOK
  <2>2. ~(file[f].attempts <= 1)
    BY <2>1 DEF ClaimInv, FirstClaimEnded
  <2> QED
    BY <2>2, RowType
<1>8. CASE UNCHANGED file
  BY <1>8
<1> QED
  BY <1>1, <1>2, <1>3, <1>4, <1>5, <1>6, <1>7, <1>8
  DEF IngestionNext, Outputs, Quiet, Stop, Gone, ingestionVars

-----------------------------------------------------------------------------
LEMMA ClaimInvariant == IngestionSpec => [](IngestionTypeOK /\ ClaimInv)
<1>1. IngestionInit => IngestionTypeOK /\ ClaimInv
  BY InitType
<1>2. IngestionTypeOK /\ ClaimInv /\ [IngestionNext]_ingestionVars => (IngestionTypeOK /\ ClaimInv)'
  BY InductiveStep
<1> QED
  BY <1>1, <1>2, PTL DEF IngestionSpec

\* Rows and claims keep their shape; no file is claimed more often than the limit.
THEOREM IngestionTypeCorrect == IngestionSpec => []IngestionTypeOK
BY ClaimInvariant, PTL

\* claim_next_file counts every claim before the work on the file begins: whatever
\* leases expire and however many workers are late, no claim is forgotten.
THEOREM AttemptsAreCounted == IngestionSpec => []ClaimsAreCounted
<1>1. ClaimInv => ClaimsAreCounted
  BY DEF ClaimInv
<1> QED
  BY <1>1, ClaimInvariant, PTL

\* process_file completes a claimed file only with results.
THEOREM NoEmptyCompletion == IngestionSpec => []CompletedHasResults
<1>1. IngestionInit => CompletedHasResults
  BY InitType
<1>2. /\ IngestionTypeOK /\ ClaimInv /\ CompletedHasResults
      /\ [IngestionNext]_ingestionVars
      => CompletedHasResults'
  BY ResultsStep
<1> QED
  BY <1>1, <1>2, ClaimInvariant, PTL DEF IngestionSpec

\* A late worker undoes a completed file only if the file was claimed again: nobody
\* holds a file whose only claim has ended.
THEOREM FirstOutcomeStays == IngestionSpec => UndoneOnlyAfterRetry
<1>1. IngestionTypeOK /\ ClaimInv /\ [IngestionNext]_ingestionVars =>
        [\A f \in Files : file[f].status = "completed" /\ file'[f].status # "completed" =>
           file'[f].status = "deleted" \/ file[f].attempts > 1]_ingestionVars
  BY UndoneStep
<1> QED
  BY <1>1, ClaimInvariant, PTL DEF IngestionSpec, UndoneOnlyAfterRetry

-----------------------------------------------------------------------------
(* The two components on one database *)

\* Nothing in the panel comes from f.
Clear(f) ==
  /\ \A s \in Suggestions : suggestion[s].source # f
  /\ \A n \in Notes : note[n].source # f

LEMMA StatusKeepsSource ==
  ASSUME TypeOK, NEW s \in Suggestions, NEW status
  PROVE [suggestion[s] EXCEPT !.status = status].source = suggestion[s].source
BY RowTypes DEF Suggestion

LEMMA UnlinkSource ==
  ASSUME NEW row \in Note, NEW deleted PROVE Unlink(row, deleted).source = row.source
BY DEF Unlink, Note

\* Requests take sources only from the notes there are.
LEMMA DecideClear ==
  ASSUME TypeOK, NEW f \in Files, Clear(f), NEW c \in Clients, Decide(c) PROVE Clear(f)'
<1>1. CASE Commit(c)
  <2>1. note' = note /\ \A s \in Suggestions : suggestion'[s].source = suggestion[s].source
    BY <1>1, StatusKeepsSource DEF Commit
  <2> QED
    BY <2>1 DEF Clear
<1>2. CASE UNCHANGED <<suggestion, note>>
  BY <1>2 DEF Clear
<1> QED
  BY <1>1, <1>2
  DEF Decide, Select, SelectRefused, Mark, MarkRefused, Index, IndexRefused, WriteField,
      FieldMissing, RejectSiblings, RejectItem, RejectRefused, Victim, Rollback, Refuse, Go

LEMMA PersistClear ==
  ASSUME TypeOK, NEW f \in Files, Clear(f), NEW c \in Clients, PersistAny(c) PROVE Clear(f)'
<1>0. PICK new \in SUBSET Suggestions, texts \in SUBSET Notes :
        \E found \in [new -> Fields], low \in BOOLEAN : Persist(c, new, found, texts, low)
  BY DEF PersistAny, Singletons
<1>1. PICK found \in [new -> Fields], low \in BOOLEAN : Persist(c, new, found, texts, low)
  BY <1>0
<1>2. f # "notes" /\ f # "none"
  BY FilesAssumption
<1>3. \A s \in Suggestions : suggestion'[s].source # f
  BY <1>1, <1>2 DEF Persist, AbsentSuggestion, Clear
<1>4. \A n \in Notes : note'[n].source # f
  BY <1>1, <1>2, RowTypes, UnlinkSource DEF Persist, AbsentNote, Clear
<1> QED
  BY <1>3, <1>4 DEF Clear

LEMMA PanelClear ==
  ASSUME TypeOK, NEW f \in Files, Clear(f), Panel PROVE Clear(f)'
<1>1. CASE save_notes
  BY <1>1 DEF save_notes, Clear
<1>2. ASSUME NEW n \in Notes, NEW s \in Suggestions, NEW q \in Fields, map_unmapped_note(n, s, q)
      PROVE Clear(f)'
  <2>1. PICK row : row = [note[n] EXCEPT !.status = "mapped", !.suggestion = s]
    OBVIOUS
  <2>2. row.source = note[n].source /\ note' = [note EXCEPT ![n] = row]
    BY <1>2, <2>1, RowTypes DEF map_unmapped_note, Note, TypeOK
  <2>3. \A m \in Notes : note'[m].source # f
    BY <2>2 DEF Clear, TypeOK
  <2>4. \A r \in Suggestions : suggestion'[r].source # f
    BY <1>2, FilesAssumption DEF map_unmapped_note, Clear, TypeOK
  <2> QED
    BY <2>3, <2>4 DEF Clear
<1>3. ASSUME NEW dismissed, Dismiss(dismissed) PROVE Clear(f)'
  <2>1. \A n \in Notes : [note[n] EXCEPT !.status = "dismissed"].source = note[n].source
    BY RowTypes DEF Note
  <2> QED
    BY <1>3, <2>1 DEF Dismiss, Clear
<1> QED
  BY <1>1, <1>2, <1>3
  DEF Panel, dismiss_unmapped_note, dismiss_all_unmapped, dismiss_unmapped_by_confidence,
      dismiss_unmapped_by_file

LEMMA ServiceClear ==
  ASSUME TypeOK, NEW f \in Files, Clear(f), ServiceNext PROVE Clear(f)'
<1>1. CASE \E c \in Clients : Advance(c)
  <2>1. CASE UNCHANGED <<suggestion, note>>
    BY <2>1 DEF Clear
  <2> QED
    BY <1>1, <2>1, DecideClear, PersistClear
    DEF Advance, SaveAny, PatchSections, PatchCustom, Replace, Save, Analysed, NotAnalysed,
        Rollback, Go
<1>2. CASE \E c \in Clients : Request(c)
  BY <1>2 DEF Request, BeginDecide, BeginSave, BeginAnalysis, Start, rows, Crash, Rollback, Go, Clear
<1> QED
  BY <1>1, <1>2, PanelClear DEF ServiceNext

LEMMA OutputsClear ==
  ASSUME TypeOK, NEW f \in Files, Clear(f), NEW g \in Files \ {f}, NEW texts, FileOutputs(g, texts)
  PROVE Clear(f)'
<1>1. \A s \in Suggestions : suggestion'[s].source # f
  BY FilesAssumption DEF FileOutputs, Delete, AbsentSuggestion, Clear
<1>2. \A n \in Notes : note'[n].source # f
  BY FilesAssumption, RowTypes, UnlinkSource DEF FileOutputs, AbsentNote, Clear
<1> QED
  BY <1>1, <1>2 DEF Clear

LEMMA DeletionClear ==
  ASSUME TypeOK, NEW f \in Files, NEW files, Clear(f) \/ f \in files, FilesDeleted(files)
  PROVE Clear(f)'
<1>0. PICK gone : gone = {s \in Suggestions : suggestion[s].source \in files}
  OBVIOUS
<1>1. \A s \in Suggestions : suggestion'[s].source # f
  BY FilesAssumption DEF FilesDeleted, Delete, AbsentSuggestion, Clear
<1>2. \A n \in Notes : /\ [Unlink(note[n], gone) EXCEPT !.source = "none"].source = "none"
                       /\ Unlink(note[n], gone).source = note[n].source
  BY RowTypes, UnlinkType, UnlinkSource DEF Note
<1>3. \A n \in Notes : note'[n] = IF note[n].source \in files
                                  THEN [Unlink(note[n], gone) EXCEPT !.source = "none"]
                                  ELSE Unlink(note[n], gone)
  BY <1>0 DEF FilesDeleted
<1>4. \A n \in Notes : note'[n].source # f
  BY <1>2, <1>3, FilesAssumption DEF Clear
<1> QED
  BY <1>1, <1>4 DEF Clear

\* The steps of the queue that leave the panel alone neither create nor remove a file.
SameFiles == \A f \in Files : Exists(f)' <=> Exists(f)

LEMMA QuietKeepsFiles ==
  ASSUME IngestionTypeOK, NEW w \in Workers, NEW f \in Files, Quiet(w, f) \/ Outputs(w, f)
  PROVE SameFiles
<1>1. CASE Gone(w, f)
  BY <1>1 DEF Gone, SameFiles, Exists
<1>2. CASE claim_next_file(w, f)
  <2>1. file[f].status = "queued" /\ Claimed(file[f]).status = "processing"
    BY <1>2, RowType DEF claim_next_file, Claimable, Claimed, Row
  <2> QED
    BY <1>2, <2>1 DEF claim_next_file, SameFiles, Exists, IngestionTypeOK
<1>3. CASE CompleteWithResults(w, f) \/ CompleteFromTwin(w, f) \/ Analyse(w, f)
  BY <1>3, CompletedType
  DEF CompleteWithResults, CompleteFromTwin, Analyse, HasRow, SameFiles, Exists, IngestionTypeOK
<1>4. ASSUME NEW retryable \in BOOLEAN, Fail(w, f, retryable) PROVE SameFiles
  <2>1. PICK row : row = IF retryable /\ Retried(w)
                         THEN [file[f] EXCEPT !.status = "queued", !.due = FALSE]
                         ELSE [file[f] EXCEPT !.status = "failed"]
    OBVIOUS
  <2>2. row.status \in {"queued", "failed"} /\ file' = [file EXCEPT ![f] = row]
    BY <1>4, <2>1, RowType DEF Fail, Row
  <2> QED
    BY <1>4, <2>2 DEF Fail, HasRow, SameFiles, Exists, IngestionTypeOK
<1> QED
  BY <1>1, <1>2, <1>3, <1>4 DEF Quiet, Outputs

LEMMA PollingKeepsFiles ==
  ASSUME IngestionTypeOK, Polling PROVE SameFiles
<1>1. ASSUME NEW f \in Files, Elapse(f) PROVE SameFiles
  <2>1. [file[f] EXCEPT !.due = TRUE].status = file[f].status
    BY RowType DEF Row
  <2> QED
    BY <1>1, <2>1 DEF Elapse, SameFiles, Exists, IngestionTypeOK
<1>2. ASSUME NEW w \in Workers, Reap(w) PROVE SameFiles
  BY <1>2, ReapedRow DEF Reap, SameFiles, Exists
<1>3. ASSUME NEW w \in Workers, Stop(w) PROVE SameFiles
  BY <1>3 DEF Stop, SameFiles, Exists
<1> QED
  BY <1>1, <1>2, <1>3 DEF Polling

LEMMA FollowsStep ==
  ASSUME PipelineTypeOK, PanelFollowsFiles, [PipelineNext]_pipelineVars PROVE PanelFollowsFiles'
<1> SUFFICES ASSUME NEW f \in Files, ~Exists(f)' PROVE Clear(f)'
  BY DEF PanelFollowsFiles, Clear
<1>0. TypeOK /\ IngestionTypeOK /\ (~Exists(f) => Clear(f))
  BY DEF PipelineTypeOK, PanelFollowsFiles, Clear
<1>1. CASE ServiceNext /\ UNCHANGED ingestionVars
  <2>1. Clear(f)
    BY <1>0, <1>1 DEF ingestionVars, Exists
  <2> QED
    BY <1>0, <1>1, <2>1, ServiceClear
<1>2. CASE Polling
  <2>1. Clear(f)
    BY <1>0, <1>2, PollingKeepsFiles DEF SameFiles
  <2> QED
    BY <1>2, <2>1 DEF Polling, vars, Clear
<1>3. ASSUME NEW g \in Files, Remove(g) PROVE Clear(f)'
  <2>1. f = g \/ ~Exists(f)
    BY <1>0, <1>3 DEF Remove, delete_file, Exists, IngestionTypeOK
  <2> QED
    BY <1>0, <1>3, <2>1, DeletionClear DEF Remove
<1>4. ASSUME NEW g \in Files, Upload(g) PROVE Clear(f)'
  <2>1. PICK ai \in BOOLEAN : upload_file(g, ai) /\ FilesDeleted(ReplacedOffers(g))
    BY <1>4 DEF Upload
  <2>2. f # g
    <3>1. [file[g] EXCEPT !.status = IF ai THEN "queued" ELSE "completed", !.due = ai].status
            \in {"queued", "completed"}
      BY <1>0, RowType DEF Row
    <3> QED
      BY <2>1, <3>1 DEF upload_file, Exists
  <2>3. f \in ReplacedOffers(g) \/ ~Exists(f)
    BY <2>1, <2>2 DEF upload_file, Exists
  <2> QED
    BY <1>0, <2>1, <2>3, DeletionClear
<1>5. ASSUME NEW w \in Workers, NEW g \in Files, Finish(w, g) PROVE Clear(f)'
  <2>1. Outputs(w, g) /\ Exists(g) /\ \E texts : FileOutputs(g, texts)
    BY <1>5 DEF Finish, Outputs, CompleteFromTwin, Analyse, HasRow
  <2>2. Clear(f) /\ f # g
    BY <1>0, <2>1, QuietKeepsFiles DEF SameFiles
  <2> QED
    BY <1>0, <2>1, <2>2, OutputsClear
<1>6. ASSUME NEW w \in Workers, NEW g \in Files, Quiet(w, g), UNCHANGED vars PROVE Clear(f)'
  <2>1. Clear(f)
    BY <1>0, <1>6, QuietKeepsFiles DEF SameFiles
  <2> QED
    BY <1>6, <2>1 DEF vars, Clear
<1>7. CASE UNCHANGED pipelineVars
  BY <1>0, <1>7 DEF pipelineVars, ingestionVars, vars, Exists, Clear
<1> QED
  BY <1>1, <1>2, <1>3, <1>4, <1>5, <1>6, <1>7 DEF PipelineNext, Work

-----------------------------------------------------------------------------
(* Each component goes on as it would alone *)

LEMMA PanelSteps == [PipelineNext]_pipelineVars => [Next]_vars
<1> SUFFICES ASSUME [PipelineNext]_pipelineVars PROVE [Next]_vars
  OBVIOUS
<1>1. CASE ServiceNext
  BY <1>1 DEF Next
<1>2. ASSUME NEW files \in SUBSET Files, FilesDeleted(files) PROVE Next
  BY <1>2 DEF Next, FileNext
<1>3. ASSUME NEW f \in Files, NEW texts \in Singletons(Notes), FileOutputs(f, texts) PROVE Next
  BY <1>3 DEF Next, FileNext
<1>4. \A f \in Files : {f} \in SUBSET Files /\ ReplacedOffers(f) \in SUBSET Files
  BY DEF ReplacedOffers
<1>5. {} \in Singletons(Notes)
  BY DEF Singletons
<1>6. CASE UNCHANGED vars
  BY <1>6
<1> QED
  BY <1>1, <1>2, <1>3, <1>4, <1>5, <1>6
  DEF PipelineNext, Polling, Remove, Upload, Work, Finish, pipelineVars

LEMMA QueueSteps == [PipelineNext]_pipelineVars => [IngestionNext]_ingestionVars
BY DEF PipelineNext, Polling, Remove, Upload, Work, Finish, Outputs, IngestionNext, pipelineVars

\* On one database the panel and the document see only what the component alone allows,
\* whatever files are uploaded, replaced, analysed and deleted meanwhile.
THEOREM PipelineKeepsPanel == PipelineSpec => Spec
BY PanelSteps, PTL DEF PipelineSpec, PipelineInit, Spec

\* The queue of files does not notice the panel.
THEOREM PipelineKeepsQueue == PipelineSpec => IngestionSpec
BY QueueSteps, PTL DEF PipelineSpec, PipelineInit, IngestionSpec

THEOREM PipelineTypeCorrect == PipelineSpec => []PipelineTypeOK
<1>1. TypeOK /\ IngestionTypeOK => PipelineTypeOK
  BY DEF PipelineTypeOK
<1> QED
  BY <1>1, PipelineKeepsPanel, PipelineKeepsQueue, TypeCorrect, IngestionTypeCorrect, PTL

\* Nothing in the panel comes from a file that does not exist: delete_file, the replaced
\* offer and process_file change the rows of the file and of the panel in one transaction,
\* and no request copies a source but from a row that is there.
THEOREM PanelFollows == PipelineSpec => []PanelFollowsFiles
<1>1. PipelineInit => PanelFollowsFiles
  <2>1. /\ AbsentSuggestion.source = "none" /\ AbsentNote.source = "none"
        /\ OpenNote.source = "notes" /\ DismissedNote.source = "notes"
    BY DEF AbsentSuggestion, AbsentNote, OpenNote, DismissedNote
  <2>2. \A f \in Files : f # "none" /\ f # "notes"
    BY FilesAssumption
  <2> QED
    BY <2>1, <2>2 DEF PipelineInit, Init, PanelFollowsFiles
<1>2. PipelineTypeOK /\ PanelFollowsFiles /\ [PipelineNext]_pipelineVars => PanelFollowsFiles'
  BY FollowsStep
<1> QED
  BY <1>1, <1>2, PipelineTypeCorrect, PTL DEF PipelineSpec

\* The properties of the two components hold of the whole.
THEOREM PipelineIsSafe ==
  PipelineSpec =>
    /\ []OneAppliedPerField /\ DecisionsKept /\ ReportedIsDone
    /\ []ClaimsAreCounted /\ []CompletedHasResults /\ UndoneOnlyAfterRetry
BY PipelineKeepsPanel, PipelineKeepsQueue, OneApplied, DecisionsStay, ReportsHold,
   AttemptsAreCounted, NoEmptyCompletion, FirstOutcomeStays, PTL
=============================================================================
