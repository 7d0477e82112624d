--------------------------- MODULE ArchiveCascade ---------------------------
(***************************************************************************)
(* Archive, restore and purge of companies, their locations and the        *)
(* projects (streams) of those: the handlers of api/v1/companies.py and    *)
(* api/v1/projects.py over three tables.  Archiving a parent archives what *)
(* is active below it and marks each row with the parent that did it;      *)
(* restoring the parent revives the rows that bear its mark.               *)
(*                                                                         *)
(* A request loads its row in a dependency, without a lock, and the        *)
(* handler locks it later in the same database session.  SQLAlchemy        *)
(* returns the object it already holds, so what the handler decides on, and*)
(* whether an assignment is a change worth writing, comes from the copy in *)
(* request[c].seen.  The bulk updates of the rows below run in SQL, on the *)
(* committed values.  All locks are taken from the top down and kept until *)
(* the commit, so a handler is one action.                                 *)
(*                                                                         *)
(* The offer row that archiving or restoring a project by name also writes *)
(* is in OfferFollowUp, with every other handler that writes it: nothing   *)
(* here reads it, and PATCH /offers/{id}/status takes archived_at off the  *)
(* offer of an archived project.                                           *)
(***************************************************************************)
EXTENDS Naturals

CONSTANTS
  Companies, Locations, Projects,
  CompanyOf,    \* [Locations -> Companies]: locations.company_id
  LocationOf,   \* [Projects -> Locations]: projects.location_id
  Clients,      \* requests that can be in flight at the same time
  Nobody

Entities == Companies \union Locations \union Projects

ASSUME HierarchyAssumption ==
  /\ CompanyOf \in [Locations -> Companies]
  /\ LocationOf \in [Projects -> Locations]
  /\ Companies \intersect Locations = {}
  /\ Companies \intersect Projects = {}
  /\ Locations \intersect Projects = {}
  /\ Nobody \notin Entities

VARIABLES
  row,       \* row[e]: archived_at and archived_by_parent_id of the entity
  request,   \* request[c]: the call in flight and the copy of the row it holds
  wish       \* wish[e]: what a user last asked of e itself and was told is done

vars == <<row, request, wish>>

-----------------------------------------------------------------------------
Row == [state: {"absent", "active", "archived"}, by: Companies \union Locations \union {Nobody}]
Absent == [state |-> "absent", by |-> Nobody]
Active == [state |-> "active", by |-> Nobody]

Wishes == {"none", "archived", "restored"}
Operations == {"create", "archive", "restore", "purge"}
NoRequest == [op |-> "none", of |-> Nobody, seen |-> Absent]
Request == {NoRequest} \union [op: Operations, of: Entities, seen: Row]

\* Companies exist at the start.
Init ==
  /\ row = [e \in Entities |-> IF e \in Companies THEN Active ELSE Absent]
  /\ request = [c \in Clients |-> NoRequest]
  /\ wish = [e \in Entities |-> "none"]

-----------------------------------------------------------------------------
(* The hierarchy *)

Parent(e) == IF e \in Locations THEN CompanyOf[e] ELSE LocationOf[e]

\* A row can only be marked by its own parent.
TypeOK ==
  /\ row \in [Entities -> Row]
  /\ \A e \in Entities :
       row[e].by # Nobody => e \notin Companies /\ row[e].by = Parent(e)
  /\ request \in [Clients -> Request]
  /\ wish \in [Entities -> Wishes]

Below(e) ==
  {l \in Locations : CompanyOf[l] = e} \union
  {p \in Projects : LocationOf[p] = e \/ CompanyOf[LocationOf[p]] = e}

\* Broken variant: the condition archived_at IS NULL is forgotten.
ArchivedBelowAll(rows, e) ==
  [x \in Entities |->
     IF x \in Below(e) /\ rows[x].state # "absent"
     THEN [state |-> "archived", by |-> Parent(x)]
     ELSE rows[x]]

\* What the bulk UPDATEs of an archive make of the rows below e: the active ones
\* are archived and marked with their own parent, whoever was asked.
ArchivedBelow(rows, e) ==
  [x \in Entities |->
     IF x \in Below(e) /\ rows[x].state = "active"
     THEN [state |-> "archived", by |-> Parent(x)]
     ELSE rows[x]]

Marked(rows, e) == {x \in Below(e) : rows[x].by = e}

\* The rows a restore of e revives: those that bear its mark, and for a company
\* the projects that bear the mark of one of the locations it revives.
Revived(rows, e) == Marked(rows, e) \union UNION {Marked(rows, l) : l \in Marked(rows, e)}

RestoredBelow(rows, e) ==
  [x \in Entities |-> IF x \in Revived(rows, e) THEN Active ELSE rows[x]]

\* Broken variant: the mark is left alone.
MarkKept(seen, current) == current.by

\* archived_by_parent_id = None is written only if the copy held another value.
MarkWritten(seen, current) == IF seen.by = Nobody THEN current.by ELSE Nobody

-----------------------------------------------------------------------------
(* Requests *)

\* A new row has an id that no request in flight can know.
FreshId(e) ==
  /\ row[e].state = "absent"
  /\ \A c \in Clients : request[c].of \notin {e} \union Below(e)

CreateCompany(e) ==
  /\ e \in Companies
  /\ FreshId(e)
  /\ row' = [row EXCEPT ![e] = Active]
  /\ UNCHANGED <<request, wish>>

\* The dependencies of archive, restore and purge answer 404 for a missing row.
LoadEntity(c, op, e) ==
  /\ request[c] = NoRequest
  /\ op \in {"archive", "restore", "purge"}
  /\ row[e].state # "absent"
  /\ request' = [request EXCEPT ![c] = [op |-> op, of |-> e, seen |-> row[e]]]
  /\ UNCHANGED <<row, wish>>

\* Broken variant: the check is forgotten.
LoadAnyParent(c, e) ==
  /\ request[c] = NoRequest
  /\ e \notin Companies
  /\ FreshId(e)
  /\ row[Parent(e)].state # "absent"
  /\ request' = [request EXCEPT ![c] = [op |-> "create", of |-> e, seen |-> row[Parent(e)]]]
  /\ UNCHANGED <<row, wish>>

\* Creating checks that the parent is not archived (require_not_archived).
LoadParent(c, e) ==
  /\ request[c] = NoRequest
  /\ e \notin Companies
  /\ FreshId(e)
  /\ row[Parent(e)].state = "active"
  /\ request' = [request EXCEPT ![c] = [op |-> "create", of |-> e, seen |-> row[Parent(e)]]]
  /\ UNCHANGED <<row, wish>>

Serving(c, op, e) ==
  /\ request[c].op = op
  /\ request[c].of = e

Answer(c) == request' = [request EXCEPT ![c] = NoRequest]

\* The insert waits for a parent that is locked FOR UPDATE, not for its state; the
\* foreign key refuses a parent that is gone.
CreateChild(c, e) ==
  /\ Serving(c, "create", e)
  /\ row[Parent(e)].state # "absent"
  /\ row' = [row EXCEPT ![e] = Active]
  /\ wish' = [wish EXCEPT ![e] = "none"]
  /\ Answer(c)

Archive(c, e) ==
  LET cascade == [row EXCEPT ![e] = [state |-> "archived",
                                     by |-> MarkWritten(request[c].seen, row[e])]] IN
  /\ Serving(c, "archive", e)
  /\ row[e].state # "absent"
  /\ request[c].seen.state = "active"
  /\ row' = ArchivedBelow(cascade, e)
  /\ wish' = [x \in Entities |->
                IF x = e THEN "archived"
                ELSE IF row'[x] # row[x] THEN "none" ELSE wish[x]]
  /\ Answer(c)

Restore(c, e) ==
  LET cascade == [row EXCEPT ![e] = [state |-> "active",
                                     by |-> MarkWritten(request[c].seen, row[e])]] IN
  /\ Serving(c, "restore", e)
  /\ row[e].state # "absent"
  /\ request[c].seen.state = "archived"
  /\ row' = RestoredBelow(cascade, e)
  /\ wish' = [wish EXCEPT ![e] = "restored"]
  /\ Answer(c)

\* Broken variant: purging does not ask for an archived row.
PurgeAny(c, e) ==
  /\ Serving(c, "purge", e)
  /\ row[e].state # "absent"
  /\ row' = [x \in Entities |-> IF x = e \/ x \in Below(e) THEN Absent ELSE row[x]]
  /\ wish' = [x \in Entities |-> IF x = e \/ x \in Below(e) THEN "none" ELSE wish[x]]
  /\ Answer(c)

\* The foreign keys cascade: everything below goes too, active or not.
Purge(c, e) ==
  /\ Serving(c, "purge", e)
  /\ row[e].state # "absent"
  /\ request[c].seen.state = "archived"
  /\ row' = [x \in Entities |-> IF x = e \/ x \in Below(e) THEN Absent ELSE row[x]]
  /\ wish' = [x \in Entities |-> IF x = e \/ x \in Below(e) THEN "none" ELSE wish[x]]
  /\ Answer(c)

\* "already archived", "already active", 404 and 409 change nothing.
Decline(c) ==
  LET q == request[c] IN
  /\ q # NoRequest
  /\ \/ q.op # "create" /\ row[q.of].state = "absent"
     \/ q.op = "create" /\ row[Parent(q.of)].state = "absent"
     \/ q.op = "archive" /\ q.seen.state = "archived"
     \/ q.op \in {"restore", "purge"} /\ q.seen.state = "active"
  /\ Answer(c)
  /\ UNCHANGED <<row, wish>>

Handle(c, e) ==
  CreateChild(c, e) \/ Archive(c, e) \/ Restore(c, e) \/ Purge(c, e)

Next ==
  \/ \E e \in Entities : CreateCompany(e)
  \/ \E c \in Clients, e \in Entities :
       \/ \E op \in Operations : LoadEntity(c, op, e)
       \/ LoadParent(c, e)
       \/ Handle(c, e)
  \/ \E c \in Clients : Decline(c)

Spec == Init /\ [][Next]_vars

-----------------------------------------------------------------------------
(* Properties *)

\* Nothing bears the mark of a parent that is active or gone: a row put away with
\* its parent comes back with it, and is never left behind under a live parent.
MarkedParentArchived ==
  \A e \in Entities : row[e].by # Nobody => row[row[e].by].state = "archived"

\* What a user archived himself, and was told is archived, stays archived until a
\* user restores that very entity, whatever was archived and restored above it in
\* between: archiving takes off a mark that is left on the row, a later archive of
\* the parent puts none on, and so the parent's restore does not find it.
ArchivedByHandStays ==
  \A e \in Entities : wish[e] = "archived" => row[e].state = "archived"

\* Nothing active hides under an archived parent unless a user restored it by
\* name: archiving reaches everything below and creating there is refused.
ActiveUnderArchived ==
  \A e \in Entities \ Companies :
    row[e].state = "active" /\ row[Parent(e)].state = "archived" => wish[e] = "restored"

\* "must be archived before purge": what disappears was archived, itself or
\* through something above it.
PurgedWasArchived ==
  [][\A e \in Entities :
       row[e].state # "absent" /\ row'[e].state = "absent" =>
         \E x \in Entities : (x = e \/ e \in Below(x)) /\ row[x].state = "archived"]_vars

\* Restoring an entity right after archiving it brings back every row below as it
\* was.  Excepted is a company with a live project under an archived location:
\* the project is marked with that location, which the company does not restore.
ArchivedAndRestored(e) ==
  LET archived == ArchivedBelow([row EXCEPT ![e].state = "archived"], e)
  IN  RestoredBelow([archived EXCEPT ![e] = Active], e)

RestoreUndoesArchive ==
  \A e \in Entities :
    /\ row[e].state = "active"
    /\ \A p \in Projects \intersect Below(e) :
         row[p].state = "active" => row[LocationOf[p]].state = "active"
    => \A x \in Entities : ArchivedAndRestored(e)[x].state = row[x].state

=============================================================================
