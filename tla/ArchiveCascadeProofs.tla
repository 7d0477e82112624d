------------------------ MODULE ArchiveCascadeProofs ------------------------
(***************************************************************************)
(* What holds of the archive cascade for every hierarchy and, where        *)
(* SoleClient is not assumed, for any number of requests in flight.        *)
(***************************************************************************)
EXTENDS ArchiveCascade, TLAPS

Children == Locations \union Projects

\* What the foreign keys keep: no row without its parent's row.
ParentExists ==
  \A e \in Children : row[e].state # "absent" => row[Parent(e)].state # "absent"

AbsentUnmarked == \A e \in Entities : row[e].state = "absent" => row[e].by = Nobody

\* The id of a row about to be inserted is known to its request only.
NewIdsAreFresh ==
  \A c \in Clients : request[c].op = "create" =>
    /\ request[c].of \in Children
    /\ row[request[c].of].state = "absent"
    /\ \A d \in Clients \ {c} : request[d].of # request[c].of

MarkInv ==
  TypeOK /\ ParentExists /\ AbsentUnmarked /\ NewIdsAreFresh /\ MarkedParentArchived

\* One request at a time.
SoleClient == \A c, d \in Clients : c = d

SeenIsCurrent ==
  \A c \in Clients :
    LET q == request[c] IN
    /\ q.op = "create" => /\ q.of \in Children
                          /\ row[q.of].state = "absent"
                          /\ row[Parent(q.of)].state = "active"
    /\ q.op \in {"archive", "restore", "purge"} => q.seen = row[q.of]

ByHandUnmarked ==
  \A e \in Entities : wish[e] = "archived" =>
    row[e].state = "archived" /\ row[e].by = Nobody

AloneInv == MarkInv /\ SeenIsCurrent /\ ByHandUnmarked /\ ActiveUnderArchived

-----------------------------------------------------------------------------
(* The hierarchy: what is below what. *)

LEMMA BelowFacts ==
  ASSUME NEW e \in Entities
  PROVE  /\ Below(e) \subseteq Children
         /\ Children \subseteq Entities
         /\ e \notin Below(e)
         /\ \A x \in Children : Parent(x) \in Companies \union Locations
         /\ \A x \in Children : Parent(x) = e => x \in Below(e)
         /\ \A x \in Children : Parent(x) \in Below(e) => x \in Below(e)
         /\ \A x \in Below(e) : Parent(x) = e \/ Parent(x) \in Below(e)
         /\ e \in Children => Parent(e) # e /\ Parent(e) \notin Below(e)
         /\ \A x \in Below(e) : Below(x) \subseteq Projects
         /\ Entities = Children \union Companies /\ Children \intersect Companies = {}
         /\ (Companies \union Locations) \intersect Projects = {}
  BY HierarchyAssumption DEF Below, Parent, Entities, Children

LEMMA ParentFacts ==
  ASSUME NEW x \in Children
  PROVE  x \in Entities /\ Parent(x) \in Entities /\ Parent(x) \in Companies \union Locations
  BY HierarchyAssumption DEF Parent, Entities, Children

LEMMA NobodyIsNoEntity == Nobody \notin Entities
  BY HierarchyAssumption

\* Row records.
LEMMA RowFacts ==
  /\ Absent \in Row /\ Absent.state = "absent" /\ Absent.by = Nobody
  /\ Active \in Row /\ Active.state = "active" /\ Active.by = Nobody
  /\ \A r \in Row : r.state \in {"absent", "active", "archived"}
  BY DEF Absent, Active, Row

-----------------------------------------------------------------------------
(* What each operation does to the rows, pointwise. *)

LEMMA ArchiveRows ==
  ASSUME TypeOK, NEW c \in Clients, NEW e \in Entities, Archive(c, e)
  PROVE  /\ row' \in [Entities -> Row]
         /\ row'[e].state = "archived"
         /\ row'[e].by = MarkWritten(request[c].seen, row[e])
         /\ \A x \in Entities \ {e} :
              /\ x \in Below(e) /\ row[x].state = "active" =>
                   row'[x] = [state |-> "archived", by |-> Parent(x)]
              /\ ~(x \in Below(e) /\ row[x].state = "active") => row'[x] = row[x]
  <1> DEFINE cascade == [row EXCEPT ![e] = [state |-> "archived",
                                            by |-> MarkWritten(request[c].seen, row[e])]]
  <1>1. row' = ArchivedBelow(cascade, e)
    BY DEF Archive
  <1>2. MarkWritten(request[c].seen, row[e]) \in Companies \union Locations \union {Nobody}
    BY DEF MarkWritten, TypeOK, Row
  <1>3. /\ cascade \in [Entities -> Row]
        /\ cascade[e].state = "archived"
        /\ cascade[e].by = MarkWritten(request[c].seen, row[e])
        /\ \A x \in Entities \ {e} : cascade[x] = row[x]
    BY <1>2 DEF TypeOK, Row
  <1>4. \A x \in Below(e) : [state |-> "archived", by |-> Parent(x)] \in Row
    BY BelowFacts DEF Row
  <1>5. e \notin Below(e)
    BY BelowFacts
  <1> HIDE DEF cascade
  <1> QED
    BY <1>1, <1>3, <1>4, <1>5 DEF ArchivedBelow

LEMMA ArchiveStates ==
  ASSUME TypeOK, NEW c \in Clients, NEW e \in Entities, Archive(c, e)
  PROVE  \A x \in Entities \ {e} :
           \/ row'[x] = row[x] /\ (x \notin Below(e) \/ row[x].state # "active")
           \/ row'[x].state = "archived" /\ row[x].state = "active"
  <1> TAKE x \in Entities \ {e}
  <1>1. CASE x \in Below(e) /\ row[x].state = "active"
    <2>1. row'[x] = [state |-> "archived", by |-> Parent(x)]
      BY <1>1, ArchiveRows
    <2> QED
      BY <1>1, <2>1
  <1>2. CASE ~(x \in Below(e) /\ row[x].state = "active")
    BY <1>2, ArchiveRows
  <1> QED
    BY <1>1, <1>2

LEMMA RestoreRows ==
  ASSUME TypeOK, NEW c \in Clients, NEW e \in Entities, Restore(c, e)
  PROVE  /\ row' \in [Entities -> Row]
         /\ row'[e].state = "active"
         /\ row'[e].by = MarkWritten(request[c].seen, row[e])
         /\ \A x \in Entities \ {e} :
              \/ row'[x] = row[x] /\ (x \in Children => row[x].by # e)
              \/ row'[x] = Active /\ x \in Below(e) /\ row[x].by # Nobody
                 /\ (Parent(x) = e \/ row'[Parent(x)] = Active)
         /\ \A x, y \in Children : row[x].by = y /\ row'[y] # row[y] /\ y # e => row'[x] = Active
  <1> DEFINE cascade == [row EXCEPT ![e] = [state |-> "active",
                                            by |-> MarkWritten(request[c].seen, row[e])]]
  <1>1. row' = RestoredBelow(cascade, e)
    BY DEF Restore
  <1>2. MarkWritten(request[c].seen, row[e]) \in Companies \union Locations \union {Nobody}
    BY DEF MarkWritten, TypeOK, Row
  <1>3. /\ cascade \in [Entities -> Row]
        /\ cascade[e].state = "active"
        /\ cascade[e].by = MarkWritten(request[c].seen, row[e])
        /\ \A x \in Entities \ {e} : cascade[x] = row[x]
    BY <1>2 DEF TypeOK, Row
  <1> DEFINE R == Revived(cascade, e)
  <1>4. /\ row' \in [Entities -> Row]
        /\ \A x \in Entities : row'[x] = IF x \in R THEN Active ELSE cascade[x]
    BY <1>1, <1>3, RowFacts DEF RestoredBelow
  <1>5. \A x : x \in Marked(cascade, e) <=> x \in Below(e) /\ row[x].by = e
    BY <1>3, BelowFacts DEF Marked
  <1>6. \A x : x \in R <=> \/ x \in Marked(cascade, e)
                           \/ \E l \in Marked(cascade, e) : x \in Marked(cascade, l)
    BY DEF Revived
  <1> HIDE DEF cascade, R
  <1>7. \A l \in Below(e) : \A x : x \in Marked(cascade, l) <=> x \in Below(l) /\ row[x].by = l
    <2> SUFFICES ASSUME NEW l \in Below(e), NEW x
                 PROVE  x \in Marked(cascade, l) <=> x \in Below(l) /\ row[x].by = l
      OBVIOUS
    <2>2. x \in Below(l) => x \in Entities \ {e}
      BY BelowFacts, HierarchyAssumption DEF Below, Entities, Children
    <2> QED
      BY <2>2, <1>3 DEF Marked
  <1>8. \A x \in Entities : row[x].by # Nobody => x \in Children /\ row[x].by = Parent(x)
    BY DEF TypeOK, Entities, Children
  <1>9. \A x \in R : /\ x \in Below(e) /\ row[x].by # Nobody
                     /\ Parent(x) = e \/ Parent(x) \in Marked(cascade, e)
    <2> SUFFICES ASSUME NEW x \in R
                 PROVE  /\ x \in Below(e) /\ row[x].by # Nobody
                        /\ Parent(x) = e \/ Parent(x) \in Marked(cascade, e)
      OBVIOUS
    <2>1. CASE x \in Marked(cascade, e)
      BY <2>1, <1>5, <1>8, BelowFacts, NobodyIsNoEntity
    <2>2. CASE \E l \in Marked(cascade, e) : x \in Marked(cascade, l)
      <3> PICK l \in Marked(cascade, e) : x \in Marked(cascade, l)
        BY <2>2
      <3>1. l \in Below(e) /\ l \in Entities
        BY <1>5, BelowFacts
      <3>2. x \in Below(l) /\ row[x].by = l /\ x \in Children
        BY <3>1, <1>7, BelowFacts
      <3>3. Parent(x) = l
        BY <3>1, <3>2, <1>8, BelowFacts, NobodyIsNoEntity
      <3> QED
        BY <3>1, <3>2, <3>3, BelowFacts, NobodyIsNoEntity
    <2> QED
      BY <2>1, <2>2, <1>6
  <1>10. e \notin R
    <2>1. e \notin Below(e)
      BY BelowFacts
    <2> QED
      BY <2>1, <1>9
  <1>11. ASSUME NEW x \in Entities \ {e}
         PROVE  \/ row'[x] = row[x] /\ (x \in Children => row[x].by # e)
                \/ row'[x] = Active /\ x \in Below(e) /\ row[x].by # Nobody
                   /\ (Parent(x) = e \/ row'[Parent(x)] = Active)
    <2>1. CASE x \in R
      <3>1. row'[x] = Active /\ x \in Below(e) /\ row[x].by # Nobody
        BY <2>1, <1>4, <1>9
      <3>2. ASSUME Parent(x) \in Marked(cascade, e) PROVE row'[Parent(x)] = Active
        BY <3>2, <1>4, <1>5, <1>6, BelowFacts
      <3> QED
        BY <2>1, <3>1, <3>2, <1>9
    <2>2. CASE x \notin R
      <3>1. row'[x] = row[x]
        BY <2>2, <1>3, <1>4
      <3>2. x \in Children /\ row[x].by = e => x \in Marked(cascade, e)
        BY <1>5, <1>8, BelowFacts, NobodyIsNoEntity
      <3> QED
        BY <2>2, <3>1, <3>2, <1>6
    <2> QED
      BY <2>1, <2>2
  <1>12. ASSUME NEW x \in Children, NEW y \in Children,
                row[x].by = y, row'[y] # row[y], y # e
         PROVE  row'[x] = Active
    <2>1. x \in Entities /\ y \in Entities /\ Parent(x) = y
      BY <1>12, <1>8, BelowFacts, NobodyIsNoEntity
    <2>2. y \in Locations /\ y \notin Projects /\ x \in Below(y)
      BY <2>1, BelowFacts DEF Children
    <2>3. y \in R
      BY <1>12, <1>3, <1>4, <2>1
    <2>4. \A l \in Marked(cascade, e) : y \notin Marked(cascade, l)
      BY <1>5, <1>7, <2>2, BelowFacts
    <2>5. y \in Marked(cascade, e)
      BY <2>3, <2>4, <1>6
    <2>6. x \in Marked(cascade, y)
      BY <2>2, <2>5, <1>5, <1>7, <1>12
    <2> QED
      BY <2>1, <2>5, <2>6, <1>4, <1>6
  <1> QED
    BY <1>3, <1>4, <1>10, <1>11, <1>12

LEMMA PurgeRows ==
  ASSUME TypeOK, NEW c \in Clients, NEW e \in Entities, Purge(c, e)
  PROVE  /\ row' \in [Entities -> Row]
         /\ \A x \in Entities :
              /\ x = e \/ x \in Below(e) => row'[x] = Absent
              /\ x # e /\ x \notin Below(e) => row'[x] = row[x]
  BY RowFacts DEF Purge, TypeOK

-----------------------------------------------------------------------------
(* Type correctness and the marks, for any number of requests in flight *)

LEMMA InitMarkInv == Init => MarkInv
  <1> SUFFICES ASSUME Init PROVE MarkInv
    OBVIOUS
  <1>1. /\ row \in [Entities -> Row]
        /\ \A e \in Entities : row[e].by = Nobody
        /\ \A e \in Children : row[e] = Absent
    BY RowFacts, HierarchyAssumption DEF Init, Entities, Children
  <1>2. /\ request \in [Clients -> Request]
        /\ wish \in [Entities -> Wishes]
    BY DEF Init, Request, Wishes
  <1>3. \A c \in Clients : request[c] = NoRequest
    BY DEF Init
  <1>4. TypeOK
    BY <1>1, <1>2 DEF TypeOK
  <1> QED
    BY <1>1, <1>3, <1>4, RowFacts
    DEF MarkInv, ParentExists, AbsentUnmarked, NewIdsAreFresh,
        MarkedParentArchived, NoRequest

LEMMA NextTypeOK ==
  ASSUME TypeOK, [Next]_vars PROVE TypeOK'
  <1> DEFINE Marks(rows) == \A e \in Entities :
               rows[e].by # Nobody => e \notin Companies /\ rows[e].by = Parent(e)
  <1>0. Marks(row)
    BY DEF TypeOK
  <1>1. ASSUME NEW e \in Entities, CreateCompany(e) PROVE TypeOK'
    <2>1. row' \in [Entities -> Row] /\ Marks(row')
      BY <1>0, <1>1, RowFacts DEF TypeOK, CreateCompany
    <2> QED
      BY <1>1, <2>1 DEF TypeOK, CreateCompany
  <1>2. ASSUME NEW c \in Clients, NEW e \in Entities, NEW op \in Operations, LoadEntity(c, op, e)
        PROVE  TypeOK'
    <2>1. row[e] \in Row
      BY DEF TypeOK
    <2>2. [op |-> op, of |-> e, seen |-> row[e]] \in Request
      BY <2>1 DEF Request
    <2> QED
      BY <1>2, <2>2 DEF TypeOK, LoadEntity
  <1>3. ASSUME NEW c \in Clients, NEW e \in Entities, LoadParent(c, e) PROVE TypeOK'
    <2>1. row[Parent(e)] \in Row
      BY <1>3, BelowFacts DEF TypeOK, LoadParent, Entities, Children
    <2>2. [op |-> "create", of |-> e, seen |-> row[Parent(e)]] \in Request
      BY <2>1 DEF Request, Operations
    <2> QED
      BY <1>3, <2>2 DEF TypeOK, LoadParent
  <1>4. ASSUME NEW c \in Clients, NEW e \in Entities, CreateChild(c, e) PROVE TypeOK'
    <2>1. row' \in [Entities -> Row] /\ Marks(row')
      BY <1>0, <1>4, RowFacts DEF TypeOK, CreateChild
    <2> QED
      BY <1>4, <2>1 DEF TypeOK, CreateChild, Answer, Request, Wishes
  <1>5. ASSUME NEW c \in Clients, NEW e \in Entities, Archive(c, e) PROVE TypeOK'
    <2>1. row' \in [Entities -> Row]
      BY <1>5, ArchiveRows
    <2>2. Marks(row')
      <3> SUFFICES ASSUME NEW x \in Entities, row'[x].by # Nobody
                   PROVE  x \notin Companies /\ row'[x].by = Parent(x)
        OBVIOUS
      <3>1. CASE row'[x].by = row[x].by
        BY <1>0, <3>1
      <3>2. CASE row'[x] = [state |-> "archived", by |-> Parent(x)] /\ x \in Below(e)
        BY <3>2, BelowFacts
      <3>3. x = e => row'[x].by = row[x].by
        BY <1>5, ArchiveRows DEF MarkWritten
      <3> QED
        BY <1>5, <3>1, <3>2, <3>3, ArchiveRows
    <2>3. wish' \in [Entities -> Wishes]
      BY <1>5 DEF Archive, TypeOK, Wishes
    <2>4. request' \in [Clients -> Request]
      BY <1>5 DEF Archive, TypeOK, Answer, Request
    <2> QED
      BY <2>1, <2>2, <2>3, <2>4 DEF TypeOK
  <1>6. ASSUME NEW c \in Clients, NEW e \in Entities, Restore(c, e) PROVE TypeOK'
    <2>1. row' \in [Entities -> Row]
      BY <1>6, RestoreRows
    <2>2. Marks(row')
      <3> SUFFICES ASSUME NEW x \in Entities, row'[x].by # Nobody
                   PROVE  x \notin Companies /\ row'[x].by = Parent(x)
        OBVIOUS
      <3>1. row'[x].by = row[x].by
        <4>1. CASE x = e
          BY <1>6, <4>1, RestoreRows DEF MarkWritten
        <4>2. CASE x # e
          <5>1. row'[x] = row[x] \/ row'[x] = Active
            BY <1>6, <4>2, RestoreRows
          <5> QED
            BY <5>1, RowFacts
        <4> QED
          BY <4>1, <4>2
      <3> QED
        BY <1>0, <3>1
    <2>3. wish' \in [Entities -> Wishes]
      BY <1>6 DEF Restore, TypeOK, Wishes
    <2>4. request' \in [Clients -> Request]
      BY <1>6 DEF Restore, TypeOK, Answer, Request
    <2> QED
      BY <2>1, <2>2, <2>3, <2>4 DEF TypeOK
  <1>7. ASSUME NEW c \in Clients, NEW e \in Entities, Purge(c, e) PROVE TypeOK'
    <2>1. row' \in [Entities -> Row] /\ Marks(row')
      BY <1>0, <1>7, PurgeRows, RowFacts
    <2>3. wish' \in [Entities -> Wishes]
      BY <1>7 DEF Purge, TypeOK, Wishes
    <2>4. request' \in [Clients -> Request]
      BY <1>7 DEF Purge, TypeOK, Answer, Request
    <2> QED
      BY <2>1, <2>3, <2>4 DEF TypeOK
  <1>8. ASSUME NEW c \in Clients, Decline(c) PROVE TypeOK'
    BY <1>8 DEF TypeOK, Decline, Answer, Request
  <1>9. CASE UNCHANGED vars
    BY <1>9 DEF TypeOK, vars
  <1> QED
    BY <1>1, <1>2, <1>3, <1>4, <1>5, <1>6, <1>7, <1>8, <1>9 DEF Next, Handle

\* An absent row appears only through an insert of its own.
LEMMA AbsentStays ==
  ASSUME MarkInv, NEW c \in Clients, NEW e \in Entities,
         Archive(c, e) \/ Restore(c, e) \/ Purge(c, e),
         NEW x \in Entities, row[x].state = "absent"
  PROVE  row'[x].state = "absent"
  <1>0. TypeOK /\ AbsentUnmarked
    BY DEF MarkInv
  <1>1. CASE Archive(c, e)
    BY <1>0, <1>1, ArchiveRows DEF Archive
  <1>2. CASE Restore(c, e)
    <2>1. x # e /\ row[x].by = Nobody
      BY <1>0, <1>2 DEF AbsentUnmarked, Restore
    <2> QED
      BY <1>0, <1>2, <2>1, RestoreRows
  <1>3. CASE Purge(c, e)
    BY <1>0, <1>3, PurgeRows, RowFacts
  <1> QED
    BY <1>1, <1>2, <1>3

LEMMA NextNewIdsAreFresh ==
  ASSUME MarkInv, [Next]_vars PROVE NewIdsAreFresh'
  <1>0. TypeOK /\ NewIdsAreFresh
    BY DEF MarkInv
  <1> SUFFICES ASSUME NEW c \in Clients, request'[c].op = "create"
               PROVE  /\ request'[c].of \in Children
                      /\ row'[request'[c].of].state = "absent"
                      /\ \A d \in Clients \ {c} : request'[d].of # request'[c].of
    BY DEF NewIdsAreFresh
  <1>a. request[c].op = "create" =>
          /\ request[c].of \in Children /\ request[c].of \in Entities
          /\ row[request[c].of].state = "absent"
          /\ \A d \in Clients \ {c} : request[d].of # request[c].of
          /\ request[c].of # NoRequest.of
    BY <1>0, NobodyIsNoEntity, ParentFacts DEF NewIdsAreFresh, NoRequest
  <1>1. ASSUME NEW e \in Entities, CreateCompany(e)
        PROVE  /\ request'[c].of \in Children
               /\ row'[request'[c].of].state = "absent"
               /\ \A d \in Clients \ {c} : request'[d].of # request'[c].of
    BY <1>0, <1>1, <1>a DEF CreateCompany, FreshId, TypeOK
  <1>2. ASSUME NEW d \in Clients, NEW e \in Entities, NEW op \in Operations, LoadEntity(d, op, e)
        PROVE  /\ request'[c].of \in Children
               /\ row'[request'[c].of].state = "absent"
               /\ \A x \in Clients \ {c} : request'[x].of # request'[c].of
    <2>1. /\ row' = row /\ row[e].state # "absent" /\ d # c
          /\ request'[d].of = e /\ \A x \in Clients \ {d} : request'[x] = request[x]
      BY <1>0, <1>2 DEF LoadEntity, TypeOK
    <2> QED
      BY <2>1, <1>a
  <1>3. ASSUME NEW d \in Clients, NEW e \in Entities, LoadParent(d, e)
        PROVE  /\ request'[c].of \in Children
               /\ row'[request'[c].of].state = "absent"
               /\ \A x \in Clients \ {c} : request'[x].of # request'[c].of
    <2>1. /\ row' = row /\ row[e].state = "absent" /\ e \in Children
          /\ \A x \in Clients : request[x].of # e
          /\ request'[d].of = e /\ \A x \in Clients \ {d} : request'[x] = request[x]
      BY <1>0, <1>3 DEF LoadParent, FreshId, TypeOK, Entities, Children
    <2>2. CASE d = c
      BY <2>1, <2>2
    <2>3. CASE d # c
      BY <2>1, <2>3, <1>a
    <2> QED
      BY <2>2, <2>3
  <1>4. ASSUME NEW d \in Clients, NEW e \in Entities, Handle(d, e) \/ Decline(d)
        PROVE  /\ request'[c].of \in Children
               /\ row'[request'[c].of].state = "absent"
               /\ \A x \in Clients \ {c} : request'[x].of # request'[c].of
    <2>1. /\ request'[d] = NoRequest /\ d # c
          /\ \A x \in Clients \ {d} : request'[x] = request[x]
      BY <1>0, <1>4
      DEF Handle, CreateChild, Archive, Restore, Purge, Decline, Answer, TypeOK, NoRequest
    <2>2. request'[c] = request[c]
      BY <2>1
    <2>3. row'[request[c].of].state = "absent"
      <3>1. CASE CreateChild(d, e)
        <4>1. e # request[c].of
          BY <1>a, <2>1, <2>2, <3>1 DEF CreateChild, Serving
        <4> QED
          BY <1>0, <1>a, <2>2, <3>1, <4>1 DEF CreateChild, TypeOK
      <3>2. CASE Archive(d, e) \/ Restore(d, e) \/ Purge(d, e)
        BY <1>a, <2>2, <3>2, AbsentStays
      <3>3. CASE Decline(d)
        BY <1>a, <2>2, <3>3 DEF Decline
      <3> QED
        BY <1>4, <3>1, <3>2, <3>3 DEF Handle
    <2> QED
      BY <1>a, <2>1, <2>2, <2>3
  <1>5. CASE UNCHANGED vars
    BY <1>5, <1>a DEF vars
  <1>6. ASSUME NEW d \in Clients, Decline(d) PROVE request[d].of \in Entities
    BY <1>0, <1>6 DEF Decline, TypeOK, Request
  <1> QED
    BY <1>1, <1>2, <1>3, <1>4, <1>5, <1>6 DEF Next

LEMMA NextMarkInv ==
  ASSUME MarkInv, [Next]_vars PROVE MarkInv'
  <1>0. TypeOK /\ ParentExists /\ AbsentUnmarked /\ MarkedParentArchived
    BY DEF MarkInv
  <1>t. TypeOK' /\ NewIdsAreFresh'
    BY <1>0, NextTypeOK, NextNewIdsAreFresh
  <1>m. \A x \in Entities : row[x].by # Nobody =>
          x \in Children /\ row[x].by = Parent(x) /\ row[Parent(x)].state = "archived"
    BY <1>0 DEF TypeOK, MarkedParentArchived, Entities, Children
  \* A new row changes nobody's mark and nobody's parent.
  <1>n. ASSUME NEW e \in Entities, row[e].state = "absent", row' = [row EXCEPT ![e] = Active],
               e \in Children => row[Parent(e)].state # "absent"
        PROVE  MarkInv'
    <2>1. row'[e] = Active /\ \A x \in Entities \ {e} : row'[x] = row[x]
      BY <1>0, <1>n DEF TypeOK
    <2>2. ParentExists'
      BY <1>0, <1>n, <2>1, RowFacts, ParentFacts DEF ParentExists
    <2>3. MarkedParentArchived'
      BY <1>m, <1>n, <2>1, RowFacts, ParentFacts DEF MarkedParentArchived
    <2>4. AbsentUnmarked'
      BY <1>0, <2>1, RowFacts DEF AbsentUnmarked
    <2> QED
      BY <1>t, <2>2, <2>3, <2>4 DEF MarkInv
  <1>u. ASSUME UNCHANGED row PROVE MarkInv'
    BY <1>0, <1>t, <1>u DEF MarkInv, ParentExists, AbsentUnmarked, MarkedParentArchived
  <1>1. ASSUME NEW e \in Entities, CreateCompany(e) PROVE MarkInv'
    BY <1>1, <1>n, BelowFacts DEF CreateCompany, FreshId
  <1>4. ASSUME NEW c \in Clients, NEW e \in Entities, CreateChild(c, e) PROVE MarkInv'
    <2>1. row[e].state = "absent"
      BY <1>4 DEF CreateChild, Serving, MarkInv, NewIdsAreFresh
    <2> QED
      BY <1>4, <2>1, <1>n DEF CreateChild
  <1>5. ASSUME NEW c \in Clients, NEW e \in Entities, Archive(c, e) PROVE MarkInv'
    <2>0. row'[e].state = "archived" /\ row[e].state # "absent"
      BY <1>0, <1>5, ArchiveRows DEF Archive
    <2>a. \A x \in Entities \ {e} :
            \/ row'[x] = row[x]
            \/ row'[x].state = "archived" /\ row[x].state = "active"
      BY <1>0, <1>5, ArchiveStates
    <2>1. \A x \in Entities : row'[x].state = "absent" <=> row[x].state = "absent"
      BY <2>0, <2>a
    <2>2. ParentExists'
      BY <1>0, <2>1, ParentFacts DEF ParentExists
    <2>b. AbsentUnmarked'
      BY <1>0, <2>0, <2>a DEF AbsentUnmarked
    <2>3. \A x \in Entities : row[x].state = "archived" => row'[x].state = "archived"
      BY <1>0, <1>5, ArchiveRows
    <2>4. ASSUME NEW x \in Entities, row'[x].by # Nobody
          PROVE  row'[row'[x].by].state = "archived"
      <3>1. CASE row'[x].by = row[x].by
        BY <1>m, <2>3, <2>4, <3>1, ParentFacts
      <3>2. CASE /\ x \in Below(e) /\ row[x].state = "active"
                 /\ row'[x] = [state |-> "archived", by |-> Parent(x)]
        <4>1. x \in Children /\ Parent(x) \in Entities /\ row'[x].by = Parent(x)
          BY <3>2, BelowFacts, ParentFacts
        <4>2. row[Parent(x)].state # "absent" /\ row[Parent(x)] \in Row
          BY <1>0, <3>2, <4>1 DEF ParentExists, TypeOK
        <4>3. Parent(x) = e \/ Parent(x) \in Below(e)
          BY <3>2, BelowFacts
        <4>4. CASE Parent(x) = e
          BY <1>0, <1>5, <4>1, <4>4, ArchiveRows
        <4>5. CASE Parent(x) # e /\ row[Parent(x)].state = "active"
          <5>1. Parent(x) \in Below(e)
            BY <4>3, <4>5
          <5>2. row'[Parent(x)] = [state |-> "archived", by |-> Parent(Parent(x))]
            BY <1>0, <1>5, <4>1, <4>5, <5>1, ArchiveRows
          <5> QED
            BY <4>1, <5>2
        <4>6. CASE row[Parent(x)].state = "archived"
          BY <2>3, <4>1, <4>6
        <4> QED
          BY <4>2, <4>4, <4>5, <4>6, RowFacts
      <3>3. x = e => row'[x].by = row[x].by
        BY <1>0, <1>5, <2>4, ArchiveRows DEF MarkWritten
      <3> QED
        BY <1>0, <1>5, <3>1, <3>2, <3>3, ArchiveRows
    <2> QED
      BY <1>t, <2>2, <2>b, <2>4 DEF MarkInv, MarkedParentArchived
  <1>6. ASSUME NEW c \in Clients, NEW e \in Entities, Restore(c, e) PROVE MarkInv'
    <2>0. /\ row'[e].state = "active"
          /\ row'[e].by # Nobody => row'[e].by = row[e].by
          /\ row[e].state # "absent"
      BY <1>0, <1>6, RestoreRows DEF MarkWritten, Restore
    <2>1. \A x \in Entities \ {e} :
            \/ row'[x] = row[x] /\ (x \in Children => row[x].by # e)
            \/ row'[x] = Active /\ x \in Below(e) /\ row[x].by # Nobody
               /\ (Parent(x) = e \/ row'[Parent(x)] = Active)
      BY <1>0, <1>6, RestoreRows
    <2>2. \A x, y \in Children :
            row[x].by = y /\ row'[y] # row[y] /\ y # e => row'[x] = Active
      BY <1>0, <1>6, RestoreRows
    <2>3. ParentExists'
      <3> SUFFICES ASSUME NEW x \in Children, row'[x].state # "absent"
                   PROVE  row'[Parent(x)].state # "absent"
        BY DEF ParentExists
      <3>1. Parent(x) \in Entities
        BY ParentFacts
      <3>2. row[x].state # "absent" => row[Parent(x)].state # "absent"
        BY <1>0 DEF ParentExists
      <3>3. row[Parent(x)].state # "absent" => row'[Parent(x)].state # "absent"
        BY <2>0, <2>1, <3>1, RowFacts
      <3>4. CASE x = e \/ row'[x] = row[x]
        BY <2>0, <3>2, <3>3, <3>4
      <3>5. CASE x # e /\ row'[x] = Active /\ (Parent(x) = e \/ row'[Parent(x)] = Active)
        BY <2>0, <3>5, RowFacts
      <3> QED
        BY <2>1, <3>4, <3>5, BelowFacts
    <2>b. AbsentUnmarked'
      BY <1>0, <2>0, <2>1, RowFacts DEF AbsentUnmarked
    <2>4. ASSUME NEW x \in Entities, row'[x].by # Nobody
          PROVE  row'[row'[x].by].state = "archived"
      <3>1. row'[x].by = row[x].by /\ (x # e => row'[x] = row[x] /\ row[x].by # e)
        BY <2>0, <2>1, <2>4, <1>m, RowFacts
      <3>2. /\ x \in Children /\ row[x].by = Parent(x)
            /\ Parent(x) \in Entities /\ row[Parent(x)].state = "archived"
        BY <1>m, <2>4, <3>1, ParentFacts
      <3>3. Parent(x) # e
        BY <3>1, <3>2, BelowFacts
      <3>4. row'[Parent(x)] = row[Parent(x)]
        <4> SUFFICES ASSUME row'[Parent(x)] # row[Parent(x)] PROVE FALSE
          OBVIOUS
        <4>1. Parent(x) \in Children /\ Parent(x) \in Below(e)
          BY <2>1, <3>2, <3>3, BelowFacts
        <4>2. row'[x] = Active
          BY <2>2, <3>2, <3>3, <4>1
        <4> QED
          BY <2>4, <4>2, RowFacts
      <3> QED
        BY <3>1, <3>2, <3>4
    <2> QED
      BY <1>t, <2>3, <2>b, <2>4 DEF MarkInv, MarkedParentArchived
  <1>7. ASSUME NEW c \in Clients, NEW e \in Entities, Purge(c, e) PROVE MarkInv'
    <2>1. \A x \in Entities :
            /\ x = e \/ x \in Below(e) => row'[x] = Absent
            /\ x # e /\ x \notin Below(e) => row'[x] = row[x]
      BY <1>0, <1>7, PurgeRows
    <2>2. \A x \in Children : x # e /\ x \notin Below(e) =>
            Parent(x) \in Entities /\ Parent(x) # e /\ Parent(x) \notin Below(e)
      BY BelowFacts, ParentFacts
    <2>3. ParentExists'
      BY <1>0, <2>1, <2>2, RowFacts, ParentFacts DEF ParentExists
    <2>4. MarkedParentArchived'
      BY <1>m, <2>1, <2>2, RowFacts DEF MarkedParentArchived
    <2>5. AbsentUnmarked'
      BY <1>0, <2>1, RowFacts DEF AbsentUnmarked
    <2> QED
      BY <1>t, <2>3, <2>4, <2>5 DEF MarkInv
  <1> QED
    BY <1>u, <1>1, <1>4, <1>5, <1>6, <1>7
    DEF Next, Handle, LoadEntity, LoadParent, Decline, vars

\* Rows, requests and wishes keep their shape, and a row is only ever marked with
\* its own parent, for any hierarchy and any number of concurrent requests.
THEOREM TypeCorrect == Spec => []TypeOK
  <1>1. MarkInv => TypeOK
    BY DEF MarkInv
  <1> QED
    BY <1>1, InitMarkInv, NextMarkInv, PTL DEF Spec

\* However requests interleave, nothing stays put away under a parent that is
\* back: _restore_company and _restore_location find every row they marked.
THEOREM NoneLeftBehind == Spec => []MarkedParentArchived
  <1>1. MarkInv => MarkedParentArchived
    BY DEF MarkInv
  <1> QED
    BY <1>1, InitMarkInv, NextMarkInv, PTL DEF Spec

\* What a restore right after an archive does to one row: the row below e that the
\* archive put away is found again, any other one is left alone.
LEMMA ArchiveThenRestore ==
  ASSUME MarkInv, NEW e \in Entities, row[e].state = "active",
         \A p \in Projects \intersect Below(e) :
           row[p].state = "active" => row[LocationOf[p]].state = "active",
         NEW x \in Entities
  PROVE  ArchivedAndRestored(e)[x].state = row[x].state
  <1> DEFINE start == [row EXCEPT ![e].state = "archived"]
             archived == ArchivedBelow(start, e)
             rows == [archived EXCEPT ![e] = Active]
             Put(y) == y \in Below(e) /\ row[y].state = "active"
  <1>1. start \in [Entities -> Row] /\ \A y \in Entities \ {e} : start[y] = row[y]
    BY DEF MarkInv, TypeOK, Row
  <1>2. e \notin Below(e) /\ Below(e) \subseteq Entities \ {e}
    BY BelowFacts
  <1>3. \A y \in Entities \ {e} :
          archived[y] = IF Put(y) THEN [state |-> "archived", by |-> Parent(y)] ELSE row[y]
    BY <1>1 DEF ArchivedBelow
  <1>4. DOMAIN archived = Entities
    BY DEF ArchivedBelow
  <1> HIDE DEF start, archived
  <1>5. /\ rows[e] = Active
        /\ \A y \in Entities \ {e} :
             rows[y] = IF Put(y) THEN [state |-> "archived", by |-> Parent(y)] ELSE row[y]
    BY <1>3, <1>4
  <1>6. ArchivedAndRestored(e) = RestoredBelow(rows, e)
    BY DEF ArchivedAndRestored, rows, archived, start
  <1> HIDE DEF rows
  <1>7. \A y \in Entities : row[y].by # Nobody =>
          y \in Children /\ row[y].by = Parent(y) /\ row[Parent(y)].state = "archived"
    BY DEF MarkInv, TypeOK, MarkedParentArchived, Entities, Children
  \* A mark of an active parent is one that this archive has made.
  <1>8. ASSUME NEW l \in Entities, row[l].state = "active", NEW y \in Entities \ {e}
        PROVE  rows[y].by = l <=> Put(y) /\ Parent(y) = l
    <2>1. CASE Put(y)
      <3>1. rows[y] = [state |-> "archived", by |-> Parent(y)]
        BY <2>1, <1>5
      <3>2. rows[y].by = Parent(y)
        BY <3>1
      <3> QED
        BY <2>1, <3>2
    <2>2. CASE ~Put(y)
      <3>1. rows[y] = row[y]
        BY <2>2, <1>5
      <3>2. row[y].by # l
        BY <1>7, <1>8, NobodyIsNoEntity
      <3> QED
        BY <2>2, <3>1, <3>2
    <2> QED
      BY <2>1, <2>2
  <1>9. \A y : y \in Marked(rows, e) <=> Put(y) /\ Parent(y) = e
    BY <1>2, <1>8 DEF Marked
  <1>10. ASSUME NEW l \in Marked(rows, e), NEW y
         PROVE  y \in Marked(rows, l) <=> y \in Below(l) /\ Put(y) /\ Parent(y) = l
    <2>1. l \in Entities /\ row[l].state = "active" /\ l \in Below(e)
      BY <1>2, <1>9
    <2>2. y \in Below(l) => y \in Entities \ {e}
      BY <2>1, BelowFacts, HierarchyAssumption DEF Below, Entities, Children
    <2> QED
      BY <2>1, <2>2, <1>8 DEF Marked
  <1>11. x \in Revived(rows, e) => Put(x)
    BY <1>9, <1>10 DEF Revived
  <1>12. Put(x) => x \in Revived(rows, e)
    <2> SUFFICES ASSUME Put(x) PROVE x \in Revived(rows, e)
      OBVIOUS
    <2>1. CASE Parent(x) = e
      BY <2>1, <1>9 DEF Revived
    <2>2. CASE Parent(x) # e
      <3>1. Parent(x) \in Below(e)
        BY <2>2, BelowFacts
      <3>2. x \in Projects /\ Parent(x) = LocationOf[x]
        <4>1. Parent(x) \notin Companies /\ x \in Children
          BY <3>1, BelowFacts
        <4>2. x \notin Locations
          BY <4>1, HierarchyAssumption DEF Parent
        <4> QED
          BY <4>1, <4>2 DEF Parent, Children
      <3>3. row[Parent(x)].state = "active"
        BY <3>2
      <3>4. Parent(Parent(x)) = e
        <4>1. Parent(x) \in Locations
          BY <3>2, HierarchyAssumption
        <4>2. Parent(Parent(x)) \notin Below(e)
          BY <4>1, HierarchyAssumption, BelowFacts DEF Parent, Children
        <4> QED
          BY <3>1, <4>2, BelowFacts
      <3>5. Parent(x) \in Marked(rows, e)
        BY <3>1, <3>3, <3>4, <1>9
      <3>6. x \in Below(Parent(x)) /\ Parent(x) \in Entities
        BY <3>1, <3>2, BelowFacts DEF Children
      <3>7. x \in Marked(rows, Parent(x))
        BY <3>5, <3>6, <1>10
      <3> QED
        BY <3>5, <3>7 DEF Revived
    <2> QED
      BY <2>1, <2>2
  <1>13. ArchivedAndRestored(e)[x] = IF Put(x) THEN Active ELSE rows[x]
    BY <1>6, <1>11, <1>12 DEF RestoredBelow
  <1>14. CASE x = e
    BY <1>5, <1>13, <1>14, RowFacts
  <1>15. CASE x # e /\ Put(x)
    BY <1>13, <1>15, RowFacts
  <1>16. CASE x # e /\ ~Put(x)
    BY <1>5, <1>13, <1>16
  <1> QED
    BY <1>14, <1>15, <1>16

\* However requests have interleaved before, archiving an active row and restoring
\* it gives back every row below: _restore_company finds what _archive_company put
\* away, and nothing else.
THEOREM ArchiveIsUndone == Spec => []RestoreUndoesArchive
  <1>1. MarkInv => RestoreUndoesArchive
    BY ArchiveThenRestore DEF RestoreUndoesArchive
  <1> QED
    BY <1>1, InitMarkInv, NextMarkInv, PTL DEF Spec

-----------------------------------------------------------------------------
(* One request at a time: the copy a handler holds is the row. *)

LEMMA InitAloneInv == Init => AloneInv
  <1> SUFFICES ASSUME Init PROVE AloneInv
    OBVIOUS
  <1>1. SeenIsCurrent /\ ByHandUnmarked
    BY DEF Init, SeenIsCurrent, ByHandUnmarked, NoRequest
  <1>2. \A e \in Entities \ Companies : row[e] = Absent
    BY DEF Init
  <1> QED
    BY <1>1, <1>2, InitMarkInv, RowFacts DEF AloneInv, ActiveUnderArchived

LEMMA NextSeenIsCurrent ==
  ASSUME SoleClient, AloneInv, [Next]_vars PROVE SeenIsCurrent'
  <1>0. TypeOK /\ NewIdsAreFresh /\ SeenIsCurrent
    BY DEF AloneInv, MarkInv
  <1> SUFFICES ASSUME NEW c \in Clients PROVE SeenIsCurrent'
    BY DEF SeenIsCurrent
  <1>c. \A d \in Clients : d = c
    BY DEF SoleClient
  <1>1. ASSUME NEW e \in Entities, CreateCompany(e) PROVE SeenIsCurrent'
    <2>1. \A x \in Entities : x # e => row'[x] = row[x]
      BY <1>0, <1>1 DEF CreateCompany, TypeOK
    <2>2. request' = request /\ \A d \in Clients : request[d].of # e /\ request[d].of \notin Below(e)
      BY <1>1 DEF CreateCompany, FreshId
    <2>3. \A d \in Clients : request[d].op # "none" => request[d].of \in Entities
      BY <1>0 DEF TypeOK, Request, NoRequest
    <2>4. \A d \in Clients : request[d].of \in Children =>
            Parent(request[d].of) \in Entities /\ Parent(request[d].of) # e
      BY <2>2, BelowFacts, ParentFacts
    <2> QED
      BY <1>0, <2>1, <2>2, <2>3, <2>4 DEF SeenIsCurrent
  <1>2. ASSUME NEW e \in Entities, NEW op \in Operations, LoadEntity(c, op, e) PROVE SeenIsCurrent'
    BY <1>0, <1>2, <1>c DEF LoadEntity, SeenIsCurrent, TypeOK
  <1>3. ASSUME NEW e \in Entities, LoadParent(c, e) PROVE SeenIsCurrent'
    BY <1>0, <1>3, <1>c DEF LoadParent, FreshId, SeenIsCurrent, TypeOK, Entities, Children
  <1>4. ASSUME NEW e \in Entities, Handle(c, e) \/ Decline(c) PROVE SeenIsCurrent'
    <2>1. request'[c] = NoRequest
      BY <1>0, <1>4
      DEF Handle, CreateChild, Archive, Restore, Purge, Decline, Answer, TypeOK
    <2> QED
      BY <2>1, <1>c DEF SeenIsCurrent, NoRequest
  <1>5. CASE UNCHANGED vars
    BY <1>0, <1>5 DEF vars, SeenIsCurrent
  <1>6. ASSUME Decline(c) PROVE request[c].of \in Entities
    BY <1>0, <1>6 DEF Decline, TypeOK, Request
  <1> QED
    BY <1>c, <1>1, <1>2, <1>3, <1>4, <1>5, <1>6 DEF Next

LEMMA NextAloneInv ==
  ASSUME SoleClient, AloneInv, [Next]_vars PROVE AloneInv'
  <1>0. /\ TypeOK /\ ParentExists /\ AbsentUnmarked /\ NewIdsAreFresh /\ MarkedParentArchived
        /\ SeenIsCurrent /\ ByHandUnmarked /\ ActiveUnderArchived
    BY DEF AloneInv, MarkInv
  <1>t. MarkInv' /\ SeenIsCurrent'
    BY NextMarkInv, NextSeenIsCurrent DEF AloneInv
  <1>n. Entities \ Companies = Children
    BY HierarchyAssumption DEF Entities, Children
  <1>u. ASSUME UNCHANGED <<row, wish>>
        PROVE  AloneInv'
    BY <1>0, <1>t, <1>u DEF AloneInv, ByHandUnmarked, ActiveUnderArchived
  <1>c. ASSUME NEW e \in Entities, row[e].state = "absent", row' = [row EXCEPT ![e] = Active],
               wish' = [wish EXCEPT ![e] = "none"] \/ (wish' = wish /\ e \in Companies),
               e \in Children => row[Parent(e)].state = "active"
        PROVE  AloneInv'
    <2>1. row'[e] = Active /\ \A x \in Entities \ {e} : row'[x] = row[x]
      BY <1>0, <1>c DEF TypeOK
    <2>2. wish'[e] # "archived" /\ \A x \in Entities \ {e} : wish'[x] = wish[x]
      BY <1>0, <1>c DEF TypeOK, ByHandUnmarked
    <2>3. ByHandUnmarked'
      BY <1>0, <1>c, <2>1, <2>2 DEF ByHandUnmarked
    <2>4. ActiveUnderArchived'
      <3> SUFFICES ASSUME NEW x \in Children, row'[x].state = "active",
                          row'[Parent(x)].state = "archived"
                   PROVE  wish'[x] = "restored"
        BY <1>n DEF ActiveUnderArchived
      <3>1. Parent(x) # e /\ row'[Parent(x)] = row[Parent(x)]
        BY <2>1, RowFacts, ParentFacts
      <3>2. x # e
        BY <1>c, <3>1
      <3> QED
        BY <1>0, <1>n, <2>1, <2>2, <3>1, <3>2, ParentFacts DEF ActiveUnderArchived
    <2> QED
      BY <1>t, <2>3, <2>4 DEF AloneInv
  <1>1. ASSUME NEW e \in Entities, CreateCompany(e) PROVE AloneInv'
    BY <1>1, <1>c, BelowFacts DEF CreateCompany, FreshId
  <1>4. ASSUME NEW c \in Clients, NEW e \in Entities, CreateChild(c, e) PROVE AloneInv'
    <2>1. row[e].state = "absent" /\ row[Parent(e)].state = "active"
      BY <1>0, <1>4 DEF CreateChild, Serving, SeenIsCurrent
    <2> QED
      BY <1>4, <2>1, <1>c DEF CreateChild
  <1>5. ASSUME NEW c \in Clients, NEW e \in Entities, Archive(c, e) PROVE AloneInv'
    <2>0. row[e].state = "active" /\ request[c].seen = row[e]
      BY <1>0, <1>5 DEF Archive, Serving, SeenIsCurrent
    <2>1. row'[e].state = "archived" /\ row'[e].by = Nobody
      BY <1>0, <1>5, <2>0, ArchiveRows DEF MarkWritten
    <2>2. \A x \in Entities \ {e} :
            \/ row'[x] = row[x] /\ (x \notin Below(e) \/ row[x].state # "active")
            \/ row'[x].state = "archived" /\ row[x].state = "active"
      BY <1>0, <1>5, ArchiveStates
    <2>3. \A x \in Entities \ {e} : wish'[x] = IF row'[x] # row[x] THEN "none" ELSE wish[x]
      BY <1>5 DEF Archive
    <2>4. ByHandUnmarked'
      BY <1>0, <2>1, <2>2, <2>3 DEF ByHandUnmarked
    <2>5. ActiveUnderArchived'
      <3> SUFFICES ASSUME NEW x \in Children, row'[x].state = "active",
                          row'[Parent(x)].state = "archived"
                   PROVE  wish'[x] = "restored"
        BY <1>n DEF ActiveUnderArchived
      <3>1. x \in Entities \ {e} /\ row'[x] = row[x] /\ x \notin Below(e)
        BY <2>1, <2>2, ParentFacts
      <3>2. Parent(x) \in Entities \ {e} /\ Parent(x) \notin Below(e)
        BY <3>1, BelowFacts, ParentFacts
      <3>3. row'[Parent(x)] = row[Parent(x)]
        BY <1>0, <1>5, <3>2, ArchiveRows
      <3> QED
        BY <1>0, <1>n, <2>3, <3>1, <3>3 DEF ActiveUnderArchived
    <2> QED
      BY <1>t, <2>4, <2>5 DEF AloneInv
  <1>6. ASSUME NEW c \in Clients, NEW e \in Entities, Restore(c, e) PROVE AloneInv'
    <2>1. row'[e].state = "active"
      BY <1>0, <1>6, RestoreRows
    <2>2. \A x \in Entities \ {e} :
            \/ row'[x] = row[x]
            \/ row'[x] = Active /\ x \in Below(e) /\ row[x].by # Nobody
               /\ (Parent(x) = e \/ row'[Parent(x)] = Active)
      BY <1>0, <1>6, RestoreRows
    <2>3. wish'[e] = "restored" /\ \A x \in Entities \ {e} : wish'[x] = wish[x]
      BY <1>0, <1>6 DEF Restore, TypeOK
    <2>4. ByHandUnmarked'
      BY <1>0, <2>2, <2>3 DEF ByHandUnmarked
    <2>5. ActiveUnderArchived'
      <3> SUFFICES ASSUME NEW x \in Children, row'[x].state = "active",
                          row'[Parent(x)].state = "archived", x # e
                   PROVE  wish'[x] = "restored"
        BY <1>n, <2>3 DEF ActiveUnderArchived
      <3>1. Parent(x) \in Entities \ {e} /\ row'[Parent(x)] # Active
        BY <2>1, RowFacts, ParentFacts
      <3>2. row'[Parent(x)] = row[Parent(x)]
        BY <2>2, <3>1
      <3>3. row'[x] = row[x]
        BY <2>2, <3>1, ParentFacts
      <3> QED
        BY <1>0, <1>n, <2>3, <3>2, <3>3, ParentFacts DEF ActiveUnderArchived
    <2> QED
      BY <1>t, <2>4, <2>5 DEF AloneInv
  <1>7. ASSUME NEW c \in Clients, NEW e \in Entities, Purge(c, e) PROVE AloneInv'
    <2>1. \A x \in Entities :
            /\ x = e \/ x \in Below(e) => row'[x] = Absent /\ wish'[x] = "none"
            /\ x # e /\ x \notin Below(e) => row'[x] = row[x] /\ wish'[x] = wish[x]
      BY <1>0, <1>7, PurgeRows DEF Purge
    <2>2. ByHandUnmarked'
      BY <1>0, <2>1 DEF ByHandUnmarked
    <2>3. ActiveUnderArchived'
      BY <1>0, <1>n, <2>1, RowFacts, ParentFacts DEF ActiveUnderArchived
    <2> QED
      BY <1>t, <2>2, <2>3 DEF AloneInv
  <1> QED
    BY <1>u, <1>1, <1>4, <1>5, <1>6, <1>7
    DEF Next, Handle, LoadEntity, LoadParent, Decline, vars

\* With one request at a time, what a user archived by name outlives every
\* restore of a parent.
THEOREM ByHandStays == ASSUME SoleClient PROVE Spec => []ArchivedByHandStays
  <1>1. AloneInv => ArchivedByHandStays
    BY DEF AloneInv, ByHandUnmarked, ArchivedByHandStays
  <1> QED
    BY <1>1, InitAloneInv, NextAloneInv, PTL DEF Spec

\* With one request at a time, only a restore by name makes a row active under an
\* archived parent.
THEOREM NothingHidden == ASSUME SoleClient PROVE Spec => []ActiveUnderArchived
  <1>1. AloneInv => ActiveUnderArchived
    BY DEF AloneInv
  <1> QED
    BY <1>1, InitAloneInv, NextAloneInv, PTL DEF Spec

\* With one request at a time, a purge only removes what is archived, itself or
\* with something above it.
THEOREM PurgeIsSafe == ASSUME SoleClient PROVE Spec => PurgedWasArchived
  <1> DEFINE Gone == \A e \in Entities :
               row[e].state # "absent" /\ row'[e].state = "absent" =>
                 \E x \in Entities : (x = e \/ e \in Below(x)) /\ row[x].state = "archived"
  <1>1. ASSUME SoleClient, AloneInv, [Next]_vars PROVE Gone \/ UNCHANGED vars
    <2>0. TypeOK /\ NewIdsAreFresh /\ SeenIsCurrent
      BY <1>1 DEF AloneInv, MarkInv
    <2>1. ASSUME NEW e \in Entities, row' = [row EXCEPT ![e] = Active] PROVE Gone
      BY <2>0, <2>1, RowFacts DEF TypeOK
    <2>2. ASSUME NEW c \in Clients, NEW e \in Entities, Archive(c, e) PROVE Gone
      BY <2>0, <2>2, ArchiveRows, ArchiveStates
    <2>3. ASSUME NEW c \in Clients, NEW e \in Entities, Restore(c, e) PROVE Gone
      BY <2>0, <2>3, RestoreRows, RowFacts
    <2>4. ASSUME NEW c \in Clients, NEW e \in Entities, Purge(c, e) PROVE Gone
      <3>1. row[e].state = "archived"
        BY <2>0, <2>4 DEF Purge, Serving, SeenIsCurrent
      <3> QED
        BY <2>0, <2>4, <3>1, PurgeRows
    <2>5. ASSUME UNCHANGED row PROVE Gone
      BY <2>5
    <2> QED
      BY <1>1, <2>1, <2>2, <2>3, <2>4, <2>5
      DEF Next, Handle, CreateCompany, CreateChild, LoadEntity, LoadParent, Decline, vars
  <1> QED
    BY <1>1, InitAloneInv, NextAloneInv, PTL DEF Spec, PurgedWasArchived

=============================================================================
