------------------------- MODULE MCArchiveCascade -------------------------
(* A company with two locations, one of them with two projects. *)
EXTENDS ArchiveCascade, TLC

CONSTANTS c1, l1, l2, p1, p2, p3

MCCompanyOf == l1 :> c1 @@ l2 :> c1
MCLocationOf == p1 :> l1 @@ p2 :> l1 @@ p3 :> l2
OneLocation == l1 :> c1
OneProject == p1 :> l1
\* p1 and p2 are alike.
AlikeProjects == Permutations({p1, p2})
===========================================================================
