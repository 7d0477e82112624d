--------------------------- MODULE ProjectFiles ---------------------------
(***************************************************************************)
(* The files of one project: the ingestion works on them, and suggestions  *)
(* and notes of the intake panel come from them.                           *)
(***************************************************************************)
CONSTANT Files   \* identities of files, uploaded or yet to be

ASSUME FilesAssumption == Files \intersect {"none", "notes"} = {}
=============================================================================
