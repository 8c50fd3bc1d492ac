-------------------------- MODULE MCLakeObjectStore --------------------------
(***************************************************************************)
(* Small instances of LakeObjectStore for TLC.                             *)
(***************************************************************************)
EXTENDS LakeObjectStore

\* The condition of a promotion: the object is of an older generation.
Newer(w, before, now) == w > now
=============================================================================
