----------------------------- MODULE MCVfsLocks -----------------------------
(***************************************************************************)
(* Instance of VfsLocks for TLC.                                           *)
(***************************************************************************)
EXTENDS VfsLocks, TLC

CONSTANTS d1, d2, e, f, vol1, vol2

\* Two directories and a file on one volume, a directory on another.
Mounts == (d1 :> vol1) @@ (d2 :> vol1) @@ (e :> vol2) @@ (f :> vol1)
=============================================================================
