---------------------------- MODULE MCMfsTruncate ----------------------------
(***************************************************************************)
(* Instance of MfsTruncate for TLC.                                        *)
(***************************************************************************)
EXTENDS MfsTruncate
=============================================================================
