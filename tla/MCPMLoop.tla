------------------------------ MODULE MCPMLoop ------------------------------
(***************************************************************************)
(* Instance of PMLoop for TLC.                                             *)
(***************************************************************************)
EXTENDS PMLoop
=============================================================================
