---------------------------- MODULE MCGroupClients ----------------------------
(***************************************************************************)
(* Instances of GroupClients for TLC.                                      *)
(***************************************************************************)
EXTENDS GroupClients

CONSTANTS g

PrefixPairs == {<<g, g>>}
=============================================================================
