-------------------------------- MODULE MCList --------------------------------
(***************************************************************************)
(* List for TLC: nodes are interchangeable.                                *)
(***************************************************************************)
EXTENDS List, TLC

Symmetry == Permutations(Nodes)
=============================================================================
