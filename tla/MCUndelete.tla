------------------------------ MODULE MCUndelete ------------------------------
(***************************************************************************)
(* Instances of Undelete for TLC.                                          *)
(***************************************************************************)
EXTENDS Undelete, TLC

CONSTANTS d1, d12    \* directories; the number of d1 begins that of d12

PrefixPairs == {<<d, d>> : d \in Dirs} \cup ({<<d1, d12>>} \cap (Dirs \X Dirs))

Symmetry == Permutations(Files) \cup Permutations(Users)
=============================================================================
