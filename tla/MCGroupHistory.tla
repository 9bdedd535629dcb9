---------------------------- MODULE MCGroupHistory ----------------------------
(***************************************************************************)
(* Instances of GroupHistory for TLC.                                      *)
(***************************************************************************)
EXTENDS GroupHistory, TLC

CONSTANTS g, g1, h, Extra

PrefixPairs ==
    {<<n, n>> : n \in Names} \cup ({<<g, g1>>} \cap (Names \X Names))
SentTexts == 1 .. MaxSends

NumGroupsBound == numGroups \in -Extra .. MAX_GROUPS + Extra

Symmetry == Permutations(Receivers)
=============================================================================
