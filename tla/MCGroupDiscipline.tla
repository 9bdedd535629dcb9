--------------------------- MODULE MCGroupDiscipline ---------------------------
(***************************************************************************)
(* Instances of GroupDiscipline for TLC.  numGroups has no bound of its    *)
(* own: a group can be closed, and recovered, any number of times.         *)
(***************************************************************************)
EXTENDS GroupDiscipline, TLC

CONSTANTS g, g1, h,    \* group names; "g" is a prefix of "g1"
          Extra        \* how far numGroups may drift outside 0 .. MAX_GROUPS

PrefixPairs ==
    {<<n, n>> : n \in Names} \cup ({<<g, g1>>} \cap (Names \X Names))

NumGroupsBound == numGroups \in -Extra .. MAX_GROUPS + Extra

Symmetry == Permutations(Senders)
=============================================================================
